-------------------------- MODULE AgentTurn_proofs --------------------------
(***************************************************************************)
(* Theorems about the turn engine of AgentTurn, for every set of calls,    *)
(* every cap on rounds and every bound.                                    *)
(***************************************************************************)
EXTENDS AgentTurn, FiniteSetTheorems, SequenceTheorems, TLAPS

(* The gate the loop uses is the gate of the strictest class anyone        *)
(* assigns to the call. (classify, then escalate.)                         *)
LEMMA LoopDecisionIsStrictest ==
    ASSUME NEW call \in Call, NEW i \in BOOLEAN
    PROVE  LoopDecision(call, i) =
               [op_class |-> StrictestClass(call),
                gate     |-> GateFor(StrictestClass(call), i)]
<1> DEFINE worst == WorstFragment(call.fragments)
<1>1. call.fragments \subseteq OpClass /\ call.declared \in OpClass
      /\ call.fragments # {}
  BY DEF Call, Fragments
<1>2. worst \in OpClass
  BY DEF WorstFragment, OpClass
<1>3. LoopDecision(call, i) =
        IF Severity(call.declared) <= Severity(worst)
        THEN [op_class |-> worst, gate |-> GateFor(worst, i)]
        ELSE [op_class |-> call.declared, gate |-> GateFor(call.declared, i)]
  BY DEF LoopDecision, escalate, classify
<1>4. StrictestClass(call) =
        IF Severity(call.declared) <= Severity(worst) THEN worst ELSE call.declared
  BY <1>1 DEF StrictestClass, WorstFragment, Severity, OpClass
<1>5. QED
  BY <1>3, <1>4

(* Consent that clears a gate is enough for the class behind the gate, and *)
(* only a person gives it.                                                 *)
LEMMA ClearedIsSufficient ==
    ASSUME NEW class \in OpClass, NEW i \in BOOLEAN, NEW answer \in Answer,
           Clears(GateFor(class, i), answer)
    PROVE  answer \in Consent /\ Sufficient(answer, class) /\ i
BY DEF Clears, GateFor, Sufficient, OpClass, Answer, Consent

LEMMA AllowedIsRead ==
    ASSUME NEW class \in OpClass, NEW i \in BOOLEAN
    PROVE  /\ GateFor(class, i) = "allow" => class = "read"
           /\ GateFor(class, i) \in {"confirm", "confirm_typed"} => i
BY DEF GateFor, OpClass

-----------------------------------------------------------------------------
(* Type correctness. It needs CallInProgress: what the program reads off   *)
(* the head of a sequence is there.                                        *)

TypeInv == TypeOK /\ CallInProgress

(* The part of the types that is about Boolean variables.                  *)
FlagsOK ==
    /\ wants \in BOOLEAN /\ nocallReasked \in BOOLEAN
    /\ emptyReasked \in BOOLEAN /\ outputShown \in BOOLEAN
    /\ ended \in BOOLEAN

LEMMA BoundsAreNaturals ==
    MaxRounds \in Nat /\ Batch \in Nat /\ MaxTurns \in Nat /\ MaxFaults \in Nat
BY RoundsAssumption, BoundsAssumption DEF RoundsAssumption, BoundsAssumption

(* The elements of a sequence with one more at its end.                    *)
LEMMA AppendedElements ==
    ASSUME NEW S, NEW seq \in Seq(S), NEW e \in S
    PROVE  /\ Append(seq, e) \in Seq(S)
           /\ Len(Append(seq, e)) = Len(seq) + 1
           /\ DOMAIN Append(seq, e) = DOMAIN seq \union {Len(seq) + 1}
           /\ Len(seq) + 1 \notin DOMAIN seq
           /\ Append(seq, e)[Len(seq) + 1] = e
           /\ \A n \in DOMAIN seq : Append(seq, e)[n] = seq[n]
OBVIOUS

LEMMA InitTypeInv == Init => TypeInv
<1> SUFFICES ASSUME Init PROVE TypeInv
  OBVIOUS
<1> USE BoundsAreNaturals
<1>1. TypeOK
  <2>1. pending \in Seq(Calls) /\ ran \in Seq(Executed) /\ audit \in Seq(AuditRecord)
    BY DEF Init
  <2>2. Len(ran) = 0 /\ opBase \in 0..Len(ran) /\ remembered \subseteq 1..Len(ran)
    BY DEF Init
  <2>3. FlagsOK
    BY Zenon DEF Init, FlagsOK
  <2>4. QED
    BY <2>1, <2>2, <2>3 DEF Init, FlagsOK, TypeOK, Phases, Consent, Shown
<1>2. CallInProgress
  BY DEF Init, CallInProgress
<1>3. QED
  BY <1>1, <1>2 DEF TypeInv

(* A fresh set of locals has the right types.                              *)
LEMMA LocalsGoneType ==
    LocalsGone => /\ round' \in 0..MaxRounds
                  /\ nocallReasked' \in BOOLEAN
                  /\ emptyReasked' \in BOOLEAN
                  /\ outputShown' \in BOOLEAN
                  /\ ended' \in BOOLEAN
                  /\ missesLeft' \in 0..Batch
                  /\ pending' \in Seq(Calls)
                  /\ consent' \in Consent
<1> SUFFICES ASSUME LocalsGone
             PROVE  /\ round' \in 0..MaxRounds
                    /\ nocallReasked' \in BOOLEAN
                    /\ emptyReasked' \in BOOLEAN
                    /\ outputShown' \in BOOLEAN
                    /\ ended' \in BOOLEAN
                    /\ missesLeft' \in 0..Batch
                    /\ pending' \in Seq(Calls)
                    /\ consent' \in Consent
  OBVIOUS
<1>1. /\ nocallReasked' \in BOOLEAN /\ emptyReasked' \in BOOLEAN
      /\ outputShown' \in BOOLEAN /\ ended' \in BOOLEAN
  BY Zenon DEF LocalsGone
<1>2. /\ round' \in 0..MaxRounds /\ missesLeft' \in 0..Batch
      /\ pending' \in Seq(Calls) /\ consent' \in Consent
  BY BoundsAreNaturals DEF LocalsGone, Consent
<1>3. QED
  BY <1>1, <1>2

(* An operation about to be recorded is one that ran.                      *)
LEMMA LastIsOne == TypeInv /\ phase = "record" => Len(ran) \in 1..Len(ran)
<1> SUFFICES ASSUME TypeInv, phase = "record" PROVE Len(ran) \in 1..Len(ran)
  OBVIOUS
<1>1. Len(ran) \in Nat /\ opBase \in 0..Len(ran) /\ Len(ran) > opBase
  BY DEF TypeInv, TypeOK, CallInProgress
<1>2. QED
  BY <1>1

LEMMA StepTypeInv == TypeInv /\ [Next]_vars => TypeInv'
<1> SUFFICES ASSUME TypeInv, [Next]_vars PROVE TypeInv'
  OBVIOUS
<1> USE BoundsAreNaturals
<1>1. CASE BeginTurn
  BY <1>1, LocalsGoneType
     DEF BeginTurn, TypeInv, TypeOK, CallInProgress, Phases
<1>2. CASE EmptyReply
  BY <1>2 DEF EmptyReply, BeginRound, AfterRound, TypeInv, TypeOK, CallInProgress,
     Phases, sessionVars, callVars, logVars
<1>3. ASSUME NEW shape \in Shape, NEW bulky \in BOOLEAN, TextReply(shape, bulky)
      PROVE  TypeInv'
  <2>1. ended' \in BOOLEAN
    BY <1>3, Zenon DEF TextReply, TypeInv, TypeOK
  <2>2. screen' \subseteq Shown
    BY <1>3 DEF TextReply, Shape, Shown, TypeInv, TypeOK
  <2>3. QED
    BY <1>3, <2>1, <2>2 DEF TextReply, BeginRound, TypeInv, TypeOK, CallInProgress,
       Phases, sessionVars, callVars, logVars
<1>4. ASSUME NEW calls \in Replies, NEW misses \in 0..Batch, CallReply(calls, misses)
      PROVE  TypeInv'
  <2>1. calls \in Seq(Calls)
    BY DEF Replies
  <2>2. QED
    BY <1>4, <2>1 DEF CallReply, BeginRound, TypeInv, TypeOK, CallInProgress,
       Phases, sessionVars, logVars
<1>5. CASE RecordBlocked
  <2>1. ended' \in BOOLEAN /\ nocallReasked' \in BOOLEAN
    BY <1>5, Zenon DEF RecordBlocked, TypeInv, TypeOK
  <2>2. screen' \subseteq Shown
    BY <1>5 DEF RecordBlocked, Shown, TypeInv, TypeOK
  <2>3. audit' \in Seq(AuditRecord)
    BY <1>5 DEF RecordBlocked, NoRunRecord, AuditRecord, TypeInv, TypeOK
  <2>4. QED
    BY <1>5, <2>1, <2>2, <2>3 DEF RecordBlocked, AfterRound, TypeInv, TypeOK,
       CallInProgress, Phases, sessionVars, callVars
<1>6. CASE RecordMiss
  BY <1>6 DEF RecordMiss, NoRunRecord, AuditRecord, TypeInv, TypeOK,
     CallInProgress, Phases, sessionVars, turnVars
<1>7. CASE EndRound
  BY <1>7 DEF EndRound, AfterRound, TypeInv, TypeOK, CallInProgress, Phases,
     sessionVars, turnVars, callVars, logVars
<1>8. CASE ResolveGate
  <2>1. screen' \subseteq Shown
    BY <1>8 DEF ResolveGate, Shown, TypeInv, TypeOK
  <2>2. refused' \in Nat /\ phase' \in {"dispatch", "refuse", "confirm"}
    BY <1>8 DEF ResolveGate, TypeInv, TypeOK
  <2>3. QED
    BY <1>8, <2>1, <2>2 DEF ResolveGate, Consent, TypeInv, TypeOK, CallInProgress,
       Phases, sessionVars, logVars
<1>9. ASSUME NEW answer \in Answer, OperatorAnswers(answer)
      PROVE  TypeInv'
  <2>1. consent' \in Consent
    BY <1>9 DEF OperatorAnswers, Clears, Consent, TypeInv, TypeOK
  <2>2. QED
    BY <1>9, <2>1 DEF OperatorAnswers, TypeInv, TypeOK, CallInProgress, Phases,
       sessionVars, logVars
<1>10. CASE RecordRefusal
  <2>1. audit' \in Seq(AuditRecord)
    BY <1>10 DEF RecordRefusal, NoRunRecord, AuditRecord, TypeInv, TypeOK
  <2>2. QED
    BY <1>10, <2>1 DEF RecordRefusal, TypeInv, TypeOK, CallInProgress, Phases,
       sessionVars, turnVars
<1>11. ASSUME NEW ok \in BOOLEAN, NEW changed \in BOOLEAN, Dispatch(ok, changed)
       PROVE  TypeInv'
  <2> DEFINE done == [call |-> Head(pending), consent |-> consent,
                      ok |-> ok, changed |-> changed]
  <2>1. done \in Executed
    BY <1>11 DEF Dispatch, TypeInv, TypeOK, CallInProgress, Executed
  <2>2. ran' = Append(ran, done)
    BY <1>11 DEF Dispatch
  <2>3. ran' \in Seq(Executed) /\ Len(ran') = Len(ran) + 1
    BY <2>1, <2>2 DEF TypeInv, TypeOK
  <2>4. QED
    BY <1>11, <2>3 DEF Dispatch, TypeInv, TypeOK, CallInProgress, Phases,
       sessionVars, turnVars, callVars
<1>12. ASSUME NEW output \in BOOLEAN, RecordRun(output)
       PROVE  TypeInv'
  <2>1. audit' \in Seq(AuditRecord)
    BY <1>12 DEF RecordRun, RunRecord, AuditRecord, TypeInv, TypeOK
  <2>2. outputShown' \in BOOLEAN
    BY <1>12 DEF RecordRun, TypeInv, TypeOK
  <2>3. cache' \in {"cold", "fresh", "stale"}
    BY <1>12 DEF RecordRun, CacheAfter, TypeInv, TypeOK
  <2>4. unsettled' \subseteq 1..Len(ran')
    BY <1>12, LastIsOne DEF RecordRun, TypeInv, TypeOK
  <2>5. QED
    BY <1>12, <2>1, <2>2, <2>3, <2>4
       DEF RecordRun, Consent, Shown, TypeInv, TypeOK, CallInProgress, Phases,
       sessionVars
<1>13. CASE FinishTurn
  <2>1. screen' \subseteq Shown
    <3>1. screen \subseteq Shown /\ {"fallback"} \subseteq Shown /\ {} \subseteq Shown
      BY DEF Shown, TypeInv, TypeOK
    <3>2. screen' = screen \/ screen' = screen \union {"fallback"}
      BY <1>13 DEF FinishTurn
    <3>3. QED
      BY <3>1, <3>2
  <2>2. remembered' \subseteq 1..Len(ran')
    <3>1. remembered' = remembered \union (opBase + 1)..Len(ran) /\ ran' = ran
      BY <1>13 DEF FinishTurn
    <3>2. remembered \subseteq 1..Len(ran) /\ opBase \in Nat /\ Len(ran) \in Nat
      BY DEF TypeInv, TypeOK
    <3>3. (opBase + 1)..Len(ran) \subseteq 1..Len(ran)
      BY <3>2
    <3>4. QED
      BY <3>1, <3>2, <3>3, Zenon
  <2>3. QED
    BY <1>13, <2>1, <2>2, LocalsGoneType
       DEF FinishTurn, TypeInv, TypeOK, CallInProgress, Phases, sessionVars
<1>14. ASSUME AbandonTurn, audit' \in Seq(AuditRecord)
       PROVE  TypeInv'
  <2>1. unsettled' \subseteq 1..Len(ran')
    BY <1>14, LastIsOne DEF AbandonTurn, InFlight, TypeInv, TypeOK
  <2>2. QED
    BY <1>14, <2>1, LocalsGoneType DEF AbandonTurn, MemoryAfterAbort, Shown, TypeInv,
       TypeOK, CallInProgress, Phases
<1>15. CASE AuditFault
  <2>1. audit' \in Seq(AuditRecord)
    <3>1. /\ NoRunRecord("blocked") \in AuditRecord
          /\ NoRunRecord("miss") \in AuditRecord
          /\ NoRunRecord("refused") \in AuditRecord
          /\ RunRecord(Len(ran)) \in AuditRecord
      BY DEF NoRunRecord, RunRecord, AuditRecord, TypeInv, TypeOK
    <3>2. CASE audit' = audit
      BY <3>2 DEF TypeInv, TypeOK
    <3>3. CASE audit' # audit
      <4>1. phase \in {"blocked", "misses", "refuse", "record"}
        BY <1>15 DEF AuditFault
      <4>2. audit' = Append(audit,
                CASE phase = "blocked" -> NoRunRecord("blocked")
                  [] phase = "misses"  -> NoRunRecord("miss")
                  [] phase = "refuse"  -> NoRunRecord("refused")
                  [] phase = "record"  -> RunRecord(Len(ran)))
        BY <1>15, <3>3 DEF AuditFault
      <4>3. PICK r \in AuditRecord : audit' = Append(audit, r)
        BY <3>1, <4>1, <4>2
      <4>4. QED
        BY <4>3 DEF TypeInv, TypeOK
    <3>4. QED
      BY <3>2, <3>3
  <2>2. QED
    BY <1>14, <1>15, <2>1 DEF AuditFault
<1>16. CASE ConnectionLost
  BY <1>14, <1>16 DEF ConnectionLost, TypeInv, TypeOK
<1>17. CASE ProcessDies
  <2>1. wants' \in BOOLEAN
    BY <1>17, Zenon DEF ProcessDies
  <2>2. opBase' \in 0..Len(ran') /\ remembered' \subseteq 1..Len(ran')
    BY <1>17 DEF ProcessDies, TypeInv, TypeOK
  <2>3. QED
    BY <1>17, <2>1, <2>2, LocalsGoneType
       DEF ProcessDies, Shown, TypeInv, TypeOK, CallInProgress, Phases
<1>18. CASE UNCHANGED vars
  BY <1>18 DEF vars, sessionVars, turnVars, callVars, logVars, TypeInv, TypeOK,
     CallInProgress
<1>19. QED
  BY <1>1, <1>2, <1>3, <1>4, <1>5, <1>6, <1>7, <1>8, <1>9, <1>10, <1>11, <1>12,
     <1>13, <1>15, <1>16, <1>17, <1>18
     DEF Next, ModelReplies, OwnStep, Environment, AwaitLine

(* The variables keep their types in every behaviour.                      *)
THEOREM TypeCorrect == Spec => []TypeOK
<1>1. TypeInv => TypeOK
  BY DEF TypeInv
<1>2. QED
  BY InitTypeInv, StepTypeInv, <1>1, PTL DEF Spec

-----------------------------------------------------------------------------
(* Consent. What is about to run has been cleared for its own class, so    *)
(* what has run was.                                                       *)

ConsentInv == TypeInv /\ CallIsCleared /\ RanWithConsent

(* The head of pending is a call, and its gate is that of its class.       *)
LEMMA HeadDecision ==
    ASSUME TypeInv, pending # <<>>
    PROVE  /\ Head(pending) \in Call
           /\ StrictestClass(Head(pending)) \in OpClass
           /\ DecisionFor(Head(pending)).gate =
                GateFor(StrictestClass(Head(pending)), interactive)
<1>1. Head(pending) \in Call
  BY CallsAssumption DEF CallsAssumption, TypeInv, TypeOK
<1>2. interactive \in BOOLEAN
  BY DEF TypeInv, TypeOK
<1>3. DecisionFor(Head(pending)).gate =
        GateFor(StrictestClass(Head(pending)), interactive)
  BY <1>1, <1>2, LoopDecisionIsStrictest DEF DecisionFor
<1>4. StrictestClass(Head(pending)) \in OpClass
  BY DEF StrictestClass, OpClass
<1>5. QED
  BY <1>1, <1>3, <1>4

LEMMA InitConsentInv == Init => ConsentInv
BY InitTypeInv DEF Init, ConsentInv, CallIsCleared, RanWithConsent

(* Only Dispatch adds to what ran; only a cleared gate leads to it.        *)
LEMMA OtherStepsRunNothing ==
    ASSUME Next, TypeInv,
           ~ ResolveGate,
           ~ \E answer \in Answer : OperatorAnswers(answer),
           ~ \E ok, changed \in BOOLEAN : Dispatch(ok, changed)
    PROVE  /\ ran' = ran /\ interactive' = interactive
           /\ phase' # "dispatch" \/ UNCHANGED vars
<1> USE DEF sessionVars, logVars, AfterRound
<1>1. CASE BeginTurn
  BY <1>1 DEF BeginTurn
<1>2. CASE EmptyReply
  BY <1>2 DEF EmptyReply, BeginRound
<1>3. CASE \E shape \in Shape, bulky \in BOOLEAN : TextReply(shape, bulky)
  BY <1>3 DEF TextReply, BeginRound
<1>4. CASE \E calls \in Replies, misses \in 0..Batch : CallReply(calls, misses)
  BY <1>4 DEF CallReply, BeginRound
<1>5. CASE RecordBlocked
  BY <1>5 DEF RecordBlocked
<1>6. CASE RecordMiss
  BY <1>6 DEF RecordMiss
<1>7. CASE EndRound
  BY <1>7 DEF EndRound
<1>8. CASE RecordRefusal
  BY <1>8 DEF RecordRefusal
<1>9. CASE \E output \in BOOLEAN : RecordRun(output)
  BY <1>9 DEF RecordRun
<1>10. CASE FinishTurn
  BY <1>10 DEF FinishTurn
<1>11. CASE AuditFault
  BY <1>11 DEF AuditFault, AbandonTurn
<1>12. CASE ConnectionLost
  BY <1>12 DEF ConnectionLost, AbandonTurn
<1>13. CASE ProcessDies
  BY <1>13 DEF ProcessDies
<1>14. CASE AwaitLine
  BY <1>14 DEF AwaitLine, vars
<1>15. QED
  BY <1>1, <1>2, <1>3, <1>4, <1>5, <1>6, <1>7, <1>8, <1>9, <1>10, <1>11, <1>12,
     <1>13, <1>14
     DEF Next, ModelReplies, OwnStep, Environment

LEMMA StepConsentInv == ConsentInv /\ [Next]_vars => ConsentInv'
<1> SUFFICES ASSUME ConsentInv, [Next]_vars PROVE CallIsCleared' /\ RanWithConsent'
  BY StepTypeInv DEF ConsentInv
<1> USE DEF ConsentInv
<1> DEFINE class == StrictestClass(Head(pending))
<1>1. CASE ResolveGate
  <2>1. ran' = ran /\ interactive' = interactive /\ pending' = pending
        /\ consent' = "none" /\ pending # <<>>
    BY <1>1 DEF ResolveGate, sessionVars, logVars
  <2>2. phase' = "dispatch" => DecisionFor(Head(pending)).gate = "allow"
    BY <1>1 DEF ResolveGate
  <2>3. phase' = "dispatch" => class = "read"
    BY <2>1, <2>2, HeadDecision, AllowedIsRead DEF TypeInv, TypeOK
  <2>4. CallIsCleared'
    BY <2>1, <2>3 DEF CallIsCleared, Sufficient
  <2>5. QED
    BY <2>1, <2>4 DEF RanWithConsent
<1>2. ASSUME NEW answer \in Answer, OperatorAnswers(answer)
      PROVE  CallIsCleared' /\ RanWithConsent'
  <2>1. ran' = ran /\ interactive' = interactive /\ pending' = pending
        /\ phase = "confirm"
    BY <1>2 DEF OperatorAnswers, sessionVars, logVars
  <2>2. phase' = "dispatch" =>
          consent' = answer /\ Clears(DecisionFor(Head(pending)).gate, answer)
    BY <1>2 DEF OperatorAnswers
  <2>3. pending # <<>>
    BY <2>1 DEF TypeInv, CallInProgress
  <2>4. phase' = "dispatch" => Sufficient(consent', class) /\ interactive
    BY <2>2, <2>3, HeadDecision, ClearedIsSufficient DEF TypeInv, TypeOK
  <2>5. CallIsCleared'
    BY <2>1, <2>4 DEF CallIsCleared
  <2>6. QED
    BY <2>1, <2>5 DEF RanWithConsent
<1>3. ASSUME NEW ok \in BOOLEAN, NEW changed \in BOOLEAN, Dispatch(ok, changed)
      PROVE  CallIsCleared' /\ RanWithConsent'
  <2> DEFINE done == [call |-> Head(pending), consent |-> consent,
                      ok |-> ok, changed |-> changed]
  <2>1. ran' = Append(ran, done) /\ interactive' = interactive /\ phase' = "record"
        /\ phase = "dispatch"
    BY <1>3 DEF Dispatch, sessionVars
  <2>2. Sufficient(done.consent, StrictestClass(done.call))
        /\ (done.consent # "none" => interactive)
    BY <2>1 DEF CallIsCleared
  <2>3. done \in Executed
    BY <1>3 DEF Dispatch, TypeInv, TypeOK, CallInProgress, Executed
  <2> HIDE DEF done
  <2>4. ASSUME NEW n \in DOMAIN ran'
        PROVE  \/ ran'[n] = done
               \/ n \in DOMAIN ran /\ ran'[n] = ran[n]
    <3>1. ran \in Seq(Executed)
      BY DEF TypeInv, TypeOK
    <3>2. n \in DOMAIN ran \/ n = Len(ran) + 1
      BY <2>1, <2>3, <3>1, AppendedElements
    <3>3. QED
      BY <2>1, <2>3, <3>1, <3>2, AppendedElements
  <2>5. RanWithConsent'
    BY <2>1, <2>2, <2>4 DEF RanWithConsent
  <2>6. QED
    BY <2>1, <2>5 DEF CallIsCleared
<1>4. CASE UNCHANGED vars
  BY <1>4 DEF vars, sessionVars, callVars, logVars, CallIsCleared, RanWithConsent
<1>5. CASE /\ ran' = ran /\ interactive' = interactive
           /\ phase' # "dispatch"
  BY <1>5 DEF CallIsCleared, RanWithConsent
<1>6. QED
  BY <1>1, <1>2, <1>3, <1>4, <1>5, OtherStepsRunNothing

(* No interleaving of replies, answers, failures and restarts runs an      *)
(* operation without the consent that its strictest class demands.         *)
THEOREM ConsentBeforeRun == Spec => []RanWithConsent
<1>1. ConsentInv => RanWithConsent
  BY DEF ConsentInv
<1>2. QED
  BY InitConsentInv, StepConsentInv, <1>1, PTL DEF Spec

-----------------------------------------------------------------------------
(* The audit log. The records of what ran are a set of positions that      *)
(* lags behind by the operation in flight; a gap is cut by a fault.        *)

Gaps == (DOMAIN ran) \ (Recorded \union InFlight)

LogInv ==
    TypeInv /\ LogIsBehind /\ AuditInOrder /\ RememberedIsRecorded /\ GapsAreFaults

GapsAreCounted ==
    /\ IsFiniteSet(Gaps)
    /\ Cardinality(Gaps) \in Nat
    /\ GapsAreFaults <=> Cardinality(Gaps) <= faults

LEMMA GapsAreFew == TypeInv => GapsAreCounted
<1> SUFFICES ASSUME TypeInv PROVE GapsAreCounted
  OBVIOUS
<1>1. DOMAIN ran = 1..Len(ran) /\ Len(ran) \in Nat
  BY DEF TypeInv, TypeOK
<1>2. IsFiniteSet(DOMAIN ran)
  BY <1>1, FS_Interval
<1>3. IsFiniteSet(Gaps)
  BY <1>2, FS_Subset DEF Gaps
<1>4. QED
  BY <1>3, FS_CardinalityType DEF Gaps, GapsAreFaults, GapsAreCounted

LEMMA GapsAreFewNext == TypeInv' => GapsAreCounted'
BY GapsAreFew, PTL

LEMMA FewerGaps ==
    ASSUME TypeInv, TypeInv', GapsAreFaults,
           \/ Gaps' \subseteq Gaps /\ faults <= faults'
           \/ \E n : Gaps' \subseteq Gaps \union {n} /\ faults' = faults + 1
    PROVE  GapsAreFaults'
<1>1. /\ IsFiniteSet(Gaps) /\ Cardinality(Gaps) \in Nat
      /\ Cardinality(Gaps) <= faults
  BY GapsAreFew DEF GapsAreCounted
<1>2. /\ Cardinality(Gaps') \in Nat
      /\ Cardinality(Gaps') <= faults' => GapsAreFaults'
  BY GapsAreFewNext DEF GapsAreCounted
<1>3. faults \in Nat /\ faults' \in Nat
  BY BoundsAreNaturals DEF TypeInv, TypeOK
<1>4. CASE Gaps' \subseteq Gaps /\ faults <= faults'
  <2>1. Cardinality(Gaps') <= Cardinality(Gaps)
    BY <1>1, <1>4, FS_Subset
  <2>2. QED
    BY <1>1, <1>2, <1>3, <1>4, <2>1
<1>5. CASE \E n : Gaps' \subseteq Gaps \union {n} /\ faults' = faults + 1
  <2>1. PICK n : Gaps' \subseteq Gaps \union {n} /\ faults' = faults + 1
    BY <1>5
  <2>2. /\ IsFiniteSet(Gaps \union {n})
        /\ Cardinality(Gaps \union {n}) \in Nat
        /\ Cardinality(Gaps \union {n}) <= Cardinality(Gaps) + 1
    <3>1. /\ IsFiniteSet(Gaps \union {n})
          /\ Cardinality(Gaps \union {n}) =
               IF n \in Gaps THEN Cardinality(Gaps) ELSE Cardinality(Gaps) + 1
      BY <1>1, FS_AddElement
    <3>2. QED
      BY <1>1, <3>1
  <2>3. Cardinality(Gaps') <= Cardinality(Gaps \union {n})
    BY <2>1, <2>2, FS_Subset
  <2>4. QED
    BY <1>1, <1>2, <1>3, <2>1, <2>2, <2>3
<1>6. QED
  BY <1>4, <1>5

(* A record of something that did not run leaves the records of runs as    *)
(* they are.                                                               *)
LEMMA OtherRecordAppended ==
    ASSUME TypeInv, NEW kind \in {"refused", "miss", "blocked"},
           audit' = Append(audit, NoRunRecord(kind))
    PROVE  Recorded' = Recorded /\ (AuditInOrder => AuditInOrder')
<1> DEFINE rec == NoRunRecord(kind)
<1>1. audit \in Seq(AuditRecord) /\ rec \in AuditRecord /\ rec.kind # "ran"
  BY DEF TypeInv, TypeOK, AuditRecord, NoRunRecord
<1> HIDE DEF rec
<1>2. /\ DOMAIN audit' = DOMAIN audit \union {Len(audit) + 1}
      /\ audit'[Len(audit) + 1] = rec
      /\ \A n \in DOMAIN audit : audit'[n] = audit[n]
  BY <1>1, AppendedElements DEF rec
<1>3. RanRecords' = RanRecords /\ \A n \in RanRecords : audit'[n] = audit[n]
  BY <1>1, <1>2 DEF RanRecords
<1>4. QED
  BY <1>3 DEF Recorded, AuditInOrder

(* The record of the operation in flight is the last, and the first one of *)
(* that operation.                                                         *)
LEMMA RunRecordAppended ==
    ASSUME TypeInv, LogIsBehind, phase = "record",
           audit' = Append(audit, RunRecord(Len(ran)))
    PROVE  /\ Recorded' = Recorded \union {Len(ran)}
           /\ AuditInOrder => AuditInOrder'
<1> DEFINE rec == RunRecord(Len(ran))
           last == Len(audit) + 1
<1>1. /\ audit \in Seq(AuditRecord) /\ rec \in AuditRecord
      /\ rec.kind = "ran" /\ rec.op = Len(ran)
  BY DEF TypeInv, TypeOK, AuditRecord, RunRecord
<1> HIDE DEF rec
<1>2. /\ DOMAIN audit' = DOMAIN audit \union {last} /\ last \notin DOMAIN audit
      /\ audit'[last] = rec
      /\ \A n \in DOMAIN audit : audit'[n] = audit[n]
  BY <1>1, AppendedElements DEF rec
<1>3. DOMAIN audit = 1..Len(audit) /\ Len(audit) \in Nat
  BY <1>1
<1>4. RanRecords' = RanRecords \union {last}
      /\ \A n \in RanRecords : audit'[n] = audit[n] /\ n < last
  BY <1>1, <1>2, <1>3 DEF RanRecords
<1>5. Recorded' = Recorded \union {Len(ran)}
  <2>1. last \in RanRecords' /\ audit'[last].op = Len(ran)
    BY <1>1, <1>2, <1>4
  <2>2. Recorded' = {audit'[n].op : n \in RanRecords} \union {Len(ran)}
    BY <1>4, <2>1 DEF Recorded
  <2>3. {audit'[n].op : n \in RanRecords} = Recorded
    BY <1>4 DEF Recorded
  <2>4. QED
    BY <2>2, <2>3
<1>6. ASSUME NEW n \in RanRecords PROVE audit[n].op < Len(ran)
  <2> DEFINE op == audit[n].op
  <2>1. Recorded \subseteq 1..Len(ran) /\ Len(ran) \notin Recorded /\ Len(ran) \in Nat
    BY DEF LogIsBehind, TypeInv, TypeOK
  <2>2. op \in Recorded
    BY DEF Recorded
  <2> HIDE DEF op
  <2>3. op < Len(ran)
    BY <2>1, <2>2
  <2>4. QED
    BY <2>3 DEF op
<1>7. ASSUME AuditInOrder PROVE AuditInOrder'
  <2> SUFFICES ASSUME NEW m \in RanRecords', NEW n \in RanRecords', m < n
               PROVE  audit'[m].op < audit'[n].op
    BY DEF AuditInOrder
  <2>1. CASE n = last
    BY <1>1, <1>2, <1>3, <1>4, <1>6, <2>1 DEF RanRecords
  <2>2. CASE n # last
    BY <1>3, <1>4, <1>7, <2>2 DEF AuditInOrder, RanRecords
  <2>3. QED
    BY <2>1, <2>2
<1>8. QED
  BY <1>5, <1>7

(* A step of the program that neither runs an operation nor ends in a      *)
(* fault, and records at least what it owes.                               *)
LEMMA QuietStep ==
    ASSUME LogInv, TypeInv', ran' = ran, faults <= faults', phase' # "record",
           Recorded \subseteq Recorded', Recorded' \subseteq DOMAIN ran,
           AuditInOrder',
           Gaps' \subseteq Gaps \/ \E n : Gaps' \subseteq Gaps \union {n}
                                       /\ faults' = faults + 1,
           phase' # "idle" => (opBase' + 1)..Len(ran) \subseteq Recorded',
           remembered' \subseteq Recorded'
    PROVE  LogInv'
<1>1. GapsAreFaults'
  BY FewerGaps DEF LogInv
<1>2. QED
  BY <1>1 DEF LogInv, LogIsBehind, RememberedIsRecorded

LEMMA SameAudit ==
    ASSUME audit' = audit
    PROVE  Recorded' = Recorded /\ (AuditInOrder => AuditInOrder')
BY DEF Recorded, RanRecords, AuditInOrder

(* A move inside a turn, away from the record step.                        *)
LEMMA MoveInTurn ==
    ASSUME LogInv, TypeInv', UNCHANGED <<ran, remembered, opBase, faults>>,
           phase \notin {"idle", "record"}, phase' # "record",
           Recorded' = Recorded, AuditInOrder'
    PROVE  LogInv'
<1>1. InFlight = {} /\ InFlight' = {}
  BY DEF InFlight
<1>2. Gaps' = Gaps
  BY <1>1 DEF Gaps
<1>3. (opBase + 1)..Len(ran) \subseteq Recorded /\ Recorded \subseteq DOMAIN ran
      /\ remembered \subseteq Recorded
  BY <1>1 DEF LogInv, LogIsBehind, RememberedIsRecorded
<1>4. faults <= faults'
  BY BoundsAreNaturals DEF LogInv, TypeInv, TypeOK
<1>5. QED
  BY <1>2, <1>3, <1>4, QuietStep

(* The turn is cut off: at most the operation in flight loses its record.  *)
LEMMA CutOff ==
    ASSUME LogInv, TypeInv', ran' = ran, faults' = faults + 1, phase' = "idle",
           remembered' \subseteq remembered,
           Recorded \subseteq Recorded', Recorded' \subseteq DOMAIN ran, AuditInOrder'
    PROVE  LogInv'
<1>1. Gaps' \subseteq Gaps \union {Len(ran)}
  BY DEF Gaps, InFlight
<1>2. faults <= faults'
  BY BoundsAreNaturals DEF LogInv, TypeInv, TypeOK
<1>3. remembered' \subseteq Recorded'
  BY DEF LogInv, RememberedIsRecorded
<1>4. QED
  BY <1>1, <1>2, <1>3, QuietStep

LEMMA InitLogInv == Init => LogInv
<1> SUFFICES ASSUME Init PROVE LogInv
  OBVIOUS
<1>1. DOMAIN ran = {} /\ Len(ran) = 0 /\ DOMAIN audit = {} /\ faults = 0
      /\ remembered = {} /\ phase = "idle"
  BY DEF Init
<1>2. RanRecords = {} /\ Recorded = {} /\ Gaps = {}
  BY <1>1 DEF RanRecords, Recorded, Gaps
<1>3. Cardinality({}) = 0
  BY FS_EmptySet
<1>4. GapsAreFaults
  BY <1>1, <1>2, <1>3 DEF Gaps, GapsAreFaults
<1>5. QED
  BY <1>1, <1>2, <1>4, InitTypeInv
     DEF LogInv, LogIsBehind, AuditInOrder, RememberedIsRecorded

LEMMA StepLogInv == LogInv /\ [Next]_vars => LogInv'
<1> SUFFICES ASSUME LogInv, [Next]_vars PROVE LogInv'
  OBVIOUS
<1>0. TypeInv /\ TypeInv' /\ LogIsBehind /\ AuditInOrder /\ RememberedIsRecorded
  BY StepTypeInv DEF LogInv
<1> USE DEF sessionVars, turnVars, callVars, logVars
<1>1. CASE BeginTurn
  <2>1. /\ audit' = audit /\ ran' = ran /\ faults' = faults /\ opBase' = Len(ran)
        /\ remembered' = remembered /\ phase' = "propose" /\ phase = "idle"
    BY <1>1 DEF BeginTurn
  <2>2. Recorded' = Recorded /\ AuditInOrder'
    BY <1>0, <2>1, SameAudit
  <2>3. Gaps' = Gaps
    BY <2>1, <2>2 DEF Gaps, InFlight
  <2>4. (opBase' + 1)..Len(ran) = {} /\ faults <= faults'
    BY <1>0, <2>1, BoundsAreNaturals DEF TypeInv, TypeOK
  <2>5. QED
    BY <1>0, <2>1, <2>2, <2>3, <2>4, QuietStep DEF LogIsBehind, RememberedIsRecorded
<1>2. CASE \/ EmptyReply
           \/ \E shape \in Shape, bulky \in BOOLEAN : TextReply(shape, bulky)
           \/ \E calls \in Replies, misses \in 0..Batch : CallReply(calls, misses)
           \/ EndRound
           \/ ResolveGate
           \/ \E answer \in Answer : OperatorAnswers(answer)
  <2>1. /\ UNCHANGED <<audit, ran, remembered, opBase, faults>>
        /\ phase \notin {"idle", "record"} /\ phase' # "record"
    BY <1>2 DEF EmptyReply, TextReply, CallReply, BeginRound, EndRound, ResolveGate,
       OperatorAnswers, AfterRound
  <2>2. QED
    BY <1>0, <2>1, SameAudit, MoveInTurn
<1>3. CASE RecordBlocked \/ RecordMiss \/ RecordRefusal
  <2>1. /\ UNCHANGED <<ran, remembered, opBase, faults>>
        /\ phase \notin {"idle", "record"} /\ phase' # "record"
        /\ \E kind \in {"refused", "miss", "blocked"} :
              audit' = Append(audit, NoRunRecord(kind))
    BY <1>3 DEF RecordBlocked, RecordMiss, RecordRefusal, AfterRound
  <2>2. QED
    BY <1>0, <2>1, OtherRecordAppended, MoveInTurn
<1>4. ASSUME NEW ok \in BOOLEAN, NEW changed \in BOOLEAN, Dispatch(ok, changed)
      PROVE  LogInv'
  <2> DEFINE done == [call |-> Head(pending), consent |-> consent,
                      ok |-> ok, changed |-> changed]
  <2>1. /\ ran' = Append(ran, done) /\ phase' = "record" /\ phase = "dispatch"
        /\ UNCHANGED <<audit, remembered, opBase, faults>>
    BY <1>4 DEF Dispatch
  <2>2. done \in Executed /\ ran \in Seq(Executed) /\ DOMAIN ran = 1..Len(ran)
        /\ Len(ran) \in Nat /\ opBase \in Nat
    BY <1>0, <2>1 DEF TypeInv, TypeOK, CallInProgress, Executed
  <2> HIDE DEF done
  <2>3. /\ Len(ran') = Len(ran) + 1 /\ DOMAIN ran' = DOMAIN ran \union {Len(ran) + 1}
        /\ Len(ran) + 1 \notin DOMAIN ran
    BY <2>1, <2>2, AppendedElements
  <2>4. Recorded' = Recorded /\ AuditInOrder'
    BY <1>0, <2>1, SameAudit
  <2>5. InFlight = {} /\ InFlight' = {Len(ran) + 1}
    BY <2>1, <2>3 DEF InFlight
  <2>6. Gaps' = Gaps
    BY <2>3, <2>4, <2>5 DEF Gaps
  <2>7. GapsAreFaults'
    BY <1>0, <2>1, <2>6, BoundsAreNaturals, FewerGaps DEF LogInv, TypeInv, TypeOK
  <2>8. (opBase + 1)..Len(ran') \subseteq Recorded' \union InFlight'
    <3>1. (opBase + 1)..(Len(ran) + 1) \subseteq
            (opBase + 1)..Len(ran) \union {Len(ran) + 1}
      BY <2>2
    <3>2. (opBase + 1)..Len(ran) \subseteq Recorded
      BY <1>0, <2>1, <2>5 DEF LogIsBehind
    <3>3. QED
      BY <2>3, <2>4, <2>5, <3>1, <3>2
  <2>9. LogIsBehind'
    BY <1>0, <2>1, <2>3, <2>4, <2>8 DEF LogIsBehind
  <2>10. QED
    BY <1>0, <2>1, <2>4, <2>7, <2>9 DEF LogInv, RememberedIsRecorded
<1>5. ASSUME NEW output \in BOOLEAN, RecordRun(output)
      PROVE  LogInv'
  <2>1. /\ phase = "record" /\ phase' = "calls"
        /\ audit' = Append(audit, RunRecord(Len(ran)))
        /\ UNCHANGED <<ran, remembered, opBase, faults>>
    BY <1>5 DEF RecordRun
  <2>2. Recorded' = Recorded \union {Len(ran)} /\ AuditInOrder'
    BY <1>0, <2>1, RunRecordAppended
  <2>3. InFlight = {Len(ran)} /\ InFlight' = {} /\ Gaps' = Gaps
    BY <2>1, <2>2 DEF InFlight, Gaps
  <2>4. Len(ran) \in DOMAIN ran /\ faults <= faults'
    BY <1>0, <2>1, BoundsAreNaturals DEF TypeInv, TypeOK, CallInProgress
  <2>5. QED
    BY <1>0, <2>1, <2>2, <2>3, <2>4, QuietStep DEF LogIsBehind, RememberedIsRecorded
<1>6. CASE FinishTurn
  <2>1. /\ phase = "finish" /\ phase' = "idle"
        /\ remembered' = remembered \union (opBase + 1)..Len(ran)
        /\ UNCHANGED <<ran, audit, opBase, faults>>
    BY <1>6 DEF FinishTurn
  <2>2. Recorded' = Recorded /\ AuditInOrder'
    BY <1>0, <2>1, SameAudit
  <2>3. InFlight = {} /\ Gaps' = Gaps /\ faults <= faults'
    BY <1>0, <2>1, <2>2, BoundsAreNaturals DEF InFlight, Gaps, TypeInv, TypeOK
  <2>4. remembered' \subseteq Recorded'
    BY <1>0, <2>1, <2>2, <2>3 DEF LogIsBehind, RememberedIsRecorded
  <2>5. QED
    BY <1>0, <2>1, <2>2, <2>3, <2>4, QuietStep DEF LogIsBehind
<1>7. CASE AuditFault
  <2>1. /\ ran' = ran /\ faults' = faults + 1 /\ phase' = "idle"
        /\ remembered' = remembered
    BY <1>7 DEF AuditFault, AbandonTurn, MemoryAfterAbort
  <2>2. CASE audit' = audit
    BY <1>0, <2>1, <2>2, SameAudit, CutOff DEF LogIsBehind
  <2>3. CASE \E kind \in {"refused", "miss", "blocked"} :
               audit' = Append(audit, NoRunRecord(kind))
    BY <1>0, <2>1, <2>3, OtherRecordAppended, CutOff DEF LogIsBehind
  <2>4. CASE phase = "record" /\ audit' = Append(audit, RunRecord(Len(ran)))
    <3>1. Recorded' = Recorded \union {Len(ran)} /\ AuditInOrder'
      BY <1>0, <2>4, RunRecordAppended
    <3>2. Len(ran) \in DOMAIN ran
      BY <1>0, <2>4 DEF TypeInv, TypeOK, CallInProgress
    <3>3. QED
      BY <1>0, <2>1, <3>1, <3>2, CutOff DEF LogIsBehind
  <2>5. QED
    <3>1. phase \in {"blocked", "misses", "refuse", "record"}
      BY <1>7 DEF AuditFault
    <3>2. \/ audit' = audit
          \/ audit' = Append(audit,
               CASE phase = "blocked" -> NoRunRecord("blocked")
                 [] phase = "misses"  -> NoRunRecord("miss")
                 [] phase = "refuse"  -> NoRunRecord("refused")
                 [] phase = "record"  -> RunRecord(Len(ran)))
      BY <1>7 DEF AuditFault
    <3>3. QED
      BY <2>2, <2>3, <2>4, <3>1, <3>2
<1>8. CASE ConnectionLost \/ ProcessDies
  <2>1. /\ ran' = ran /\ faults' = faults + 1 /\ phase' = "idle" /\ audit' = audit
        /\ remembered' \subseteq remembered
    BY <1>8 DEF ConnectionLost, ProcessDies, AbandonTurn, MemoryAfterAbort
  <2>2. QED
    BY <1>0, <2>1, SameAudit, CutOff DEF LogIsBehind
<1>9. CASE AwaitLine \/ UNCHANGED vars
  <2>1. UNCHANGED <<ran, audit, remembered, opBase, faults, phase>>
    BY <1>9 DEF AwaitLine, vars
  <2>2. Recorded' = Recorded /\ InFlight' = InFlight /\ AuditInOrder'
    BY <1>0, <2>1, SameAudit DEF InFlight
  <2>3. QED
    BY <1>0, <2>1, <2>2
       DEF LogInv, LogIsBehind, RememberedIsRecorded, GapsAreFaults
<1>10. QED
  BY <1>1, <1>2, <1>3, <1>4, <1>5, <1>6, <1>7, <1>8, <1>9
     DEF Next, ModelReplies, OwnStep, Environment

(* The log names what ran in the order in which it ran, each at most once. *)
THEOREM LogInOrder == Spec => []AuditInOrder
<1>1. LogInv => AuditInOrder
  BY DEF LogInv
<1>2. QED
  BY InitLogInv, StepLogInv, <1>1, PTL DEF Spec

(* What ran and is not in the log was lost to a fault of its own.          *)
THEOREM GapsComeFromFaults == Spec => []GapsAreFaults
<1>1. LogInv => GapsAreFaults
  BY DEF LogInv
<1>2. QED
  BY InitLogInv, StepLogInv, <1>1, PTL DEF Spec

(* What the memory holds is in the log.                                    *)
THEOREM MemoryFollowsLog == Spec => []RememberedIsRecorded
<1>1. LogInv => RememberedIsRecorded
  BY DEF LogInv
<1>2. QED
  BY InitLogInv, StepLogInv, <1>1, PTL DEF Spec

-----------------------------------------------------------------------------
(* The loop implements GatedExecution.                                     *)

AbsClearance ==
    IF phase = "dispatch" THEN [call |-> Head(pending), consent |-> consent] ELSE NoCall

AbsHistory ==
    [n \in DOMAIN ran |-> [call |-> ran[n].call, consent |-> ran[n].consent]]

(* Each lemma below turns what a step does to the variables of AgentTurn   *)
(* into the step of GatedExecution it stands for.                          *)
LEMMA StutterMaps ==
    ASSUME interactive' = interactive, AbsClearance' = AbsClearance, ran' = ran,
           Recorded' = Recorded
    PROVE  UNCHANGED Gated!gatedVars
BY DEF Gated!gatedVars, AbsClearance, AbsHistory

LEMMA InitMaps == Init => Gated!GInit
BY DEF Init, Gated!GInit, Recorded, RanRecords

LEMMA ClearMaps ==
    ASSUME ConsentInv', NEW call \in Calls, NEW given \in Consent,
           phase # "dispatch", phase' = "dispatch", Head(pending') = call, consent' = given,
           interactive' = interactive, ran' = ran, Recorded' = Recorded
    PROVE  Gated!Clear(call, given)
BY DEF ConsentInv, CallIsCleared, Gated!Clear, Gated!Sufficient, Gated!StrictestClass,
   Sufficient, StrictestClass

LEMMA AbsHistoryType ==
    ASSUME TypeInv
    PROVE  /\ AbsHistory \in Seq([call : Calls, consent : Consent])
           /\ Len(AbsHistory) = Len(ran)
<1>1. ran \in Seq(Executed) /\ DOMAIN ran = 1..Len(ran) /\ Len(ran) \in Nat
  BY DEF TypeInv, TypeOK
<1>2. \A n \in 1..Len(ran) : [call |-> ran[n].call, consent |-> ran[n].consent]
                                \in [call : Calls, consent : Consent]
  <2>1. \A n \in 1..Len(ran) : ran[n] \in Executed
    BY <1>1, ElementOfSeq
  <2>2. \A e \in Executed : e.call \in Calls /\ e.consent \in Consent
    BY DEF Executed
  <2>3. QED
    BY <2>1, <2>2
<1>3. AbsHistory \in [1..Len(ran) -> [call : Calls, consent : Consent]]
  BY <1>1, <1>2 DEF AbsHistory
<1>4. AbsHistory \in Seq([call : Calls, consent : Consent])
  <2> DEFINE T == [call : Calls, consent : Consent]
  <2>1. Seq(T) = UNION {[1..n -> T] : n \in Nat}
    BY SeqDef
  <2> HIDE DEF T
  <2>2. QED
    BY <1>1, <1>3, <2>1, Zenon DEF T
<1>5. DOMAIN AbsHistory = 1..Len(AbsHistory) /\ Len(AbsHistory) \in Nat
  BY <1>4, LenProperties
<1>6. 1..Len(AbsHistory) = 1..Len(ran)
  BY <1>3, <1>5
<1>7. Len(AbsHistory) = Len(ran)
  <2>1. ASSUME NEW a \in Nat, NEW b \in Nat, 1..a = 1..b PROVE a = b
    <3>1. CASE a < b
      BY <2>1, <3>1, b \in 1..b
    <3>2. CASE b < a
      BY <2>1, <3>2, a \in 1..a
    <3>3. QED
      BY <3>1, <3>2
  <2>2. QED
    BY <1>1, <1>5, <1>6, <2>1
<1>8. QED
  BY <1>4, <1>7

LEMMA RunMaps ==
    ASSUME TypeInv, NEW ok \in BOOLEAN, NEW changed \in BOOLEAN, Dispatch(ok, changed)
    PROVE  Gated!Run
<1> DEFINE done == [call |-> Head(pending), consent |-> consent,
                    ok |-> ok, changed |-> changed]
           cleared == [call |-> Head(pending), consent |-> consent]
<1>1. /\ phase = "dispatch" /\ phase' = "record" /\ ran' = Append(ran, done)
      /\ interactive' = interactive /\ audit' = audit
  BY DEF Dispatch, sessionVars
<1>2. /\ done \in Executed /\ cleared \in [call : Calls, consent : Consent]
      /\ ran \in Seq(Executed) /\ DOMAIN ran = 1..Len(ran) /\ Len(ran) \in Nat
  BY <1>1 DEF TypeInv, TypeOK, CallInProgress, Executed
<1>3. cleared # NoCall
  BY <1>2, NoCallAssumption DEF NoCallAssumption
<1>4. AbsClearance = cleared /\ AbsClearance' = NoCall
  BY <1>1 DEF AbsClearance
<1>5. done.call = cleared.call /\ done.consent = cleared.consent
  OBVIOUS
<1> HIDE DEF done
<1>6. /\ DOMAIN ran' = 1..(Len(ran) + 1)
      /\ ran'[Len(ran) + 1] = done
      /\ \A n \in 1..Len(ran) : ran'[n] = ran[n]
  BY <1>1, <1>2, AppendedElements
<1>7. AbsHistory' = Append(AbsHistory, cleared)
  <2> DEFINE a == AbsHistory'
             b == Append(AbsHistory, cleared)
  <2>1. /\ b \in Seq([call : Calls, consent : Consent]) /\ Len(b) = Len(ran) + 1
        /\ b[Len(ran) + 1] = cleared
        /\ \A n \in 1..Len(ran) : b[n] = AbsHistory[n]
    <3>1. DOMAIN AbsHistory = 1..Len(ran)
      BY <1>2 DEF AbsHistory
    <3>2. QED
      BY <1>2, <3>1, AbsHistoryType, AppendedElements
  <2>2. /\ a = [n \in 1..(Len(ran) + 1) |->
                   [call |-> ran'[n].call, consent |-> ran'[n].consent]]
    BY <1>6 DEF AbsHistory
  <2>3. a[Len(ran) + 1] = cleared
    BY <1>2, <1>5, <1>6, <2>2
  <2>4. \A n \in 1..Len(ran) : a[n] = AbsHistory[n]
    BY <1>2, <1>6, <2>2 DEF AbsHistory
  <2>5. b = [n \in 1..(Len(ran) + 1) |-> b[n]]
    BY <1>2, <2>1
  <2> HIDE DEF a, b
  <2>6. \A n \in 1..(Len(ran) + 1) : a[n] = b[n]
    BY <1>2, <2>1, <2>3, <2>4
  <2>7. a = b
    BY <2>2, <2>5, <2>6
  <2>8. QED
    BY <2>7 DEF a, b
<1>8. Recorded' = Recorded
  BY <1>1, SameAudit
<1>9. QED
  BY <1>1, <1>3, <1>4, <1>7, <1>8 DEF Gated!Run, AbsClearance, AbsHistory

LEMMA LapseMaps ==
    ASSUME phase' # "dispatch", interactive' = interactive, ran' = ran,
           Recorded' = Recorded
    PROVE  Gated!Lapse
BY DEF Gated!Lapse

LEMMA EnterMaps ==
    ASSUME LogInv, phase = "record", phase' # "dispatch", interactive' = interactive,
           ran' = ran, Recorded' = Recorded \union {Len(ran)}
    PROVE  Gated!Enter
<1>1. TypeInv /\ Len(ran) \notin Recorded /\ Len(ran) > 0
  BY DEF LogInv, LogIsBehind, TypeInv, TypeOK, CallInProgress
<1>2. Len(AbsHistory) = Len(ran) /\ AbsHistory # <<>>
  <2>1. Len(AbsHistory) = Len(ran)
    BY <1>1, AbsHistoryType
  <2>2. QED
    BY <1>1, <2>1
<1>3. QED
  BY <1>1, <1>2 DEF Gated!Enter, AbsHistory

LEMMA StepMaps ==
    ConsentInv /\ ConsentInv' /\ LogInv /\ [Next]_vars
        => Gated!GNext \/ UNCHANGED Gated!gatedVars
<1> SUFFICES ASSUME ConsentInv, ConsentInv', LogInv, [Next]_vars
             PROVE  Gated!GNext \/ UNCHANGED Gated!gatedVars
  OBVIOUS
<1> USE DEF sessionVars, turnVars, callVars, logVars
<1>0. TypeInv /\ TypeInv' /\ LogIsBehind
  BY DEF ConsentInv, LogInv
<1>1. CASE ResolveGate \/ \E answer \in Answer : OperatorAnswers(answer)
  <2>1. /\ UNCHANGED <<interactive, ran, audit, pending>>
        /\ phase \in {"calls", "confirm"}
    BY <1>1 DEF ResolveGate, OperatorAnswers
  <2>2. Recorded' = Recorded
    BY <2>1, SameAudit
  <2>3. CASE phase' = "dispatch"
    <3>1. pending # <<>>
      BY <1>0, <1>1 DEF ResolveGate, OperatorAnswers, TypeInv, CallInProgress
    <3>2. Head(pending') \in Calls /\ consent' \in Consent
      BY <1>0, <2>1, <3>1 DEF TypeInv, TypeOK
    <3>3. PICK call \in Calls, given \in Consent :
            Head(pending') = call /\ consent' = given
      BY <3>2
    <3>4. Gated!Clear(call, given)
      BY <2>1, <2>2, <2>3, <3>3, ClearMaps
    <3>5. QED
      BY <3>4 DEF Gated!GNext, Gated!Consent, Consent
  <2>4. CASE phase' # "dispatch"
    BY <2>1, <2>2, <2>4, StutterMaps DEF AbsClearance
  <2>5. QED
    BY <2>3, <2>4
<1>2. CASE \E ok, changed \in BOOLEAN : Dispatch(ok, changed)
  BY <1>0, <1>2, RunMaps DEF Gated!GNext
<1>3. CASE \E output \in BOOLEAN : RecordRun(output)
  <2>1. /\ phase = "record" /\ phase' = "calls" /\ UNCHANGED <<interactive, ran>>
        /\ audit' = Append(audit, RunRecord(Len(ran)))
    BY <1>3 DEF RecordRun
  <2>2. Recorded' = Recorded \union {Len(ran)}
    BY <1>0, <2>1, RunRecordAppended
  <2>3. QED
    BY <2>1, <2>2, EnterMaps DEF Gated!GNext
<1>4. CASE AuditFault
  <2>1. UNCHANGED <<interactive, ran>> /\ phase' = "idle"
        /\ phase \in {"blocked", "misses", "refuse", "record"}
    BY <1>4 DEF AuditFault, AbandonTurn
  <2>2. \/ audit' = audit
        \/ audit' = Append(audit,
             CASE phase = "blocked" -> NoRunRecord("blocked")
               [] phase = "misses"  -> NoRunRecord("miss")
               [] phase = "refuse"  -> NoRunRecord("refused")
               [] phase = "record"  -> RunRecord(Len(ran)))
    BY <1>4 DEF AuditFault
  <2>3. CASE audit' = audit
    BY <2>1, <2>3, SameAudit, StutterMaps DEF AbsClearance
  <2>4. CASE \E kind \in {"refused", "miss", "blocked"} :
               audit' = Append(audit, NoRunRecord(kind))
    BY <1>0, <2>1, <2>4, OtherRecordAppended, StutterMaps DEF AbsClearance
  <2>5. CASE phase = "record" /\ audit' = Append(audit, RunRecord(Len(ran)))
    <3>1. Recorded' = Recorded \union {Len(ran)}
      BY <1>0, <2>5, RunRecordAppended
    <3>2. QED
      BY <2>1, <2>5, <3>1, EnterMaps DEF Gated!GNext
  <2>6. QED
    BY <2>1, <2>2, <2>3, <2>4, <2>5
<1>5. CASE ProcessDies
  <2>1. UNCHANGED <<interactive, ran, audit>> /\ phase' = "idle"
    BY <1>5 DEF ProcessDies
  <2>2. QED
    BY <2>1, SameAudit, LapseMaps DEF Gated!GNext
<1>6. CASE RecordBlocked \/ RecordMiss \/ RecordRefusal
  <2>1. /\ UNCHANGED <<interactive, ran>>
        /\ phase # "dispatch" /\ phase' # "dispatch"
        /\ \E kind \in {"refused", "miss", "blocked"} :
              audit' = Append(audit, NoRunRecord(kind))
    BY <1>6 DEF RecordBlocked, RecordMiss, RecordRefusal, AfterRound
  <2>2. QED
    BY <1>0, <2>1, OtherRecordAppended, StutterMaps DEF AbsClearance
<1>7. CASE \/ BeginTurn
           \/ EmptyReply
           \/ \E shape \in Shape, bulky \in BOOLEAN : TextReply(shape, bulky)
           \/ \E calls \in Replies, misses \in 0..Batch : CallReply(calls, misses)
           \/ EndRound
           \/ FinishTurn
           \/ ConnectionLost
  <2>1. UNCHANGED <<interactive, ran, audit>> /\ phase # "dispatch" /\ phase' # "dispatch"
    BY <1>7 DEF BeginTurn, EmptyReply, TextReply, CallReply, BeginRound, EndRound,
       FinishTurn, ConnectionLost, AbandonTurn, AfterRound
  <2>2. QED
    BY <2>1, SameAudit, StutterMaps DEF AbsClearance
<1>8. CASE AwaitLine \/ UNCHANGED vars
  <2>1. UNCHANGED <<interactive, ran, audit, phase, pending, consent>>
    BY <1>8 DEF AwaitLine, vars
  <2>2. QED
    BY <2>1, SameAudit, StutterMaps DEF AbsClearance
<1>9. QED
  BY <1>1, <1>2, <1>3, <1>4, <1>5, <1>6, <1>7, <1>8
     DEF Next, ModelReplies, OwnStep, Environment

(* Every behaviour of the loop is one of gated execution: each operation   *)
(* runs under a clearance of its own, and enters the log once at most.     *)
THEOREM LoopIsGatedExecution == Spec => ImplementsGatedExecution
<1>1. Spec => []ConsentInv
  BY InitConsentInv, StepConsentInv, PTL DEF Spec
<1>2. Spec => []LogInv
  BY InitLogInv, StepLogInv, PTL DEF Spec
<1>3. QED
  BY InitMaps, <1>1, <1>2, StepMaps, PTL DEF Spec, ImplementsGatedExecution, Gated!GSpec
-----------------------------------------------------------------------------
(* What the operator sees. In a turn with a person, whatever makes the     *)
(* fallback line unnecessary has already put something on the screen.      *)

SomethingShown ==
    interactive /\ phase # "idle" =>
        /\ ended \/ outputShown \/ refused > 0 \/ phase = "confirm" => screen # {}
        /\ Made > (IF phase = "record" THEN 1 ELSE 0) => screen # {}

ScreenInv == TextNeedsAttempt /\ NeverSilent /\ SomethingShown

Words(s) == s \intersect {"result", "plain"}

LEMMA AttemptsAreCounted ==
    ASSUME TypeInv
    PROVE  /\ Made \in Nat /\ refused \in Nat
           /\ Dispatched = Made + refused
           /\ phase = "record" => Made >= 1
<1>1. Len(ran) \in Nat /\ opBase \in 0..Len(ran) /\ refused \in Nat
  BY DEF TypeInv, TypeOK
<1>2. QED
  BY <1>1 DEF Made, Dispatched, TypeInv, CallInProgress

(* The rest of a turn shows no more words, and counts no fewer attempts.   *)
LEMMA NoMoreWords ==
    ASSUME TypeInv, TypeInv', TextNeedsAttempt, wants' = wants,
           opBase' = opBase, Len(ran') >= Len(ran), refused' >= refused,
           Words(screen') \subseteq Words(screen)
    PROVE  TextNeedsAttempt'
<1>1. Made' >= Made /\ Made \in Nat /\ refused \in Nat
      /\ Made' \in Nat /\ refused' \in Nat /\ Dispatched' = Made' + refused'
      /\ Dispatched = Made + refused
  <2>1. /\ Len(ran) \in Nat /\ opBase \in 0..Len(ran) /\ refused \in Nat
        /\ Len(ran') \in Nat /\ opBase' \in 0..Len(ran') /\ refused' \in Nat
    <3>1. /\ ran \in Seq(Executed) /\ opBase \in 0..Len(ran) /\ refused \in Nat
          /\ ran' \in Seq(Executed') /\ opBase' \in 0..Len(ran') /\ refused' \in Nat
      BY Zenon DEF TypeInv, TypeOK
    <3>2. QED
      BY <3>1
  <2>2. /\ Made = Len(ran) - opBase /\ Dispatched = Made + refused
        /\ Made' = Len(ran') - opBase' /\ Dispatched' = Made' + refused'
    BY DEF Made, Dispatched
  <2>3. QED
    BY <2>1, <2>2
<1>2. Dispatched' = 0 => Dispatched = 0
  <2>1. ASSUME NEW m \in Nat, NEW n \in Nat, NEW k \in Nat, NEW l \in Nat,
               k >= m, l >= n, k + l = 0
        PROVE  m + n = 0
    BY <2>1
  <2>2. Made' + refused' = 0 => Made + refused = 0
    BY <1>1, <2>1
  <2>3. QED
    BY <1>1, <2>2
<1>3. /\ "result" \in screen' => "result" \in screen
      /\ "plain" \in screen' => "plain" \in screen
  BY DEF Words
<1>4. CASE Dispatched' = 0
  <2>1. "result" \notin screen /\ ("plain" \in screen => ~wants)
    BY <1>2, <1>4, Zenon DEF TextNeedsAttempt
  <2>2. "plain" \in screen' => ~wants'
    BY <1>3, <2>1, Zenon
  <2>3. QED
    BY <1>3, <2>1, <2>2, Zenon DEF TextNeedsAttempt
<1>5. CASE Dispatched' # 0
  BY <1>5, Zenon DEF TextNeedsAttempt
<1>6. QED
  BY <1>4, <1>5

(* A turn that begins, or is forgotten, shows no words at all.             *)
LEMMA NoWords ==
    ASSUME Words(screen') = {} PROVE TextNeedsAttempt'
BY DEF TextNeedsAttempt, Words

LEMMA StepText ==
    ASSUME TypeInv, TypeInv', TextNeedsAttempt, Next
    PROVE  TextNeedsAttempt'
<1>0. Len(ran) \in Nat /\ refused \in Nat
  BY DEF TypeInv, TypeOK
<1>1. CASE BeginTurn \/ ProcessDies
  <2>1. screen' = {} \/ screen' = {"error"}
    BY <1>1 DEF BeginTurn, ProcessDies
  <2>2. QED
    BY <2>1, NoWords DEF Words
<1>2. ASSUME NEW shape \in Shape, NEW bulky \in BOOLEAN, TextReply(shape, bulky)
      PROVE  TextNeedsAttempt'
  <2>1. /\ UNCHANGED <<wants, refused, opBase, ran>>
        /\ \/ screen' = screen
           \/ ~ShouldBlock(shape) /\ screen' \in {screen, screen \union {shape}}
           \/ screen' = screen \union {"fixed"}
    BY <1>2 DEF TextReply, BeginRound, logVars
  <2>2. CASE screen' = screen \/ screen' = screen \union {"fixed"}
    BY <1>0, <2>1, <2>2, NoMoreWords DEF Words
  <2>3. CASE ~ShouldBlock(shape) /\ screen' = screen \union {shape}
    <3>1. Dispatched' = Dispatched
      BY <2>1 DEF Dispatched, Made
    <3>2. Dispatched = 0 => shape # "result" /\ ~wants
      BY <2>3 DEF ShouldBlock
    <3>3. QED
      BY <2>1, <2>3, <3>1, <3>2 DEF TextNeedsAttempt
  <2>4. QED
    BY <2>1, <2>2, <2>3
<1>3. CASE EmptyReply \/ (\E calls \in Replies, misses \in 0..Batch : CallReply(calls, misses))
  BY <1>0, <1>3, NoMoreWords DEF EmptyReply, CallReply, BeginRound, logVars, Words
<1>4. CASE RecordBlocked
  <2>1. /\ UNCHANGED <<wants, refused, opBase, ran>>
        /\ screen' = screen \/ screen' = screen \union {"fixed"}
    BY <1>4 DEF RecordBlocked
  <2>2. QED
    BY <1>0, <2>1, NoMoreWords DEF Words
<1>5. CASE RecordMiss \/ EndRound \/ RecordRefusal
  <2>1. UNCHANGED <<wants, refused, opBase, ran, screen>>
    BY <1>5 DEF RecordMiss, EndRound, RecordRefusal, turnVars, logVars
  <2>2. QED
    BY <1>0, <2>1, NoMoreWords
<1>6. CASE ResolveGate \/ \E answer \in Answer : OperatorAnswers(answer)
  <2>1. /\ UNCHANGED <<wants, opBase, ran>>
        /\ refused' = refused \/ refused' = refused + 1
        /\ screen' = screen \/ screen' = screen \union {"prompt"}
    BY <1>6 DEF ResolveGate, OperatorAnswers, logVars
  <2>2. QED
    BY <1>0, <2>1, NoMoreWords DEF Words
<1>7. CASE \E ok, changed \in BOOLEAN : Dispatch(ok, changed)
  <2>1. /\ UNCHANGED <<wants, refused, opBase, screen>>
        /\ Len(ran') >= Len(ran)
    BY <1>0, <1>7 DEF Dispatch, turnVars, TypeInv, TypeOK
  <2>2. QED
    BY <1>0, <2>1, NoMoreWords
<1>8. CASE \E output \in BOOLEAN : RecordRun(output)
  <2>1. /\ UNCHANGED <<wants, refused, opBase, ran>>
        /\ screen' \subseteq screen \union {"step", "output"}
    BY <1>8 DEF RecordRun
  <2>2. QED
    BY <1>0, <2>1, NoMoreWords DEF Words
<1>9. CASE FinishTurn
  <2>1. /\ UNCHANGED <<wants, refused, opBase, ran>>
        /\ screen' \subseteq screen \union {"fallback"}
    BY <1>9 DEF FinishTurn
  <2>2. QED
    BY <1>0, <2>1, NoMoreWords DEF Words
<1>10. CASE AuditFault \/ ConnectionLost
  <2>1. /\ UNCHANGED <<wants, refused, opBase, ran>>
        /\ screen' = screen \union {"error"}
    BY <1>10 DEF AuditFault, ConnectionLost, AbandonTurn
  <2>2. QED
    BY <1>0, <2>1, NoMoreWords DEF Words
<1>11. CASE AwaitLine
  BY <1>0, <1>11, NoMoreWords DEF AwaitLine, vars, turnVars, logVars
<1>12. QED
  BY <1>1, <1>2, <1>3, <1>4, <1>5, <1>6, <1>7, <1>8, <1>9, <1>10, <1>11
     DEF Next, ModelReplies, OwnStep, Environment

(* Text that looks like a result, or any text when an operation was asked  *)
(* for, is shown only after an attempt: should_block and run_turn.         *)
THEOREM NoClaimWithoutAttempt == Spec => []TextNeedsAttempt
<1>1. Init => TextNeedsAttempt
  BY DEF Init, TextNeedsAttempt
<1>2. TypeInv /\ TypeInv' /\ TextNeedsAttempt /\ [Next]_vars => TextNeedsAttempt'
  <2>1. CASE UNCHANGED vars
    BY <2>1 DEF vars, turnVars, logVars, TextNeedsAttempt, Dispatched, Made
  <2>2. QED
    BY <2>1, StepText
<1>3. QED
  BY <1>1, <1>2, InitTypeInv, StepTypeInv, PTL DEF Spec

-----------------------------------------------------------------------------
(* Silence.                                                                *)

(* A person is asked, never refused.                                       *)
LEMMA PeopleAreAsked ==
    ASSUME TypeInv, interactive, pending # <<>>
    PROVE  DecisionFor(Head(pending)).gate # "refuse"
BY HeadDecision DEF GateFor, OpClass

VisibleInv == NeverSilent /\ SomethingShown

LEMMA StepVisible ==
    ASSUME TypeInv, VisibleInv, Next
    PROVE  VisibleInv'
<1> SUFFICES ASSUME interactive' PROVE (NeverSilent /\ SomethingShown)'
  BY DEF VisibleInv, NeverSilent, SomethingShown
<1>0. /\ Made \in Nat /\ refused \in Nat /\ Dispatched = Made + refused
      /\ phase = "record" => Made >= 1
      /\ Len(ran) \in Nat /\ opBase \in Nat
  BY AttemptsAreCounted DEF TypeInv, TypeOK
<1> USE DEF VisibleInv, NeverSilent, SomethingShown
<1>1. CASE BeginTurn
  <2>1. /\ phase' = "propose" /\ refused' = 0 /\ outputShown' = FALSE
        /\ ended' = FALSE /\ opBase' = Len(ran) /\ ran' = ran
    BY <1>1 DEF BeginTurn, LocalsGone
  <2>2. Made' = 0
    BY <1>0, <2>1 DEF Made
  <2>3. QED
    BY <2>1, <2>2
<1>2. CASE ProcessDies \/ AuditFault \/ ConnectionLost
  <2>1. "error" \in screen' /\ phase' = "idle"
    BY <1>2 DEF ProcessDies, AuditFault, ConnectionLost, AbandonTurn
  <2>2. QED
    BY <2>1
<1>3. CASE FinishTurn
  <2>1. /\ phase = "finish" /\ phase' = "idle" /\ interactive' = interactive
        /\ screen' = screen \union (IF NothingVisible THEN {"fallback"} ELSE {})
    BY <1>3 DEF FinishTurn, sessionVars
  <2>2. ~NothingVisible => screen # {}
    BY <1>0, <2>1 DEF NothingVisible
  <2>3. screen' # {}
    BY <2>1, <2>2
  <2>4. QED
    BY <2>1, <2>3
<1>4. CASE \/ EmptyReply
           \/ \E calls \in Replies, misses \in 0..Batch : CallReply(calls, misses)
           \/ RecordMiss \/ EndRound
  <2>1. /\ UNCHANGED <<interactive, refused, outputShown, ended, screen, opBase, ran>>
        /\ phase \notin {"idle", "record"}
        /\ phase' \notin {"idle", "record", "confirm"}
    BY <1>4 DEF EmptyReply, CallReply, RecordMiss, EndRound, BeginRound, AfterRound,
       sessionVars, turnVars, logVars
  <2>2. Made' = Made
    BY <2>1 DEF Made
  <2>3. QED
    BY <2>1, <2>2
<1>5. ASSUME NEW shape \in Shape, NEW bulky \in BOOLEAN, TextReply(shape, bulky)
      PROVE  (NeverSilent /\ SomethingShown)'
  <2>1. /\ UNCHANGED <<interactive, refused, outputShown, opBase, ran>>
        /\ phase = "propose" /\ phase' \in {"blocked", "finish"}
        /\ \/ ended' = ended /\ screen' = screen
           \/ /\ ended' = TRUE /\ screen \subseteq screen'
              /\ screen' # {} \/ outputShown
    BY <1>5 DEF TextReply, BeginRound, sessionVars, logVars
  <2>2. Made' = Made
    BY <2>1 DEF Made
  <2>3. QED
    BY <2>1, <2>2
<1>6. CASE RecordBlocked
  <2>1. /\ UNCHANGED <<interactive, refused, outputShown, opBase, ran>>
        /\ phase = "blocked" /\ phase' \in {"propose", "finish"}
        /\ \/ "fixed" \in screen'
           \/ ended' = ended /\ screen' = screen
    BY <1>6 DEF RecordBlocked, AfterRound, sessionVars
  <2>2. Made' = Made
    BY <2>1 DEF Made
  <2>3. QED
    BY <2>1, <2>2
<1>7. CASE ResolveGate
  <2>1. /\ UNCHANGED <<interactive, outputShown, ended, opBase, ran>>
        /\ phase = "calls"
        /\ \/ phase' = "dispatch" /\ UNCHANGED <<refused, screen>>
           \/ DecisionFor(Head(pending)).gate = "refuse" /\ pending # <<>>
           \/ "prompt" \in screen' /\ phase' = "confirm"
    BY <1>7 DEF ResolveGate, sessionVars, logVars
  <2>2. Made' = Made
    BY <2>1 DEF Made
  <2>3. QED
    BY <2>1, <2>2, PeopleAreAsked
<1>8. CASE \E answer \in Answer : OperatorAnswers(answer)
  <2>1. /\ UNCHANGED <<interactive, outputShown, ended, opBase, ran, screen>>
        /\ phase = "confirm" /\ phase' \in {"dispatch", "refuse"}
    BY <1>8 DEF OperatorAnswers, sessionVars, logVars
  <2>2. QED
    BY <2>1
<1>9. CASE RecordRefusal
  <2>1. /\ UNCHANGED <<interactive, refused, outputShown, ended, screen, opBase, ran>>
        /\ phase = "refuse" /\ phase' = "calls"
    BY <1>9 DEF RecordRefusal, sessionVars, turnVars
  <2>2. Made' = Made
    BY <2>1 DEF Made
  <2>3. QED
    BY <2>1, <2>2
<1>10. CASE \E ok, changed \in BOOLEAN : Dispatch(ok, changed)
  <2>1. /\ UNCHANGED <<interactive, refused, outputShown, ended, screen, opBase>>
        /\ phase = "dispatch" /\ phase' = "record"
        /\ \E done : ran' = Append(ran, done)
    BY <1>10 DEF Dispatch, sessionVars, turnVars
  <2>3. Len(ran') = Len(ran) + 1
    <3>1. ran \in Seq(Executed)
      BY DEF TypeInv, TypeOK
    <3>2. QED
      BY <2>1, <3>1
  <2>2. Made' = Made + 1
    BY <1>0, <2>1, <2>3 DEF Made
  <2>4. QED
    BY <1>0, <2>1, <2>2
<1>11. CASE \E output \in BOOLEAN : RecordRun(output)
  <2>1. "step" \in screen' /\ phase' = "calls"
    BY <1>11 DEF RecordRun
  <2>2. QED
    BY <2>1
<1>12. CASE AwaitLine
  BY <1>12 DEF AwaitLine, vars, sessionVars, turnVars, logVars, Made
<1>13. QED
  BY <1>1, <1>2, <1>3, <1>4, <1>5, <1>6, <1>7, <1>8, <1>9, <1>10, <1>11, <1>12
     DEF Next, ModelReplies, OwnStep, Environment

(* A turn with a person present ends with something on the screen, however *)
(* it ends: run_turn, interactive_loop.                                    *)
THEOREM NoTurnIsSilent == Spec => []NeverSilent
<1>1. Init => VisibleInv
  BY DEF Init, VisibleInv, NeverSilent, SomethingShown
<1>2. TypeInv /\ VisibleInv /\ [Next]_vars => VisibleInv'
  <2>1. CASE UNCHANGED vars
    BY <2>1 DEF vars, sessionVars, turnVars, logVars, VisibleInv, NeverSilent,
       SomethingShown, Made
  <2>2. QED
    BY <2>1, StepVisible
<1>3. VisibleInv => NeverSilent
  BY DEF VisibleInv
<1>4. QED
  BY <1>1, <1>2, <1>3, InitTypeInv, StepTypeInv, PTL DEF Spec

-----------------------------------------------------------------------------
(* The cached snapshot. What is about to be recorded is the call in        *)
(* progress, and it is not gated as a read if it changed something.        *)

LastIsHead ==
    phase = "record" =>
        /\ ran[Len(ran)].call = Head(pending)
        /\ ran[Len(ran)].changed => DecisionFor(Head(pending)).op_class # "read"

CacheInv == StaleHasCause /\ LastIsHead

(* An operation stays a cause of staleness while it is unsettled and no    *)
(* other operation runs.                                                   *)
LEMMA CauseStays ==
    ASSUME StaleHasCause, UNCHANGED <<ran, interactive>>,
           cache' = "stale" => cache = "stale",
           InFlight \union unsettled \subseteq InFlight' \union unsettled'
    PROVE  StaleHasCause'
<1> SUFFICES ASSUME cache' = "stale"
             PROVE  \E n \in InFlight' \union unsettled' :
                        /\ ran[n].changed
                        /\ \A m \in (n + 1)..Len(ran) :
                              \/ m \in InFlight' \union unsettled'
                              \/ DecisionFor(ran[m].call).op_class = "read"
  BY DEF StaleHasCause, DecisionFor
<1>1. QED
  BY DEF StaleHasCause

LEMMA StepCache ==
    ASSUME TypeInv, CacheInv, [Next]_vars
    PROVE  CacheInv'
<1>0. /\ Len(ran) \in Nat /\ DOMAIN ran = 1..Len(ran)
      /\ ran \in Seq(Executed) /\ unsettled \subseteq 1..Len(ran)
      /\ StaleHasCause
  BY DEF TypeInv, TypeOK, CacheInv
<1>1. CASE \/ EmptyReply
           \/ \E shape \in Shape, bulky \in BOOLEAN : TextReply(shape, bulky)
           \/ \E calls \in Replies, misses \in 0..Batch : CallReply(calls, misses)
           \/ RecordBlocked \/ RecordMiss \/ EndRound \/ ResolveGate
           \/ \E answer \in Answer : OperatorAnswers(answer)
           \/ RecordRefusal \/ FinishTurn
  <2>1. /\ UNCHANGED <<ran, cache, interactive, unsettled>>
        /\ phase # "record" /\ phase' # "record"
    BY <1>1 DEF EmptyReply, TextReply, CallReply, RecordBlocked, RecordMiss,
       EndRound, ResolveGate, OperatorAnswers, RecordRefusal, FinishTurn,
       BeginRound, AfterRound, sessionVars, logVars
  <2>2. InFlight \union unsettled \subseteq InFlight' \union unsettled'
    BY <2>1 DEF InFlight
  <2>3. QED
    BY <1>0, <2>1, <2>2, CauseStays DEF CacheInv, LastIsHead
<1>2. CASE BeginTurn
  <2>1. /\ UNCHANGED <<ran, interactive, unsettled>>
        /\ cache' \in {cache, "fresh", "cold"}
        /\ phase = "idle" /\ phase' = "propose"
    BY <1>2 DEF BeginTurn
  <2>2. InFlight \union unsettled \subseteq InFlight' \union unsettled'
    BY <2>1 DEF InFlight
  <2>3. QED
    BY <1>0, <2>1, <2>2, CauseStays DEF CacheInv, LastIsHead
<1>3. ASSUME NEW ok \in BOOLEAN, NEW changed \in BOOLEAN, Dispatch(ok, changed)
      PROVE  CacheInv'
  <2> DEFINE done == [call |-> Head(pending), consent |-> consent,
                      ok |-> ok, changed |-> changed]
             last == Len(ran) + 1
  <2>1. /\ phase = "dispatch" /\ phase' = "record"
        /\ changed => DecisionFor(Head(pending)).op_class # "read"
        /\ ran' = Append(ran, done)
        /\ cache' = "stale" => changed \/ cache = "stale"
        /\ UNCHANGED <<interactive, pending, unsettled>>
    BY <1>3 DEF Dispatch, sessionVars, callVars
  <2>2. done.changed = changed /\ done.call = Head(pending)
    OBVIOUS
  <2> HIDE DEF done
  <2>3. /\ Len(ran') = last
        /\ ran'[last] = done
        /\ \A n \in 1..Len(ran) : ran'[n] = ran[n]
    BY <1>0, <2>1
  <2>4. LastIsHead'
    BY <2>1, <2>2, <2>3 DEF LastIsHead, DecisionFor
  <2>5. InFlight = {} /\ InFlight' = {last}
    BY <2>1, <2>3 DEF InFlight
  <2>6. CASE changed
    <3>1. ran'[last].changed
      BY <2>2, <2>3, <2>6
    <3>2. (last + 1)..Len(ran') = {}
      BY <1>0, <2>3
    <3>3. last \in InFlight' \union unsettled'
      BY <2>5
    <3>4. StaleHasCause'
      BY <3>1, <3>2, <3>3, Zenon DEF StaleHasCause
    <3>5. QED
      BY <2>4, <3>4 DEF CacheInv
  <2>7. CASE cache = "stale"
    <3>1. PICK n \in unsettled :
             /\ ran[n].changed
             /\ \A m \in (n + 1)..Len(ran) :
                   \/ m \in unsettled
                   \/ DecisionFor(ran[m].call).op_class = "read"
      BY <1>0, <2>5, <2>7 DEF StaleHasCause
    <3>2. n \in InFlight' \union unsettled' /\ ran'[n].changed
      BY <1>0, <2>1, <2>3, <3>1
    <3>3. ASSUME NEW m \in (n + 1)..Len(ran')
          PROVE  \/ m \in InFlight' \union unsettled'
                 \/ DecisionFor(ran[m].call)'.op_class = "read"
      <4>1. CASE m = last
        BY <2>5, <4>1
      <4>2. CASE m # last
        <5>1. m \in (n + 1)..Len(ran) /\ m \in 1..Len(ran)
          BY <1>0, <2>3, <3>1, <4>2
        <5>2. DecisionFor(ran[m].call)' = DecisionFor(ran[m].call)
          BY <2>1, <2>3, <5>1 DEF DecisionFor
        <5>3. QED
          BY <2>1, <3>1, <5>1, <5>2
      <4>3. QED
        BY <4>1, <4>2
    <3>4. StaleHasCause'
      BY <3>2, <3>3 DEF StaleHasCause
    <3>5. QED
      BY <2>4, <3>4 DEF CacheInv
  <2>8. CASE cache' # "stale"
    BY <2>4, <2>8 DEF CacheInv, StaleHasCause
  <2>9. QED
    BY <2>1, <2>6, <2>7, <2>8
<1>4. ASSUME NEW output \in BOOLEAN, RecordRun(output) PROVE CacheInv'
  <2> DEFINE last == Len(ran)
             class == DecisionFor(Head(pending)).op_class
  <2>1. /\ phase = "record" /\ phase' = "calls" /\ UNCHANGED <<ran, interactive>>
        /\ cache' = CacheAfter(class, ran[last].ok)
        /\ unsettled' = IF ran[last].ok THEN unsettled ELSE unsettled \union {last}
    BY <1>4 DEF RecordRun, sessionVars
  <2>2. /\ InFlight = {last} /\ InFlight' = {} /\ LastIsHead'
        /\ ran[last].call = Head(pending)
        /\ ran[last].changed => class # "read"
    BY <2>1 DEF InFlight, LastIsHead, CacheInv
  <2>3. CASE ~ran[last].ok
    <3>1. InFlight \union unsettled \subseteq InFlight' \union unsettled'
      BY <2>1, <2>2, <2>3
    <3>2. cache' = cache
      BY <2>1, <2>3 DEF CacheAfter
    <3>3. QED
      BY <1>0, <2>1, <2>2, <3>1, <3>2, CauseStays DEF CacheInv
  <2>4. CASE ran[last].ok /\ class # "read"
    BY <2>1, <2>2, <2>4 DEF CacheAfter, CacheInv, StaleHasCause
  <2>5. CASE ran[last].ok /\ class = "read"
    <3>1. cache' = cache /\ unsettled' = unsettled /\ ~ran[last].changed
      BY <2>1, <2>2, <2>5 DEF CacheAfter
    <3>2. SUFFICES ASSUME cache = "stale" PROVE StaleHasCause'
      BY <2>2, <3>1 DEF CacheInv, StaleHasCause
    <3>3. PICK n \in InFlight \union unsettled :
             /\ ran[n].changed
             /\ \A m \in (n + 1)..Len(ran) :
                   \/ m \in InFlight \union unsettled
                   \/ DecisionFor(ran[m].call).op_class = "read"
      BY <1>0, <3>2 DEF StaleHasCause
    <3>4. n \in unsettled
      BY <2>2, <3>1, <3>3
    <3>5. \A m \in (n + 1)..Len(ran) :
             m \in unsettled \/ DecisionFor(ran[m].call).op_class = "read"
      BY <2>2, <2>5, <3>3
    <3>6. QED
      BY <2>1, <2>2, <3>1, <3>3, <3>4, <3>5 DEF StaleHasCause, DecisionFor
  <2>6. QED
    BY <2>3, <2>4, <2>5
<1>5. CASE AuditFault \/ ConnectionLost
  <2>1. /\ UNCHANGED <<ran, cache, interactive>> /\ phase' = "idle"
        /\ unsettled' = unsettled \union InFlight
    BY <1>5 DEF AuditFault, ConnectionLost, AbandonTurn
  <2>2. InFlight \union unsettled \subseteq InFlight' \union unsettled' /\ LastIsHead'
    BY <2>1 DEF LastIsHead
  <2>3. QED
    BY <1>0, <2>1, <2>2, CauseStays DEF CacheInv
<1>6. CASE ProcessDies
  BY <1>6 DEF ProcessDies, CacheInv, StaleHasCause, LastIsHead
<1>7. CASE UNCHANGED vars
  <2>1. /\ UNCHANGED <<ran, cache, interactive, unsettled, phase, pending>>
    BY <1>7 DEF vars, sessionVars, callVars, logVars
  <2>2. InFlight' = InFlight
    BY <2>1 DEF InFlight
  <2>3. LastIsHead'
    BY <2>1 DEF CacheInv, LastIsHead, DecisionFor
  <2>4. QED
    BY <1>0, <2>1, <2>2, <2>3, CauseStays DEF CacheInv
<1>8. QED
  BY <1>1, <1>2, <1>3, <1>4, <1>5, <1>6, <1>7
     DEF Next, ModelReplies, OwnStep, Environment, AwaitLine

(* The snapshot the model is given lags behind a change of this session    *)
(* only if that very operation reported failure, is about to be recorded,  *)
(* or was cut off, and no change has succeeded after it: run_turn,         *)
(* invalidate.                                                             *)
THEOREM LagHasCause == Spec => []StaleHasCause
<1>1. Init => CacheInv
  BY DEF Init, CacheInv, StaleHasCause, LastIsHead
<1>2. TypeInv /\ CacheInv /\ [Next]_vars => CacheInv'
  BY StepCache
<1>3. CacheInv => StaleHasCause
  BY DEF CacheInv
<1>4. QED
  BY <1>1, <1>2, <1>3, InitTypeInv, StepTypeInv, PTL DEF Spec

-----------------------------------------------------------------------------
(* A turn comes to its end: every step of it brings TurnVariant down.      *)

LEMMA TripleBelow ==
    ASSUME NEW x \in Nat, NEW y \in Nat, NEW z \in Nat,
           NEW a \in Nat, NEW b \in Nat, NEW c \in Nat,
           x < a \/ (x = a /\ y < b) \/ (x = a /\ y = b /\ z < c)
    PROVE  Below(<<x, y, z>>, <<a, b, c>>)
<1> DEFINE p == <<x, y, z>>
           q == <<a, b, c>>
<1>1. DOMAIN q = 1..3 /\ p \in [1..3 -> Nat]
  OBVIOUS
<1>2. /\ p[1] = x /\ p[2] = y /\ p[3] = z
      /\ q[1] = a /\ q[2] = b /\ q[3] = c
  OBVIOUS
<1> HIDE DEF p, q
<1>3. CASE x < a
  BY <1>1, <1>2, <1>3 DEF Below
<1>4. CASE x = a /\ y < b
  <2>1. \A i \in 1..(2 - 1) : p[i] = q[i]
    BY <1>2, <1>4
  <2>2. 2 \in DOMAIN q /\ p[2] < q[2]
    BY <1>1, <1>2, <1>4
  <2>3. QED
    BY <1>1, <2>1, <2>2 DEF Below
<1>5. CASE x = a /\ y = b /\ z < c
  <2>1. \A i \in 1..(3 - 1) : p[i] = q[i]
    BY <1>2, <1>5
  <2>2. 3 \in DOMAIN q /\ p[3] < q[3]
    BY <1>1, <1>2, <1>5
  <2>3. QED
    BY <1>1, <2>1, <2>2 DEF Below
<1>6. QED
  BY <1>3, <1>4, <1>5 DEF p, q

(* What is left of the rounds and of the reply in hand.                    *)
RoundsLeft == IF phase = "idle" THEN 0 ELSE 1 + MaxRounds - round
CallsLeft == missesLeft + Len(pending)

LeftOK == RoundsLeft \in Nat /\ CallsLeft \in Nat /\ StepsLeft \in Nat

LEMMA LeftAreNaturals == TypeOK => LeftOK
BY BoundsAreNaturals
   DEF TypeOK, Phases, LeftOK, RoundsLeft, CallsLeft, StepsLeft

LEMMA LeftAreNaturalsNext == TypeOK' => LeftOK'
BY LeftAreNaturals, PTL

(* The three ways in which a step uses something up.                       *)
LEMMA RoundIsSpent ==
    ASSUME TypeOK, TypeOK', RoundsLeft' < RoundsLeft
    PROVE  Below(TurnVariant', TurnVariant)
<1>1. /\ RoundsLeft \in Nat /\ CallsLeft \in Nat /\ StepsLeft \in Nat
      /\ RoundsLeft' \in Nat /\ CallsLeft' \in Nat /\ StepsLeft' \in Nat
  BY LeftAreNaturals, LeftAreNaturalsNext DEF LeftOK
<1>2. /\ TurnVariant = <<RoundsLeft, CallsLeft, StepsLeft>>
      /\ TurnVariant' = <<RoundsLeft', CallsLeft', StepsLeft'>>
  BY DEF TurnVariant, RoundsLeft, CallsLeft
<1>3. QED
  BY <1>1, <1>2, TripleBelow

LEMMA CallIsSpent ==
    ASSUME TypeOK, TypeOK', RoundsLeft' = RoundsLeft,
           \/ CallsLeft' < CallsLeft
           \/ CallsLeft' = CallsLeft /\ StepsLeft' < StepsLeft
    PROVE  Below(TurnVariant', TurnVariant)
<1>1. /\ RoundsLeft \in Nat /\ CallsLeft \in Nat /\ StepsLeft \in Nat
      /\ RoundsLeft' \in Nat /\ CallsLeft' \in Nat /\ StepsLeft' \in Nat
  BY LeftAreNaturals, LeftAreNaturalsNext DEF LeftOK
<1>2. /\ TurnVariant = <<RoundsLeft, CallsLeft, StepsLeft>>
      /\ TurnVariant' = <<RoundsLeft', CallsLeft', StepsLeft'>>
  BY DEF TurnVariant, RoundsLeft, CallsLeft
<1>3. QED
  BY <1>1, <1>2, TripleBelow

LEMMA RoundBegins ==
    ASSUME TypeInv, TypeInv', BeginRound, phase' # "idle"
    PROVE  Below(TurnVariant', TurnVariant)
<1>1. RoundsLeft' < RoundsLeft
  BY BoundsAreNaturals DEF BeginRound, RoundsLeft, TypeInv, TypeOK
<1>2. QED
  BY <1>1, RoundIsSpent DEF TypeInv

LEMMA TurnIsOver ==
    ASSUME TypeInv, TypeInv', phase # "idle", phase' = "idle"
    PROVE  Below(TurnVariant', TurnVariant)
<1>1. RoundsLeft' < RoundsLeft
  BY BoundsAreNaturals DEF RoundsLeft, TypeInv, TypeOK
<1>2. QED
  BY <1>1, RoundIsSpent DEF TypeInv

(* The reply is handled further: a call less, or a call one step on.       *)
LEMMA ReplyIsHandled ==
    ASSUME TypeInv, TypeInv', phase # "idle", phase' # "idle", round' = round,
           \/ CallsLeft' < CallsLeft
           \/ CallsLeft' = CallsLeft /\ StepsLeft' < StepsLeft
    PROVE  Below(TurnVariant', TurnVariant)
<1>1. RoundsLeft' = RoundsLeft
  BY DEF RoundsLeft
<1>2. QED
  BY <1>1, CallIsSpent DEF TypeInv

LEMMA StepDescends ==
    ASSUME TypeInv, TypeInv', Next, phase # "idle"
    PROVE  Below(TurnVariant', TurnVariant)
<1> USE BoundsAreNaturals
<1>t. TypeOK /\ CallInProgress
  BY DEF TypeInv
<1>1. CASE ModelReplies
  <2>1. BeginRound /\ phase' # "idle"
    BY <1>1 DEF ModelReplies, EmptyReply, TextReply, CallReply, AfterRound
  <2>2. QED
    BY <2>1, RoundBegins
<1>2. CASE RecordBlocked
  <2>1. /\ phase = "blocked" /\ phase' \in {"propose", "finish"}
        /\ round' = round /\ UNCHANGED callVars
    BY <1>2 DEF RecordBlocked, AfterRound
  <2>2. CallsLeft' = CallsLeft /\ StepsLeft' < StepsLeft
    BY <2>1 DEF callVars, CallsLeft, StepsLeft
  <2>3. QED
    BY <2>1, <2>2, ReplyIsHandled
<1>3. CASE RecordMiss
  <2>1. /\ phase' # "idle" /\ round' = round
        /\ missesLeft' = missesLeft - 1 /\ pending' = pending
    BY <1>3 DEF RecordMiss, turnVars
  <2>2. CallsLeft' < CallsLeft
    BY <1>t, <2>1 DEF CallsLeft, TypeOK
  <2>3. QED
    BY <2>1, <2>2, ReplyIsHandled
<1>4. CASE EndRound
  <2>1. /\ phase = "calls" /\ phase' \in {"propose", "finish"}
        /\ round' = round /\ UNCHANGED callVars
    BY <1>4 DEF EndRound, AfterRound, turnVars
  <2>2. CallsLeft' = CallsLeft /\ StepsLeft' < StepsLeft
    BY <2>1 DEF callVars, CallsLeft, StepsLeft
  <2>3. QED
    BY <2>1, <2>2, ReplyIsHandled
<1>5. CASE ResolveGate
  <2>1. /\ phase = "calls" /\ phase' \in {"dispatch", "refuse", "confirm"}
        /\ round' = round /\ missesLeft' = missesLeft /\ pending' = pending
    BY <1>5 DEF ResolveGate
  <2>2. CallsLeft' = CallsLeft /\ StepsLeft' < StepsLeft
    BY <2>1 DEF CallsLeft, StepsLeft
  <2>3. QED
    BY <2>1, <2>2, ReplyIsHandled
<1>6. ASSUME NEW answer \in Answer, OperatorAnswers(answer)
      PROVE  Below(TurnVariant', TurnVariant)
  <2>1. /\ phase = "confirm" /\ phase' \in {"dispatch", "refuse"}
        /\ round' = round /\ missesLeft' = missesLeft /\ pending' = pending
    BY <1>6 DEF OperatorAnswers
  <2>2. CallsLeft' = CallsLeft /\ StepsLeft' < StepsLeft
    BY <2>1 DEF CallsLeft, StepsLeft
  <2>3. QED
    BY <2>1, <2>2, ReplyIsHandled
<1>7. CASE RecordRefusal \/ \E output \in BOOLEAN : RecordRun(output)
  <2>1. /\ phase \in {"refuse", "record"} /\ phase' = "calls"
        /\ round' = round /\ missesLeft' = missesLeft
        /\ pending' = Tail(pending)
    BY <1>7 DEF RecordRefusal, RecordRun, turnVars
  <2>2. pending \in Seq(Calls) /\ pending # <<>> /\ missesLeft \in Nat
    BY <1>t, <2>1 DEF TypeOK, CallInProgress
  <2>3. CallsLeft' < CallsLeft
    BY <2>1, <2>2 DEF CallsLeft
  <2>4. QED
    BY <2>1, <2>3, ReplyIsHandled
<1>8. CASE \E ok, changed \in BOOLEAN : Dispatch(ok, changed)
  <2>1. /\ phase = "dispatch" /\ phase' = "record"
        /\ round' = round /\ UNCHANGED callVars
    BY <1>8 DEF Dispatch, turnVars
  <2>2. CallsLeft' = CallsLeft /\ StepsLeft' < StepsLeft
    BY <2>1 DEF callVars, CallsLeft, StepsLeft
  <2>3. QED
    BY <2>1, <2>2, ReplyIsHandled
<1>9. CASE FinishTurn \/ AuditFault \/ ConnectionLost \/ ProcessDies
  <2>1. phase' = "idle"
    BY <1>9 DEF FinishTurn, AuditFault, ConnectionLost, AbandonTurn, ProcessDies
  <2>2. QED
    BY <2>1, TurnIsOver
<1>10. CASE BeginTurn \/ AwaitLine
  BY <1>10 DEF BeginTurn, AwaitLine
<1>11. QED
  BY <1>1, <1>2, <1>3, <1>4, <1>5, <1>6, <1>7, <1>8, <1>9, <1>10
     DEF Next, OwnStep, Environment

(* Nothing the model replies keeps a turn going for ever: each of its      *)
(* steps brings a tuple of naturals down. What a turn may still wait for   *)
(* is an answer, not another round: the loop of run_turn.                  *)
THEOREM TurnsComeToAnEnd == Spec => TurnDescends
<1> DEFINE Down == phase # "idle" => Below(TurnVariant', TurnVariant)
<1>1. TypeInv /\ TypeInv' /\ [Next]_vars => [Down]_vars
  BY StepDescends
<1> HIDE DEF Down
<1>2. Spec => [][Down]_vars
  BY <1>1, InitTypeInv, StepTypeInv, PTL DEF Spec
<1>3. QED
  BY <1>2 DEF Down, TurnDescends
=============================================================================
