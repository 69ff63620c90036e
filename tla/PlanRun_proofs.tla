--------------------------- MODULE PlanRun_proofs ---------------------------
(***************************************************************************)
(* Theorems about compound requests, for every set of calls, any number of *)
(* clauses and every budget of re-plans and retries.                       *)
(***************************************************************************)
EXTENDS PlanRun, FiniteSetTheorems, WellFoundedInduction, TLAPS

(* The elements of a sequence with one more at its end.                    *)
LEMMA AppendedElements ==
    ASSUME NEW S, NEW seq \in Seq(S), NEW e \in S
    PROVE  /\ Append(seq, e) \in Seq(S)
           /\ DOMAIN Append(seq, e) = DOMAIN seq \union {Len(seq) + 1}
           /\ Len(seq) + 1 \notin DOMAIN seq
           /\ Append(seq, e)[Len(seq) + 1] = e
           /\ \A n \in DOMAIN seq : Append(seq, e)[n] = seq[n]
OBVIOUS

LEMMA LimitsAreNaturals ==
    /\ Clauses \in Nat /\ Clauses >= 1
    /\ MaxReplans \in Nat /\ RetryMax \in Nat
    /\ Unresolved \notin Calls
BY ClausesAssumption, LimitsAssumption, CallsAssumption, UnresolvedAssumption
   DEF ClausesAssumption, LimitsAssumption, CallsAssumption, UnresolvedAssumption

-----------------------------------------------------------------------------
(* Type correctness. It needs StepInProgress: in the phases that run       *)
(* something the step in progress has a call, and the phases that spend a  *)
(* budget are entered only while there is some.                            *)

TypeInv == TypeOK /\ StepInProgress

LEMMA CurrentIsTyped ==
    ASSUME TypeOK
    PROVE  /\ steps[pos] \in Step
           /\ Current \in Calls \union {Unresolved}
           /\ steps[pos].made \in 0..MaxReplans
BY DEF TypeOK, Step, Current

LEMMA InitTypeInv == Init => TypeInv
<1> SUFFICES ASSUME Init PROVE TypeInv
  OBVIOUS
<1> USE LimitsAreNaturals
<1>1. steps \in [1..Clauses -> Step]
  <2>1. [call : Calls \union {Unresolved}, made : {0}] \subseteq Step
    BY DEF Step
  <2>2. QED
    BY <2>1 DEF Init
<1>2. ran \in Seq(Executed) /\ audit \in Seq(AuditRecord) /\ reports \in Seq(Report)
  BY DEF Init
<1>3. interactive \in BOOLEAN /\ halted \in BOOLEAN
  BY Zenon DEF Init
<1>4. phase \in Phases /\ consent \in Consent /\ cache \in {"fresh", "stale", "cold"}
  BY DEF Init, Phases, Consent
<1>5. /\ pos \in 1..Clauses /\ replans \in 0..MaxReplans
      /\ attempts \in 0..RetryMax
      /\ records \in Nat /\ counted \in Nat
  BY DEF Init
<1>6. TypeOK
  BY <1>1, <1>2, <1>3, <1>4, <1>5 DEF TypeOK
<1>7. StepInProgress
  BY DEF Init, StepInProgress
<1>8. QED
  BY <1>6, <1>7 DEF TypeInv

(* One more record in the log.                                             *)
LEMMA WriteKeepsType ==
    ASSUME TypeOK, NEW kind \in {"ran", "refused", "unresolved", "unread"},
           NEW op \in Nat, Write(kind, op)
    PROVE  audit' \in Seq(AuditRecord)
<1>1. [kind |-> kind, op |-> op] \in AuditRecord
  BY DEF AuditRecord
<1>2. audit' = Append(audit, [kind |-> kind, op |-> op])
  BY DEF Write
<1>3. QED
  BY <1>1, <1>2, AppendedElements DEF TypeOK

(* One more operation that ran.                                            *)
LEMMA ExecuteKeepsType ==
    ASSUME TypeOK, Current # Unresolved,
           NEW kind \in {"step", "read", "retry"},
           NEW ok \in BOOLEAN, NEW changed \in BOOLEAN,
           Execute(kind, ok, changed)
    PROVE  ran' \in Seq(Executed)
<1> DEFINE done == [pos |-> pos, made |-> steps[pos].made, kind |-> kind,
                    call |-> Current, consent |-> consent,
                    ok |-> ok, changed |-> changed]
<1>1. /\ pos \in 1..Clauses /\ steps[pos].made \in 0..MaxReplans
      /\ Current \in Calls /\ consent \in Consent
  BY CurrentIsTyped DEF TypeOK
<1>2. done \in Executed
  BY <1>1, Zenon DEF Executed
<1>3. ran' = Append(ran, done)
  BY DEF Execute
<1> HIDE DEF done
<1>4. QED
  BY <1>2, <1>3, AppendedElements DEF TypeOK

(* The end of a step: what it does to the plan, and to what phase.         *)
LEMMA AdvanceKeepsType ==
    ASSUME TypeOK, NEW invalidated \in BOOLEAN, NEW written \in Nat,
           Advance(invalidated, written)
    PROVE  /\ records' \in Nat /\ counted' \in Nat
           /\ steps' \in [1..Clauses -> Step] /\ pos' \in 1..Clauses
           /\ replans' \in 0..MaxReplans /\ halted' \in BOOLEAN
           /\ reports' \in Seq(Report)
           /\ interactive' \in BOOLEAN
           /\ consent' \in Consent /\ attempts' \in 0..RetryMax
           /\ phase' \in {"replan", "done", "step"}
           /\ phase' = "replan" => (pos < Clauses /\ MayReplan)'
<1> USE LimitsAreNaturals
<1>1. [pos |-> pos, made |-> steps[pos].made, invalidated |-> invalidated] \in Report
  <2>1. pos \in 1..Clauses /\ steps[pos].made \in 0..MaxReplans
    BY CurrentIsTyped DEF TypeOK
  <2>2. QED
    BY <2>1, Zenon DEF Report
<1>2. reports' \in Seq(Report)
  <2>1. reports' = Append(reports, [pos |-> pos, made |-> steps[pos].made,
                                    invalidated |-> invalidated])
    BY DEF Advance
  <2>2. QED
    BY <1>1, <2>1, AppendedElements DEF TypeOK
<1>3. UNCHANGED <<interactive, steps, replans>>
  BY DEF Advance
<1>4. /\ consent' \in Consent /\ attempts' \in 0..RetryMax
      /\ records' \in Nat /\ counted' \in Nat
  BY DEF Advance, Consent, TypeOK
<1>5. halted' = TRUE \/ halted' = halted
  BY Zenon DEF Advance
<1>6. halted' \in BOOLEAN /\ interactive' \in BOOLEAN
  BY <1>3, <1>5, Zenon DEF TypeOK
<1>7. /\ pos' \in 1..Clauses
      /\ phase' \in {"replan", "done", "step"}
      /\ phase' = "replan" => pos' = pos /\ pos < Clauses /\ MayReplan
  <2>1. pos \in 1..Clauses
    BY DEF TypeOK
  <2>2. \/ phase' = "replan" /\ pos' = pos /\ pos < Clauses /\ MayReplan
        \/ phase' = "done" /\ pos' = pos
        \/ phase' = "step" /\ pos' = pos + 1 /\ pos < Clauses
    BY Zenon DEF Advance
  <2>3. QED
    BY <2>1, <2>2
<1>8. QED
  BY <1>2, <1>3, <1>4, <1>6, <1>7 DEF TypeOK, MayReplan

(* What an unconfirmed change leads to keeps all but the log in its type.  *)
LEMMA MismatchKeepsType ==
    ASSUME TypeInv, phase \in {"verify", "record"},
           NEW written \in Nat, Mismatch(written)
    PROVE  /\ records' \in Nat /\ counted' \in Nat
           /\ steps' \in [1..Clauses -> Step] /\ pos' \in 1..Clauses
           /\ replans' \in 0..MaxReplans /\ halted' \in BOOLEAN
           /\ reports' \in Seq(Report)
           /\ interactive' \in BOOLEAN
           /\ consent' \in Consent /\ attempts' \in 0..RetryMax
           /\ phase' \in Phases
           /\ StepInProgress'
<1>1. CASE /\ MayRetry(Current) /\ phase' = "retry" /\ records' = written
           /\ UNCHANGED <<planVars, stepVars, counted>>
  <2>1. UNCHANGED <<interactive, steps, pos, replans, halted, reports,
                    consent, attempts, counted>>
    BY <1>1 DEF planVars, stepVars
  <2>2. interactive' \in BOOLEAN /\ halted' \in BOOLEAN
    BY <2>1, Zenon DEF TypeInv, TypeOK
  <2>3. Current # Unresolved
    BY DEF TypeInv, StepInProgress
  <2>4. MayRetry(Current)'
    BY <1>1, <2>1 DEF MayRetry, Current
  <2>5. StepInProgress'
    BY <1>1, <2>1, <2>3, <2>4 DEF StepInProgress, Current
  <2>6. QED
    BY <1>1, <2>1, <2>2, <2>5 DEF TypeInv, TypeOK, Phases
<1>2. CASE Advance(TRUE, written)
  BY <1>2, AdvanceKeepsType DEF TypeInv, StepInProgress, Phases
<1>3. QED
  BY <1>1, <1>2 DEF Mismatch

LEMMA StepTypeInv == TypeInv /\ [Next]_vars => TypeInv'
<1> SUFFICES ASSUME TypeInv, [Next]_vars PROVE TypeInv'
  OBVIOUS
<1> USE LimitsAreNaturals
<1>0. TypeOK /\ StepInProgress
  BY DEF TypeInv
<1>l. Len(ran) \in Nat /\ records + 1 \in Nat
  BY <1>0 DEF TypeOK
<1>1. CASE RecordUnresolved
  <2>1. Write("unresolved", 0) /\ Advance(TRUE, 1) /\ UNCHANGED <<ran, cache>>
    BY <1>1 DEF RecordUnresolved
  <2>2. audit' \in Seq(AuditRecord)
    BY <1>0, <2>1, WriteKeepsType
  <2>3. QED
    BY <1>0, <2>1, <2>2, AdvanceKeepsType
       DEF TypeInv, TypeOK, StepInProgress, Phases
<1>2. CASE ResolveGate
  <2>1. /\ phase' \in {"dispatch", "refuse", "confirm"}
        /\ Current # Unresolved
        /\ UNCHANGED <<planVars, stepVars, logVars, ran, cache>>
    <3>1. GateOf(Current) \in Gate
      BY DEF GateOf, classify, GateFor, Gate, WorstFragment
    <3>2. QED
      BY <1>2, <3>1 DEF ResolveGate, Gate
  <2>2. QED
    BY <1>0, <2>1 DEF TypeInv, TypeOK, StepInProgress, Phases, Current,
       planVars, stepVars, logVars
<1>3. ASSUME NEW answer \in Answer, OperatorAnswers(answer) PROVE TypeInv'
  <2>1. /\ phase = "confirm" /\ phase' \in {"dispatch", "refuse"}
        /\ consent' \in Consent
        /\ UNCHANGED <<planVars, attempts, logVars, ran, cache>>
    BY <1>0, <1>3 DEF OperatorAnswers, Clears, Consent, TypeOK
  <2>2. QED
    BY <1>0, <2>1 DEF TypeInv, TypeOK, StepInProgress, Phases, Current,
       planVars, logVars
<1>4. CASE RecordRefusal
  <2>1. Write("refused", 0) /\ Advance(FALSE, 1) /\ UNCHANGED <<ran, cache>>
    BY <1>4 DEF RecordRefusal
  <2>2. audit' \in Seq(AuditRecord)
    BY <1>0, <2>1, WriteKeepsType
  <2>3. QED
    BY <1>0, <2>1, <2>2, AdvanceKeepsType
       DEF TypeInv, TypeOK, StepInProgress, Phases
<1>5. ASSUME NEW ok \in BOOLEAN, NEW changed \in BOOLEAN, Dispatch(ok, changed)
      PROVE TypeInv'
  <2>1. /\ phase = "dispatch" /\ phase' = "record"
        /\ cache' \in {"stale", cache}
        /\ UNCHANGED <<planVars, stepVars, logVars>>
    BY <1>5 DEF Dispatch
  <2>2. Current # Unresolved
    BY <1>0, <2>1 DEF StepInProgress
  <2>3. ran' \in Seq(Executed)
    BY <1>0, <1>5, <2>2, ExecuteKeepsType DEF Dispatch
  <2>4. QED
    BY <1>0, <2>1, <2>2, <2>3 DEF TypeInv, TypeOK, StepInProgress, Phases,
       Current, planVars, stepVars, logVars
<1>6. CASE RecordStep
  <2>1. /\ phase = "record" /\ Write("ran", Len(ran)) /\ ran' = ran
        /\ cache' \in {"cold", cache}
    BY <1>6 DEF RecordStep, CacheAfter
  <2>2. audit' \in Seq(AuditRecord)
    BY <1>0, <1>l, <2>1, WriteKeepsType
  <2>3. CASE Advance(ClassOf(Current) = "destructive", 1)
    BY <1>0, <2>1, <2>2, <2>3, <1>l, AdvanceKeepsType
       DEF TypeInv, TypeOK, StepInProgress, Phases
  <2>4. CASE /\ phase' = "verify" /\ records' = 1
             /\ UNCHANGED <<planVars, stepVars, counted>>
    <3>1. Current # Unresolved
      BY <1>0, <2>1 DEF StepInProgress
    <3>2. QED
      BY <1>0, <2>1, <2>2, <2>4, <3>1 DEF TypeInv, TypeOK, StepInProgress,
         Phases, Current, planVars, stepVars
  <2>5. QED
    BY <1>6, <2>3, <2>4 DEF RecordStep
<1>7. CASE RefuseRead
  <2>1. /\ phase = "verify" /\ Write("unread", 0) /\ Mismatch(records + 1)
        /\ UNCHANGED <<ran, cache>>
    BY <1>7 DEF RefuseRead
  <2>2. audit' \in Seq(AuditRecord)
    BY <1>0, <2>1, WriteKeepsType
  <2>3. QED
    BY <1>0, <2>1, <2>2, <1>l, MismatchKeepsType DEF TypeInv, TypeOK
<1>8. ASSUME NEW match \in BOOLEAN, RunRead(match) PROVE TypeInv'
  <2>1. /\ phase = "verify" /\ phase' = "record"
        /\ UNCHANGED <<planVars, stepVars, logVars, cache>>
    BY <1>8 DEF RunRead
  <2>2. Current # Unresolved
    BY <1>0, <2>1 DEF StepInProgress
  <2>3. ran' \in Seq(Executed)
    BY <1>0, <1>8, <2>2, ExecuteKeepsType DEF RunRead
  <2>4. QED
    BY <1>0, <2>1, <2>2, <2>3 DEF TypeInv, TypeOK, StepInProgress, Phases,
       Current, planVars, stepVars, logVars
<1>9. CASE RecordRead
  <2>1. /\ phase = "record" /\ Write("ran", Len(ran))
        /\ Advance(FALSE, records + 1) \/ Mismatch(records + 1)
        /\ UNCHANGED <<ran, cache>>
    BY <1>9 DEF RecordRead
  <2>2. audit' \in Seq(AuditRecord)
    BY <1>0, <1>l, <2>1, WriteKeepsType
  <2>3. CASE Advance(FALSE, records + 1)
    BY <1>0, <2>1, <2>2, <2>3, <1>l, AdvanceKeepsType
       DEF TypeInv, TypeOK, StepInProgress, Phases
  <2>4. CASE Mismatch(records + 1)
    BY <1>0, <2>1, <2>2, <2>4, <1>l, MismatchKeepsType DEF TypeInv, TypeOK
  <2>5. QED
    BY <2>1, <2>3, <2>4
<1>10. ASSUME NEW changed \in BOOLEAN, Retry(changed) PROVE TypeInv'
  <2>1. /\ phase = "retry" /\ phase' = "record" /\ cache' = "cold"
        /\ attempts' = attempts + 1
        /\ UNCHANGED <<planVars, consent, logVars>>
    BY <1>10 DEF Retry
  <2>2. Current # Unresolved /\ attempts < RetryMax
    BY <1>0, <2>1 DEF StepInProgress, MayRetry
  <2>3. ran' \in Seq(Executed)
    BY <1>0, <1>10, <2>2, ExecuteKeepsType DEF Retry
  <2>4. attempts' \in 0..RetryMax
    BY <1>0, <2>1, <2>2 DEF TypeOK
  <2>5. QED
    BY <1>0, <2>1, <2>2, <2>3, <2>4 DEF TypeInv, TypeOK, StepInProgress, Phases,
       Current, planVars, logVars
<1>11. CASE RecordRetry
  <2>1. /\ phase = "record" /\ phase' = "verify" /\ Write("ran", Len(ran))
        /\ records' = records + 1
        /\ UNCHANGED <<planVars, stepVars, counted, ran, cache>>
    BY <1>11 DEF RecordRetry
  <2>2. audit' \in Seq(AuditRecord)
    BY <1>0, <1>l, <2>1, WriteKeepsType
  <2>3. QED
    BY <1>0, <2>1, <2>2 DEF TypeInv, TypeOK, StepInProgress, Phases, Current,
       planVars, stepVars
<1>12. ASSUME NEW accepted \in BOOLEAN, Proceed(accepted) PROVE TypeInv'
  <2>1. /\ phase' \in {"step", "done"}
        /\ UNCHANGED <<planVars, stepVars, logVars, ran, cache>>
    BY <1>12 DEF Proceed
  <2>2. QED
    BY <1>0, <2>1 DEF TypeInv, TypeOK, StepInProgress, Phases,
       planVars, stepVars, logVars
<1>13. ASSUME NEW calls \in [pos + 1..Clauses -> Calls \union {Unresolved}],
              Replan(calls)
       PROVE TypeInv'
  <2>1. /\ phase = "replan" /\ phase' = "step"
        /\ replans' = replans + 1 /\ pos' = pos + 1
        /\ UNCHANGED <<interactive, halted, reports, stepVars, logVars,
                       ran, cache>>
    BY <1>13 DEF Replan
  <2>2. replans' \in 0..MaxReplans /\ pos' \in 1..Clauses
    BY <1>0, <2>1 DEF TypeOK, StepInProgress, MayReplan
  <2>3. steps' \in [1..Clauses -> Step]
    <3>1. ASSUME NEW p \in 1..Clauses, ~(p <= pos)
          PROVE  [call |-> calls[p], made |-> replans'] \in Step
      <4>1. p \in pos + 1..Clauses
        BY <1>0, <3>1 DEF TypeOK
      <4>2. QED
        BY <4>1, <2>2 DEF Step
    <3>2. ASSUME NEW p \in 1..Clauses PROVE steps[p] \in Step
      BY <1>0 DEF TypeOK
    <3>3. steps' = [p \in 1..Clauses |->
                      IF p <= pos THEN steps[p]
                      ELSE [call |-> calls[p], made |-> replans']]
      BY <1>13 DEF Replan
    <3>4. QED
      BY <3>1, <3>2, <3>3
  <2>4. QED
    BY <1>0, <2>1, <2>2, <2>3 DEF TypeInv, TypeOK, StepInProgress, Phases,
       stepVars, logVars
<1>14. CASE Raise
  <2>1. phase' = "raised" /\ UNCHANGED <<planVars, stepVars, ran, cache, records, counted>>
    BY <1>14 DEF Raise
  <2>2. audit' \in Seq(AuditRecord)
    <3>1. CASE audit' = audit
      BY <1>0, <3>1 DEF TypeOK
    <3>2. ASSUME NEW record \in Owed, audit' = Append(audit, record)
          PROVE  audit' \in Seq(AuditRecord)
      <4>1. record \in AuditRecord
        BY <1>l DEF Owed, AuditRecord
      <4>2. QED
        BY <1>0, <3>2, <4>1, AppendedElements DEF TypeOK
    <3>3. QED
      BY <1>14, <3>1, <3>2 DEF Raise
  <2>3. QED
    BY <1>0, <2>1, <2>2 DEF TypeInv, TypeOK, StepInProgress, Phases,
       planVars, stepVars
<1>15. CASE UNCHANGED vars
  BY <1>0, <1>15 DEF TypeInv, TypeOK, StepInProgress, Current, MayRetry, MayReplan,
     vars, planVars, stepVars, logVars
<1>16. QED
  BY <1>1, <1>2, <1>3, <1>4, <1>5, <1>6, <1>7, <1>8, <1>9, <1>10, <1>11, <1>12,
     <1>13, <1>14, <1>15 DEF Next, OwnStep, Environment, Over

(* The variables keep their types in every behaviour.                      *)
THEOREM PlanTypeCorrect == Spec => []TypeOK
<1>1. TypeInv => TypeOK
  BY DEF TypeInv
<1>2. QED
  BY InitTypeInv, StepTypeInv, <1>1, PTL DEF Spec

-----------------------------------------------------------------------------
(* Consent. The inductive invariant adds that the step in progress carries *)
(* its own consent, and none that an earlier step left behind.             *)

ClearedInv == TypeInv /\ StepIsCleared /\ ClearedByClassifier

LEMMA GateIsOfItsClass ==
    ASSUME NEW call, NEW answer \in Answer, NEW i \in BOOLEAN
    PROVE  /\ classify(call, i).gate = "allow" => ClassOf(call) = "read"
           /\ Clears(classify(call, i).gate, answer) =>
                  Sufficient(answer, ClassOf(call)) /\ i
<1>1. ClassOf(call) \in OpClass
  BY DEF ClassOf, WorstFragment, OpClass
<1>2. classify(call, i).gate = GateFor(ClassOf(call), i)
  BY DEF classify, ClassOf
<1>3. QED
  BY <1>1, <1>2 DEF GateFor, Clears, Sufficient, OpClass, Answer

(* A step whose end is recorded leaves no consent behind.                  *)
LEMMA AdvanceClearsConsent ==
    ASSUME NEW invalidated \in BOOLEAN, NEW written,
           Advance(invalidated, written)
    PROVE  /\ consent' = "none" /\ interactive' = interactive
           /\ phase' \in {"replan", "done", "step"}
BY DEF Advance

LEMMA MismatchIsCleared ==
    ASSUME StepIsCleared, phase \in {"verify", "record"},
           NEW written, Mismatch(written)
    PROVE  StepIsCleared' /\ interactive' = interactive
<1>1. CASE phase' = "retry" /\ UNCHANGED <<planVars, stepVars, counted>>
  BY <1>1 DEF StepIsCleared, Current, planVars, stepVars
<1>2. CASE Advance(TRUE, written)
  BY <1>2, AdvanceClearsConsent DEF StepIsCleared
<1>3. QED
  BY <1>1, <1>2, Zenon DEF Mismatch

(* An operation that runs under the consent of the step in progress.       *)
LEMMA ExecuteIsCleared ==
    ASSUME TypeOK, ClearedByClassifier, interactive' = interactive,
           NEW kind, NEW ok, NEW changed, Execute(kind, ok, changed),
           kind # "read" => /\ Sufficient(consent, ClassOf(Current))
                            /\ consent # "none" => interactive
    PROVE  ClearedByClassifier'
<1> DEFINE done == [pos |-> pos, made |-> steps[pos].made, kind |-> kind,
                    call |-> Current, consent |-> consent,
                    ok |-> ok, changed |-> changed]
<1>1. ran' = Append(ran, done) /\ ran \in Seq(Executed)
  BY DEF Execute, TypeOK
<1>2. DOMAIN ran' = DOMAIN ran \union {Len(ran) + 1}
      /\ ran'[Len(ran) + 1] = done
      /\ \A n \in DOMAIN ran : ran'[n] = ran[n]
  BY <1>1
<1>3. done.kind = kind /\ done.call = Current /\ done.consent = consent
  OBVIOUS
<1> HIDE DEF done
<1>4. QED
  BY <1>2, <1>3 DEF ClearedByClassifier

LEMMA StepClearedInv == ClearedInv /\ [Next]_vars => ClearedInv'
<1> SUFFICES ASSUME ClearedInv, [Next]_vars PROVE StepIsCleared' /\ ClearedByClassifier'
  BY StepTypeInv DEF ClearedInv
<1>0. TypeOK /\ StepInProgress /\ StepIsCleared /\ ClearedByClassifier
      /\ interactive \in BOOLEAN
  BY Zenon DEF ClearedInv, TypeInv, TypeOK
<1>k. ASSUME ran' = ran, interactive' = interactive PROVE ClearedByClassifier'
  BY <1>0, <1>k DEF ClearedByClassifier
<1>1. CASE RecordUnresolved \/ RecordRefusal
  <2>1. ran' = ran /\ (Advance(TRUE, 1) \/ Advance(FALSE, 1))
    BY <1>1 DEF RecordUnresolved, RecordRefusal
  <2>2. QED
    BY <2>1, <1>k, AdvanceClearsConsent DEF StepIsCleared
<1>2. CASE ResolveGate
  <2>1. /\ phase = "step" /\ ran' = ran
        /\ UNCHANGED <<interactive, steps, pos, consent>>
        /\ phase' = "dispatch" => GateOf(Current) = "allow"
        /\ phase' \in {"dispatch", "refuse", "confirm"}
    <3>1. GateOf(Current) \in Gate
      BY DEF GateOf, classify, GateFor, Gate, WorstFragment
    <3>2. QED
      BY <1>2, <3>1 DEF ResolveGate, Gate, planVars, stepVars
  <2>2. phase' = "dispatch" => ClassOf(Current) = "read"
    <3>1. "other" \in Answer
      BY DEF Answer
    <3>2. QED
      BY <1>0, <2>1, <3>1, GateIsOfItsClass DEF GateOf
  <2>3. QED
    BY <1>0, <1>k, <2>1, <2>2 DEF StepIsCleared, Sufficient, Current
<1>3. ASSUME NEW answer \in Answer, OperatorAnswers(answer)
      PROVE StepIsCleared' /\ ClearedByClassifier'
  <2>1. /\ ran' = ran /\ UNCHANGED <<interactive, steps, pos>>
        /\ \/ /\ Clears(GateOf(Current), answer)
              /\ phase' = "dispatch" /\ consent' = answer
           \/ phase' = "refuse"
    BY <1>3 DEF OperatorAnswers, planVars
  <2>2. Clears(GateOf(Current), answer) =>
            Sufficient(answer, ClassOf(Current)) /\ interactive
    BY <1>0, GateIsOfItsClass DEF GateOf
  <2>3. QED
    BY <1>k, <2>1, <2>2 DEF StepIsCleared, Current
<1>4. ASSUME NEW ok \in BOOLEAN, NEW changed \in BOOLEAN, Dispatch(ok, changed)
      PROVE StepIsCleared' /\ ClearedByClassifier'
  <2>1. /\ phase = "dispatch" /\ phase' = "record"
        /\ UNCHANGED <<interactive, steps, pos, consent>>
        /\ Execute("step", ok, changed)
    BY <1>4 DEF Dispatch, planVars, stepVars
  <2>2. StepIsCleared'
    BY <1>0, <2>1 DEF StepIsCleared, Current
  <2>3. ClearedByClassifier'
    BY <1>0, <2>1, ExecuteIsCleared DEF StepIsCleared
  <2>4. QED
    BY <2>2, <2>3
<1>5. CASE RecordStep
  <2>1. phase = "record" /\ ran' = ran
    BY <1>5 DEF RecordStep
  <2>2. CASE Advance(ClassOf(Current) = "destructive", 1)
    BY <2>1, <2>2, <1>k, AdvanceClearsConsent DEF StepIsCleared
  <2>3. CASE phase' = "verify" /\ UNCHANGED <<planVars, stepVars>>
    BY <1>0, <1>k, <2>1, <2>3 DEF StepIsCleared, Current, planVars, stepVars
  <2>4. QED
    BY <1>5, <2>2, <2>3 DEF RecordStep
<1>6. CASE RefuseRead
  BY <1>0, <1>6, <1>k, MismatchIsCleared DEF RefuseRead
<1>7. ASSUME NEW match \in BOOLEAN, RunRead(match)
      PROVE StepIsCleared' /\ ClearedByClassifier'
  <2>1. /\ phase = "verify" /\ phase' = "record"
        /\ UNCHANGED <<interactive, steps, pos, consent>>
        /\ Execute("read", match, FALSE)
    BY <1>7 DEF RunRead, planVars, stepVars
  <2>2. StepIsCleared'
    BY <1>0, <2>1 DEF StepIsCleared, Current
  <2>3. ClearedByClassifier'
    BY <1>0, <2>1, ExecuteIsCleared
  <2>4. QED
    BY <2>2, <2>3
<1>8. CASE RecordRead
  <2>1. phase = "record" /\ ran' = ran /\ (Advance(FALSE, records + 1) \/ Mismatch(records + 1))
    BY <1>8 DEF RecordRead
  <2>2. CASE Advance(FALSE, records + 1)
    BY <2>1, <2>2, <1>k, AdvanceClearsConsent DEF StepIsCleared
  <2>3. CASE Mismatch(records + 1)
    BY <1>0, <2>1, <2>3, <1>k, MismatchIsCleared
  <2>4. QED
    BY <2>1, <2>2, <2>3
<1>9. ASSUME NEW changed \in BOOLEAN, Retry(changed)
      PROVE StepIsCleared' /\ ClearedByClassifier'
  <2>1. /\ phase = "retry" /\ phase' = "record"
        /\ UNCHANGED <<interactive, steps, pos, consent>>
        /\ Execute("retry", TRUE, changed)
    BY <1>9 DEF Retry, planVars
  <2>2. StepIsCleared'
    BY <1>0, <2>1 DEF StepIsCleared, Current
  <2>3. ClearedByClassifier'
    BY <1>0, <2>1, ExecuteIsCleared DEF StepIsCleared
  <2>4. QED
    BY <2>2, <2>3
<1>10. CASE RecordRetry
  <2>1. /\ phase = "record" /\ phase' = "verify" /\ ran' = ran
        /\ UNCHANGED <<interactive, steps, pos, consent>>
    BY <1>10 DEF RecordRetry, planVars, stepVars
  <2>2. QED
    BY <1>0, <1>k, <2>1 DEF StepIsCleared, Current
<1>11. ASSUME NEW accepted \in BOOLEAN, Proceed(accepted)
       PROVE StepIsCleared' /\ ClearedByClassifier'
  <2>1. /\ phase = "proceed" /\ phase' \in {"step", "done"}
        /\ ran' = ran /\ UNCHANGED <<interactive, consent>>
    BY <1>11 DEF Proceed, planVars, stepVars
  <2>2. QED
    BY <1>0, <1>k, <2>1 DEF StepIsCleared
<1>12. ASSUME NEW calls, Replan(calls) PROVE StepIsCleared' /\ ClearedByClassifier'
  <2>1. /\ phase = "replan" /\ phase' = "step"
        /\ ran' = ran /\ UNCHANGED <<interactive, consent>>
    BY <1>12 DEF Replan, stepVars
  <2>2. QED
    BY <1>0, <1>k, <2>1 DEF StepIsCleared
<1>13. CASE Raise
  BY <1>13, <1>k DEF Raise, StepIsCleared, planVars
<1>14. CASE UNCHANGED vars
  BY <1>0, <1>14, <1>k DEF StepIsCleared, Current, vars, planVars, stepVars
<1>15. QED
  BY <1>1, <1>2, <1>3, <1>4, <1>5, <1>6, <1>7, <1>8, <1>9, <1>10, <1>11, <1>12,
     <1>13, <1>14 DEF Next, OwnStep, Environment, Over

(* No operation of a plan, and no repetition of one, runs without the      *)
(* consent that the classifier's verdict on it demands.                    *)
THEOREM PlanIsCleared == Spec => []ClearedByClassifier
<1>1. Init => ClearedInv
  BY InitTypeInv DEF Init, ClearedInv, StepIsCleared, ClearedByClassifier
<1>2. ClearedInv => ClearedByClassifier
  BY DEF ClearedInv
<1>3. QED
  BY <1>1, <1>2, StepClearedInv, PTL DEF Spec

-----------------------------------------------------------------------------
(* Planning again. What may still run must be newer than every report that *)
(* invalidated it: LaterIsNewer says so of the steps of the plan, and      *)
(* HistoryIsThePlan carries it over to what has run.                       *)

TrustInv == TypeInv /\ LaterIsNewer /\ HistoryIsThePlan

(* The phases in which no step of the present plan can run any more.       *)
Suspended == {"replan", "done", "raised"}

LEMMA TrustedPlanRunsTrustedSteps == TrustInv => OnlyTrustedSteps
<1> SUFFICES ASSUME TrustInv,
                    NEW r \in DOMAIN reports, NEW n \in DOMAIN ran,
                    reports[r].invalidated, reports[r].pos < ran[n].pos
             PROVE  reports[r].made < ran[n].made
  BY DEF OnlyTrustedSteps
<1>1. ran[n].pos \in 1..Clauses
  <2>1. ran[n] \in Executed
    BY DEF TrustInv, TypeInv, TypeOK
  <2>2. QED
    BY <2>1 DEF Executed
<1>2. ran[n].pos <= pos
  BY DEF TrustInv, LaterIsNewer
<1>3. reports[r].made < steps[ran[n].pos].made
  BY <1>1, <1>2 DEF TrustInv, LaterIsNewer
<1>4. steps[ran[n].pos].made = ran[n].made
  <2>1. steps[ran[n].pos] = [call |-> ran[n].call, made |-> ran[n].made]
    BY DEF TrustInv, HistoryIsThePlan
  <2>2. [call |-> ran[n].call, made |-> ran[n].made].made = ran[n].made
    OBVIOUS
  <2>3. QED
    BY <2>1, <2>2, Zenon
<1>5. QED
  BY <1>3, <1>4

(* A step that leaves the plan, its position and its reports alone.        *)
LEMMA SamePlanIsTrusted ==
    ASSUME LaterIsNewer, HistoryIsThePlan,
           UNCHANGED <<steps, pos, replans, reports, ran>>,
           phase' \in Suspended \/ phase \notin Suspended
    PROVE  LaterIsNewer' /\ HistoryIsThePlan'
BY DEF LaterIsNewer, HistoryIsThePlan, Suspended

(* An operation of the step in progress.                                   *)
LEMMA ExecuteIsTrusted ==
    ASSUME TypeOK, LaterIsNewer, HistoryIsThePlan,
           NEW kind, NEW ok, NEW changed, Execute(kind, ok, changed),
           UNCHANGED <<steps, pos, replans, reports>>,
           phase \notin Suspended
    PROVE  LaterIsNewer' /\ HistoryIsThePlan'
<1> DEFINE done == [pos |-> pos, made |-> steps[pos].made, kind |-> kind,
                    call |-> Current, consent |-> consent,
                    ok |-> ok, changed |-> changed]
<1>1. DOMAIN ran' = DOMAIN ran \union {Len(ran) + 1}
      /\ ran'[Len(ran) + 1] = done
      /\ \A n \in DOMAIN ran : ran'[n] = ran[n]
  BY DEF Execute, TypeOK
<1>2. steps[pos] = [call |-> done.call, made |-> done.made]
  BY CurrentIsTyped DEF Step, Current
<1>3. done.pos = pos
  OBVIOUS
<1>4. pos \in 1..Clauses
  BY DEF TypeOK
<1> HIDE DEF done
<1>5. HistoryIsThePlan'
  BY <1>1, <1>2, <1>3 DEF HistoryIsThePlan
<1>6. \A n \in DOMAIN ran' : ran'[n].pos <= pos
  BY <1>1, <1>3, <1>4, LimitsAreNaturals DEF LaterIsNewer
<1>7. LaterIsNewer'
  BY <1>6 DEF LaterIsNewer, Suspended
<1>8. QED
  BY <1>5, <1>7

(* The end of a step: a report that invalidates the rest suspends the      *)
(* plan, any other report lets it go on.                                   *)
LEMMA AdvanceIsTrusted ==
    ASSUME TypeOK, LaterIsNewer, HistoryIsThePlan, ran' = ran,
           NEW invalidated \in BOOLEAN, NEW written,
           Advance(invalidated, written),
           phase \notin Suspended
    PROVE  LaterIsNewer' /\ HistoryIsThePlan'
<1> DEFINE last == [pos |-> pos, made |-> steps[pos].made,
                    invalidated |-> invalidated]
<1> USE LimitsAreNaturals
<1>1. /\ DOMAIN reports' = DOMAIN reports \union {Len(reports) + 1}
      /\ reports'[Len(reports) + 1] = last
      /\ \A r \in DOMAIN reports : reports'[r] = reports[r]
  BY DEF Advance, TypeOK
<1>2. last.pos = pos /\ last.made = steps[pos].made /\ last.invalidated = invalidated
  OBVIOUS
<1> HIDE DEF last
<1>3. steps' = steps /\ replans' = replans
  BY DEF Advance
<1>4. pos \in 1..Clauses
  BY DEF TypeOK
<1>5. \/ phase' \in Suspended /\ pos' = pos
      \/ ~invalidated /\ phase' = "step" /\ pos' = pos + 1
  BY Zenon DEF Advance, Suspended
<1>6. pos' >= pos /\ (invalidated => pos' = pos /\ phase' \in Suspended)
  BY <1>4, <1>5 DEF Suspended
<1>7. HistoryIsThePlan'
  BY <1>3 DEF HistoryIsThePlan
<1>8. \A n \in DOMAIN ran' : ran'[n].pos <= pos'
  <2>1. ASSUME NEW n \in DOMAIN ran PROVE ran[n].pos \in 1..Clauses
    <3>1. ran[n] \in Executed
      BY DEF TypeOK
    <3>2. QED
      BY <3>1 DEF Executed
  <2>2. pos' \in Nat
    BY <1>4, <1>5
  <2>3. QED
    BY <1>4, <1>6, <2>1, <2>2 DEF LaterIsNewer
<1>9. ASSUME NEW r \in DOMAIN reports'
      PROVE  /\ reports'[r].made <= replans'
             /\ \A p \in 1..Clauses :
                    /\ reports'[r].invalidated /\ reports'[r].pos < p
                    /\ p <= pos' \/ phase' \notin {"replan", "done", "raised"}
                    => reports'[r].made < steps'[p].made
  <2>1. CASE r \in DOMAIN reports
    BY <1>1, <1>3, <2>1 DEF LaterIsNewer, Suspended
  <2>2. CASE r = Len(reports) + 1
    BY <1>1, <1>2, <1>3, <1>4, <1>6, <2>2 DEF LaterIsNewer, Suspended
  <2>3. QED
    BY <1>1, <2>1, <2>2
<1>10. QED
  BY <1>3, <1>7, <1>8, <1>9 DEF LaterIsNewer

LEMMA MismatchIsTrusted ==
    ASSUME TypeOK, LaterIsNewer, HistoryIsThePlan, ran' = ran,
           NEW written, Mismatch(written),
           phase \notin Suspended
    PROVE  LaterIsNewer' /\ HistoryIsThePlan'
<1>1. CASE UNCHANGED <<planVars, stepVars>>
  BY <1>1, SamePlanIsTrusted DEF planVars
<1>2. CASE Advance(TRUE, written)
  BY <1>2, AdvanceIsTrusted
<1>3. QED
  BY <1>1, <1>2 DEF Mismatch

(* The remaining steps planned anew are newer than every report so far.    *)
LEMMA ReplanIsTrusted ==
    ASSUME TypeInv, LaterIsNewer, HistoryIsThePlan,
           NEW calls, Replan(calls)
    PROVE  LaterIsNewer' /\ HistoryIsThePlan'
<1> USE LimitsAreNaturals
<1>1. /\ pos \in 1..Clauses /\ replans \in 0..MaxReplans
      /\ pos < Clauses /\ phase = "replan"
  BY DEF TypeInv, TypeOK, StepInProgress, Replan
<1>2. /\ replans' = replans + 1 /\ pos' = pos + 1
      /\ reports' = reports /\ ran' = ran
  BY DEF Replan
<1>3. /\ \A p \in 1..Clauses : p <= pos => steps'[p] = steps[p]
      /\ \A p \in 1..Clauses : ~(p <= pos) => steps'[p].made = replans + 1
  BY <1>2 DEF Replan
<1>4. ASSUME NEW n \in DOMAIN ran
      PROVE  ran[n].pos \in 1..Clauses /\ ran[n].pos <= pos
  <2>1. ran[n] \in Executed
    BY DEF TypeInv, TypeOK
  <2>2. QED
    BY <2>1 DEF Executed, LaterIsNewer
<1>5. HistoryIsThePlan'
  BY <1>2, <1>3, <1>4 DEF HistoryIsThePlan
<1>6. \A n \in DOMAIN ran' : ran'[n].pos <= pos'
  BY <1>1, <1>2, <1>4
<1>7. ASSUME NEW p \in 1..Clauses
      PROVE  steps[p].made \in 0..replans /\ steps'[p].made <= replans'
  <2>1. steps[p] \in Step
    BY DEF TypeInv, TypeOK
  <2>2. steps[p].made \in 0..MaxReplans
    BY <2>1 DEF Step
  <2>3. QED
    BY <1>1, <1>2, <1>3, <2>2 DEF LaterIsNewer
<1>8. ASSUME NEW r \in DOMAIN reports
      PROVE  /\ reports[r].made <= replans'
             /\ \A p \in 1..Clauses :
                    reports[r].invalidated /\ reports[r].pos < p
                    => reports[r].made < steps'[p].made
  <2>1. reports[r].made \in 0..MaxReplans
    <3>1. reports[r] \in Report
      BY DEF TypeInv, TypeOK
    <3>2. QED
      BY <3>1 DEF Report
  <2>2. reports[r].made <= replans
    BY DEF LaterIsNewer
  <2>3. ASSUME NEW p \in 1..Clauses, reports[r].invalidated, reports[r].pos < p
        PROVE  reports[r].made < steps'[p].made
    <3>1. CASE p <= pos
      BY <1>3, <2>3, <3>1 DEF LaterIsNewer
    <3>2. CASE ~(p <= pos)
      BY <1>1, <1>3, <2>1, <2>2, <3>2
    <3>3. QED
      BY <3>1, <3>2
  <2>4. QED
    BY <1>1, <1>2, <2>1, <2>2, <2>3
<1>9. QED
  BY <1>2, <1>5, <1>6, <1>7, <1>8 DEF LaterIsNewer

LEMMA StepTrustInv == TrustInv /\ [Next]_vars => TrustInv'
<1> SUFFICES ASSUME TrustInv, [Next]_vars PROVE LaterIsNewer' /\ HistoryIsThePlan'
  BY StepTypeInv DEF TrustInv
<1>0. TypeInv /\ TypeOK /\ LaterIsNewer /\ HistoryIsThePlan
  BY DEF TrustInv, TypeInv
<1>1. CASE RecordUnresolved \/ RecordRefusal
  <2>1. /\ ran' = ran /\ phase \notin Suspended
        /\ Advance(TRUE, 1) \/ Advance(FALSE, 1)
    BY <1>1 DEF RecordUnresolved, RecordRefusal, Suspended
  <2>2. QED
    BY <1>0, <2>1, AdvanceIsTrusted
<1>2. CASE \/ ResolveGate
           \/ RecordRetry
           \/ \E answer \in Answer : OperatorAnswers(answer)
           \/ \E accepted \in BOOLEAN : Proceed(accepted)
  <2>1. UNCHANGED <<planVars, ran>> /\ phase \notin Suspended
    BY <1>2 DEF ResolveGate, RecordRetry, OperatorAnswers, Proceed, Suspended
  <2>2. QED
    BY <1>0, <2>1, SamePlanIsTrusted DEF planVars
<1>3. CASE \/ \E ok, changed \in BOOLEAN : Dispatch(ok, changed)
           \/ \E match \in BOOLEAN : RunRead(match)
           \/ \E changed \in BOOLEAN : Retry(changed)
  <2>1. PICK kind \in {"step", "read", "retry"}, ok \in BOOLEAN, changed \in BOOLEAN :
            Execute(kind, ok, changed)
    BY <1>3 DEF Dispatch, RunRead, Retry
  <2>2. UNCHANGED planVars /\ phase \notin Suspended
    BY <1>3 DEF Dispatch, RunRead, Retry, Suspended
  <2>3. QED
    BY <1>0, <2>1, <2>2, ExecuteIsTrusted DEF planVars
<1>4. CASE RecordStep \/ RefuseRead \/ RecordRead
  <2>1. /\ ran' = ran /\ phase \notin Suspended
        /\ \/ \E written : \E invalidated \in BOOLEAN : Advance(invalidated, written)
           \/ \E written : Mismatch(written)
           \/ UNCHANGED <<planVars, stepVars>>
    BY <1>4 DEF RecordStep, RefuseRead, RecordRead, Suspended
  <2>2. CASE \E written : \E invalidated \in BOOLEAN : Advance(invalidated, written)
    BY <1>0, <2>1, <2>2, AdvanceIsTrusted
  <2>3. CASE \E written : Mismatch(written)
    BY <1>0, <2>1, <2>3, MismatchIsTrusted
  <2>4. CASE UNCHANGED <<planVars, stepVars>>
    BY <1>0, <2>1, <2>4, SamePlanIsTrusted DEF planVars
  <2>5. QED
    BY <2>1, <2>2, <2>3, <2>4
<1>5. ASSUME NEW calls, Replan(calls) PROVE LaterIsNewer' /\ HistoryIsThePlan'
  BY <1>0, <1>5, ReplanIsTrusted
<1>6. CASE Raise
  <2>1. UNCHANGED <<planVars, ran>> /\ phase' = "raised"
    BY <1>6 DEF Raise
  <2>2. QED
    BY <1>0, <2>1, SamePlanIsTrusted DEF planVars, Suspended
<1>7. CASE UNCHANGED vars
  BY <1>0, <1>7, SamePlanIsTrusted DEF vars, planVars
<1>8. QED
  BY <1>1, <1>2, <1>3, <1>4, <1>5, <1>6, <1>7 DEF Next, OwnStep, Environment, Over

LEMMA InitTrustInv == Init => TrustInv
<1> SUFFICES ASSUME Init PROVE LaterIsNewer /\ HistoryIsThePlan
  BY InitTypeInv DEF TrustInv
<1>1. ran = <<>> /\ reports = <<>> /\ replans = 0
  BY DEF Init
<1>2. \A p \in 1..Clauses : steps[p].made = 0
  BY DEF Init
<1>3. QED
  BY <1>1, <1>2 DEF LaterIsNewer, HistoryIsThePlan

(* After a step that needs attention, only steps run that were planned     *)
(* after it.                                                               *)
THEOREM PlanIsTrusted == Spec => []OnlyTrustedSteps
BY InitTrustInv, StepTrustInv, TrustedPlanRunsTrustedSteps, PTL DEF Spec

(* Planning again does not touch the part already carried out.             *)
THEOREM PrefixIsKept == Spec => []HistoryIsThePlan
<1>1. TrustInv => HistoryIsThePlan
  BY DEF TrustInv
<1>2. QED
  BY InitTrustInv, StepTrustInv, <1>1, PTL DEF Spec
-----------------------------------------------------------------------------
(* Repetition. Before a step has run, nothing of its clause has; while it  *)
(* is verified, attempts counts the retries of its clause; and what is     *)
(* verified at all is a change.                                            *)

Early == {"proceed", "step", "confirm", "refuse", "dispatch"}
Verifying == {"record", "verify", "retry"}

Retries(p) == {k \in DOMAIN ran : ran[k].kind = "retry" /\ ran[k].pos = p}

InOrder ==
    /\ \A n \in DOMAIN ran : ran[n].pos <= pos
    /\ phase \in Early => \A n \in DOMAIN ran : ran[n].pos < pos
    /\ \A m, n \in DOMAIN ran :
           ran[m].kind = "step" /\ ran[n].kind = "step" /\ m < n =>
               ran[m].pos < ran[n].pos

Budgeted ==
    /\ \A p \in 1..Clauses : Cardinality(Retries(p)) <= RetryMax
    /\ phase \in Verifying => Cardinality(Retries(pos)) <= attempts

Repeatable ==
    /\ \A n \in DOMAIN ran :
           ran[n].kind = "retry" => /\ ClassOf(ran[n].call) = "write"
                                    /\ ran[n].call.tool = "idempotent"
    /\ phase \in {"verify", "retry"} => ClassOf(Current) # "read"
    /\ phase = "record" /\ ran[Len(ran)].kind # "step" => ClassOf(Current) # "read"

RepeatInv == InOrder /\ Budgeted /\ Repeatable

LEMMA RunsHavePositions ==
    ASSUME TypeOK
    PROVE  /\ Len(ran) \in Nat /\ DOMAIN ran = 1..Len(ran)
           /\ \A n \in DOMAIN ran : ran[n].pos \in 1..Clauses
<1>1. ASSUME NEW n \in DOMAIN ran PROVE ran[n].pos \in 1..Clauses
  <2>1. ran[n] \in Executed
    BY DEF TypeOK
  <2>2. QED
    BY <2>1 DEF Executed
<1>2. QED
  BY <1>1 DEF TypeOK

LEMMA RetriesAreFinite ==
    ASSUME TypeOK, NEW p
    PROVE  IsFiniteSet(Retries(p)) /\ Cardinality(Retries(p)) \in Nat
<1>1. IsFiniteSet(1..Len(ran)) /\ Retries(p) \subseteq 1..Len(ran)
  BY RunsHavePositions, FS_Interval DEF Retries
<1>2. QED
  BY <1>1, FS_Subset, FS_CardinalityType

(* A step of run_plan that runs nothing and keeps its place.               *)
LEMMA SameRunRepeats ==
    ASSUME TypeOK, RepeatInv,
           UNCHANGED <<steps, pos, ran, attempts>>,
           \/ phase \in Early /\ phase' \in Early
           \/ phase' \in {"done", "raised"}
           \/ phase' = phase
           \/ /\ phase \in Verifying /\ phase' \in {"verify", "retry"}
              /\ ClassOf(Current) # "read"
    PROVE  RepeatInv'
<1>1. InOrder'
  BY DEF RepeatInv, InOrder, Early, Verifying
<1>2. \A p : Retries(p)' = Retries(p)
  BY DEF Retries
<1>3. Budgeted'
  <2>1. Retries(pos)' = Retries(pos)
    BY <1>2 DEF Retries
  <2>2. QED
    BY <1>2, <2>1 DEF RepeatInv, Budgeted, Early, Verifying
<1>4. Repeatable'
  BY DEF RepeatInv, Repeatable, Current, Early, Verifying
<1>5. QED
  BY <1>1, <1>3, <1>4 DEF RepeatInv

(* The end of a step: nothing of the next clause has run.                  *)
LEMMA NextStepRepeats ==
    ASSUME TypeOK, RepeatInv, ran' = ran,
           \/ phase' \in {"replan", "done"} /\ pos' = pos
           \/ phase' = "step" /\ pos' = pos + 1
    PROVE  RepeatInv'
<1> USE LimitsAreNaturals
<1>1. pos \in 1..Clauses /\ phase' \notin Verifying
  BY DEF TypeOK, Verifying
<1>2. InOrder'
  BY <1>1, RunsHavePositions DEF RepeatInv, InOrder, Early
<1>3. \A p : Retries(p)' = Retries(p)
  BY DEF Retries
<1>4. Budgeted'
  BY <1>1, <1>3 DEF RepeatInv, Budgeted
<1>5. Repeatable'
  BY <1>1 DEF RepeatInv, Repeatable, Verifying
<1>6. QED
  BY <1>2, <1>4, <1>5 DEF RepeatInv

LEMMA AdvanceRepeats ==
    ASSUME TypeOK, RepeatInv, ran' = ran,
           NEW invalidated \in BOOLEAN, NEW written,
           Advance(invalidated, written)
    PROVE  RepeatInv'
<1>1. \/ phase' \in {"replan", "done"} /\ pos' = pos
      \/ phase' = "step" /\ pos' = pos + 1
  BY Zenon DEF Advance
<1>2. QED
  BY <1>1, NextStepRepeats

LEMMA MismatchRepeats ==
    ASSUME TypeOK, RepeatInv, ran' = ran, phase \in Verifying,
           ClassOf(Current) # "read", NEW written, Mismatch(written)
    PROVE  RepeatInv'
<1>1. CASE phase' = "retry" /\ UNCHANGED <<planVars, stepVars>>
  BY <1>1, SameRunRepeats DEF planVars, stepVars
<1>2. CASE Advance(TRUE, written)
  BY <1>2, AdvanceRepeats
<1>3. QED
  BY <1>1, <1>2 DEF Mismatch

(* An operation that is no retry: the first run of a step, or a read.      *)
LEMMA ExecuteRepeats ==
    ASSUME TypeOK, RepeatInv, UNCHANGED <<steps, pos, attempts>>,
           NEW kind \in {"step", "read"}, NEW ok, NEW changed,
           Execute(kind, ok, changed), phase' = "record",
           kind = "step" => phase = "dispatch",
           kind = "read" => phase = "verify"
    PROVE  RepeatInv'
<1> DEFINE done == [pos |-> pos, made |-> steps[pos].made, kind |-> kind,
                    call |-> Current, consent |-> consent,
                    ok |-> ok, changed |-> changed]
<1> USE LimitsAreNaturals
<1>1. /\ DOMAIN ran' = DOMAIN ran \union {Len(ran) + 1}
      /\ ran'[Len(ran) + 1] = done
      /\ \A n \in DOMAIN ran : ran'[n] = ran[n]
      /\ Len(ran') = Len(ran) + 1
      /\ Len(ran) + 1 \notin DOMAIN ran
  BY DEF Execute, TypeOK
<1>2. done.pos = pos /\ done.kind = kind
  OBVIOUS
<1> HIDE DEF done
<1>3. /\ pos \in 1..Clauses /\ attempts \in Nat
      /\ Len(ran) \in Nat /\ DOMAIN ran = 1..Len(ran)
      /\ \A n \in DOMAIN ran : ran[n].pos \in 1..Clauses
  BY RunsHavePositions DEF TypeOK
<1>4. InOrder'
  <2>1. \A n \in DOMAIN ran' : ran'[n].pos <= pos
    BY <1>1, <1>2, <1>3 DEF RepeatInv, InOrder
  <2>2. ASSUME NEW m \in DOMAIN ran', NEW n \in DOMAIN ran',
               ran'[m].kind = "step", ran'[n].kind = "step", m < n
        PROVE  ran'[m].pos < ran'[n].pos
    <3>1. m \in DOMAIN ran
      BY <1>1, <1>3, <2>2
    <3>2. CASE n \in DOMAIN ran
      BY <1>1, <2>2, <3>1, <3>2 DEF RepeatInv, InOrder
    <3>3. CASE n = Len(ran) + 1
      BY <1>1, <1>2, <2>2, <3>1, <3>3 DEF RepeatInv, InOrder, Early
    <3>4. QED
      BY <1>1, <3>2, <3>3
  <2>3. QED
    BY <2>1, <2>2 DEF InOrder, Early
<1>5. \A p : Retries(p)' = Retries(p)
  BY <1>1, <1>2 DEF Retries
<1>6. Budgeted'
  <2>1. Cardinality(Retries(pos)) <= attempts
    <3>1. CASE kind = "step"
      <4>1. Retries(pos) = {}
        BY <1>3, <3>1 DEF RepeatInv, InOrder, Early, Retries
      <4>2. QED
        BY <1>3, <4>1, FS_EmptySet
    <3>2. CASE kind = "read"
      BY <3>2 DEF RepeatInv, Budgeted, Verifying
    <3>3. QED
      BY <3>1, <3>2
  <2>2. Retries(pos)' = Retries(pos)
    BY <1>1, <1>2 DEF Retries
  <2>3. QED
    BY <1>5, <2>1, <2>2 DEF RepeatInv, Budgeted
<1>7. Repeatable'
  <2>1. Current' = Current
    BY DEF Current
  <2>2. kind = "read" => ClassOf(Current) # "read"
    BY DEF RepeatInv, Repeatable
  <2>3. QED
    BY <1>1, <1>2, <2>1, <2>2 DEF RepeatInv, Repeatable
<1>8. QED
  BY <1>4, <1>6, <1>7 DEF RepeatInv

(* A retry is of a change that is safe to repeat, within the budget.       *)
LEMMA RetryRepeats ==
    ASSUME TypeOK, RepeatInv, StepInProgress, NEW changed, Retry(changed)
    PROVE  RepeatInv'
<1> DEFINE done == [pos |-> pos, made |-> steps[pos].made, kind |-> "retry",
                    call |-> Current, consent |-> consent,
                    ok |-> TRUE, changed |-> changed]
<1> USE LimitsAreNaturals
<1>0. /\ phase = "retry" /\ phase' = "record" /\ attempts' = attempts + 1
      /\ UNCHANGED <<steps, pos>> /\ ran' = Append(ran, done)
  BY DEF Retry, Execute, planVars
<1>1. /\ DOMAIN ran' = DOMAIN ran \union {Len(ran) + 1}
      /\ ran'[Len(ran) + 1] = done
      /\ \A n \in DOMAIN ran : ran'[n] = ran[n]
      /\ Len(ran') = Len(ran) + 1
      /\ Len(ran) + 1 \notin DOMAIN ran
  BY <1>0 DEF TypeOK
<1>2. done.pos = pos /\ done.kind = "retry" /\ done.call = Current
  OBVIOUS
<1> HIDE DEF done
<1>3. /\ pos \in 1..Clauses /\ attempts \in Nat
      /\ Len(ran) \in Nat /\ DOMAIN ran = 1..Len(ran)
      /\ \A n \in DOMAIN ran : ran[n].pos \in 1..Clauses
  BY RunsHavePositions DEF TypeOK
<1>4. InOrder'
  <2>1. \A n \in DOMAIN ran' : ran'[n].pos <= pos
    BY <1>1, <1>2, <1>3 DEF RepeatInv, InOrder
  <2>2. ASSUME NEW m \in DOMAIN ran', NEW n \in DOMAIN ran',
               ran'[m].kind = "step", ran'[n].kind = "step", m < n
        PROVE  ran'[m].pos < ran'[n].pos
    <3>1. m \in DOMAIN ran /\ n \in DOMAIN ran
      BY <1>1, <1>2, <2>2
    <3>2. QED
      BY <1>1, <2>2, <3>1 DEF RepeatInv, InOrder
  <2>3. QED
    BY <1>0, <2>1, <2>2 DEF InOrder, Early
<1>5. /\ \A p : p # pos => Retries(p)' = Retries(p)
      /\ Retries(pos)' = Retries(pos) \union {Len(ran) + 1}
      /\ Len(ran) + 1 \notin Retries(pos)
  BY <1>0, <1>1, <1>2 DEF Retries
<1>6. Budgeted'
  <2>1. Cardinality(Retries(pos)') = Cardinality(Retries(pos)) + 1
    <3>1. IsFiniteSet(Retries(pos))
      BY RetriesAreFinite
    <3>2. Cardinality(Retries(pos) \union {Len(ran) + 1}) = Cardinality(Retries(pos)) + 1
      BY <1>5, <3>1, FS_AddElement
    <3>3. QED
      BY <1>5, <3>2
  <2>2. Cardinality(Retries(pos)) <= attempts /\ attempts < RetryMax
    BY <1>0 DEF RepeatInv, Budgeted, Verifying, StepInProgress, MayRetry
  <2>3. Cardinality(Retries(pos)') <= attempts' /\ attempts' <= RetryMax
    BY <1>0, <1>3, <2>1, <2>2, RetriesAreFinite
  <2>4. ASSUME NEW p \in 1..Clauses PROVE Cardinality(Retries(p)') <= RetryMax
    <3>1. CASE p = pos
      <4>1. Retries(p)' = Retries(pos)'
        BY <1>0, <3>1 DEF Retries
      <4>2. Cardinality(Retries(pos)') \in Nat
        BY <2>1, RetriesAreFinite
      <4>3. QED
        BY <1>0, <1>3, <2>3, <4>1, <4>2
    <3>2. CASE p # pos
      BY <1>5, <3>2 DEF RepeatInv, Budgeted
    <3>3. QED
      BY <3>1, <3>2
  <2>5. QED
    BY <2>3, <2>4 DEF Budgeted
<1>7. Repeatable'
  <2>1. Current' = Current
    BY <1>0 DEF Current
  <2>2. ClassOf(Current) # "read" /\ PolicyFor(Current) = "idempotent"
    BY <1>0 DEF RepeatInv, Repeatable, StepInProgress, MayRetry
  <2>3. ClassOf(Current) \in {"read", "write", "destructive"}
    BY DEF ClassOf, WorstFragment
  <2>4. ClassOf(Current) = "write" /\ Current.tool = "idempotent"
    BY <2>2, <2>3 DEF PolicyFor
  <2>5. QED
    BY <1>0, <1>1, <1>2, <2>1, <2>4 DEF RepeatInv, Repeatable
<1>8. QED
  BY <1>4, <1>6, <1>7 DEF RepeatInv

LEMMA StepRepeats == TypeInv /\ RepeatInv /\ [Next]_vars => RepeatInv'
<1> SUFFICES ASSUME TypeInv, RepeatInv, [Next]_vars PROVE RepeatInv'
  OBVIOUS
<1>0. TypeOK /\ StepInProgress
  BY DEF TypeInv
<1>1. CASE RecordUnresolved \/ RecordRefusal
  <2>1. ran' = ran /\ (Advance(TRUE, 1) \/ Advance(FALSE, 1))
    BY <1>1 DEF RecordUnresolved, RecordRefusal
  <2>2. QED
    BY <1>0, <2>1, AdvanceRepeats
<1>2. CASE \/ ResolveGate
           \/ \E answer \in Answer : OperatorAnswers(answer)
           \/ \E accepted \in BOOLEAN : Proceed(accepted)
  <2>1. /\ UNCHANGED <<steps, pos, ran, attempts>>
        /\ phase \in Early
        /\ phase' \in Early \/ phase' = "done"
    <3>1. GateOf(Current) \in Gate
      BY DEF GateOf, classify, GateFor, Gate, WorstFragment
    <3>2. QED
      BY <1>2, <3>1 DEF ResolveGate, OperatorAnswers, Proceed, Gate, Early,
         planVars, stepVars
  <2>2. QED
    BY <1>0, <2>1, SameRunRepeats
<1>3. ASSUME NEW ok \in BOOLEAN, NEW changed \in BOOLEAN, Dispatch(ok, changed)
      PROVE RepeatInv'
  BY <1>0, <1>3, ExecuteRepeats DEF Dispatch, planVars, stepVars
<1>4. CASE RecordStep
  <2>1. phase = "record" /\ ran' = ran
    BY <1>4 DEF RecordStep
  <2>2. CASE Advance(ClassOf(Current) = "destructive", 1)
    BY <1>0, <2>1, <2>2, AdvanceRepeats
  <2>3. CASE /\ ClassOf(Current) # "read" /\ phase' = "verify"
             /\ UNCHANGED <<planVars, stepVars>>
    BY <1>0, <2>1, <2>3, SameRunRepeats DEF planVars, stepVars, Verifying
  <2>4. QED
    BY <1>4, <2>2, <2>3 DEF RecordStep
<1>5. CASE RefuseRead
  <2>1. /\ ran' = ran /\ phase \in Verifying /\ ClassOf(Current) # "read"
        /\ Mismatch(records + 1)
    BY <1>5 DEF RefuseRead, Verifying, RepeatInv, Repeatable
  <2>2. QED
    BY <1>0, <2>1, MismatchRepeats
<1>6. ASSUME NEW match \in BOOLEAN, RunRead(match) PROVE RepeatInv'
  BY <1>0, <1>6, ExecuteRepeats DEF RunRead, planVars, stepVars
<1>7. CASE RecordRead
  <2>1. /\ ran' = ran /\ phase \in Verifying /\ ClassOf(Current) # "read"
        /\ Advance(FALSE, records + 1) \/ Mismatch(records + 1)
    BY <1>7 DEF RecordRead, Verifying, RepeatInv, Repeatable
  <2>2. QED
    BY <1>0, <2>1, AdvanceRepeats, MismatchRepeats
<1>8. ASSUME NEW changed \in BOOLEAN, Retry(changed) PROVE RepeatInv'
  BY <1>0, <1>8, RetryRepeats
<1>9. CASE RecordRetry
  <2>1. /\ UNCHANGED <<steps, pos, ran, attempts>>
        /\ phase \in Verifying /\ phase' = "verify"
        /\ ClassOf(Current) # "read"
    BY <1>9 DEF RecordRetry, Verifying, RepeatInv, Repeatable, planVars, stepVars
  <2>2. QED
    BY <1>0, <2>1, SameRunRepeats
<1>10. ASSUME NEW calls, Replan(calls) PROVE RepeatInv'
  BY <1>0, <1>10, NextStepRepeats DEF Replan
<1>11. CASE Raise
  BY <1>0, <1>11, SameRunRepeats DEF Raise, planVars, stepVars
<1>12. CASE UNCHANGED vars
  BY <1>0, <1>12, SameRunRepeats DEF vars, planVars, stepVars
<1>13. QED
  BY <1>1, <1>2, <1>3, <1>4, <1>5, <1>6, <1>7, <1>8, <1>9, <1>10, <1>11, <1>12
     DEF Next, OwnStep, Environment, Over

LEMMA InitRepeats == Init => RepeatInv
<1> SUFFICES ASSUME Init PROVE RepeatInv
  OBVIOUS
<1>1. ran = <<>> /\ phase = "proceed" /\ DOMAIN ran = {}
  BY DEF Init
<1>2. \A p : Retries(p) = {}
  BY <1>1 DEF Retries
<1>3. Budgeted
  BY <1>1, <1>2, LimitsAreNaturals, FS_EmptySet DEF Budgeted, Verifying
<1>4. QED
  BY <1>1, <1>3 DEF RepeatInv, InOrder, Repeatable

(* While a step is being verified no read has found its change in place,   *)
(* except the read whose record is due.                                    *)
FoundInPlace(n) == ran[n].kind = "read" /\ ran[n].ok

NotYetFound ==
    phase \in Verifying =>
        \A n \in DOMAIN ran :
            FoundInPlace(n) /\ ran[n].pos = pos => phase = "record" /\ n = Len(ran)

NeverAfterwards ==
    \A m, n \in DOMAIN ran :
        ran[n].kind = "retry" /\ m < n /\ FoundInPlace(m) => ran[m].pos # ran[n].pos

FoundInv == NotYetFound /\ NeverAfterwards

LEMMA ExecuteIsFound ==
    ASSUME TypeOK, RepeatInv, FoundInv, NEW kind, NEW ok, NEW changed,
           Execute(kind, ok, changed), pos' = pos, phase' = "record",
           phase \in {"dispatch", "verify", "retry"}
    PROVE  FoundInv'
<1> DEFINE done == [pos |-> pos, made |-> steps[pos].made, kind |-> kind,
                    call |-> Current, consent |-> consent,
                    ok |-> ok, changed |-> changed]
<1>1. /\ DOMAIN ran' = DOMAIN ran \union {Len(ran) + 1}
      /\ ran'[Len(ran) + 1] = done
      /\ \A n \in DOMAIN ran : ran'[n] = ran[n]
      /\ Len(ran') = Len(ran) + 1
      /\ DOMAIN ran = 1..Len(ran) /\ Len(ran) \in Nat
  BY DEF Execute, TypeOK
<1>2. done.pos = pos
  OBVIOUS
<1> HIDE DEF done
<1>3. pos \in 1..Clauses /\ \A n \in DOMAIN ran : ran[n].pos \in 1..Clauses
  BY RunsHavePositions DEF TypeOK
<1>4. \A n \in DOMAIN ran : FoundInPlace(n) => ran[n].pos # pos
  <2>1. CASE phase = "dispatch"
    BY <1>3, <2>1, LimitsAreNaturals DEF RepeatInv, InOrder, Early
  <2>2. CASE phase \in {"verify", "retry"}
    BY <2>2 DEF FoundInv, NotYetFound, Verifying
  <2>3. QED
    BY <2>1, <2>2
<1>5. \A n \in DOMAIN ran : FoundInPlace(n)' = FoundInPlace(n)
  BY <1>1 DEF FoundInPlace
<1>6. NotYetFound'
  BY <1>1, <1>4, <1>5 DEF NotYetFound
<1>7. ASSUME NEW m \in DOMAIN ran', NEW n \in DOMAIN ran',
             ran'[n].kind = "retry", m < n, FoundInPlace(m)'
      PROVE  ran'[m].pos # ran'[n].pos
  <2>1. m \in DOMAIN ran /\ FoundInPlace(m) /\ ran'[m] = ran[m]
    BY <1>1, <1>5, <1>7
  <2>2. CASE n \in DOMAIN ran
    BY <1>1, <1>7, <2>1, <2>2 DEF FoundInv, NeverAfterwards
  <2>3. CASE n = Len(ran) + 1
    BY <1>1, <1>2, <1>4, <2>1, <2>3
  <2>4. QED
    BY <1>1, <2>2, <2>3
<1>8. NeverAfterwards'
  BY <1>7 DEF NeverAfterwards
<1>9. QED
  BY <1>6, <1>8 DEF FoundInv

(* A step of run_plan that runs nothing.                                   *)
LEMMA QuietIsFound ==
    ASSUME FoundInv, ran' = ran,
           \/ phase' \notin Verifying
           \/ phase' = phase /\ pos' = pos
           \/ /\ pos' = pos /\ phase \in Verifying
              /\ phase = "record" => ~FoundInPlace(Len(ran))
    PROVE  FoundInv'
<1>1. \A n : FoundInPlace(n)' = FoundInPlace(n)
  BY DEF FoundInPlace
<1>2. NeverAfterwards'
  BY <1>1 DEF FoundInv, NeverAfterwards
<1>3. NotYetFound'
  BY <1>1 DEF FoundInv, NotYetFound
<1>4. QED
  BY <1>2, <1>3 DEF FoundInv

LEMMA AdvanceLeaves ==
    ASSUME NEW invalidated, NEW written, Advance(invalidated, written)
    PROVE  phase' \notin Verifying
BY DEF Advance, Verifying

LEMMA StepFound == TypeInv /\ RepeatInv /\ FoundInv /\ [Next]_vars => FoundInv'
<1> SUFFICES ASSUME TypeInv, RepeatInv, FoundInv, [Next]_vars PROVE FoundInv'
  OBVIOUS
<1>0. TypeOK
  BY DEF TypeInv
<1>1. CASE RecordUnresolved \/ RecordRefusal
  BY <1>1, AdvanceLeaves, QuietIsFound DEF RecordUnresolved, RecordRefusal
<1>2. CASE \/ ResolveGate
           \/ \E answer \in Answer : OperatorAnswers(answer)
           \/ \E accepted \in BOOLEAN : Proceed(accepted)
           \/ \E calls : Replan(calls)
           \/ Raise
  <2>1. ran' = ran /\ phase' \notin Verifying
    <3>1. GateOf(Current) \in Gate
      BY DEF GateOf, classify, GateFor, Gate, WorstFragment
    <3>2. QED
      BY <1>2, <3>1 DEF ResolveGate, OperatorAnswers, Proceed, Replan, Raise,
         Gate, Verifying
  <2>2. QED
    BY <2>1, QuietIsFound
<1>3. CASE \/ \E ok, changed \in BOOLEAN : Dispatch(ok, changed)
           \/ \E match \in BOOLEAN : RunRead(match)
           \/ \E changed \in BOOLEAN : Retry(changed)
  <2>1. PICK kind, ok, changed : Execute(kind, ok, changed)
    BY <1>3 DEF Dispatch, RunRead, Retry
  <2>2. /\ pos' = pos /\ phase' = "record"
        /\ phase \in {"dispatch", "verify", "retry"}
    BY <1>3 DEF Dispatch, RunRead, Retry, planVars
  <2>3. QED
    BY <1>0, <2>1, <2>2, ExecuteIsFound
<1>4. CASE RecordStep
  <2>1. phase = "record" /\ ran' = ran /\ ~FoundInPlace(Len(ran))
    BY <1>4 DEF RecordStep, FoundInPlace
  <2>2. \/ Advance(ClassOf(Current) = "destructive", 1)
        \/ UNCHANGED <<planVars, stepVars>>
    BY <1>4 DEF RecordStep
  <2>3. QED
    BY <2>1, <2>2, AdvanceLeaves, QuietIsFound DEF planVars, Verifying
<1>5. CASE RefuseRead \/ RecordRead
  <2>1. /\ phase \in Verifying /\ ran' = ran
        /\ \/ \E invalidated, written : Advance(invalidated, written)
           \/ /\ pos' = pos
              /\ phase = "record" => ~FoundInPlace(Len(ran))
    BY <1>5 DEF RefuseRead, RecordRead, Mismatch, FoundInPlace, Verifying, planVars
  <2>2. QED
    BY <2>1, AdvanceLeaves, QuietIsFound
<1>6. CASE RecordRetry
  <2>1. /\ phase = "record" /\ ran' = ran /\ ~FoundInPlace(Len(ran))
        /\ pos' = pos
    BY <1>6 DEF RecordRetry, FoundInPlace, planVars
  <2>2. QED
    BY <2>1, QuietIsFound DEF Verifying
<1>7. CASE UNCHANGED vars
  BY <1>7, QuietIsFound DEF vars, planVars
<1>8. QED
  BY <1>1, <1>2, <1>3, <1>4, <1>5, <1>6, <1>7 DEF Next, OwnStep, Environment, Over

(* No clause is carried out twice, and only a change that is safe to       *)
(* repeat is repeated, within the budget of retries and never once a read  *)
(* found it in place, whatever is planned again in between: run_plan,      *)
(* verify, retry_policy_for.                                               *)
THEOREM RepetitionIsSafe == Spec => []RepeatsAreSafe
<1>1. TypeInv /\ RepeatInv /\ FoundInv => RepeatsAreSafe
  <2> SUFFICES ASSUME TypeInv, RepeatInv, FoundInv PROVE RepeatsAreSafe
    OBVIOUS
  <2>1. ASSUME NEW n \in DOMAIN ran
        PROVE  Cardinality({k \in DOMAIN ran :
                 ran[k].kind = "retry" /\ ran[k].pos = ran[n].pos}) <= RetryMax
    <3>1. ran[n].pos \in 1..Clauses
      BY RunsHavePositions DEF TypeInv
    <3>2. QED
      BY <3>1 DEF RepeatInv, Budgeted, Retries
  <2>2. \A m, n \in DOMAIN ran :
          ran[m].kind = "step" /\ ran[n].kind = "step" /\ m < n =>
              ran[m].pos < ran[n].pos
    BY DEF RepeatInv, InOrder
  <2>3. \A n \in DOMAIN ran :
          ran[n].kind = "retry" =>
              ClassOf(ran[n].call) = "write" /\ ran[n].call.tool = "idempotent"
    BY DEF RepeatInv, Repeatable
  <2>4. \A m, n \in DOMAIN ran :
          ran[n].kind = "retry" /\ m < n /\ ran[m].kind = "read" /\ ran[m].ok =>
              ran[m].pos # ran[n].pos
    BY DEF FoundInv, NeverAfterwards, FoundInPlace
  <2>5. QED
    BY <2>1, <2>2, <2>3, <2>4 DEF RepeatsAreSafe
<1>2. Init => FoundInv
  BY DEF Init, FoundInv, NotYetFound, NeverAfterwards, Verifying
<1>3. QED
  BY <1>1, <1>2, InitTypeInv, StepTypeInv, InitRepeats, StepRepeats, StepFound, PTL
     DEF Spec
-----------------------------------------------------------------------------
(* The log. Outside the moment between an operation and its record, every  *)
(* operation so far has its record; within it, all but the last.           *)

Logged ==
    /\ \A n \in RanRecords :
           /\ audit[n].op \in 1..Len(ran)
           /\ phase = "record" => audit[n].op < Len(ran)
    /\ \A m, n \in RanRecords : m < n => audit[m].op < audit[n].op
    /\ DOMAIN ran \ Recorded \subseteq
         IF phase \in {"record", "raised"} THEN {Len(ran)} ELSE {}

LEMMA RecordsAreTyped ==
    ASSUME TypeOK
    PROVE  /\ Len(ran) \in Nat /\ DOMAIN ran = 1..Len(ran)
           /\ Len(audit) \in Nat /\ DOMAIN audit = 1..Len(audit)
           /\ \A n \in DOMAIN audit : audit[n].op \in Nat
<1>1. ASSUME NEW n \in DOMAIN audit PROVE audit[n].op \in Nat
  <2>1. audit[n] \in AuditRecord
    BY DEF TypeOK
  <2>2. QED
    BY <2>1 DEF AuditRecord
<1>2. QED
  BY <1>1 DEF TypeOK

(* The log with one more record at its end.                                *)
LEMMA OneMoreRecord ==
    ASSUME TypeOK, NEW kind \in {"ran", "refused", "unresolved", "unread"},
           NEW op \in Nat, audit' = Append(audit, [kind |-> kind, op |-> op])
    PROVE  /\ Len(audit') = Len(audit) + 1
           /\ \A n \in DOMAIN audit : audit'[n] = audit[n]
           /\ audit'[Len(audit) + 1].op = op
           /\ RanRecords \subseteq DOMAIN audit
           /\ RanRecords' = RanRecords \union
                (IF kind = "ran" THEN {Len(audit) + 1} ELSE {})
           /\ Recorded' = Recorded \union (IF kind = "ran" THEN {op} ELSE {})
<1> DEFINE last == [kind |-> kind, op |-> op]
<1>1. last.kind = kind /\ last.op = op
  OBVIOUS
<1>2. audit' = Append(audit, last)
  OBVIOUS
<1>0. last \in AuditRecord
  BY DEF AuditRecord
<1> HIDE DEF last
<1>3. /\ Len(audit') = Len(audit) + 1
      /\ DOMAIN audit' = DOMAIN audit \union {Len(audit) + 1}
      /\ Len(audit) + 1 \notin DOMAIN audit
      /\ audit'[Len(audit) + 1] = last
      /\ \A n \in DOMAIN audit : audit'[n] = audit[n]
  <2>1. audit \in Seq(AuditRecord)
    BY DEF TypeOK
  <2>2. Len(Append(audit, last)) = Len(audit) + 1
    BY <2>1
  <2>3. QED
    BY <1>0, <1>2, <2>1, <2>2, AppendedElements
<1>4. RanRecords' = RanRecords \union (IF kind = "ran" THEN {Len(audit) + 1} ELSE {})
  BY <1>1, <1>3 DEF RanRecords
<1>5. RanRecords \subseteq DOMAIN audit
  BY DEF RanRecords
<1>6. Recorded' = Recorded \union (IF kind = "ran" THEN {op} ELSE {})
  BY <1>1, <1>3, <1>4, <1>5 DEF Recorded
<1>7. QED
  BY <1>1, <1>3, <1>4, <1>5, <1>6

(* A step that neither runs nor records anything.                          *)
LEMMA QuietIsLogged ==
    ASSUME TypeOK, Logged, UNCHANGED <<ran, audit>>,
           \/ phase' = phase
           \/ phase' = "raised"
           \/ phase \notin {"record", "raised"} /\ phase' # "record"
    PROVE  Logged'
<1>1. RanRecords' = RanRecords /\ Recorded' = Recorded
  BY DEF RanRecords, Recorded
<1>2. QED
  BY <1>1 DEF Logged

(* An operation runs: its record is owed.                                  *)
LEMMA ExecuteIsLogged ==
    ASSUME TypeOK, Logged, audit' = audit,
           phase \notin {"record", "raised"}, phase' = "record",
           NEW kind, NEW ok, NEW changed, Execute(kind, ok, changed)
    PROVE  Logged'
<1>1. RanRecords' = RanRecords /\ Recorded' = Recorded
  BY DEF RanRecords, Recorded
<1>2. Len(ran') = Len(ran) + 1 /\ DOMAIN ran' = DOMAIN ran \union {Len(ran) + 1}
  BY DEF Execute, TypeOK
<1>3. \A n \in RanRecords' : audit'[n].op \in 1..Len(ran') /\ audit'[n].op < Len(ran')
  BY <1>1, <1>2, RecordsAreTyped DEF Logged
<1>4. DOMAIN ran' \ Recorded' \subseteq {Len(ran')}
  BY <1>1, <1>2 DEF Logged
<1>5. QED
  BY <1>1, <1>3, <1>4 DEF Logged

(* The record of the last operation.                                       *)
LEMMA RecordIsLogged ==
    ASSUME TypeOK, Logged, ran' = ran, phase = "record", phase' # "record",
           audit' = Append(audit, [kind |-> "ran", op |-> Len(ran)]),
           ran # <<>>
    PROVE  Logged'
<1>1. /\ Len(audit') = Len(audit) + 1
      /\ \A n \in DOMAIN audit : audit'[n] = audit[n]
      /\ audit'[Len(audit) + 1].op = Len(ran)
      /\ RanRecords \subseteq DOMAIN audit
      /\ RanRecords' = RanRecords \union {Len(audit) + 1}
      /\ Recorded' = Recorded \union {Len(ran)}
  <2>1. "ran" \in {"ran", "refused", "unresolved", "unread"} /\ Len(ran) \in Nat
    BY RecordsAreTyped
  <2>2. /\ Len(audit') = Len(audit) + 1
        /\ \A n \in DOMAIN audit : audit'[n] = audit[n]
        /\ audit'[Len(audit) + 1].op = Len(ran)
        /\ RanRecords \subseteq DOMAIN audit
        /\ RanRecords' = RanRecords \union
             (IF "ran" = "ran" THEN {Len(audit) + 1} ELSE {})
        /\ Recorded' = Recorded \union (IF "ran" = "ran" THEN {Len(ran)} ELSE {})
    BY <2>1, OneMoreRecord, Zenon
  <2>3. QED
    BY <2>2
<1>2. /\ DOMAIN audit = 1..Len(audit) /\ Len(audit) \in Nat
      /\ Len(ran) \in Nat /\ Len(ran) >= 1
  BY RecordsAreTyped DEF TypeOK
<1>3. \A n \in RanRecords' : audit'[n].op \in 1..Len(ran')
  BY <1>1, <1>2 DEF Logged
<1>4. \A m, n \in RanRecords' : m < n => audit'[m].op < audit'[n].op
  BY <1>1, <1>2 DEF Logged
<1>5. DOMAIN ran' \ Recorded' \subseteq {}
  BY <1>1 DEF Logged
<1>6. QED
  BY <1>1, <1>3, <1>4, <1>5, RecordsAreTyped DEF Logged

(* A record that is not about an operation.                                *)
LEMMA OtherIsLogged ==
    ASSUME TypeOK, Logged, ran' = ran, phase # "record", phase' # "record",
           phase # "raised",
           NEW kind \in {"refused", "unresolved", "unread"},
           audit' = Append(audit, [kind |-> kind, op |-> 0])
    PROVE  Logged'
<1>1. /\ Len(audit') = Len(audit) + 1
      /\ \A n \in DOMAIN audit : audit'[n] = audit[n]
      /\ RanRecords \subseteq DOMAIN audit
      /\ RanRecords' = RanRecords
      /\ Recorded' = Recorded
  BY OneMoreRecord
<1>2. QED
  BY <1>1 DEF Logged

LEMMA AdvanceMovesOn ==
    ASSUME NEW invalidated \in BOOLEAN, NEW written,
           Advance(invalidated, written)
    PROVE  phase' \in {"step", "replan", "done"}
BY DEF Advance

LEMMA MismatchMovesOn ==
    ASSUME NEW written, Mismatch(written) PROVE phase' \in {"retry", "step", "replan", "done"}
<1>1. CASE Advance(TRUE, written)
  BY <1>1, AdvanceMovesOn
<1>2. CASE phase' = "retry"
  BY <1>2
<1>3. QED
  BY <1>1, <1>2, Zenon DEF Mismatch

(* In phase "record" there is an operation to record.                      *)
SomethingRan == phase = "record" => ran # <<>>

LEMMA StepSomethingRan == TypeInv /\ SomethingRan /\ [Next]_vars => SomethingRan'
<1> SUFFICES ASSUME TypeInv, SomethingRan, [Next]_vars, phase' = "record"
             PROVE  ran' # <<>>
  BY DEF SomethingRan
<1>1. CASE \E kind, ok, changed : Execute(kind, ok, changed)
  <2>1. PICK e : ran' = Append(ran, e)
    BY <1>1 DEF Execute
  <2>2. DOMAIN ran' = 1..(Len(ran) + 1) /\ Len(ran) \in Nat
    BY <2>1 DEF TypeInv, TypeOK
  <2>3. QED
    BY <2>2
<1>2. CASE UNCHANGED vars
  BY <1>2 DEF vars, SomethingRan
<1>3. ASSUME ResolveGate PROVE FALSE
  <2>1. GateOf(Current) \in Gate
    BY DEF GateOf, classify, GateFor, Gate, WorstFragment
  <2>2. QED
    BY <1>3, <2>1 DEF ResolveGate, Gate
<1>4. ASSUME \/ RecordUnresolved \/ RecordRefusal \/ RecordStep \/ RefuseRead
             \/ RecordRead \/ RecordRetry
      PROVE  FALSE
  BY <1>4, AdvanceMovesOn, MismatchMovesOn DEF RecordUnresolved, RecordRefusal,
     RecordStep, RefuseRead, RecordRead, RecordRetry
<1>5. ASSUME \/ \E answer \in Answer : OperatorAnswers(answer)
             \/ \E accepted \in BOOLEAN : Proceed(accepted)
             \/ \E calls : Replan(calls)
             \/ Raise
      PROVE  FALSE
  BY <1>5 DEF OperatorAnswers, Proceed, Replan, Raise
<1>6. QED
  BY <1>1, <1>2, <1>3, <1>4, <1>5 DEF Next, OwnStep, Environment, Over,
     Dispatch, RunRead, Retry

LEMMA StepLogged == TypeInv /\ SomethingRan /\ Logged /\ [Next]_vars => Logged'
<1> SUFFICES ASSUME TypeInv, SomethingRan, Logged, [Next]_vars PROVE Logged'
  OBVIOUS
<1>0. TypeOK
  BY DEF TypeInv
<1>1. CASE RecordUnresolved \/ RecordRefusal \/ RefuseRead
  <2>1. PICK kind \in {"refused", "unresolved", "unread"} : Write(kind, 0)
    BY <1>1 DEF RecordUnresolved, RecordRefusal, RefuseRead
  <2>2. /\ phase \in {"step", "refuse", "verify"} /\ ran' = ran
        /\ phase' \in {"retry", "step", "replan", "done"}
    BY <1>1, AdvanceMovesOn, MismatchMovesOn
       DEF RecordUnresolved, RecordRefusal, RefuseRead
  <2>3. QED
    BY <1>0, <2>1, <2>2, OtherIsLogged DEF Write
<1>2. CASE \/ ResolveGate
           \/ \E answer \in Answer : OperatorAnswers(answer)
           \/ \E accepted \in BOOLEAN : Proceed(accepted)
           \/ \E calls : Replan(calls)
  <2>1. /\ UNCHANGED <<ran, audit>>
        /\ phase \in {"step", "confirm", "proceed", "replan"}
        /\ phase' # "record"
    <3>1. GateOf(Current) \in Gate
      BY DEF GateOf, classify, GateFor, Gate, WorstFragment
    <3>2. QED
      BY <1>2, <3>1 DEF ResolveGate, OperatorAnswers, Proceed, Replan, Gate,
         logVars
  <2>2. QED
    BY <1>0, <2>1, QuietIsLogged
<1>3. CASE \/ \E ok, changed \in BOOLEAN : Dispatch(ok, changed)
           \/ \E match \in BOOLEAN : RunRead(match)
           \/ \E changed \in BOOLEAN : Retry(changed)
  <2>1. PICK kind, ok, changed : Execute(kind, ok, changed)
    BY <1>3 DEF Dispatch, RunRead, Retry
  <2>2. /\ audit' = audit /\ phase' = "record"
        /\ phase \in {"dispatch", "verify", "retry"}
    BY <1>3 DEF Dispatch, RunRead, Retry, logVars
  <2>3. QED
    BY <1>0, <2>1, <2>2, ExecuteIsLogged
<1>4. CASE RecordStep \/ RecordRead \/ RecordRetry
  <2>1. /\ phase = "record" /\ ran' = ran /\ Write("ran", Len(ran))
        /\ phase' \in {"verify", "retry", "step", "replan", "done"}
    BY <1>4, AdvanceMovesOn, MismatchMovesOn DEF RecordStep, RecordRead, RecordRetry
  <2>2. QED
    BY <1>0, <2>1, RecordIsLogged DEF Write, SomethingRan
<1>5. CASE Raise
  <2>1. phase' = "raised" /\ ran' = ran /\ phase # "raised"
    BY <1>5 DEF Raise
  <2>2. CASE audit' = audit
    BY <1>0, <2>1, <2>2, QuietIsLogged
  <2>3. CASE \E record \in Owed : audit' = Append(audit, record)
    <3>1. \/ /\ phase = "record"
             /\ audit' = Append(audit, [kind |-> "ran", op |-> Len(ran)])
          \/ /\ phase # "record"
             /\ \E kind \in {"refused", "unresolved", "unread"} :
                   audit' = Append(audit, [kind |-> kind, op |-> 0])
      BY <2>3 DEF Owed
    <3>2. QED
      BY <1>0, <2>1, <3>1, RecordIsLogged, OtherIsLogged DEF SomethingRan
  <2>4. QED
    BY <1>5, <2>2, <2>3 DEF Raise
<1>6. CASE UNCHANGED vars
  BY <1>0, <1>6, QuietIsLogged DEF vars, logVars
<1>7. QED
  BY <1>1, <1>2, <1>3, <1>4, <1>5, <1>6 DEF Next, OwnStep, Environment, Over

(* What Execute leaves at the end of ran.                                  *)
LEMMA LastRan ==
    ASSUME TypeOK, NEW kind, NEW ok, NEW changed, Execute(kind, ok, changed)
    PROVE  ran'[Len(ran')].kind = kind
BY DEF Execute, TypeOK

(* The counts. Between the steps nothing is left in records, nor while the *)
(* operation of the step has no record yet.                                *)
Counts == counted + records
Agree == Len(audit) \in Counts..(Counts + IF phase = "raised" THEN 1 ELSE 0)
NothingPending ==
    \/ phase \in {"verify", "retry", "raised"}
    \/ phase = "record" /\ ran[Len(ran)].kind # "step"
    \/ records = 0

Tallied == Agree /\ NothingPending

(* A record is counted: in records while the step goes on, else in counted. *)
LEMMA RecordIsTallied ==
    ASSUME TypeOK, Tallied, phase # "raised",
           NEW kind, NEW op, Write(kind, op),
           NEW written \in Nat, written = records + 1,
           \/ \E invalidated \in BOOLEAN : Advance(invalidated, written)
           \/ /\ phase' \in {"verify", "retry"}
              /\ records' = written /\ counted' = counted
    PROVE  Tallied'
<1>1. Len(audit') = Len(audit) + 1
  BY DEF Write, TypeOK
<1>2. /\ counted \in Nat /\ records \in Nat /\ Len(audit) \in Nat
      /\ Len(audit) = counted + records
  BY DEF Tallied, Agree, Counts, TypeOK
<1>3. CASE \E invalidated \in BOOLEAN : Advance(invalidated, written)
  <2>1. /\ counted' = counted + written /\ records' = 0
        /\ phase' \in {"step", "replan", "done"}
    BY <1>3, AdvanceMovesOn DEF Advance
  <2>2. Len(audit') = counted' + records' /\ Len(audit') \in Nat
    BY <1>1, <1>2, <2>1
  <2>3. QED
    BY <2>1, <2>2 DEF Tallied, Agree, Counts, NothingPending
<1>4. CASE /\ phase' \in {"verify", "retry"}
           /\ records' = written /\ counted' = counted
  <2>1. Len(audit') = counted' + records' /\ Len(audit') \in Nat
    BY <1>1, <1>2, <1>4
  <2>2. QED
    BY <1>4, <2>1 DEF Tallied, Agree, Counts, NothingPending
<1>5. QED
  BY <1>3, <1>4

LEMMA QuietIsTallied ==
    ASSUME TypeOK, Tallied, UNCHANGED <<audit, records, counted>>,
           \/ UNCHANGED <<phase, ran>>
           \/ phase' = "raised"
           \/ /\ phase \notin {"verify", "retry", "record", "raised"}
              /\ phase' # "raised"
           \/ /\ phase \in {"verify", "retry"} /\ phase' = "record"
              /\ ran'[Len(ran')].kind # "step"
    PROVE  Tallied'
<1>1. /\ counted \in Nat /\ records \in Nat /\ Len(audit) \in Nat
  BY DEF TypeOK
<1>2. Counts' = Counts /\ Len(audit') = Len(audit) /\ Counts \in Nat
  BY <1>1 DEF Counts
<1> HIDE DEF Counts
<1>3. Agree'
  BY <1>1, <1>2 DEF Tallied, Agree
<1>4. NothingPending'
  BY DEF Tallied, NothingPending
<1>5. QED
  BY <1>3, <1>4 DEF Tallied

LEMMA StepTallied == TypeInv /\ Tallied /\ [Next]_vars => Tallied'
<1> SUFFICES ASSUME TypeInv, Tallied, [Next]_vars PROVE Tallied'
  OBVIOUS
<1>0. TypeOK /\ records \in Nat /\ records + 1 \in Nat /\ 1 \in Nat
  BY DEF TypeInv, TypeOK
<1>1. CASE RecordUnresolved \/ RecordRefusal
  <2>1. /\ phase # "raised" /\ records = 0
        /\ \E kind, op : Write(kind, op)
        /\ \E invalidated \in BOOLEAN : Advance(invalidated, 1)
    BY <1>1 DEF RecordUnresolved, RecordRefusal, Tallied, NothingPending
  <2>2. 1 = records + 1
    BY <2>1
  <2>3. QED
    BY <1>0, <2>1, <2>2, RecordIsTallied
<1>2. CASE RecordStep
  <2>1. /\ phase # "raised" /\ records = 0
        /\ Write("ran", Len(ran))
        /\ \/ \E invalidated \in BOOLEAN : Advance(invalidated, 1)
           \/ phase' \in {"verify", "retry"} /\ records' = 1 /\ counted' = counted
    BY <1>2 DEF RecordStep, Tallied, NothingPending
  <2>2. 1 = records + 1
    BY <2>1
  <2>3. QED
    BY <1>0, <2>1, <2>2, RecordIsTallied
<1>3. CASE RefuseRead \/ RecordRead \/ RecordRetry
  <2>1. /\ phase # "raised"
        /\ \E kind, op : Write(kind, op)
        /\ \/ \E invalidated \in BOOLEAN : Advance(invalidated, records + 1)
           \/ /\ phase' \in {"verify", "retry"}
              /\ records' = records + 1 /\ counted' = counted
    BY <1>3 DEF RefuseRead, RecordRead, RecordRetry, Mismatch
  <2>2. QED
    BY <1>0, <2>1, RecordIsTallied
<1>4. CASE \/ ResolveGate
           \/ \E answer \in Answer : OperatorAnswers(answer)
           \/ \E accepted \in BOOLEAN : Proceed(accepted)
           \/ \E calls : Replan(calls)
           \/ \E ok, changed \in BOOLEAN : Dispatch(ok, changed)
  <2>1. /\ UNCHANGED <<audit, records, counted>>
        /\ phase \in {"step", "confirm", "proceed", "replan", "dispatch"}
        /\ phase' # "raised"
    <3>1. GateOf(Current) \in Gate
      BY DEF GateOf, classify, GateFor, Gate, WorstFragment
    <3>2. QED
      BY <1>4, <3>1 DEF ResolveGate, OperatorAnswers, Proceed, Replan, Dispatch,
         Gate, logVars
  <2>2. QED
    BY <1>0, <2>1, QuietIsTallied
<1>5. CASE \/ \E match \in BOOLEAN : RunRead(match)
           \/ \E changed \in BOOLEAN : Retry(changed)
  <2>1. PICK kind \in {"read", "retry"}, ok \in BOOLEAN, changed \in BOOLEAN :
            Execute(kind, ok, changed)
    BY <1>5 DEF RunRead, Retry
  <2>2. /\ UNCHANGED <<audit, records, counted>> /\ phase' = "record"
        /\ phase \in {"verify", "retry"}
    BY <1>5 DEF RunRead, Retry, logVars
  <2>3. ran'[Len(ran')].kind = kind
    BY <1>0, <2>1, LastRan
  <2>4. QED
    BY <1>0, <2>1, <2>2, <2>3, QuietIsTallied
<1>6. CASE Raise
  <2>1. /\ phase' = "raised" /\ phase # "raised"
        /\ records' = records /\ counted' = counted
        /\ audit' = audit \/ \E record : audit' = Append(audit, record)
    BY <1>6 DEF Raise
  <2>2. Len(audit') \in {Len(audit), Len(audit) + 1} /\ Len(audit) \in Nat
    BY <1>0, <2>1 DEF TypeOK
  <2>3. counted \in Nat /\ Len(audit) = counted + records
    BY <1>0, <2>1 DEF TypeOK, Tallied, Agree, Counts
  <2>4. Agree'
    BY <1>0, <2>1, <2>2, <2>3 DEF Agree, Counts
  <2>5. QED
    BY <2>1, <2>4 DEF Tallied, NothingPending
<1>7. CASE UNCHANGED vars
  BY <1>0, <1>7, QuietIsTallied DEF vars, logVars
<1>8. QED
  BY <1>1, <1>2, <1>3, <1>4, <1>5, <1>6, <1>7 DEF Next, OwnStep, Environment, Over

(* Each operation of a plan, retries and verifying reads included, has its *)
(* own record, in the order of execution and before the next one runs, and *)
(* the counts that run_plan and verify keep agree with the log.            *)
THEOREM RecordsKeepUp == Spec => []RecordsFollowRuns
<1>1. Init => SomethingRan /\ Logged /\ Tallied
  <2> SUFFICES ASSUME Init PROVE SomethingRan /\ Logged /\ Tallied
    OBVIOUS
  <2>1. /\ ran = <<>> /\ audit = <<>> /\ phase = "proceed"
        /\ records = 0 /\ counted = 0
    BY DEF Init
  <2>2. RanRecords = {}
    BY <2>1 DEF RanRecords
  <2>3. QED
    BY <2>1, <2>2 DEF SomethingRan, Logged, Tallied, Agree, Counts, NothingPending
<1>2. Logged /\ Tallied => RecordsFollowRuns
  BY DEF Logged, Tallied, Agree, Counts, NothingPending, RecordsFollowRuns
<1>3. QED
  BY <1>1, <1>2, InitTypeInv, StepTypeInv, StepSomethingRan, StepLogged, StepTallied,
     PTL DEF Spec
-----------------------------------------------------------------------------
(* The cached snapshot. StaleHasCause is inductive with the fact that the  *)
(* operation to record is the call of the step in progress: recording it   *)
(* drops the snapshot exactly if that operation then counts as one that    *)
(* does.                                                                   *)

LastIsCurrent == phase = "record" => ran[Len(ran)].call = Current

CacheInv == StaleHasCause /\ LastIsCurrent

(* What may drop the snapshot of what has run.                             *)
Drops(n) ==
    \/ ran[n].kind = "retry"
    \/ ran[n].kind = "step" /\ ran[n].ok /\ ClassOf(ran[n].call) # "read"

(* The snapshot stays stale for the same step as long as nothing that ran  *)
(* since starts to count as a drop.                                        *)
LEMMA CauseStays ==
    ASSUME StaleHasCause, ran' = ran, cache' = "stale" => cache = "stale",
           cache' = "stale" => \A m \in DOMAIN ran : Invalidates(m)' => Invalidates(m),
           Len(ran) \in Nat, DOMAIN ran = 1..Len(ran)
    PROVE  StaleHasCause'
<1> SUFFICES ASSUME cache' = "stale" PROVE StaleHasCause'
  BY DEF StaleHasCause
<1>1. PICK n \in DOMAIN ran :
          /\ ran[n].kind = "step" /\ ran[n].changed
          /\ \A m \in n..Len(ran) : ~Invalidates(m)
  BY DEF StaleHasCause
<1>2. \A m \in n..Len(ran) : m \in DOMAIN ran
  OBVIOUS
<1>3. \A m \in n..Len(ran) : ~Invalidates(m)'
  BY <1>1, <1>2
<1>4. \A m \in n..Len(ran') : ~Invalidates(m)'
  BY <1>3
<1>5. QED
  BY <1>1, <1>4 DEF StaleHasCause

(* An operation that is no retry extends what has run since the change.    *)
LEMMA ExecuteKeepsCause ==
    ASSUME TypeOK, CacheInv, NEW kind \in {"step", "read"},
           NEW ok \in BOOLEAN, NEW changed \in BOOLEAN,
           Execute(kind, ok, changed), phase' = "record",
           phase \in {"dispatch", "verify"},
           UNCHANGED <<steps, pos>>,
           cache' = "stale" /\ cache # "stale" => kind = "step" /\ changed
    PROVE  CacheInv'
<1> DEFINE done == [pos |-> pos, made |-> steps[pos].made, kind |-> kind,
                    call |-> Current, consent |-> consent,
                    ok |-> ok, changed |-> changed]
<1>0. PICK last : last = Len(ran) + 1
  OBVIOUS
<1>1. /\ DOMAIN ran' = DOMAIN ran \union {last}
      /\ ran'[last] = done
      /\ \A n \in DOMAIN ran : ran'[n] = ran[n]
      /\ Len(ran') = last
      /\ DOMAIN ran = 1..Len(ran) /\ Len(ran) \in Nat
      /\ last = Len(ran) + 1
  BY <1>0 DEF Execute, TypeOK
<1>2. done.kind = kind /\ done.changed = changed /\ done.call = Current
  OBVIOUS
<1> HIDE DEF done
<1>3. LastIsCurrent'
  BY <1>1, <1>2 DEF LastIsCurrent, Current
<1>4. ~Invalidates(last)'
  BY <1>1, <1>2 DEF Invalidates
<1>5. CASE kind = "step" /\ changed
  <2>1. /\ last \in DOMAIN ran' /\ last = Len(ran')
        /\ ran'[last].kind = "step" /\ ran'[last].changed
        /\ \A m \in last..last : m = last
    BY <1>1, <1>2, <1>5
  <2>2. \A m \in last..Len(ran') : ~Invalidates(m)'
    BY <1>4, <2>1
  <2>3. StaleHasCause'
    BY <2>1, <2>2 DEF StaleHasCause
  <2>4. QED
    BY <1>3, <2>3 DEF CacheInv
<1>6. ASSUME cache = "stale" PROVE StaleHasCause'
  <2>1. PICK n \in DOMAIN ran :
            /\ ran[n].kind = "step" /\ ran[n].changed
            /\ \A m \in n..Len(ran) : ~Invalidates(m)
    BY <1>6 DEF CacheInv, StaleHasCause
  <2>2. ran'[n] = ran[n] /\ n \in DOMAIN ran'
    BY <1>1
  <2>3. \A m \in DOMAIN ran : Invalidates(m)' => Invalidates(m)
    BY <1>1 DEF Invalidates
  <2>4. \A m \in n..last : m = last \/ (m \in n..Len(ran) /\ m \in DOMAIN ran)
    BY <1>0, <1>1
  <2>5. \A m \in n..Len(ran') : ~Invalidates(m)'
    BY <1>1, <1>4, <2>1, <2>3, <2>4
  <2>6. QED
    BY <2>1, <2>2, <2>5 DEF StaleHasCause
<1>7. QED
  BY <1>3, <1>5, <1>6 DEF CacheInv, StaleHasCause

LEMMA StepCacheInv == TypeInv /\ CacheInv /\ [Next]_vars => CacheInv'
<1> SUFFICES ASSUME TypeInv, CacheInv, [Next]_vars PROVE CacheInv'
  OBVIOUS
<1>0. TypeOK /\ Len(ran) \in Nat /\ DOMAIN ran = 1..Len(ran)
  BY RecordsAreTyped DEF TypeInv
<1>1. CASE \/ RecordUnresolved \/ RecordRefusal \/ RefuseRead \/ ResolveGate
           \/ \E answer \in Answer : OperatorAnswers(answer)
           \/ \E accepted \in BOOLEAN : Proceed(accepted)
           \/ \E calls : Replan(calls)
  <2>1. UNCHANGED <<ran, cache>> /\ phase \notin {"record", "raised"}
    BY <1>1 DEF RecordUnresolved, RecordRefusal, RefuseRead, ResolveGate,
       OperatorAnswers, Proceed, Replan
  <2>2. phase' # "record"
    <3>1. GateOf(Current) \in Gate
      BY DEF GateOf, classify, GateFor, Gate, WorstFragment
    <3>2. QED
      BY <1>1, <3>1, AdvanceMovesOn, MismatchMovesOn
         DEF RecordUnresolved, RecordRefusal, RefuseRead, ResolveGate,
         OperatorAnswers, Proceed, Replan, Gate
  <2>3. \A m \in DOMAIN ran : Invalidates(m)' => Invalidates(m)
    BY <2>1 DEF Invalidates
  <2>4. QED
    BY <1>0, <2>1, <2>2, <2>3, CauseStays DEF CacheInv, LastIsCurrent
<1>2. ASSUME NEW ok \in BOOLEAN, NEW changed \in BOOLEAN, Dispatch(ok, changed)
      PROVE  CacheInv'
  <2>1. /\ phase = "dispatch" /\ phase' = "record" /\ UNCHANGED <<steps, pos>>
        /\ Execute("step", ok, changed)
        /\ cache' = "stale" /\ cache # "stale" => changed
    BY <1>2 DEF Dispatch, planVars
  <2>2. QED
    BY <1>0, <2>1, ExecuteKeepsCause
<1>3. ASSUME NEW match \in BOOLEAN, RunRead(match) PROVE CacheInv'
  <2>1. /\ phase = "verify" /\ phase' = "record" /\ UNCHANGED <<steps, pos, cache>>
        /\ Execute("read", match, FALSE)
    BY <1>3 DEF RunRead, planVars
  <2>2. FALSE \in BOOLEAN /\ "read" \in {"step", "read"} /\ "read" # "step"
    OBVIOUS
  <2>3. QED
    BY <1>0, <2>1, <2>2, ExecuteKeepsCause
<1>4. CASE RecordStep
  <2>1. /\ phase = "record" /\ ran' = ran
        /\ cache' = CacheAfter(ClassOf(Current), ran[Len(ran)].ok)
        /\ ran[Len(ran)].kind = "step" /\ ran[Len(ran)].call = Current
    BY <1>4 DEF RecordStep, CacheInv, LastIsCurrent
  <2>2. phase' # "record"
    <3>1. CASE Advance(ClassOf(Current) = "destructive", 1)
      BY <3>1, AdvanceMovesOn
    <3>2. CASE phase' = "verify"
      BY <3>2
    <3>3. QED
      BY <1>4, <3>1, <3>2, Zenon DEF RecordStep
  <2>3. cache' = "stale" => cache = "stale" /\ ~Drops(Len(ran))
    BY <2>1 DEF CacheAfter, Drops
  <2>4. \A m \in DOMAIN ran : Invalidates(m)' => Drops(m)
    BY <2>1 DEF Invalidates, Drops
  <2>5. \A m \in DOMAIN ran : m # Len(ran) /\ Drops(m) => Invalidates(m)
    BY DEF Invalidates, Drops
  <2>6. QED
    BY <1>0, <2>1, <2>2, <2>3, <2>4, <2>5, CauseStays DEF CacheInv, LastIsCurrent
<1>5. CASE RecordRead \/ RecordRetry
  <2>1. /\ phase = "record" /\ UNCHANGED <<ran, cache>>
        /\ ran[Len(ran)].kind # "step"
        /\ phase' # "record"
    BY <1>5, AdvanceMovesOn, MismatchMovesOn DEF RecordRead, RecordRetry
  <2>2. \A m \in DOMAIN ran : Invalidates(m)' => Invalidates(m)
    BY <2>1 DEF Invalidates
  <2>3. QED
    BY <1>0, <2>1, <2>2, CauseStays DEF CacheInv, LastIsCurrent
<1>6. ASSUME NEW changed \in BOOLEAN, Retry(changed) PROVE CacheInv'
  <2>1. PICK done : ran' = Append(ran, done) /\ done.call = Current
    BY <1>6 DEF Retry, Execute
  <2>2. Len(ran') = Len(ran) + 1 /\ ran'[Len(ran) + 1] = done
    BY <2>1 DEF TypeInv, TypeOK
  <2>3. cache' = "cold" /\ Current' = Current
    BY <1>6 DEF Retry, planVars, Current
  <2>4. QED
    BY <2>1, <2>2, <2>3 DEF CacheInv, StaleHasCause, LastIsCurrent
<1>7. CASE Raise
  <2>1. UNCHANGED <<ran, cache>> /\ phase' = "raised"
    BY <1>7 DEF Raise
  <2>2. \A m \in DOMAIN ran : Invalidates(m)' => Invalidates(m)
    BY <2>1 DEF Invalidates
  <2>3. QED
    BY <1>0, <2>1, <2>2, CauseStays DEF CacheInv, LastIsCurrent
<1>8. CASE UNCHANGED vars
  <2>1. UNCHANGED <<ran, cache, phase, steps, pos>>
    BY <1>8 DEF vars, planVars
  <2>2. \A m \in DOMAIN ran : Invalidates(m)' => Invalidates(m)
    BY <2>1 DEF Invalidates
  <2>3. QED
    BY <1>0, <2>1, <2>2, CauseStays DEF CacheInv, LastIsCurrent, Current
<1>9. QED
  BY <1>1, <1>2, <1>3, <1>4, <1>5, <1>6, <1>7, <1>8
     DEF Next, OwnStep, Environment, Over

(* If the cached snapshot lags behind the machine, it does for a step of   *)
(* the plan that changed it and did not drop the snapshot (it failed, its  *)
(* record is not written, or the classifier took it for a read), and       *)
(* nothing that ran since dropped it either: _execute_step, verify,        *)
(* invalidate.                                                             *)
THEOREM PlanLagHasCause == Spec => []StaleHasCause
<1>1. Init => CacheInv
  BY DEF Init, CacheInv, StaleHasCause, LastIsCurrent
<1>2. CacheInv => StaleHasCause
  BY DEF CacheInv
<1>3. QED
  BY <1>1, <1>2, InitTypeInv, StepTypeInv, StepCacheInv, PTL DEF Spec

-----------------------------------------------------------------------------
(* A run comes to its end: every step of it brings PlanVariant down, and   *)
(* nothing goes down for ever.                                             *)

LEMMA LessRel == \A x, y \in Nat : x < y => <<x, y>> \in OpToRel(<, Nat)
<1> SUFFICES ASSUME NEW x \in Nat, NEW y \in Nat, x < y
             PROVE  <<x, y>> \in OpToRel(<, Nat)
  BY Zenon
<1>1. OpToRel(<, Nat) = {ss \in Nat \X Nat : ss[1] < ss[2]}
  BY Zenon DEF OpToRel
<1> DEFINE r == OpToRel(<, Nat)
<1>2. r = {ss \in Nat \X Nat : ss[1] < ss[2]}
  BY <1>1, Zenon
<1> HIDE DEF r
<1>3. <<x, y>> \in r
  BY <1>2
<1>4. QED
  BY <1>3, Zenon DEF r

(* The order of Below is well founded: of the tuples that a sequence goes  *)
(* through one has none of the others before it, so it cannot go on down.  *)
THEOREM NoEndlessDescent ==
    ASSUME NEW n \in Nat, NEW f \in [Nat -> [1..n -> Nat]]
    PROVE  \E k \in Nat : ~ Below(f[k + 1], f[k])
<1> DEFINE less == OpToRel(<, Nat)
           R == LexProductOrdering(less, Nat, n)
           S == [1..n -> Nat]
           T == {f[k] : k \in Nat}
<1>1. IsWellFoundedOn(less, Nat)
  BY NatLessThanWellFounded, Zenon
<1>2. \A x, y \in Nat : x < y => <<x, y>> \in less
  BY LessRel, Zenon
<1> HIDE DEF less
<1>3. IsWellFoundedOn(R, S)
  BY <1>1, WFLexProductOrdering
<1>4. ASSUME NEW p \in S, NEW q \in S, Below(p, q) PROVE <<p, q>> \in R
  <2>1. PICK j \in 1..n : p[j] < q[j] /\ \A i \in 1..(j - 1) : p[i] = q[i]
    BY <1>4 DEF Below
  <2>2. <<p[j], q[j]>> \in less
    BY <1>2, <2>1
  <2>3. QED
    BY <2>1, <2>2 DEF LexProductOrdering
<1> HIDE DEF R
<1>5. T \subseteq S /\ T # {} /\ \A k \in Nat : f[k] \in S /\ f[k] \in T
  OBVIOUS
<1>6. PICK q \in T : \A p \in T : <<p, q>> \notin R
  <2> HIDE DEF S, T
  <2>1. QED
    BY <1>3, <1>5, WFMin
<1>7. PICK k \in Nat : q = f[k]
  BY <1>6
<1>8. ~ Below(f[k + 1], f[k])
  <2>1. k + 1 \in Nat
    OBVIOUS
  <2> HIDE DEF S, T
  <2>2. QED
    BY <1>4, <1>5, <1>6, <1>7, <2>1
<1>9. QED
  BY <1>7, <1>8

LEMMA TripleBelow ==
    ASSUME NEW x \in Nat, NEW y \in Nat, NEW z \in Nat,
           NEW a \in Nat, NEW b \in Nat, NEW c \in Nat,
           x < a \/ (x = a /\ y < b) \/ (x = a /\ y = b /\ z < c)
    PROVE  Below(<<x, y, z>>, <<a, b, c>>)
<1> DEFINE p == <<x, y, z>>
           q == <<a, b, c>>
<1>1. DOMAIN q = 1..3 /\ p \in [1..3 -> Nat]
  OBVIOUS
<1>2. /\ p[1] = x /\ p[2] = y /\ p[3] = z
      /\ q[1] = a /\ q[2] = b /\ q[3] = c
  OBVIOUS
<1> HIDE DEF p, q
<1>3. CASE x < a
  BY <1>1, <1>2, <1>3 DEF Below
<1>4. CASE x = a /\ y < b
  <2>1. \A i \in 1..(2 - 1) : p[i] = q[i]
    BY <1>2, <1>4
  <2>2. 2 \in DOMAIN q /\ p[2] < q[2]
    BY <1>1, <1>2, <1>4
  <2>3. QED
    BY <1>1, <2>1, <2>2 DEF Below
<1>5. CASE x = a /\ y = b /\ z < c
  <2>1. \A i \in 1..(3 - 1) : p[i] = q[i]
    BY <1>2, <1>5
  <2>2. 3 \in DOMAIN q /\ p[3] < q[3]
    BY <1>1, <1>2, <1>5
  <2>3. QED
    BY <1>1, <2>1, <2>2 DEF Below
<1>6. QED
  BY <1>3, <1>4, <1>5 DEF p, q

(* What is left of the plan, and of the retries of the step in progress.   *)
PlanLeft == Clauses - pos
RetriesLeft ==
    IF phase \in {"replan", "done", "raised"} THEN 0 ELSE RetryMax - attempts

LeftOK == PlanLeft \in Nat /\ RetriesLeft \in Nat /\ StepsLeft \in Nat

LEMMA LeftAreNaturals == TypeOK => LeftOK
BY LimitsAreNaturals
   DEF TypeOK, Phases, LeftOK, PlanLeft, RetriesLeft, StepsLeft

LEMMA LeftAreNaturalsNext == TypeOK' => LeftOK'
BY LeftAreNaturals, PTL

LEMMA PlanGoesDown ==
    ASSUME TypeOK, TypeOK',
           \/ PlanLeft' < PlanLeft
           \/ PlanLeft' = PlanLeft /\ RetriesLeft' < RetriesLeft
           \/ /\ PlanLeft' = PlanLeft /\ RetriesLeft' = RetriesLeft
              /\ StepsLeft' < StepsLeft
    PROVE  Below(PlanVariant', PlanVariant)
<1>1. /\ PlanLeft \in Nat /\ RetriesLeft \in Nat /\ StepsLeft \in Nat
      /\ PlanLeft' \in Nat /\ RetriesLeft' \in Nat /\ StepsLeft' \in Nat
  BY LeftAreNaturals, LeftAreNaturalsNext DEF LeftOK
<1>2. /\ PlanVariant = <<PlanLeft, RetriesLeft, StepsLeft>>
      /\ PlanVariant' = <<PlanLeft', RetriesLeft', StepsLeft'>>
  BY DEF PlanVariant, PlanLeft, RetriesLeft
<1>3. QED
  BY <1>1, <1>2, TripleBelow

(* The step in progress goes on by one phase.                              *)
LEMMA StepGoesOn ==
    ASSUME TypeOK, TypeOK', pos' = pos, attempts' = attempts,
           {phase, phase'} \intersect {"replan", "done", "raised"} = {},
           StepsLeft' < StepsLeft
    PROVE  Below(PlanVariant', PlanVariant)
<1>1. PlanLeft' = PlanLeft /\ RetriesLeft' = RetriesLeft
  BY DEF PlanLeft, RetriesLeft
<1>2. QED
  BY <1>1, PlanGoesDown

(* The run goes no further at this position.                               *)
LEMMA RunStops ==
    ASSUME TypeOK, TypeOK', pos' = pos, phase \notin {"done", "raised"},
           \/ phase' \in {"done", "raised"}
           \/ phase' = "replan" /\ phase # "replan"
    PROVE  Below(PlanVariant', PlanVariant)
<1>1. PlanLeft' = PlanLeft
  BY DEF PlanLeft
<1>2. RetriesLeft' = 0 /\ RetriesLeft \in Nat
  BY LeftAreNaturals DEF RetriesLeft, LeftOK
<1>3. StepsLeft' < StepsLeft
  BY DEF StepsLeft, TypeOK, Phases
<1>4. QED
  BY <1>1, <1>2, <1>3, PlanGoesDown

LEMMA NextPosition ==
    ASSUME TypeOK, TypeOK', pos' = pos + 1
    PROVE  Below(PlanVariant', PlanVariant)
<1>1. PlanLeft' < PlanLeft
  BY LimitsAreNaturals DEF PlanLeft, TypeOK
<1>2. QED
  BY <1>1, PlanGoesDown

LEMMA AdvanceGoesDown ==
    ASSUME TypeOK, TypeOK', NEW invalidated \in BOOLEAN, NEW written,
           Advance(invalidated, written),
           phase \notin {"replan", "done", "raised"}
    PROVE  Below(PlanVariant', PlanVariant)
<1>1. \/ pos' = pos + 1
      \/ pos' = pos /\ phase' \in {"replan", "done"}
  BY DEF Advance
<1>2. QED
  BY <1>1, NextPosition, RunStops

LEMMA MismatchGoesDown ==
    ASSUME TypeOK, TypeOK', NEW written, Mismatch(written), StepsLeft \in {3, 4},
           phase \notin {"replan", "done", "raised"}
    PROVE  Below(PlanVariant', PlanVariant)
<1>1. CASE Advance(TRUE, written)
  BY <1>1, AdvanceGoesDown
<1>2. CASE phase' = "retry" /\ UNCHANGED <<planVars, stepVars>>
  <2>1. pos' = pos /\ attempts' = attempts /\ StepsLeft' = 2
    BY <1>2 DEF planVars, stepVars, StepsLeft
  <2>2. QED
    BY <1>2, <2>1, StepGoesOn
<1>3. QED
  BY <1>1, <1>2 DEF Mismatch

LEMMA StepDescends ==
    ASSUME TypeInv, TypeInv', Next, ~Over
    PROVE  Below(PlanVariant', PlanVariant)
<1> USE LimitsAreNaturals
<1>t. TypeOK /\ TypeOK' /\ StepInProgress
  BY DEF TypeInv
<1>1. CASE RecordUnresolved \/ RecordRefusal
  <2>1. /\ phase \notin {"replan", "done", "raised"}
        /\ \E written : \E invalidated \in BOOLEAN : Advance(invalidated, written)
    BY <1>1 DEF RecordUnresolved, RecordRefusal
  <2>2. QED
    BY <1>t, <2>1, AdvanceGoesDown
<1>2. CASE ResolveGate \/ \E answer \in Answer : OperatorAnswers(answer)
  <2>1. /\ \/ phase = "step" /\ phase' \in {"confirm", "refuse", "dispatch"}
           \/ phase = "confirm" /\ phase' \in {"refuse", "dispatch"}
        /\ pos' = pos /\ attempts' = attempts
    <3>1. GateOf(Current) \in Gate
      BY DEF GateOf, classify, GateFor, Gate, WorstFragment
    <3>2. QED
      BY <1>2, <3>1 DEF ResolveGate, OperatorAnswers, Gate, planVars, stepVars
  <2>2. StepsLeft' < StepsLeft
    BY <2>1 DEF StepsLeft
  <2>3. QED
    BY <1>t, <2>1, <2>2, StepGoesOn
<1>3. ASSUME NEW ok \in BOOLEAN, NEW changed \in BOOLEAN, Dispatch(ok, changed)
      PROVE  Below(PlanVariant', PlanVariant)
  <2>1. /\ phase = "dispatch" /\ phase' = "record"
        /\ pos' = pos /\ attempts' = attempts /\ ran'[Len(ran')].kind = "step"
    BY <1>t, <1>3, LastRan DEF Dispatch, planVars, stepVars
  <2>2. StepsLeft' < StepsLeft
    BY <2>1 DEF StepsLeft
  <2>3. QED
    BY <1>t, <2>1, <2>2, StepGoesOn
<1>4. CASE RecordStep
  <2>1. phase = "record" /\ StepsLeft = 5
    BY <1>4 DEF RecordStep, StepsLeft
  <2>2. CASE \E written : \E invalidated \in BOOLEAN : Advance(invalidated, written)
    BY <1>t, <2>1, <2>2, AdvanceGoesDown
  <2>3. CASE phase' = "verify" /\ UNCHANGED <<planVars, stepVars>>
    <3>1. pos' = pos /\ attempts' = attempts /\ StepsLeft' = 4
      BY <2>3 DEF planVars, stepVars, StepsLeft
    <3>2. QED
      BY <1>t, <2>1, <2>3, <3>1, StepGoesOn
  <2>4. QED
    BY <1>4, <2>2, <2>3 DEF RecordStep
<1>5. CASE RefuseRead
  <2>1. phase = "verify" /\ StepsLeft = 4 /\ Mismatch(records + 1)
    BY <1>5 DEF RefuseRead, StepsLeft
  <2>2. QED
    BY <1>t, <2>1, MismatchGoesDown
<1>6. ASSUME NEW match \in BOOLEAN, RunRead(match)
      PROVE  Below(PlanVariant', PlanVariant)
  <2>1. /\ phase = "verify" /\ phase' = "record"
        /\ pos' = pos /\ attempts' = attempts /\ ran'[Len(ran')].kind = "read"
    BY <1>t, <1>6, LastRan DEF RunRead, planVars, stepVars
  <2>2. StepsLeft' < StepsLeft
    BY <2>1 DEF StepsLeft
  <2>3. QED
    BY <1>t, <2>1, <2>2, StepGoesOn
<1>7. CASE RecordRead
  <2>1. /\ phase = "record" /\ StepsLeft = 3
        /\ Advance(FALSE, records + 1) \/ Mismatch(records + 1)
    BY <1>7 DEF RecordRead, StepsLeft
  <2>2. QED
    BY <1>t, <2>1, AdvanceGoesDown, MismatchGoesDown
<1>8. ASSUME NEW changed \in BOOLEAN, Retry(changed)
      PROVE  Below(PlanVariant', PlanVariant)
  <2>1. /\ phase = "retry" /\ phase' = "record"
        /\ pos' = pos /\ attempts' = attempts + 1
    BY <1>8 DEF Retry, planVars
  <2>2. attempts \in Nat /\ RetryMax \in Nat
    BY <1>t DEF TypeOK
  <2>3. PlanLeft' = PlanLeft /\ RetriesLeft' < RetriesLeft
    BY <2>1, <2>2 DEF PlanLeft, RetriesLeft
  <2>4. QED
    BY <1>t, <2>3, PlanGoesDown
<1>9. CASE RecordRetry
  <2>1. /\ phase = "record" /\ StepsLeft = 5 /\ phase' = "verify"
        /\ pos' = pos /\ attempts' = attempts
    BY <1>9 DEF RecordRetry, StepsLeft, planVars, stepVars
  <2>2. StepsLeft' < StepsLeft
    BY <2>1 DEF StepsLeft
  <2>3. QED
    BY <1>t, <2>1, <2>2, StepGoesOn
<1>10. ASSUME NEW accepted \in BOOLEAN, Proceed(accepted)
       PROVE  Below(PlanVariant', PlanVariant)
  <2>1. /\ phase = "proceed" /\ phase' \in {"step", "done"}
        /\ pos' = pos /\ attempts' = attempts
    BY <1>10 DEF Proceed, planVars, stepVars
  <2>2. phase' = "step" => StepsLeft' < StepsLeft
    BY <2>1 DEF StepsLeft
  <2>3. QED
    BY <1>t, <2>1, <2>2, StepGoesOn, RunStops
<1>11. CASE \E calls \in [pos + 1..Clauses -> Calls \union {Unresolved}] :
               Replan(calls)
  <2>1. pos' = pos + 1
    BY <1>11 DEF Replan
  <2>2. QED
    BY <1>t, <2>1, NextPosition
<1>12. CASE Raise
  <2>1. phase \notin {"done", "raised"} /\ phase' = "raised" /\ pos' = pos
    BY <1>12 DEF Raise, planVars
  <2>2. QED
    BY <1>t, <2>1, RunStops
<1>13. QED
  BY <1>1, <1>2, <1>3, <1>4, <1>5, <1>6, <1>7, <1>8, <1>9, <1>10, <1>11, <1>12
     DEF Next, OwnStep, Environment

(* No planner, operator or verifying read keeps a run going for ever: each *)
(* of its steps brings a tuple of naturals down. Planning again does not   *)
(* start over, and a retry is paid for: run_plan, verify.                  *)
THEOREM RunsComeToAnEnd == Spec => PlanDescends
<1> DEFINE Down == Below(PlanVariant', PlanVariant)
<1>1. TypeInv /\ TypeInv' /\ [Next]_vars => [Down]_vars
  BY StepDescends DEF Over
<1> HIDE DEF Down
<1>2. Spec => [][Down]_vars
  BY <1>1, InitTypeInv, StepTypeInv, PTL DEF Spec
<1>3. QED
  BY <1>2 DEF Down, PlanDescends
=============================================================================
