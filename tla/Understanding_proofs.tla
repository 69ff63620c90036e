------------------------ MODULE Understanding_proofs ------------------------
(***************************************************************************)
(* Theorems about a proposal: first about its stages, for any operations,  *)
(* arguments, numbers of workers and failures; then, from Rank on, about   *)
(* the stream every answer of the model comes in (StreamAssembly), for any *)
(* calls, indexes and parts and any interleaving of them.                  *)
(***************************************************************************)
EXTENDS Understanding, StreamAssembly, FiniteSetTheorems, TLAPS

LEMMA StageFacts ==
    /\ Required \in [Operations -> Seq(Slots)] /\ NoOp \notin Operations
    /\ Counts \subseteq Int /\ TopK \in Nat \ {0}
    /\ MaxRounds \in Nat /\ MaxFaults \in Nat
BY RequiredAssumption, ChoiceAssumption, NumbersAssumption
   DEF RequiredAssumption, ChoiceAssumption, NumbersAssumption

LEMMA Elements ==
    ASSUME NEW S, NEW seq \in Seq(S) PROVE ToSet(seq) \subseteq S
BY DEF ToSet

-----------------------------------------------------------------------------
(* What is at work: the candidates are operations, no longer than TopK,    *)
(* and named by the classifier.                                            *)

Stages == {"idle", "native", "intent", "try", "resolve", "ask", "assemble",
           "choose", "done"}

Control ==
    /\ mode \in Modes /\ backend \in Backends /\ workers \in Counts
    /\ pc \in Stages
    /\ ranked \in Seq(Operations) /\ Len(ranked) <= TopK
    /\ chosen \subseteq Operations
    /\ \A i \in 1..Len(ranked) : ranked[i] \in chosen
    /\ pc \in {"resolve", "ask", "assemble"} => ranked # <<>>
    /\ rounds \in 0..MaxRounds /\ faults \in 0..MaxFaults

LEMMA InitControl == Init => Control
BY StageFacts DEF Init, Control, Stages

LEMMA RankingType ==
    ASSUME NEW r \in Rankings
    PROVE  r \in Seq(Operations) /\ Len(r) <= TopK /\ ToSet(r) \subseteq Operations
           /\ \A i \in 1..Len(r) : r[i] \in ToSet(r)
<1>1. CASE r = <<>>
  BY <1>1, StageFacts DEF ToSet
<1>2. ASSUME NEW T \in SUBSET Operations, Cardinality(T) \in 1..TopK,
             r \in SetToSeqs(T)
      PROVE  r \in Seq(Operations) /\ Len(r) <= TopK
  <2>1. r \in [1..Cardinality(T) -> T]
    BY <1>2 DEF SetToSeqs
  <2>2. QED
    BY <1>2, <2>1, StageFacts
<1>3. r \in Seq(Operations) /\ Len(r) <= TopK
  BY <1>1, <1>2, StageFacts DEF Rankings
<1>4. QED
  BY <1>3 DEF ToSet

LEMMA StepControl ==
    Control /\ [Next]_vars => Control'
<1> SUFFICES ASSUME Control, [Next]_vars
             PROVE  Control'
  OBVIOUS
<1>0. Control /\ MaxRounds \in Nat /\ MaxFaults \in Nat /\ TopK \in Nat
  BY StageFacts
<1>1. CASE Propose
  BY <1>0, <1>1 DEF Propose, setup, Control, Stages
<1>2. CASE NativeAnswers
  BY <1>0, <1>2 DEF NativeAnswers, Usable, searchVars, setup, Control,
     Stages
<1>3. CASE NativeFails
  BY <1>0, <1>3 DEF NativeFails, Fault, Raise, searchVars, setup, Control,
     Stages
<1>4. CASE Classify
  <2>1. PICK r \in Rankings : ranked' = r /\ chosen' = ToSet(r)
    BY <1>4 DEF Classify
  <2>2. r \in Seq(Operations) /\ Len(r) <= TopK /\ ToSet(r) \subseteq Operations
        /\ \A i \in 1..Len(r) : r[i] \in ToSet(r)
    BY RankingType
  <2>3. QED
    BY <1>0, <1>4, <2>1, <2>2 DEF Classify, setup, Control, Stages
<1>5. CASE ClassifyFails
  BY <1>0, <1>5 DEF ClassifyFails, Fault, Raise, searchVars, setup,
     Control, Stages
<1>6. CASE TryCandidate
  BY <1>0, <1>6 DEF TryCandidate, setup, Control, Stages
<1>7. CASE Resolve
  BY <1>0, <1>7 DEF Resolve, Raise, setup, Control, Stages
<1>8. CASE AllGathered
  BY <1>0, <1>8 DEF AllGathered, searchVars, setup, Control, Stages
<1>9. CASE Assemble
  <2>1. CASE Complete
    BY <1>0, <1>9, <2>1 DEF Assemble, setup, Control, Stages
  <2>2. CASE ~Complete
    <3>1. ranked \in Seq(Operations) /\ ranked # <<>> /\ Len(ranked) <= TopK
          /\ \A i \in 1..Len(ranked) : ranked[i] \in chosen
      BY <1>0, <1>9 DEF Assemble, Control
    <3>2. Tail(ranked) \in Seq(Operations) /\ Len(Tail(ranked)) <= TopK
          /\ \A i \in 1..Len(Tail(ranked)) : Tail(ranked)[i] \in chosen
      BY <1>0, <3>1
    <3>3. ranked' = Tail(ranked) /\ pc' = "try"
          /\ UNCHANGED <<mode, backend, workers, chosen, rounds, faults>>
      BY <1>9, <2>2 DEF Assemble, setup
    <3>4. QED
      BY <1>0, <3>2, <3>3 DEF Control, Stages
  <2>3. QED
    BY <2>1, <2>2
<1>10. CASE Choose
  BY <1>0, <1>10 DEF Choose, searchVars, setup, Control, Stages
<1>11. ASSUME NEW s \in todo, Ask(s) PROVE Control'
  BY <1>0, <1>11 DEF Ask, setup, Control, Stages
<1>12. ASSUME NEW s \in Slots, Answered(s) PROVE Control'
  BY <1>0, <1>12 DEF Answered, Finish, setup, Control, Stages
<1>13. ASSUME NEW s \in Slots, QuestionFails(s) PROVE Control'
  BY <1>0, <1>13 DEF QuestionFails, Finish, Fault, setup, Control, Stages
<1>14. ASSUME NEW f \in finished, Gather(f[1], f[2]) PROVE Control'
  BY <1>0, <1>14 DEF Gather, setup, Control, Stages
<1>15. CASE UNCHANGED vars
  BY <1>0, <1>15 DEF vars, searchVars, setup, Control, Stages
<1>16. CASE Stop
  BY <1>15, <1>16 DEF Stop
<1>17. QED
  BY <1>1, <1>2, <1>3, <1>4, <1>5, <1>6, <1>7, <1>8, <1>9, <1>10, <1>11,
     <1>12, <1>13, <1>14, <1>15, <1>16 DEF Next, OwnStep, Extract, Reply,
     Fail

LEMMA ControlAlways == Spec => []Control
BY InitControl, StepControl, PTL DEF Spec

-----------------------------------------------------------------------------
(* The candidate at work. Questions are asked about its arguments only,    *)
(* every answer goes with the argument it is of, and nothing of an earlier *)
(* candidate is left.                                                      *)

Needs == ToSet(Required[Head(ranked)])

Work ==
    /\ pc # "ask" => todo = {} /\ busy = {} /\ finished = {}
    /\ pc = "resolve" => values = NoArgs
    /\ pc = "ask" =>
          /\ todo \subseteq Needs /\ busy \subseteq Needs
          /\ \A f \in finished : /\ f[1] \in Needs /\ f[2] \in {Own(f[1]), Null}
                                 /\ f = <<f[1], f[2]>>
    /\ pc \in {"ask", "assemble"} =>
          /\ DOMAIN values \subseteq Needs
          /\ \A s \in DOMAIN values : values[s] = Own(s)

LEMMA InitWork == Init => Work
BY DEF Init, Work

LEMMA StepWork ==
    Control /\ Work /\ [Next]_vars => Work'
<1> SUFFICES ASSUME Control, Work, [Next]_vars
             PROVE  Work'
  OBVIOUS
<1>0. Work
  OBVIOUS
<1>1. CASE Propose
  BY <1>0, <1>1 DEF Propose, setup, Work, Needs, Own
<1>2. CASE NativeAnswers
  BY <1>0, <1>2 DEF NativeAnswers, Usable, searchVars, setup, Work, Needs,
     Own
<1>3. CASE NativeFails
  BY <1>0, <1>3 DEF NativeFails, Fault, Raise, searchVars, setup, Work,
     Needs, Own
<1>4. CASE Classify
  BY <1>0, <1>4 DEF Classify, setup, Work, Needs, Own
<1>5. CASE ClassifyFails
  BY <1>0, <1>5 DEF ClassifyFails, Fault, Raise, searchVars, setup, Work,
     Needs, Own
<1>6. CASE TryCandidate
  BY <1>0, <1>6 DEF TryCandidate, setup, Work, NoArgs
<1>7. CASE Resolve
  <2>1. PICK S \in SUBSET Needs :
           LET fuzzy == Needs \ S
           IN  /\ values' = [s \in DOMAIN values \union S |->
                                IF s \in S THEN Own(s) ELSE values[s]]
               /\ \/ todo' = fuzzy /\ pc' = "ask"
                  \/ pc' = "done" /\ todo' = todo
    BY <1>7 DEF Resolve, Raise, Needs
  <2>2. DOMAIN values = {}
    BY <1>0, <1>7 DEF Resolve, Work, NoArgs
  <2>3. /\ pc = "resolve"
        /\ UNCHANGED <<ranked, busy, finished>>
    BY <1>7 DEF Resolve
  <2>4. DOMAIN values' = S /\ \A s \in S : values'[s] = Own(s)
    BY <2>1, <2>2
  <2>5. Needs' = Needs /\ \A s : Own(s)' = Own(s)
    BY <2>3 DEF Needs, Own
  <2>6. QED
    BY <1>0, <2>1, <2>3, <2>4, <2>5 DEF Work
<1>8. CASE AllGathered
  BY <1>0, <1>8 DEF AllGathered, searchVars, setup, Work, Needs, Own
<1>9. CASE Assemble
  BY <1>0, <1>9 DEF Assemble, setup, Work, Needs, Own
<1>10. CASE Choose
  BY <1>0, <1>10 DEF Choose, searchVars, setup, Work, Needs, Own
<1>11. ASSUME NEW s \in todo, Ask(s) PROVE Work'
  BY <1>0, <1>11 DEF Ask, setup, Work, Needs, Own
<1>12. ASSUME NEW s \in Slots, Answered(s) PROVE Work'
  BY <1>0, <1>12 DEF Answered, Finish, setup, Work, Needs, Own
<1>13. ASSUME NEW s \in Slots, QuestionFails(s) PROVE Work'
  BY <1>0, <1>13 DEF QuestionFails, Finish, Fault, setup, Work, Needs, Own
<1>14. ASSUME NEW f \in finished, Gather(f[1], f[2]) PROVE Work'
  BY <1>0, <1>14 DEF Gather, setup, Work, Needs, Own
<1>15. CASE UNCHANGED vars
  BY <1>0, <1>15 DEF vars, searchVars, setup, Work, Needs, Own
<1>16. CASE Stop
  BY <1>15, <1>16 DEF Stop
<1>17. QED
  BY <1>1, <1>2, <1>3, <1>4, <1>5, <1>6, <1>7, <1>8, <1>9, <1>10, <1>11,
     <1>12, <1>13, <1>14, <1>15, <1>16 DEF Next, OwnStep, Extract, Reply,
     Fail

LEMMA WorkAlways == Spec => []Work
BY InitWork, StepWork, ControlAlways, PTL DEF Spec

-----------------------------------------------------------------------------
(* What was found.                                                         *)

Found == DOMAIN values \subseteq Slots /\ values \in [DOMAIN values -> Value]

LEMMA NeedsAreSlots ==
    ASSUME Control, ranked # <<>>
    PROVE  Needs \subseteq Slots /\ Head(ranked) \in Operations
           /\ Head(ranked) \in chosen /\ \A s \in Slots : Own(s) \in Value
<1>1. Head(ranked) \in Operations /\ Head(ranked) \in chosen
  BY DEF Control
<1>2. Required[Head(ranked)] \in Seq(Slots)
  BY <1>1, StageFacts
<1>3. Needs \subseteq Slots
  BY <1>2, Elements DEF Needs
<1>4. QED
  BY <1>1, <1>3 DEF Own, Value

LEMMA InitFound == Init => Found
BY DEF Init, Found, NoArgs

LEMMA StepFound ==
    Control /\ Work /\ Found /\ [Next]_vars => Found'
<1> SUFFICES ASSUME Control, Work, Found, [Next]_vars
             PROVE  Found'
  OBVIOUS
<1>0. Found
  OBVIOUS
<1>1. CASE Propose
  BY <1>0, <1>1 DEF Propose, setup, Found, NoArgs
<1>2. CASE NativeAnswers
  BY <1>0, <1>2 DEF NativeAnswers, Usable, searchVars, setup, Found, NoArgs
<1>3. CASE NativeFails
  BY <1>0, <1>3 DEF NativeFails, Fault, Raise, searchVars, setup, Found,
     NoArgs
<1>4. CASE Classify
  BY <1>0, <1>4 DEF Classify, setup, Found, NoArgs
<1>5. CASE ClassifyFails
  BY <1>0, <1>5 DEF ClassifyFails, Fault, Raise, searchVars, setup, Found,
     NoArgs
<1>6. CASE TryCandidate
  BY <1>0, <1>6 DEF TryCandidate, setup, Found, NoArgs
<1>7. CASE Resolve
  <2>1. PICK S \in SUBSET Needs :
           values' = [s \in DOMAIN values \union S |->
                         IF s \in S THEN Own(s) ELSE values[s]]
    BY <1>7 DEF Resolve, Needs
  <2>2. Needs \subseteq Slots /\ \A s \in Slots : Own(s) \in Value
    BY <1>7, NeedsAreSlots DEF Resolve, Control
  <2>3. DOMAIN values = {}
    BY <1>7 DEF Resolve, Work, NoArgs
  <2>4. values' \in [S -> Value] /\ DOMAIN values' = S
    BY <2>1, <2>2, <2>3
  <2>5. QED
    BY <2>2, <2>4 DEF Found
<1>8. CASE AllGathered
  BY <1>0, <1>8 DEF AllGathered, searchVars, setup, Found, NoArgs
<1>9. CASE Assemble
  BY <1>0, <1>9 DEF Assemble, setup, Found, NoArgs
<1>10. CASE Choose
  BY <1>0, <1>10 DEF Choose, searchVars, setup, Found, NoArgs
<1>11. ASSUME NEW s \in todo, Ask(s) PROVE Found'
  BY <1>0, <1>11 DEF Ask, setup, Found, NoArgs
<1>12. ASSUME NEW s \in Slots, Answered(s) PROVE Found'
  BY <1>0, <1>12 DEF Answered, Finish, setup, Found, NoArgs
<1>13. ASSUME NEW s \in Slots, QuestionFails(s) PROVE Found'
  BY <1>0, <1>13 DEF QuestionFails, Finish, Fault, setup, Found, NoArgs
<1>14. ASSUME NEW f \in finished, Gather(f[1], f[2]) PROVE Found'
  <2>1. /\ Needs \subseteq Slots /\ \A s \in Slots : Own(s) \in Value
        /\ f[1] \in Needs /\ f[2] \in {Own(f[1]), Null}
    BY <1>14, NeedsAreSlots DEF Gather, Control, Work
  <2>2. CASE f[2] = Null
    BY <1>0, <1>14, <2>2 DEF Gather, Found
  <2>3. CASE f[2] # Null
    <3>1. f[2] \in Value /\ f[1] \in Slots
      BY <2>1, <2>3
    <3>2. values' = [x \in DOMAIN values \union {f[1]} |->
                        IF x = f[1] THEN f[2] ELSE values[x]]
      BY <1>14, <2>3 DEF Gather
    <3>3. DOMAIN values' = DOMAIN values \union {f[1]}
          /\ \A x \in DOMAIN values' : values'[x] \in Value
      BY <1>0, <3>1, <3>2 DEF Found
    <3>4. QED
      BY <1>0, <3>1, <3>2, <3>3 DEF Found
  <2>4. QED
    BY <2>2, <2>3
<1>15. CASE UNCHANGED vars
  BY <1>0, <1>15 DEF vars, searchVars, setup, Found, NoArgs
<1>16. CASE Stop
  BY <1>15, <1>16 DEF Stop
<1>17. QED
  BY <1>1, <1>2, <1>3, <1>4, <1>5, <1>6, <1>7, <1>8, <1>9, <1>10, <1>11,
     <1>12, <1>13, <1>14, <1>15, <1>16 DEF Next, OwnStep, Extract, Reply,
     Fail

LEMMA FoundAlways == Spec => []Found
BY InitFound, StepFound, ControlAlways, WorkAlways, PTL DEF Spec

(* What the native pass gave.                                              *)
Passed ==
    /\ native \in Native /\ lost \in BOOLEAN
    /\ pc \in {"intent", "try", "resolve", "ask", "assemble", "choose"} =>
          mode = "decomposed" \/ ~Usable(native)

LEMMA InitPassed == Init => Passed
<1>1. Nothing \in Native
  BY DEF Nothing, Native
<1>2. QED
  BY <1>1, Zenon DEF Init, Passed

LEMMA StepPassed ==
    Passed /\ [Next]_vars => Passed'
<1> SUFFICES ASSUME Passed, [Next]_vars
             PROVE  Passed'
  OBVIOUS
<1>0. Passed /\ Nothing \in Native
  BY DEF Nothing, Native
<1>1. CASE Propose
  BY <1>0, <1>1 DEF Propose, setup, Passed
<1>2. CASE NativeAnswers
  BY <1>0, <1>2 DEF NativeAnswers, Usable, searchVars, setup, Passed
<1>3. CASE NativeFails
  BY <1>0, <1>3 DEF NativeFails, Fault, Raise, searchVars, setup, Passed
<1>4. CASE Classify
  BY <1>0, <1>4 DEF Classify, setup, Passed
<1>5. CASE ClassifyFails
  BY <1>0, <1>5 DEF ClassifyFails, Fault, Raise, searchVars, setup, Passed
<1>6. CASE TryCandidate
  BY <1>0, <1>6 DEF TryCandidate, setup, Passed
<1>7. CASE Resolve
  BY <1>0, <1>7 DEF Resolve, Raise, setup, Passed
<1>8. CASE AllGathered
  BY <1>0, <1>8 DEF AllGathered, searchVars, setup, Passed
<1>9. CASE Assemble
  BY <1>0, <1>9 DEF Assemble, setup, Passed
<1>10. CASE Choose
  BY <1>0, <1>10 DEF Choose, searchVars, setup, Passed
<1>11. ASSUME NEW s \in todo, Ask(s) PROVE Passed'
  BY <1>0, <1>11 DEF Ask, setup, Passed
<1>12. ASSUME NEW s \in Slots, Answered(s) PROVE Passed'
  BY <1>0, <1>12 DEF Answered, Finish, setup, Passed
<1>13. ASSUME NEW s \in Slots, QuestionFails(s) PROVE Passed'
  BY <1>0, <1>13 DEF QuestionFails, Finish, Fault, setup, Passed
<1>14. ASSUME NEW f \in finished, Gather(f[1], f[2]) PROVE Passed'
  BY <1>0, <1>14 DEF Gather, setup, Passed
<1>15. CASE UNCHANGED vars
  BY <1>0, <1>15 DEF vars, searchVars, setup, Passed
<1>16. CASE Stop
  BY <1>15, <1>16 DEF Stop
<1>17. QED
  BY <1>1, <1>2, <1>3, <1>4, <1>5, <1>6, <1>7, <1>8, <1>9, <1>10, <1>11,
     <1>12, <1>13, <1>14, <1>15, <1>16 DEF Next, OwnStep, Extract, Reply,
     Fail

LEMMA PassedAlways == Spec => []Passed
BY InitPassed, StepPassed, PTL DEF Spec

-----------------------------------------------------------------------------
(* What comes of it: nothing until the last stages, and then an assembled  *)
(* call, the native result, no call, or an error of the service.           *)

Assembled ==
    /\ result \in Result
    /\ result.source = "decomposed"
    /\ result.op \in chosen
    /\ DOMAIN result.args = ToSet(Required[result.op])
    /\ \A s \in DOMAIN result.args :
          result.args[s] = [op |-> result.op, slot |-> s]
    /\ mode = "decomposed" \/ ~Usable(native)

GivenBack == [Empty("native") EXCEPT !.native = native]

Outcome ==
    /\ pc \notin {"choose", "done"} => result = Empty("native")
    /\ pc = "choose" => result = Empty("native") \/ Assembled
    /\ pc = "done" => \/ Assembled
                      \/ result = Empty("raised") /\ lost
                      \/ result = Empty("decomposed") /\ mode = "decomposed"
                      \/ result = GivenBack

LEMMA InitOutcome == Init => Outcome
BY DEF Init, Outcome

LEMMA StepOutcome ==
    Control /\ Work /\ Found /\ Passed /\ Outcome /\ [Next]_vars => Outcome'
<1> SUFFICES ASSUME Control, Work, Found, Passed, Outcome, [Next]_vars
             PROVE  Outcome'
  OBVIOUS
<1>0. Outcome /\ pc \in Stages
  BY DEF Control
<1>1. CASE Propose
  BY <1>0, <1>1 DEF Propose, setup, Outcome
<1>2. CASE NativeAnswers
  <2>1. PICK n \in Native :
           /\ native' = n
           /\ \/ result' = [Empty("native") EXCEPT !.native = n] /\ pc' = "done"
              \/ pc' = "intent" /\ result' = result
    BY <1>2 DEF NativeAnswers
  <2>2. pc = "native"
    BY <1>2 DEF NativeAnswers
  <2>3. QED
    BY <1>0, <2>1, <2>2 DEF Outcome, GivenBack
<1>3. CASE NativeFails
  BY <1>0, <1>3 DEF NativeFails, Fault, Raise, searchVars, setup, Outcome
<1>4. CASE Classify
  BY <1>0, <1>4 DEF Classify, setup, Outcome
<1>5. CASE ClassifyFails
  BY <1>0, <1>5 DEF ClassifyFails, Fault, Raise, searchVars, setup, Outcome
<1>6. CASE TryCandidate
  BY <1>0, <1>6 DEF TryCandidate, setup, Outcome
<1>7. CASE Resolve
  <2>1. Pool > 0
    BY StageFacts DEF Pool, Control
  <2>2. pc = "resolve" /\ pc' = "ask" /\ result' = result
    BY <1>7, <2>1 DEF Resolve
  <2>3. QED
    BY <1>0, <2>2 DEF Outcome
<1>8. CASE AllGathered
  BY <1>0, <1>8 DEF AllGathered, searchVars, setup, Outcome
<1>9. CASE Assemble
  <2>0. pc = "assemble" /\ result = Empty("native")
    BY <1>0, <1>9 DEF Assemble, Outcome
  <2>1. CASE ~Complete
    BY <2>0, <2>1, <1>9 DEF Assemble, Outcome
  <2>2. CASE Complete
    <3>1. /\ Needs \subseteq Slots /\ Head(ranked) \in Operations
          /\ Head(ranked) \in chosen
      BY <2>0, NeedsAreSlots DEF Control
    <3>2. DOMAIN values = Needs /\ \A s \in DOMAIN values : values[s] = Own(s)
      BY <2>0, <2>2 DEF Work, Complete, Needs
    <3>3. values \in Args
      BY DEF Found, Args
    <3>4. mode = "decomposed" \/ ~Usable(native)
      BY <2>0 DEF Passed
    <3> DEFINE r == [source |-> "decomposed", native |-> Nothing,
                     op |-> Head(ranked), args |-> values]
    <3>5. result' = r /\ pc' = "choose"
          /\ UNCHANGED <<mode, native, chosen>>
      BY <1>9, <2>2 DEF Assemble, setup
    <3>6. r \in Result
      BY <3>1, <3>3 DEF Result, Nothing, Native
    <3>7. /\ r.source = "decomposed" /\ r.op = Head(ranked)
          /\ r.args = values
      OBVIOUS
    <3> HIDE DEF r
    <3>8. Assembled'
      BY <3>1, <3>2, <3>4, <3>5, <3>6, <3>7 DEF Assembled, Needs, Own, Usable
    <3>9. QED
      BY <3>5, <3>8 DEF Outcome
  <2>3. QED
    BY <2>1, <2>2
<1>10. CASE Choose
  <2>1. /\ pc = "choose" /\ pc' = "done"
        /\ UNCHANGED <<mode, native, chosen, lost>>
        /\ result' = IF result.op # NoOp THEN result
                     ELSE IF mode = "decomposed" THEN Empty("decomposed")
                     ELSE GivenBack
    BY <1>10 DEF Choose, searchVars, setup, GivenBack
  <2>2. CASE result = Empty("native")
    <3>1. Empty("native").op = NoOp
      BY DEF Empty
    <3>2. \/ result' = Empty("decomposed") /\ mode = "decomposed"
          \/ result' = GivenBack
      BY <2>1, <2>2, <3>1
    <3>3. Empty("decomposed")' = Empty("decomposed") /\ GivenBack' = GivenBack
      BY <2>1 DEF Empty, GivenBack
    <3>4. QED
      BY <2>1, <3>2, <3>3 DEF Outcome
  <2>3. CASE Assembled
    <3>1. result.op # NoOp
      BY <2>3, StageFacts DEF Assembled, Control
    <3>2. Assembled'
      BY <2>1, <2>3, <3>1 DEF Assembled, Usable
    <3>3. QED
      BY <2>1, <3>2 DEF Outcome
  <2>4. QED
    BY <1>0, <2>1, <2>2, <2>3 DEF Outcome
<1>11. ASSUME NEW s \in todo, Ask(s) PROVE Outcome'
  BY <1>0, <1>11 DEF Ask, setup, Outcome
<1>12. ASSUME NEW s \in Slots, Answered(s) PROVE Outcome'
  BY <1>0, <1>12 DEF Answered, Finish, setup, Outcome
<1>13. ASSUME NEW s \in Slots, QuestionFails(s) PROVE Outcome'
  BY <1>0, <1>13 DEF QuestionFails, Finish, Fault, setup, Outcome
<1>14. ASSUME NEW f \in finished, Gather(f[1], f[2]) PROVE Outcome'
  BY <1>0, <1>14 DEF Gather, setup, Outcome
<1>15. CASE UNCHANGED vars
  <2>1. UNCHANGED <<pc, mode, native, chosen, lost, result>>
    BY <1>15 DEF vars, setup, searchVars
  <2>2. Assembled' = Assembled /\ GivenBack' = GivenBack
    BY <2>1 DEF Assembled, GivenBack, Usable
  <2>3. QED
    BY <1>0, <2>1, <2>2 DEF Outcome
<1>16. CASE Stop
  BY <1>15, <1>16 DEF Stop
<1>17. QED
  BY <1>1, <1>2, <1>3, <1>4, <1>5, <1>6, <1>7, <1>8, <1>9, <1>10, <1>11,
     <1>12, <1>13, <1>14, <1>15, <1>16 DEF Next, OwnStep, Extract, Reply,
     Fail

LEMMA OutcomeAlways == Spec => []Outcome
BY InitOutcome, StepOutcome, ControlAlways, WorkAlways, FoundAlways,
   PassedAlways, PTL DEF Spec

-----------------------------------------------------------------------------
(* A call that is put together is of an operation the classifier named,    *)
(* with the arguments it requires, each obtained for itself:               *)
(* _resolve_candidate, extract_slots, assemble.                            *)
THEOREM CallsAreWhole == Spec => []CallIsWhole
<1>1. Outcome /\ Control => CallIsWhole
  <2> SUFFICES ASSUME Outcome, Control, result.op # NoOp
               PROVE  Assembled
    BY DEF CallIsWhole, Assembled
  <2>1. Empty("native").op = NoOp /\ Empty("raised").op = NoOp
        /\ Empty("decomposed").op = NoOp
    BY DEF Empty
  <2>2. GivenBack.op = NoOp
    BY DEF GivenBack, Empty
  <2>3. QED
    BY <2>1, <2>2, Zenon DEF Outcome
<1>2. QED
  BY <1>1, OutcomeAlways, ControlAlways, PTL

(* An error leaves propose only after a question to the service failed.    *)
THEOREM ErrorsAreTheServices == Spec => []OnlyServiceErrorsEscape
<1>1. Outcome => OnlyServiceErrorsEscape
  <2>1. /\ Assembled => result.source # "raised"
        /\ Empty("decomposed").source # "raised"
        /\ GivenBack.source # "raised"
    BY DEF Assembled, Empty, GivenBack
  <2>2. QED
    BY <2>1 DEF Outcome, OnlyServiceErrorsEscape
<1>2. QED
  BY <1>1, OutcomeAlways, PTL

(* Escalation never replaces something usable and loses nothing when it    *)
(* yields no call: FastThenDecomposeStrategy.propose.                      *)
THEOREM EscalationAdds == Spec => []EscalationOnlyAdds
<1>1. Outcome /\ Control => EscalationOnlyAdds
  <2> SUFFICES ASSUME Outcome, Control, pc = "done", mode # "decomposed",
                      result.source # "raised"
               PROVE  EscalationOnlyAdds
    BY DEF EscalationOnlyAdds
  <2>1. Empty("raised").source = "raised"
    BY DEF Empty
  <2>2. CASE Assembled
    <3>1. result.source = "decomposed" /\ result.op # NoOp /\ ~Usable(native)
      BY <2>2, StageFacts DEF Assembled, Control
    <3>2. QED
      BY <3>1 DEF EscalationOnlyAdds, Usable
  <2>3. CASE result = GivenBack
    <3>1. GivenBack.source = "native" /\ GivenBack.native = native
      BY DEF GivenBack, Empty
    <3>2. QED
      BY <2>3, <3>1 DEF EscalationOnlyAdds
  <2>4. QED
    BY <2>1, <2>2, <2>3 DEF Outcome
<1>2. QED
  BY <1>1, OutcomeAlways, ControlAlways, PTL

(* The stages keep the types of their variables.                           *)
THEOREM StageTypeCorrect == Spec => []TypeOK
<1>1. Control /\ Work /\ Found /\ Passed /\ Outcome => TypeOK
  <2> SUFFICES ASSUME Control, Work, Found, Passed, Outcome PROVE TypeOK
    OBVIOUS
  <2>1. values \in Args
    BY DEF Found, Args
  <2>2. todo \subseteq Slots /\ busy \subseteq Slots
    <3>1. CASE pc = "ask"
      BY <3>1, NeedsAreSlots DEF Work, Control
    <3>2. CASE pc # "ask"
      BY <3>2 DEF Work
    <3>3. QED
      BY <3>1, <3>2
  <2>3. finished \subseteq Slots \X (Value \union {Null})
    <3>1. ASSUME NEW f \in finished
          PROVE  f \in Slots \X (Value \union {Null})
      <4>1. pc = "ask"
        BY DEF Work
      <4>2. f[1] \in Slots /\ f[2] \in Value \union {Null} /\ f = <<f[1], f[2]>>
        BY <4>1, NeedsAreSlots DEF Work, Control
      <4>3. QED
        BY <4>2
    <3>2. QED
      BY <3>1
  <2>4. result \in Result
    <3>1. NoArgs \in Args
      BY DEF NoArgs, Args
    <3>2. ASSUME NEW n \in Native, NEW source \in {"native", "decomposed", "raised"}
          PROVE  [Empty(source) EXCEPT !.native = n] \in Result
      BY <3>1 DEF Empty, Result
    <3>3. native \in Native /\ Nothing \in Native
      BY DEF Passed, Nothing, Native
    <3>4. GivenBack \in Result
      BY <3>2, <3>3 DEF GivenBack
    <3>5. Empty("native") \in Result /\ Empty("decomposed") \in Result
          /\ Empty("raised") \in Result
      BY <3>1, <3>3 DEF Empty, Result
    <3>6. Assembled => result \in Result
      BY DEF Assembled
    <3>7. QED
      BY <3>4, <3>5, <3>6, Zenon DEF Outcome
  <2>5. QED
    BY <2>1, <2>2, <2>3, <2>4, Zenon DEF TypeOK, Control, Passed, Stages
<1>2. QED
  BY <1>1, ControlAlways, WorkAlways, FoundAlways, PassedAlways,
     OutcomeAlways, PTL

-----------------------------------------------------------------------------
(* A proposal comes to its end: every step of it brings ProposalVariant    *)
(* down. It needs that the questions of a candidate can be counted.        *)

Counted == IsFiniteSet(todo) /\ IsFiniteSet(busy) /\ IsFiniteSet(finished)

LEMMA SeqHasFinitelyMany ==
    ASSUME NEW S, NEW seq \in Seq(S)
    PROVE  IsFiniteSet(ToSet(seq))
<1>1. IsFiniteSet(1..Len(seq))
  <2>1. Len(seq) \in Int /\ 1 \in Int
    OBVIOUS
  <2>2. QED
    BY <2>1, FS_Interval
<1>2. DOMAIN seq = 1..Len(seq) /\ ToSet(seq) = {seq[i] : i \in 1..Len(seq)}
  BY DEF ToSet
<1>3. seq \in Surjection(1..Len(seq), ToSet(seq))
  BY <1>2 DEF Surjection
<1>4. QED
  BY <1>1, <1>3, FS_Surjection

LEMMA InitCounted == Init => Counted
BY FS_EmptySet DEF Init, Counted

LEMMA FewerIsFinite ==
    ASSUME NEW S, NEW T, IsFiniteSet(S), T \subseteq S
    PROVE  IsFiniteSet(T)
BY FS_Subset

LEMMA StepCounted == Control /\ Counted /\ [Next]_vars => Counted'
<1> SUFFICES ASSUME Control, Counted, [Next]_vars PROVE Counted'
  OBVIOUS
<1>1. CASE UNCHANGED <<todo, busy, finished>>
  BY <1>1 DEF Counted
<1>2. CASE Resolve
  <2>1. Required[Head(ranked)] \in Seq(Slots)
    BY <1>2, StageFacts DEF Resolve, Control
  <2>2. todo' \subseteq ToSet(Required[Head(ranked)]) \/ todo' = todo
    BY <1>2 DEF Resolve
  <2>3. IsFiniteSet(todo')
    BY <2>1, <2>2, SeqHasFinitelyMany, FewerIsFinite DEF Counted
  <2>4. QED
    BY <1>2, <2>3 DEF Resolve, Counted
<1>3. ASSUME NEW s \in todo, Ask(s) PROVE Counted'
  <2>1. IsFiniteSet(todo \ {s}) /\ IsFiniteSet(busy \union {s})
    BY FS_AddElement, FS_RemoveElement DEF Counted
  <2>2. QED
    BY <1>3, <2>1 DEF Ask, Counted
<1>4. ASSUME NEW s \in Slots, NEW v, Finish(s, v) PROVE Counted'
  <2>1. IsFiniteSet(busy \ {s}) /\ IsFiniteSet(finished \union {<<s, v>>})
    BY FS_AddElement, FS_RemoveElement DEF Counted
  <2>2. QED
    BY <1>4, <2>1 DEF Finish, Counted
<1>5. ASSUME NEW f \in finished, Gather(f[1], f[2]) PROVE Counted'
  <2>1. IsFiniteSet(finished \ {<<f[1], f[2]>>})
    BY FS_RemoveElement DEF Counted
  <2>2. QED
    BY <1>5, <2>1 DEF Gather, Counted
<1>6. CASE Propose \/ NativeAnswers \/ NativeFails \/ Classify \/ ClassifyFails
  BY <1>1, <1>6 DEF Propose, NativeAnswers, NativeFails, Classify,
     ClassifyFails, searchVars
<1>7. CASE TryCandidate \/ AllGathered \/ Assemble \/ Choose \/ Stop
  BY <1>1, <1>7 DEF TryCandidate, AllGathered, Assemble, Choose, Stop, vars,
     searchVars
<1>8. CASE UNCHANGED vars
  BY <1>1, <1>8 DEF vars, searchVars
<1>9. CASE \E s \in Slots : Answered(s) \/ QuestionFails(s)
  BY <1>4, <1>9 DEF Answered, QuestionFails
<1>10. QED
  BY <1>2, <1>3, <1>5, <1>6, <1>7, <1>8, <1>9
     DEF Next, OwnStep, Extract, Reply, Fail

LEMMA CountedAlways == Spec => []Counted
BY InitCounted, StepCounted, ControlAlways, PTL DEF Spec

LEMMA QuadrupleBelow ==
    ASSUME NEW w \in Nat, NEW x \in Nat, NEW y \in Nat, NEW z \in Nat,
           NEW a \in Nat, NEW b \in Nat, NEW c \in Nat, NEW d \in Nat,
           \/ w < a
           \/ w = a /\ x < b
           \/ w = a /\ x = b /\ y < c
           \/ w = a /\ x = b /\ y = c /\ z < d
    PROVE  Below(<<w, x, y, z>>, <<a, b, c, d>>)
<1> DEFINE p == <<w, x, y, z>>
           q == <<a, b, c, d>>
<1>1. DOMAIN q = 1..4 /\ p \in [1..4 -> Nat]
  OBVIOUS
<1>2. /\ p[1] = w /\ p[2] = x /\ p[3] = y /\ p[4] = z
      /\ q[1] = a /\ q[2] = b /\ q[3] = c /\ q[4] = d
  OBVIOUS
<1> HIDE DEF p, q
<1>3. CASE w < a
  BY <1>1, <1>2, <1>3 DEF Below
<1>4. CASE w = a /\ x < b
  <2>1. \A i \in 1..(2 - 1) : p[i] = q[i]
    BY <1>2, <1>4
  <2>2. 2 \in DOMAIN q /\ p[2] < q[2]
    BY <1>1, <1>2, <1>4
  <2>3. QED
    BY <1>1, <2>1, <2>2 DEF Below
<1>5. CASE w = a /\ x = b /\ y < c
  <2>1. \A i \in 1..(3 - 1) : p[i] = q[i]
    BY <1>2, <1>5
  <2>2. 3 \in DOMAIN q /\ p[3] < q[3]
    BY <1>1, <1>2, <1>5
  <2>3. QED
    BY <1>1, <2>1, <2>2 DEF Below
<1>6. CASE w = a /\ x = b /\ y = c /\ z < d
  <2>1. \A i \in 1..(4 - 1) : p[i] = q[i]
    BY <1>2, <1>6
  <2>2. 4 \in DOMAIN q /\ p[4] < q[4]
    BY <1>1, <1>2, <1>6
  <2>3. QED
    BY <1>1, <2>1, <2>2 DEF Below
<1>7. QED
  BY <1>3, <1>4, <1>5, <1>6 DEF p, q

CandidatesLeft == Len(ranked)

LeftOK == /\ StagesLeft \in Nat /\ CandidatesLeft \in Nat
          /\ StepsLeft \in Nat /\ QuestionsLeft \in Nat

LEMMA LeftAreNaturals == Control /\ Counted => LeftOK
<1> SUFFICES ASSUME Control, Counted PROVE LeftOK
  OBVIOUS
<1>1. StagesLeft \in Nat /\ StepsLeft \in Nat
  BY DEF Control, Stages, StagesLeft, StepsLeft
<1>2. CandidatesLeft \in Nat
  BY DEF Control, CandidatesLeft
<1>3. /\ Cardinality(todo) \in Nat /\ Cardinality(busy) \in Nat
      /\ Cardinality(finished) \in Nat
  BY FS_CardinalityType DEF Counted
<1>4. QED
  BY <1>1, <1>2, <1>3 DEF LeftOK, QuestionsLeft

LEMMA LeftAreNaturalsNext == Control' /\ Counted' => LeftOK'
BY LeftAreNaturals, PTL

LEMMA ProposalGoesDown ==
    ASSUME LeftOK, LeftOK',
           \/ StagesLeft' < StagesLeft
           \/ /\ StagesLeft' = StagesLeft
              /\ CandidatesLeft' < CandidatesLeft
           \/ /\ StagesLeft' = StagesLeft /\ CandidatesLeft' = CandidatesLeft
              /\ StepsLeft' < StepsLeft
           \/ /\ StagesLeft' = StagesLeft /\ CandidatesLeft' = CandidatesLeft
              /\ StepsLeft' = StepsLeft /\ QuestionsLeft' < QuestionsLeft
    PROVE  Below(ProposalVariant', ProposalVariant)
<1>1. /\ ProposalVariant =
            <<StagesLeft, CandidatesLeft, StepsLeft, QuestionsLeft>>
      /\ ProposalVariant' =
            <<StagesLeft', CandidatesLeft', StepsLeft', QuestionsLeft'>>
  BY DEF ProposalVariant, CandidatesLeft
<1>2. QED
  BY <1>1, QuadrupleBelow DEF LeftOK

LEMMA OneMoreAtMost ==
    ASSUME NEW S, NEW x, IsFiniteSet(S)
    PROVE  Cardinality(S \union {x}) <= Cardinality(S) + 1
<1>1. Cardinality(S) \in Nat
  BY FS_CardinalityType
<1>2. CASE x \in S
  <2>1. S \union {x} = S
    BY <1>2
  <2>2. QED
    BY <1>1, <2>1
<1>3. CASE x \notin S
  <2>1. Cardinality(S \union {x}) = Cardinality(S) + 1
    BY <1>3, FS_AddElement
  <2>2. QED
    BY <1>1, <2>1
<1>4. QED
  BY <1>2, <1>3

(* What a step in the questions of one candidate does to their number.     *)
LEMMA QuestionIsTaken ==
    ASSUME Counted, NEW s \in todo, Ask(s)
    PROVE  QuestionsLeft' < QuestionsLeft
<1>1. /\ Cardinality(todo') = Cardinality(todo) - 1
      /\ Cardinality(busy') <= Cardinality(busy) + 1
      /\ finished' = finished
  <2>1. /\ todo' = todo \ {s} /\ busy' = busy \union {s}
        /\ finished' = finished
    BY DEF Ask
  <2>2. Cardinality(busy \union {s}) <= Cardinality(busy) + 1
    BY OneMoreAtMost DEF Counted
  <2>3. Cardinality(todo \ {s}) = Cardinality(todo) - 1
    BY FS_RemoveElement DEF Counted
  <2>4. QED
    BY <2>1, <2>2, <2>3
<1>2. /\ Cardinality(todo) \in Nat /\ Cardinality(busy) \in Nat
      /\ Cardinality(finished) \in Nat /\ Cardinality(busy') \in Nat
  BY FS_CardinalityType, FS_AddElement DEF Counted, Ask
<1>3. QED
  BY <1>1, <1>2 DEF QuestionsLeft

LEMMA QuestionIsAnswered ==
    ASSUME Counted, NEW s \in busy, NEW v, Finish(s, v)
    PROVE  QuestionsLeft' < QuestionsLeft
<1>1. /\ Cardinality(busy') = Cardinality(busy) - 1
      /\ Cardinality(finished') <= Cardinality(finished) + 1
      /\ todo' = todo
  <2>1. /\ busy' = busy \ {s} /\ finished' = finished \union {<<s, v>>}
        /\ todo' = todo
    BY DEF Finish
  <2>2. Cardinality(finished \union {<<s, v>>}) <= Cardinality(finished) + 1
    BY OneMoreAtMost DEF Counted
  <2>3. Cardinality(busy \ {s}) = Cardinality(busy) - 1
    BY FS_RemoveElement DEF Counted
  <2>4. QED
    BY <2>1, <2>2, <2>3
<1>2. /\ Cardinality(todo) \in Nat /\ Cardinality(busy) \in Nat
      /\ Cardinality(finished) \in Nat /\ Cardinality(finished') \in Nat
  BY FS_CardinalityType, FS_AddElement DEF Counted, Finish
<1>3. QED
  BY <1>1, <1>2 DEF QuestionsLeft

LEMMA AnswerIsGathered ==
    ASSUME Counted, NEW s, NEW v, Gather(s, v)
    PROVE  QuestionsLeft' < QuestionsLeft
<1>1. /\ Cardinality(finished') = Cardinality(finished) - 1
      /\ busy' = busy /\ todo' = todo
  BY FS_RemoveElement DEF Counted, Gather
<1>2. /\ Cardinality(todo) \in Nat /\ Cardinality(busy) \in Nat
      /\ Cardinality(finished) \in Nat
  BY FS_CardinalityType DEF Counted
<1>3. QED
  BY <1>1, <1>2 DEF QuestionsLeft

LEMMA StepProposalDescends ==
    ASSUME Control, Counted, LeftOK, LeftOK', Next, pc \notin {"idle", "done"}
    PROVE  Below(ProposalVariant', ProposalVariant)
<1>1. CASE NativeAnswers \/ NativeFails \/ Classify \/ ClassifyFails
  <2>1. \/ pc = "native" /\ pc' \in {"intent", "done"}
        \/ pc = "intent" /\ pc' \in {"try", "done"}
    BY <1>1 DEF NativeAnswers, NativeFails, Classify, ClassifyFails, Raise
  <2>2. StagesLeft' < StagesLeft
    BY <2>1 DEF StagesLeft
  <2>3. QED
    BY <2>2, ProposalGoesDown
<1>2. CASE TryCandidate \/ AllGathered
  <2>1. /\ \/ pc = "try" /\ pc' \in {"choose", "assemble", "resolve"}
           \/ pc = "ask" /\ pc' = "assemble"
        /\ ranked' = ranked
    BY <1>2 DEF TryCandidate, AllGathered, searchVars
  <2>2. /\ StagesLeft' < StagesLeft \/ StagesLeft' = StagesLeft
        /\ StepsLeft' < StepsLeft /\ CandidatesLeft' = CandidatesLeft
    BY <2>1 DEF StagesLeft, StepsLeft, CandidatesLeft
  <2>3. QED
    BY <2>2, ProposalGoesDown
<1>3. CASE Resolve
  <2>1. pc = "resolve" /\ pc' \in {"ask", "done"} /\ ranked' = ranked
    BY <1>3 DEF Resolve, Raise
  <2>2. /\ StagesLeft' < StagesLeft \/ StagesLeft' = StagesLeft
        /\ StepsLeft' < StepsLeft /\ CandidatesLeft' = CandidatesLeft
    BY <2>1 DEF StagesLeft, StepsLeft, CandidatesLeft
  <2>3. QED
    BY <2>2, ProposalGoesDown
<1>4. CASE Assemble
  <2>1. CASE pc = "assemble" /\ pc' = "choose"
    <3>1. StagesLeft' < StagesLeft
      BY <2>1 DEF StagesLeft
    <3>2. QED
      BY <3>1, ProposalGoesDown
  <2>2. CASE pc = "assemble" /\ pc' = "try" /\ ranked' = Tail(ranked)
    <3>1. StagesLeft' = StagesLeft
      BY <2>2 DEF StagesLeft
    <3>2. ranked \in Seq(Operations) /\ ranked # <<>>
      BY <2>2 DEF Control
    <3>3. CandidatesLeft' < CandidatesLeft
      BY <2>2, <3>2 DEF CandidatesLeft
    <3>4. QED
      BY <3>1, <3>3, ProposalGoesDown
  <2>3. QED
    BY <1>4, <2>1, <2>2 DEF Assemble
<1>5. CASE Choose
  <2>1. pc = "choose" /\ pc' = "done" /\ ranked' = ranked
    BY <1>5 DEF Choose, searchVars
  <2>2. /\ StagesLeft' = StagesLeft /\ StepsLeft' < StepsLeft
        /\ CandidatesLeft' = CandidatesLeft
    BY <2>1 DEF StagesLeft, StepsLeft, CandidatesLeft
  <2>3. QED
    BY <2>2, ProposalGoesDown
<1>6. CASE /\ pc' = pc /\ ranked' = ranked
           /\ QuestionsLeft' < QuestionsLeft
  <2>1. /\ StagesLeft' = StagesLeft /\ StepsLeft' = StepsLeft
        /\ CandidatesLeft' = CandidatesLeft
    BY <1>6 DEF StagesLeft, StepsLeft, CandidatesLeft
  <2>2. QED
    BY <1>6, <2>1, ProposalGoesDown
<1>7. ASSUME NEW s \in todo, Ask(s)
      PROVE  Below(ProposalVariant', ProposalVariant)
  BY <1>6, <1>7, QuestionIsTaken DEF Ask
<1>8. ASSUME NEW s \in Slots, Answered(s) \/ QuestionFails(s)
      PROVE  Below(ProposalVariant', ProposalVariant)
  <2>1. PICK v : s \in busy /\ Finish(s, v)
    BY <1>8 DEF Answered, QuestionFails
  <2>2. pc' = pc /\ ranked' = ranked
    BY <2>1 DEF Finish
  <2>3. QED
    BY <1>6, <2>1, <2>2, QuestionIsAnswered
<1>9. ASSUME NEW f \in finished, Gather(f[1], f[2])
      PROVE  Below(ProposalVariant', ProposalVariant)
  BY <1>6, <1>9, AnswerIsGathered DEF Gather
<1>10. ~Propose /\ ~Stop
  BY DEF Propose, Stop
<1>11. QED
  BY <1>1, <1>2, <1>3, <1>4, <1>5, <1>7, <1>8, <1>9, <1>10
     DEF Next, OwnStep, Extract, Reply, Fail

(* No answer of the model, and no order in which the workers get theirs,   *)
(* keeps a proposal going for ever: each of its steps brings a tuple of    *)
(* naturals down. No stage is entered twice but for another candidate, of  *)
(* which there is one less: propose, extract_slots, _resolve_candidate.    *)
THEOREM ProposalsComeToAnEnd == Spec => ProposalDescends
<1> DEFINE Down == pc \notin {"idle", "done"} =>
                       Below(ProposalVariant', ProposalVariant)
<1>1. Control /\ Counted /\ LeftOK /\ LeftOK' /\ [Next]_vars => [Down]_vars
  BY StepProposalDescends
<1> HIDE DEF Down
<1>2. Spec => []LeftOK
  BY LeftAreNaturals, ControlAlways, CountedAlways, PTL
<1>3. Spec => [][Down]_vars
  BY <1>1, <1>2, ControlAlways, CountedAlways, PTL DEF Spec
<1>4. QED
  BY <1>3 DEF Down, ProposalDescends

-----------------------------------------------------------------------------
(* The n-th of a finite set of numbers is there, is one, and stays where   *)
(* it is when a greater number joins the set.                              *)

Rank(S, x) == Cardinality({y \in S : y < x})

LEMMA RankIsBelow ==
    ASSUME NEW S \in SUBSET Nat, IsFiniteSet(S), NEW x \in S, NEW z \in S, x < z
    PROVE  Rank(S, x) < Rank(S, z)
<1> DEFINE A == {y \in S : y < x}
           B == {y \in S : y < z}
<1>1. IsFiniteSet(B) /\ Cardinality(B) \in Nat
  BY FS_Subset, FS_CardinalityType
<1>2. A \in SUBSET B
  <2>1. \A y \in S : y < x => y < z
    <3>1. x \in Nat /\ z \in Nat /\ \A y \in S : y \in Nat
      OBVIOUS
    <3>2. QED
      BY <3>1
  <2>2. QED
    BY <2>1
<1>3. x \in B /\ x \notin A
  <2>1. x \in Nat
    OBVIOUS
  <2>2. QED
    BY <2>1
<1> HIDE DEF A, B
<1>4. Cardinality(A) <= Cardinality(B) /\ (Cardinality(B) = Cardinality(A) => B = A)
  BY <1>1, <1>2, FS_Subset
<1>5. Cardinality(A) \in Nat
  BY <1>1, <1>2, FS_Subset, FS_CardinalityType
<1>6. A # B
  BY <1>3
<1>7. Cardinality(A) < Cardinality(B)
  BY <1>1, <1>4, <1>5, <1>6
<1>8. QED
  BY <1>7 DEF Rank, A, B

LEMMA RankType ==
    ASSUME NEW S \in SUBSET Nat, IsFiniteSet(S), NEW x \in S
    PROVE  Rank(S, x) \in 0..(Cardinality(S) - 1)
<1> DEFINE A == {y \in S : y < x}
<1>1. Cardinality(S) \in Nat
  BY FS_CardinalityType
<1>2. A \in SUBSET S /\ x \notin A
  <2>1. x \in Nat
    OBVIOUS
  <2>2. QED
    BY <2>1
<1> HIDE DEF A
<1>3. A # S
  BY <1>2
<1>4. IsFiniteSet(A) /\ Cardinality(A) <= Cardinality(S)
      /\ (Cardinality(S) = Cardinality(A) => S = A)
  BY <1>2, FS_Subset
<1>5. Cardinality(A) \in Nat
  BY <1>4, FS_CardinalityType
<1>6. Cardinality(A) \in 0..(Cardinality(S) - 1)
  BY <1>1, <1>3, <1>4, <1>5
<1>7. QED
  BY <1>6 DEF Rank, A

LEMMA RankInjective ==
    ASSUME NEW S \in SUBSET Nat, IsFiniteSet(S), NEW x \in S, NEW z \in S,
           Rank(S, x) = Rank(S, z)
    PROVE  x = z
<1>1. x \in Nat /\ z \in Nat
  OBVIOUS
<1>2. Rank(S, x) \in Int /\ Rank(S, z) \in Int
  BY RankType
<1>3. ~(x < z)
  BY <1>2, RankIsBelow
<1>4. ~(z < x)
  BY <1>2, RankIsBelow
<1>5. QED
  BY <1>1, <1>3, <1>4

LEMMA RankIsOnto ==
    ASSUME NEW S \in SUBSET Nat, IsFiniteSet(S), NEW n \in 1..Cardinality(S)
    PROVE  \E x \in S : Rank(S, x) = n - 1
<1> DEFINE T == 0..(Cardinality(S) - 1)
           f == [x \in S |-> Rank(S, x)]
<1>0. Cardinality(S) \in Nat
  BY FS_CardinalityType
<1>1. IsFiniteSet(T) /\ Cardinality(T) = Cardinality(S)
  <2>1. 0 \in Int /\ Cardinality(S) - 1 \in Int
    BY <1>0
  <2>2. Cardinality(T) = IF 0 > Cardinality(S) - 1 THEN 0
                         ELSE (Cardinality(S) - 1) - 0 + 1
    BY <2>1, FS_Interval
  <2>3. IsFiniteSet(T)
    BY <2>1, FS_Interval
  <2> HIDE DEF T
  <2>4. QED
    BY <1>0, <2>2, <2>3
<1>2. f \in [S -> T]
  BY RankType
<1>3. \A x, z \in S : f[x] = f[z] => x = z
  BY RankInjective
<1>4. n - 1 \in T
  BY <1>0
<1> HIDE DEF T, f
<1>5. f \in Injection(S, T)
  BY <1>2, <1>3 DEF Injection, IsInjective
<1>6. f \in Surjection(S, T)
  BY <1>1, <1>5, FS_Injection
<1>7. \E x \in S : f[x] = n - 1
  BY <1>4, <1>6 DEF Surjection
<1>8. QED
  BY <1>7 DEF f

LEMMA NthIs ==
    ASSUME NEW S \in SUBSET Nat, IsFiniteSet(S), NEW n \in 1..Cardinality(S)
    PROVE  Nth(S, n) \in S /\ Rank(S, Nth(S, n)) = n - 1
<1>1. \E x \in S : Rank(S, x) = n - 1
  BY RankIsOnto
<1>2. QED
  BY <1>1 DEF Nth, Rank

LEMMA NthIsOne ==
    ASSUME NEW S \in SUBSET Nat, IsFiniteSet(S), NEW n \in 1..Cardinality(S),
           NEW x \in S, Rank(S, x) = n - 1
    PROVE  Nth(S, n) = x
<1>1. Nth(S, n) \in S /\ Rank(S, Nth(S, n)) = n - 1
  BY NthIs
<1>2. QED
  BY <1>1, RankInjective

LEMMA NthIsOnto ==
    ASSUME NEW S \in SUBSET Nat, IsFiniteSet(S), NEW x \in S
    PROVE  \E n \in 1..Cardinality(S) : Nth(S, n) = x
<1> DEFINE n == Rank(S, x) + 1
<1>1. Rank(S, x) \in 0..(Cardinality(S) - 1) /\ Cardinality(S) \in Nat
  BY RankType, FS_CardinalityType
<1>2. n \in 1..Cardinality(S) /\ Rank(S, x) = n - 1
  BY <1>1
<1> HIDE DEF n
<1>3. Nth(S, n) = x
  BY <1>2, NthIsOne
<1>4. QED
  BY <1>2, <1>3

LEMMA NthGrows ==
    ASSUME NEW S \in SUBSET Nat, IsFiniteSet(S), NEW m \in Nat,
           \A x \in S : x < m
    PROVE  /\ IsFiniteSet(S \union {m})
           /\ Cardinality(S \union {m}) = Cardinality(S) + 1
           /\ \A n \in 1..Cardinality(S) : Nth(S \union {m}, n) = Nth(S, n)
           /\ Nth(S \union {m}, Cardinality(S) + 1) = m
<1> DEFINE T == S \union {m}
           k == Cardinality(S)
<1>0. k \in Nat /\ m \notin S /\ T \in SUBSET Nat
  BY FS_CardinalityType
<1>1. IsFiniteSet(T) /\ Cardinality(T) = k + 1
  BY <1>0, FS_AddElement
<1>2. \A x \in S : {y \in T : y < x} = {y \in S : y < x}
  <2>1. ASSUME NEW x \in S PROVE ~(m < x)
    <3>1. x < m /\ x \in Nat
      OBVIOUS
    <3>2. QED
      BY <3>1
  <2>2. QED
    BY <2>1
<1>3. {y \in T : y < m} = S
  <2>1. ~(m < m)
    OBVIOUS
  <2>2. QED
    BY <2>1
<1>4. \A x \in S : Rank(T, x) = Rank(S, x)
  BY <1>2 DEF Rank
<1>5. Rank(T, m) = k
  BY <1>3 DEF Rank
<1>6. m \in T /\ \A x \in S : x \in T
  OBVIOUS
<1> HIDE DEF T, k
<1>7. ASSUME NEW n \in 1..k PROVE Nth(T, n) = Nth(S, n)
  <2>1. Nth(S, n) \in S /\ Rank(S, Nth(S, n)) = n - 1
    BY <1>7, NthIs DEF k
  <2>2. Nth(S, n) \in T /\ Rank(T, Nth(S, n)) = n - 1
    BY <1>4, <1>6, <2>1
  <2>3. n \in 1..Cardinality(T)
    BY <1>0, <1>1
  <2>4. QED
    BY <1>0, <1>1, <2>2, <2>3, NthIsOne
<1>8. Nth(T, k + 1) = m
  <2>1. k + 1 \in 1..Cardinality(T) /\ Rank(T, m) = (k + 1) - 1
    BY <1>0, <1>1, <1>5
  <2>2. QED
    BY <1>0, <1>1, <1>6, <2>1, NthIsOne
<1>9. QED
  BY <1>1, <1>7, <1>8 DEF T, k

-----------------------------------------------------------------------------
(* Types.                                                                  *)

LEMMA StreamBounds ==
    /\ Parts \in Nat \ {0} /\ MaxTokens \in Nat /\ MaxTroubles \in Nat
    /\ IsFiniteSet(Calls) /\ None \notin Calls
    /\ Indexes \subseteq Nat
BY CallsAssumption, IndexesAssumption, StreamBoundsAssumption
   DEF CallsAssumption, IndexesAssumption, StreamBoundsAssumption

LEMMA ChunkCalls ==
    ASSUME NEW k \in Chunk
    PROVE  /\ k.token \in BOOLEAN /\ k.finish \in BOOLEAN
           /\ k.calls \in Seq(Calls)
           /\ \A i, j \in 1..Len(k.calls) : i # j => k.calls[i] # k.calls[j]
           /\ ToSet(k.calls) = {k.calls[i] : i \in 1..Len(k.calls)}
<1>1. k.token \in BOOLEAN /\ k.finish \in BOOLEAN
      /\ k.calls \in UNION {SetToSeqs(S) : S \in SUBSET Calls}
  BY DEF Chunk
<1>2. PICK S \in SUBSET Calls : k.calls \in SetToSeqs(S)
  BY <1>1
<1>3. IsFiniteSet(S) /\ Cardinality(S) \in Nat
  BY StreamBounds, FS_Subset, FS_CardinalityType
<1> DEFINE q == k.calls
           n == Cardinality(S)
<1>4. /\ q \in [1..n -> S]
      /\ \A i, j \in 1..n : i # j => q[i] # q[j]
  BY <1>2 DEF SetToSeqs, IsInjective
<1> HIDE DEF q, n
<1>5. q \in Seq(Calls) /\ Len(q) = n
  BY <1>3, <1>4 DEF n
<1>6. ToSet(q) = {q[i] : i \in 1..Len(q)}
  BY <1>5 DEF ToSet
<1>7. QED
  BY <1>1, <1>4, <1>5, <1>6 DEF q

TextTyped ==
    /\ index \in [Calls -> Indexes]
    /\ tokens \in 0..MaxTokens
    /\ sent \in [Calls -> 0..Parts]
    /\ garbled \in BOOLEAN
    /\ text \in Seq(1..MaxTokens)
    /\ finish \in BOOLEAN /\ sink \in BOOLEAN
    /\ emitted \in Seq(1..MaxTokens)
    /\ outcome \in {"open", "returned", "refused", "broken"}
    /\ troubles \in 0..MaxTroubles
CallTyped ==
    /\ DOMAIN accum \subseteq Indexes /\ IsFiniteSet(DOMAIN accum)
    /\ \A i \in DOMAIN accum : accum[i] \in Acc
    /\ pending \in Seq(Delta)
    /\ heard \in Seq(Delta)
ResponseTyped == response \in Response

LEMMA InitTextTyped == StreamInit => TextTyped
<1> SUFFICES ASSUME StreamInit PROVE TextTyped
  OBVIOUS
<1>1. 0 \in 0..MaxTokens /\ 0 \in 0..Parts /\ 0 \in 0..MaxTroubles
  BY StreamBounds
<1>2. sent \in [Calls -> 0..Parts]
  BY <1>1 DEF StreamInit
<1>3. text \in Seq(1..MaxTokens) /\ emitted \in Seq(1..MaxTokens)
  BY DEF StreamInit
<1>4. QED
  BY <1>1, <1>2, <1>3 DEF StreamInit, TextTyped

LEMMA InitCallTyped == StreamInit => CallTyped
BY FS_EmptySet DEF StreamInit, CallTyped

LEMMA InitResponseTyped == StreamInit => ResponseTyped
BY DEF StreamInit, ResponseTyped, Response, NoResponse

(* What a chunk does to the side of the service, read or not.              *)
LEMMA SendTyped ==
    ASSUME TextTyped, NEW k \in Chunk, MaySend(k), Send(k)
    PROVE  /\ tokens' \in 0..MaxTokens /\ sent' \in [Calls -> 0..Parts]
           /\ index' = index
           /\ k.token => tokens + 1 \in 1..MaxTokens
<1>1. k.token \in BOOLEAN
  BY ChunkCalls
<1>2. k.token => tokens + 1 \in 1..MaxTokens
  BY <1>1, StreamBounds DEF TextTyped, MaySend
<1>3. \A c \in Calls : c \in ToSet(k.calls) => sent[c] + 1 \in 0..Parts
  BY StreamBounds DEF TextTyped, MaySend
<1>4. tokens' \in 0..MaxTokens
  BY <1>1, <1>2, StreamBounds DEF TextTyped, Send
<1>5. sent' \in [Calls -> 0..Parts]
  BY <1>3 DEF TextTyped, Send
<1>6. QED
  BY <1>1, <1>2, <1>4, <1>5 DEF Send

LEMMA DeltasTyped ==
    ASSUME TextTyped, NEW k \in Chunk, MaySend(k)
    PROVE  /\ Deltas(k) \in Seq(Delta) /\ Len(Deltas(k)) = Len(k.calls)
           /\ \A j \in 1..Len(k.calls) :
                 /\ Deltas(k)[j].call = k.calls[j]
                 /\ Deltas(k)[j].part = sent[k.calls[j]] + 1
<1>1. /\ k.calls \in Seq(Calls)
      /\ ToSet(k.calls) = {k.calls[i] : i \in 1..Len(k.calls)}
  BY ChunkCalls
<1> DEFINE n == Len(k.calls)
           D(j) == [call |-> k.calls[j], part |-> sent[k.calls[j]] + 1]
<1>2. n \in Nat
  BY <1>1
<1>3. ASSUME NEW j \in 1..n PROVE D(j) \in Delta
  <2>1. k.calls[j] \in Calls /\ k.calls[j] \in ToSet(k.calls)
    BY <1>1
  <2>2. sent[k.calls[j]] < Parts /\ sent[k.calls[j]] \in 0..Parts
    BY <2>1 DEF MaySend, TextTyped
  <2>3. sent[k.calls[j]] + 1 \in 1..Parts
    <3>1. \A x \in 0..Parts : x < Parts => x + 1 \in 1..Parts
      BY StreamBounds
    <3>2. QED
      BY <2>2, <3>1
  <2>4. QED
    BY <2>1, <2>3 DEF Delta
<1>4. Deltas(k) = [j \in 1..n |-> D(j)]
  BY DEF Deltas
<1>5. \A j \in 1..n : D(j).call = k.calls[j] /\ D(j).part = sent[k.calls[j]] + 1
  OBVIOUS
<1> HIDE DEF n, D
<1>6. Deltas(k) \in Seq(Delta) /\ Len(Deltas(k)) = n
      /\ \A j \in 1..n : Deltas(k)[j] = D(j)
  BY <1>2, <1>3, <1>4
<1>7. QED
  BY <1>5, <1>6 DEF n

LEMMA TakeTyped ==
    ASSUME TextTyped, NEW k \in Chunk, Take(k)
    PROVE  /\ tokens' \in 0..MaxTokens /\ sent' \in [Calls -> 0..Parts]
           /\ index' = index
           /\ text' \in Seq(1..MaxTokens) /\ finish' \in BOOLEAN
           /\ garbled' = garbled /\ outcome' = outcome
           /\ k.token => tokens + 1 \in 1..MaxTokens
<1>1. MaySend(k) /\ Send(k)
  BY DEF Take
<1>2. /\ tokens' \in 0..MaxTokens /\ sent' \in [Calls -> 0..Parts]
      /\ index' = index
      /\ k.token => tokens + 1 \in 1..MaxTokens
  BY <1>1, SendTyped
<1>3. text' \in Seq(1..MaxTokens)
  <2>1. text \in Seq(1..MaxTokens)
    BY DEF TextTyped
  <2>2. k.token => Append(text, tokens + 1) \in Seq(1..MaxTokens)
    BY <1>2, <2>1
  <2>3. QED
    BY <2>1, <2>2 DEF Take
<1>4. finish' \in BOOLEAN
  BY ChunkCalls DEF Take, TextTyped
<1>5. QED
  BY <1>2, <1>3, <1>4 DEF Take

LEMMA StepTextTyped ==
    TextTyped /\ [StreamNext]_streamVars => TextTyped'
<1> SUFFICES ASSUME TextTyped, [StreamNext]_streamVars
             PROVE  TextTyped'
  OBVIOUS
<1>1. ASSUME NEW k \in Chunk, Healthy(k) PROVE TextTyped'
  <2>1. Take(k) /\ k.token \in BOOLEAN
    BY <1>1, ChunkCalls DEF Healthy
  <2>2. /\ tokens' \in 0..MaxTokens /\ sent' \in [Calls -> 0..Parts]
        /\ index' = index
        /\ text' \in Seq(1..MaxTokens) /\ finish' \in BOOLEAN
        /\ garbled' = garbled /\ outcome' = outcome
        /\ k.token => tokens + 1 \in 1..MaxTokens
    BY <2>1, TakeTyped
  <2>3. emitted' \in Seq(1..MaxTokens) /\ sink' \in BOOLEAN
    <3>1. CASE k.token
      <4>1. emitted \in Seq(1..MaxTokens) /\ sink \in BOOLEAN
        BY DEF TextTyped
      <4>2. Append(emitted, tokens + 1) \in Seq(1..MaxTokens)
        BY <2>2, <3>1, <4>1
      <4>3. QED
        BY <1>1, <3>1, <4>1, <4>2 DEF Healthy, Emit
    <3>2. CASE ~k.token
      BY <1>1, <3>2 DEF Healthy, TextTyped
    <3>3. QED
      BY <3>1, <3>2
  <2>4. troubles' = troubles
    BY <1>1 DEF Healthy
  <2>5. QED
    BY <2>2, <2>3, <2>4 DEF TextTyped
<1>2. ASSUME NEW k \in Chunk, SinkRaises(k) PROVE TextTyped'
  <2>1. Take(k)
    BY <1>2 DEF SinkRaises
  <2>2. /\ tokens' \in 0..MaxTokens /\ sent' \in [Calls -> 0..Parts]
        /\ index' = index
        /\ text' \in Seq(1..MaxTokens) /\ finish' \in BOOLEAN
        /\ garbled' = garbled /\ outcome' = outcome
    BY <2>1, TakeTyped
  <2>3. emitted' = emitted /\ sink' = FALSE
    BY <1>2 DEF SinkRaises, Emit
  <2>4. troubles' \in 0..MaxTroubles
    BY <1>2, StreamBounds DEF SinkRaises, TextTyped
  <2>5. QED
    BY <2>2, <2>3, <2>4 DEF TextTyped
<1>3. ASSUME NEW k \in Chunk, Garbled(k) PROVE TextTyped'
  <2>1. MaySend(k) /\ Send(k)
    BY <1>3 DEF Garbled
  <2>2. /\ tokens' \in 0..MaxTokens /\ sent' \in [Calls -> 0..Parts]
        /\ index' = index
    BY <2>1, SendTyped
  <2>3. troubles' \in 0..MaxTroubles
    BY <1>3, StreamBounds DEF Garbled, TextTyped
  <2>4. QED
    BY <1>3, <2>2, <2>3 DEF Garbled, TextTyped, textVars
<1>4. CASE FeedNext
  BY <1>4 DEF FeedNext, TextTyped, serverVars, textVars
<1>5. CASE StreamEnds
  BY <1>5 DEF StreamEnds, TextTyped, serverVars, textVars
<1>6. CASE StreamFails
  BY <1>6 DEF StreamFails, TextTyped, serverVars, textVars
<1>7. CASE StreamOver
  BY <1>7 DEF StreamOver, TextTyped, streamVars, serverVars, textVars
<1>8. CASE UNCHANGED streamVars
  BY <1>8 DEF TextTyped, streamVars, serverVars, textVars
<1>9. QED
  BY <1>1, <1>2, <1>3, <1>4, <1>5, <1>6, <1>7, <1>8 DEF StreamNext

(* One part is fed: what it leaves alone and what it makes.                *)
LEMMA FeedIs ==
    ASSUME TextTyped, CallTyped, NEW d \in Delta
    PROVE  LET i   == index[d.call]
               old == IF i \in DOMAIN accum THEN accum[i] ELSE Fresh
               a   == Feed(accum, d)
           IN  /\ i \in Indexes /\ old \in Acc /\ d.call \in Calls
               /\ DOMAIN a = DOMAIN accum \union {i}
               /\ \A x \in DOMAIN accum : x # i => a[x] = accum[x]
               /\ a[i].args = Append(old.args, d)
               /\ a[i].id = IF d.part = 1 THEN d.call ELSE old.id
               /\ a[i] \in Acc
<1> DEFINE i   == index[d.call]
           old == IF i \in DOMAIN accum THEN accum[i] ELSE Fresh
           new == [id   |-> IF d.part = 1 THEN d.call ELSE old.id,
                   args |-> Append(old.args, d)]
<1>1. d.call \in Calls /\ i \in Indexes
  BY DEF Delta, TextTyped
<1>2. Fresh \in Acc
  BY DEF Fresh, Acc
<1>3. old \in Acc
  BY <1>2 DEF CallTyped
<1>4. Feed(accum, d) = [x \in DOMAIN accum \union {i} |->
                           IF x = i THEN new ELSE accum[x]]
  BY DEF Feed
<1>5. new \in Acc
  <2>1. old.id \in Calls \union {None} /\ old.args \in Seq(Delta)
    BY <1>3 DEF Acc
  <2>2. Append(old.args, d) \in Seq(Delta)
    BY <2>1
  <2>3. QED
    BY <1>1, <2>1, <2>2 DEF Acc
<1>6. /\ new.args = Append(old.args, d)
      /\ new.id = IF d.part = 1 THEN d.call ELSE old.id
  OBVIOUS
<1> HIDE DEF new, old, i
<1>7. QED
  BY <1>1, <1>3, <1>4, <1>5, <1>6 DEF i, old

LEMMA FeedNextIs ==
    ASSUME CallTyped, FeedNext
    PROVE  LET d == pending[1]
           IN  /\ d \in Delta /\ Len(pending) >= 1
               /\ accum' = Feed(accum, d)
               /\ heard' = Append(heard, d)
               /\ pending' \in Seq(Delta) /\ Len(pending') = Len(pending) - 1
               /\ \A j \in 1..Len(pending') : pending'[j] = pending[j + 1]
               /\ UNCHANGED <<index, sent, garbled, outcome, response, finish>>
<1>1. pending \in Seq(Delta) /\ pending # <<>>
  BY DEF CallTyped, FeedNext
<1>2. /\ Head(pending) = pending[1] /\ pending[1] \in Delta /\ Len(pending) >= 1
      /\ Tail(pending) \in Seq(Delta) /\ Len(Tail(pending)) = Len(pending) - 1
      /\ \A j \in 1..Len(Tail(pending)) : Tail(pending)[j] = pending[j + 1]
  BY <1>1
<1>3. QED
  BY <1>2 DEF FeedNext, serverVars, textVars

LEMMA StepCallTyped ==
    TextTyped /\ CallTyped /\ [StreamNext]_streamVars => CallTyped'
<1> SUFFICES ASSUME TextTyped, CallTyped, [StreamNext]_streamVars
             PROVE  CallTyped'
  OBVIOUS
<1>1. ASSUME NEW k \in Chunk, Healthy(k) PROVE CallTyped'
  <2>1. MaySend(k) /\ pending' = Deltas(k) /\ UNCHANGED <<accum, heard>>
    BY <1>1 DEF Healthy, Take
  <2>2. Deltas(k) \in Seq(Delta)
    BY <2>1, DeltasTyped
  <2>3. QED
    BY <2>1, <2>2 DEF CallTyped
<1>2. ASSUME NEW k \in Chunk, SinkRaises(k) PROVE CallTyped'
  <2>1. MaySend(k) /\ pending' = Deltas(k) /\ UNCHANGED <<accum, heard>>
    BY <1>2 DEF SinkRaises, Take
  <2>2. Deltas(k) \in Seq(Delta)
    BY <2>1, DeltasTyped
  <2>3. QED
    BY <2>1, <2>2 DEF CallTyped
<1>3. ASSUME NEW k \in Chunk, Garbled(k) PROVE CallTyped'
  BY <1>3 DEF Garbled, CallTyped, callVars
<1>4. CASE FeedNext
  <2> DEFINE d == pending[1]
             i == index[d.call]
             a == Feed(accum, d)
  <2>1. /\ d \in Delta /\ accum' = a /\ heard' = Append(heard, d)
        /\ pending' \in Seq(Delta)
    BY <1>4, FeedNextIs
  <2>2. /\ i \in Indexes /\ DOMAIN a = DOMAIN accum \union {i}
        /\ \A x \in DOMAIN accum : x # i => a[x] = accum[x]
        /\ a[i] \in Acc
    BY <2>1, FeedIs
  <2>3. IsFiniteSet(DOMAIN a)
    <3>1. IsFiniteSet(DOMAIN accum)
      BY DEF CallTyped
    <3>2. IsFiniteSet(DOMAIN accum \union {i})
      BY <3>1, FS_AddElement
    <3> HIDE DEF a, d, i
    <3>3. QED
      BY <2>2, <3>2
  <2>4. Append(heard, d) \in Seq(Delta)
    BY <2>1 DEF CallTyped
  <2> HIDE DEF a, d, i
  <2>5. QED
    BY <2>1, <2>2, <2>3, <2>4 DEF CallTyped
<1>5. CASE StreamEnds
  BY <1>5 DEF StreamEnds, CallTyped, callVars
<1>6. CASE StreamFails
  BY <1>6 DEF StreamFails, CallTyped, callVars
<1>7. CASE StreamOver
  BY <1>7 DEF StreamOver, CallTyped, streamVars, callVars
<1>8. CASE UNCHANGED streamVars
  BY <1>8 DEF CallTyped, streamVars, callVars
<1>9. QED
  BY <1>1, <1>2, <1>3, <1>4, <1>5, <1>6, <1>7, <1>8 DEF StreamNext

(* What assemble puts together.                                            *)
LEMMA AssembledIs ==
    ASSUME TextTyped, CallTyped
    PROVE  LET r == AssembledResponse
               n == Cardinality(DOMAIN accum)
           IN  /\ r \in Response /\ r.finish = finish /\ r.text = text
               /\ Len(r.calls) = n /\ n \in Nat /\ r.calls \in Seq(Acc)
               /\ \A j \in 1..n : /\ Nth(DOMAIN accum, j) \in DOMAIN accum
                                  /\ r.calls[j] = accum[Nth(DOMAIN accum, j)]
               /\ ToSet(r.calls) = {accum[i] : i \in DOMAIN accum}
<1> DEFINE r == AssembledResponse
           S == DOMAIN accum
           n == Cardinality(S)
           q == [j \in 1..n |-> accum[Nth(S, j)]]
<1>1. S \in SUBSET Nat /\ IsFiniteSet(S) /\ n \in Nat
  BY StreamBounds, FS_CardinalityType DEF CallTyped
<1>2. \A j \in 1..n : Nth(S, j) \in S
  BY <1>1, NthIs
<1>3. \A i \in S : accum[i] \in Acc
  BY DEF CallTyped
<1>4. r = [text |-> text, finish |-> finish, calls |-> q]
  BY DEF AssembledResponse
<1>5. \A i \in S : \E j \in 1..n : Nth(S, j) = i
  BY <1>1, NthIsOnto
<1> HIDE DEF S, n
<1> DEFINE e(j) == accum[Nth(S, j)]
<1>a. \A j \in 1..n : e(j) \in Acc
  BY <1>2, <1>3
<1>b. q = [j \in 1..n |-> e(j)]
  OBVIOUS
<1> HIDE DEF e, q
<1>c. q \in Seq(Acc) /\ Len(q) = n /\ \A j \in 1..n : q[j] = e(j)
  BY <1>1, <1>a, <1>b
<1>6. q \in Seq(Acc) /\ Len(q) = n /\ \A j \in 1..n : q[j] = accum[Nth(S, j)]
  BY <1>c DEF e
<1>7. r \in Response /\ r.calls = q /\ r.finish = finish /\ r.text = text
  BY <1>4, <1>6 DEF Response, TextTyped
<1>8. ToSet(q) = {accum[i] : i \in S}
  <2>1. ToSet(q) = {q[j] : j \in 1..n}
    BY <1>1, <1>6 DEF ToSet
  <2>2. QED
    BY <1>2, <1>5, <1>6, <2>1
<1> HIDE DEF r
<1>9. QED
  BY <1>1, <1>2, <1>6, <1>7, <1>8 DEF r, S, n

LEMMA StepResponseTyped ==
    TextTyped /\ CallTyped /\ ResponseTyped /\ [StreamNext]_streamVars => ResponseTyped'
<1> SUFFICES ASSUME TextTyped, CallTyped, ResponseTyped, [StreamNext]_streamVars
             PROVE  ResponseTyped'
  OBVIOUS
<1>1. ASSUME NEW k \in Chunk, Healthy(k) PROVE ResponseTyped'
  BY <1>1 DEF Healthy, Take, ResponseTyped
<1>2. ASSUME NEW k \in Chunk, SinkRaises(k) PROVE ResponseTyped'
  BY <1>2 DEF SinkRaises, Take, ResponseTyped
<1>3. ASSUME NEW k \in Chunk, Garbled(k) PROVE ResponseTyped'
  BY <1>3 DEF Garbled, ResponseTyped
<1>4. CASE FeedNext
  BY <1>4 DEF FeedNext, ResponseTyped
<1>5. CASE StreamEnds
  <2>1. AssembledResponse \in Response
    BY AssembledIs
  <2>2. QED
    BY <1>5, <2>1 DEF StreamEnds, ResponseTyped
<1>6. CASE StreamFails
  BY <1>6 DEF StreamFails, ResponseTyped
<1>7. CASE StreamOver
  BY <1>7 DEF StreamOver, streamVars, ResponseTyped
<1>8. CASE UNCHANGED streamVars
  BY <1>8 DEF ResponseTyped, streamVars
<1>9. QED
  BY <1>1, <1>2, <1>3, <1>4, <1>5, <1>6, <1>7, <1>8 DEF StreamNext

LEMMA TypedAlways == StreamSpec => [](TextTyped /\ CallTyped /\ ResponseTyped)
BY InitTextTyped, InitCallTyped, InitResponseTyped, StepTextTyped,
   StepCallTyped, StepResponseTyped, PTL DEF StreamSpec

(* The stream, what is made of it and the response keep the types of their *)
(* variables for any calls, indexes, parts and bounds: whatever the        *)
(* interleaving, a part is only ever kept under an index of the service.   *)
THEOREM StreamTypeCorrect == StreamSpec => []StreamTypeOK
<1>1. TextTyped /\ CallTyped /\ ResponseTyped => StreamTypeOK
  BY DEF TextTyped, CallTyped, ResponseTyped, StreamTypeOK
<1>2. QED
  BY <1>1, TypedAlways, PTL

-----------------------------------------------------------------------------
(* The screen.                                                             *)

LEMMA PrefixOfMore ==
    ASSUME NEW S, NEW s \in Seq(S), NEW t \in Seq(S), NEW x \in S, IsPrefix(s, t)
    PROVE  IsPrefix(s, Append(t, x))
<1>1. Len(s) \in Nat /\ Len(t) \in Nat /\ Len(s) <= Len(t)
      /\ SubSeq(s, 1, Len(s)) = SubSeq(t, 1, Len(s))
  BY DEF IsPrefix
<1>2. Len(Append(t, x)) = Len(t) + 1
      /\ \A i \in 1..Len(t) : Append(t, x)[i] = t[i]
  OBVIOUS
<1>3. SubSeq(Append(t, x), 1, Len(s)) = SubSeq(t, 1, Len(s))
  BY <1>1, <1>2
<1>4. QED
  BY <1>1, <1>2, <1>3 DEF IsPrefix

LEMMA PrefixOfItself ==
    ASSUME NEW S, NEW s \in Seq(S) PROVE IsPrefix(s, s)
BY DEF IsPrefix

LEMMA InitShown == StreamInit => ShownIsABeginning
BY DEF StreamInit, ShownIsABeginning, IsPrefix

LEMMA StepShownIsABeginning ==
    TextTyped /\ ShownIsABeginning /\ [StreamNext]_streamVars => ShownIsABeginning'
<1> SUFFICES ASSUME TextTyped, ShownIsABeginning, [StreamNext]_streamVars
             PROVE  ShownIsABeginning'
  OBVIOUS
<1>1. ASSUME NEW k \in Chunk, Healthy(k) PROVE ShownIsABeginning'
  <2>1. Take(k) /\ k.token \in BOOLEAN
    BY <1>1, ChunkCalls DEF Healthy
  <2>2. CASE k.token
    <3>1. /\ tokens + 1 \in 1..MaxTokens /\ text' = Append(text, tokens + 1)
          /\ emitted' = (IF sink THEN Append(emitted, tokens + 1) ELSE emitted)
          /\ sink' = sink
      BY <1>1, <2>1, <2>2, TakeTyped DEF Healthy, Take, Emit, TextTyped
    <3>2. text \in Seq(1..MaxTokens) /\ emitted \in Seq(1..MaxTokens)
          /\ text' \in Seq(1..MaxTokens)
      BY <2>1, TakeTyped DEF TextTyped
    <3>3. CASE sink
      BY <3>1, <3>2, <3>3, PrefixOfItself DEF ShownIsABeginning
    <3>4. CASE ~sink
      BY <3>1, <3>2, <3>4, PrefixOfMore DEF ShownIsABeginning
    <3>5. QED
      BY <3>3, <3>4
  <2>3. CASE ~k.token
    BY <1>1, <2>1, <2>3 DEF Healthy, Take, ShownIsABeginning
  <2>4. QED
    BY <2>1, <2>2, <2>3
<1>2. ASSUME NEW k \in Chunk, SinkRaises(k) PROVE ShownIsABeginning'
  <2>1. Take(k)
    BY <1>2 DEF SinkRaises
  <2>2. /\ tokens + 1 \in 1..MaxTokens /\ text' = Append(text, tokens + 1)
        /\ emitted' = emitted /\ sink' = FALSE
    BY <1>2, <2>1, TakeTyped DEF SinkRaises, Take, Emit
  <2>3. text \in Seq(1..MaxTokens) /\ emitted \in Seq(1..MaxTokens)
    BY DEF TextTyped
  <2>4. QED
    BY <2>2, <2>3, PrefixOfMore DEF ShownIsABeginning
<1>3. ASSUME NEW k \in Chunk, Garbled(k) PROVE ShownIsABeginning'
  BY <1>3 DEF Garbled, ShownIsABeginning, textVars
<1>4. CASE FeedNext
  BY <1>4 DEF FeedNext, ShownIsABeginning, textVars
<1>5. CASE StreamEnds
  BY <1>5 DEF StreamEnds, ShownIsABeginning, textVars
<1>6. CASE StreamFails
  BY <1>6 DEF StreamFails, ShownIsABeginning, textVars
<1>7. CASE StreamOver
  BY <1>7 DEF StreamOver, ShownIsABeginning, streamVars, textVars
<1>8. CASE UNCHANGED streamVars
  BY <1>8 DEF ShownIsABeginning, streamVars, textVars
<1>9. QED
  BY <1>1, <1>2, <1>3, <1>4, <1>5, <1>6, <1>7, <1>8 DEF StreamNext

(* For any number of tokens and failures: the operator has been shown a    *)
(* beginning of the text, all of it while the sink is healthy, and never a *)
(* text with a gap (_safe_emit, stream_responder).                         *)
THEOREM ScreenHasNoGap == StreamSpec => []ShownIsABeginning
BY InitShown, StepShownIsABeginning, TypedAlways, PTL DEF StreamSpec

-----------------------------------------------------------------------------
(* The parts of a chunk that wait for feed, and how many parts of a call   *)
(* have been fed if no line was garbled.                                   *)

Waiting == {pending[j].call : j \in 1..Len(pending)}
Fed(c) == IF c \in Waiting THEN sent[c] - 1 ELSE sent[c]
Queued ==
    /\ \A j \in 1..Len(pending) : pending[j].part = sent[pending[j].call]
    /\ \A i, j \in 1..Len(pending) : i # j => pending[i].call # pending[j].call
    /\ outcome # "open" => pending = <<>>
    /\ outcome = "returned" => response = AssembledResponse

LEMMA InitQueued == StreamInit => Queued
BY DEF StreamInit, Queued

LEMMA AssembledSame ==
    ASSUME UNCHANGED <<text, finish, accum>>
    PROVE  AssembledResponse' = AssembledResponse
BY DEF AssembledResponse

(* A chunk that is taken leaves its parts in the queue.                    *)
LEMMA TakeQueues ==
    ASSUME TextTyped, CallTyped, Queued, NEW k \in Chunk, Take(k)
    PROVE  Queued' /\ \A c \in Calls : Fed(c)' = Fed(c)
<1> DEFINE q == k.calls
<1>1. /\ pending = <<>> /\ MaySend(k) /\ Send(k) /\ pending' = Deltas(k)
      /\ outcome = "open" /\ outcome' = "open"
  BY DEF Take, MaySend
<1>2. /\ q \in Seq(Calls) /\ \A i, j \in 1..Len(q) : i # j => q[i] # q[j]
      /\ ToSet(q) = {q[i] : i \in 1..Len(q)}
  BY ChunkCalls
<1>3. /\ Len(Deltas(k)) = Len(q)
      /\ \A j \in 1..Len(q) : /\ Deltas(k)[j].call = q[j]
                              /\ Deltas(k)[j].part = sent[q[j]] + 1
  BY <1>1, DeltasTyped
<1>4. \A c \in Calls : sent'[c] = IF c \in ToSet(q) THEN sent[c] + 1 ELSE sent[c]
  BY <1>1 DEF Send
<1> HIDE DEF q
<1>5. \A j \in 1..Len(q) : q[j] \in Calls /\ q[j] \in ToSet(q)
  BY <1>2
<1>6. Queued'
  <2>1. \A j \in 1..Len(pending') : pending'[j].part = sent'[pending'[j].call]
    BY <1>1, <1>3, <1>4, <1>5
  <2>2. \A i, j \in 1..Len(pending') :
           i # j => pending'[i].call # pending'[j].call
    BY <1>1, <1>2, <1>3
  <2>3. QED
    BY <1>1, <2>1, <2>2 DEF Queued
<1>7. Waiting = {} /\ Waiting' = ToSet(q)
  <2>1. Waiting = {}
    BY <1>1 DEF Waiting
  <2>2. Waiting' = {Deltas(k)[j].call : j \in 1..Len(q)}
    BY <1>1, <1>3 DEF Waiting
  <2>3. QED
    BY <1>2, <1>3, <2>1, <2>2
<1>8. ASSUME NEW c \in Calls PROVE Fed(c)' = Fed(c)
  <2>1. Fed(c) = sent[c] /\ sent[c] \in Nat
    BY <1>7, StreamBounds DEF Fed, TextTyped
  <2>2. Fed(c)' = IF c \in ToSet(q) THEN sent'[c] - 1 ELSE sent'[c]
    BY <1>7 DEF Fed
  <2>3. QED
    BY <1>4, <2>1, <2>2
<1>9. QED
  BY <1>6, <1>8

(* The part that is fed is the next one of its call.                       *)
LEMMA FeedTakesTheNext ==
    ASSUME TextTyped, CallTyped, Queued, FeedNext, NEW d \in Delta, d = pending[1]
    PROVE  /\ Queued' /\ outcome = "open"
           /\ Fed(d.call)' = d.part /\ Fed(d.call) = d.part - 1
           /\ \A c \in Calls : c # d.call => Fed(c)' = Fed(c)
<1>1. /\ Len(pending) >= 1 /\ Len(pending') = Len(pending) - 1
      /\ \A j \in 1..Len(pending') : pending'[j] = pending[j + 1]
      /\ UNCHANGED <<index, sent, garbled, outcome, response, finish>>
  BY FeedNextIs
<1>2. pending \in Seq(Delta) /\ pending' \in Seq(Delta)
  BY FeedNextIs DEF CallTyped
<1>3. /\ \A j \in 1..Len(pending) : pending[j].part = sent[pending[j].call]
      /\ \A i, j \in 1..Len(pending) : i # j => pending[i].call # pending[j].call
      /\ outcome = "open"
  BY <1>1, <1>2 DEF Queued, FeedNext, TextTyped
<1>4. Len(pending) \in Nat /\ 1 \in 1..Len(pending)
      /\ \A j \in 1..Len(pending') : j + 1 \in 1..Len(pending) /\ j + 1 # 1
  BY <1>1, <1>2
<1>5. Queued'
  <2>1. \A j \in 1..Len(pending') : pending'[j].part = sent'[pending'[j].call]
    BY <1>1, <1>3, <1>4
  <2>2. ASSUME NEW i \in 1..Len(pending'), NEW j \in 1..Len(pending'), i # j
        PROVE  pending'[i].call # pending'[j].call
    <3>1. i + 1 \in 1..Len(pending) /\ j + 1 \in 1..Len(pending) /\ i + 1 # j + 1
      BY <1>4, <2>2
    <3>2. pending[i + 1].call # pending[j + 1].call
      BY <1>3, <3>1
    <3>3. QED
      BY <1>1, <3>2
  <2>3. outcome' = "open"
    BY <1>1, <1>3
  <2>4. QED
    BY <2>1, <2>2, <2>3 DEF Queued
<1>6. d.call \in Waiting /\ d.call \notin Waiting'
  <2>1. d.call \in Waiting
    BY <1>4 DEF Waiting
  <2>2. \A j \in 1..Len(pending') : pending'[j].call # d.call
    BY <1>1, <1>3, <1>4
  <2>3. QED
    BY <2>1, <2>2 DEF Waiting
<1>7. \A c : c # d.call => (c \in Waiting' <=> c \in Waiting)
  <2>1. ASSUME NEW j \in 1..Len(pending), pending[j].call # d.call
        PROVE  pending[j].call \in Waiting'
    <3> DEFINE i == j - 1
    <3>1. j # 1
      BY <2>1
    <3>2. i \in 1..Len(pending') /\ i + 1 = j
      BY <1>1, <1>4, <3>1
    <3> HIDE DEF i
    <3>3. pending'[i] = pending[j]
      BY <1>1, <3>2
    <3>4. QED
      BY <3>2, <3>3 DEF Waiting
  <2>2. \A j \in 1..Len(pending') : pending'[j].call \in Waiting
    BY <1>1, <1>4 DEF Waiting
  <2>3. QED
    BY <2>1, <2>2 DEF Waiting
<1>8. d.part = sent[d.call] /\ d.part \in Nat /\ d.call \in Calls
  BY <1>3, <1>4, StreamBounds DEF Delta
<1>9. Fed(d.call)' = d.part /\ Fed(d.call) = d.part - 1
  <2>1. sent' = sent
    BY <1>1
  <2>2. Fed(d.call) = sent[d.call] - 1
    BY <1>6 DEF Fed
  <2>3. Fed(d.call)' = sent'[d.call]
    BY <1>6 DEF Fed
  <2>4. QED
    BY <1>8, <2>1, <2>2, <2>3
<1>10. \A c \in Calls : c # d.call => Fed(c)' = Fed(c)
  BY <1>1, <1>7 DEF Fed
<1>11. QED
  BY <1>3, <1>5, <1>9, <1>10

LEMMA FedSame ==
    ASSUME UNCHANGED <<pending, sent>> PROVE \A c \in Calls : Fed(c)' = Fed(c)
BY DEF Fed, Waiting

LEMMA StepQueued ==
    TextTyped /\ CallTyped /\ Queued /\ [StreamNext]_streamVars => Queued'
<1> SUFFICES ASSUME TextTyped, CallTyped, Queued, [StreamNext]_streamVars
             PROVE  Queued'
  OBVIOUS
<1>1. ASSUME NEW k \in Chunk, Healthy(k) PROVE Queued'
  BY <1>1, TakeQueues DEF Healthy
<1>2. ASSUME NEW k \in Chunk, SinkRaises(k) PROVE Queued'
  BY <1>2, TakeQueues DEF SinkRaises
<1>3. ASSUME NEW k \in Chunk, Garbled(k) PROVE Queued'
  <2>1. outcome = "open" /\ outcome' = "open" /\ pending = <<>> /\ pending' = <<>>
    BY <1>3 DEF Garbled, MaySend, callVars
  <2>2. QED
    BY <2>1 DEF Queued
<1>4. CASE FeedNext
  <2>1. PICK d \in Delta : d = pending[1]
    BY <1>4, FeedNextIs
  <2>2. QED
    BY <1>4, <2>1, FeedTakesTheNext
<1>5. CASE StreamEnds
  BY <1>5, AssembledSame DEF StreamEnds, Queued, callVars, textVars, serverVars
<1>6. CASE StreamFails
  <2>1. pending = <<>> /\ pending' = <<>> /\ outcome' # "returned"
    BY <1>6 DEF StreamFails, callVars
  <2>2. QED
    BY <2>1 DEF Queued
<1>7. CASE StreamOver
  BY <1>7, AssembledSame DEF StreamOver, Queued, streamVars, callVars, textVars, serverVars
<1>8. CASE UNCHANGED streamVars
  BY <1>8, AssembledSame DEF Queued, streamVars, callVars, textVars, serverVars
<1>9. QED
  BY <1>1, <1>2, <1>3, <1>4, <1>5, <1>6, <1>7, <1>8 DEF StreamNext

LEMMA QueuedAlways == StreamSpec => []Queued
BY InitQueued, StepQueued, TypedAlways, PTL DEF StreamSpec

-----------------------------------------------------------------------------
(* What is kept under an index is what was heard under it.                 *)

LEMMA SeqIsFunction ==
    ASSUME NEW S, NEW s \in Seq(S) PROVE s \in [1..Len(s) -> S]
OBVIOUS

LEMMA HeardMore ==
    ASSUME TextTyped, CallTyped, NEW d \in Delta, heard' = Append(heard, d)
    PROVE  /\ Len(heard) \in Nat /\ Len(heard') = Len(heard) + 1
           /\ 1..Len(heard') = 1..Len(heard) \union {Len(heard) + 1}
           /\ heard'[Len(heard) + 1] = d
           /\ \A n \in 1..Len(heard) : heard'[n] = heard[n] /\ n # Len(heard) + 1
<1>1. heard \in Seq(Delta) /\ Len(heard) \in Nat
  BY DEF CallTyped
<1>2. 1..(Len(heard) + 1) = 1..Len(heard) \union {Len(heard) + 1}
  BY <1>1
<1>3. QED
  BY <1>1, <1>2

LEMMA UnderIsFinite ==
    ASSUME CallTyped, NEW i
    PROVE  /\ Under(i) \in SUBSET Nat /\ IsFiniteSet(Under(i))
           /\ Named(i) \in SUBSET Nat /\ IsFiniteSet(Named(i))
           /\ Under(i) \subseteq 1..Len(heard) /\ Named(i) \subseteq Under(i)
<1>1. Len(heard) \in Nat
  BY DEF CallTyped
<1>2. IsFiniteSet(1..Len(heard))
  BY <1>1, FS_Interval
<1>3. Under(i) \subseteq 1..Len(heard) /\ Named(i) \subseteq Under(i)
  BY DEF Under, Named
<1>4. QED
  BY <1>1, <1>2, <1>3, FS_Subset

LEMMA UnderGrows ==
    ASSUME TextTyped, CallTyped, NEW d \in Delta, heard' = Append(heard, d),
           index' = index, NEW i
    PROVE  /\ Under(i)' = IF index[d.call] = i THEN Under(i) \union {Len(heard) + 1}
                          ELSE Under(i)
           /\ Named(i)' = IF index[d.call] = i /\ d.part = 1
                          THEN Named(i) \union {Len(heard) + 1} ELSE Named(i)
           /\ Used' = Used \union {index[d.call]}
<1> DEFINE m == Len(heard) + 1
           N == Named(i)
<1>1. /\ 1..Len(heard') = 1..Len(heard) \union {m}
      /\ heard'[m] = d
      /\ \A n \in 1..Len(heard) : heard'[n] = heard[n] /\ n # m
  BY HeardMore
<1> HIDE DEF m
<1>2. Under(i)' = {n \in 1..Len(heard') : index[heard'[n].call] = i}
  BY DEF Under
<1>3. Under(i)' = IF index[d.call] = i THEN Under(i) \union {m} ELSE Under(i)
  BY <1>1, <1>2 DEF Under
<1>4. Named(i)' = {n \in Under(i)' : heard'[n].part = 1}
  BY DEF Named
<1>5. \A n \in Under(i) : heard'[n] = heard[n] /\ n # m
  BY <1>1 DEF Under
<1>6. Named(i)' = IF index[d.call] = i /\ d.part = 1 THEN Named(i) \union {m}
                  ELSE Named(i)
  <2>1. \A n \in Under(i) : n \in Named(i)' <=> n \in Named(i)
    BY <1>3, <1>4, <1>5 DEF Named
  <2>2. m \in Named(i)' <=> index[d.call] = i /\ d.part = 1
    BY <1>1, <1>3, <1>4, <1>5
  <2>3. /\ \A n \in Named(i)' : n \in Under(i) \/ n = m
        /\ \A n \in Named(i) : n \in Under(i)
    BY <1>3, <1>4 DEF Named
  <2>4. \A n \in N : n \in Under(i)
    BY DEF Named
  <2> DEFINE W == Named(i)'
  <2>5. W = IF index[d.call] = i /\ d.part = 1 THEN N \union {m} ELSE N
    <3>1. /\ \A n \in Under(i) : n \in W <=> n \in N
          /\ m \in W <=> index[d.call] = i /\ d.part = 1
          /\ \A n \in W : n \in Under(i) \/ n = m
      BY <2>1, <2>2, <2>3
    <3> HIDE DEF W, N
    <3>2. CASE index[d.call] = i /\ d.part = 1
      <4>1. \A n : n \in W <=> n \in N \/ n = m
        BY <2>4, <3>1, <3>2
      <4>2. W = N \union {m}
        BY <4>1
      <4>3. QED
        BY <3>2, <4>2
    <3>3. CASE ~(index[d.call] = i /\ d.part = 1)
      <4>1. \A n : n \in W <=> n \in N
        BY <2>4, <3>1, <3>3
      <4>2. W = N
        BY <4>1
      <4>3. QED
        BY <3>3, <4>2
    <3>4. QED
      BY <3>2, <3>3
  <2>6. QED
    BY <2>5
<1>7. Used' = {index[heard'[n].call] : n \in 1..Len(heard')}
  BY DEF Used
<1>8. Used' = Used \union {index[d.call]}
  BY <1>1, <1>7 DEF Used
<1>9. QED
  BY <1>3, <1>6, <1>8 DEF m

(* A part that comes under another index changes nothing for this one.     *)
LEMMA GatheredStays ==
    ASSUME TextTyped, CallTyped, NEW d \in Delta, heard' = Append(heard, d),
           index' = index, NEW i, index[d.call] # i, NEW e, Gathered(e, i)
    PROVE  Gathered(e, i)'
<1> DEFINE U == Under(i)
           N == Named(i)
<1>1. Under(i)' = U /\ Named(i)' = N
  BY UnderGrows
<1>2. /\ U \in SUBSET Nat /\ IsFiniteSet(U) /\ N \in SUBSET Nat /\ IsFiniteSet(N)
      /\ U \subseteq 1..Len(heard) /\ N \subseteq U
  BY UnderIsFinite
<1>3. \A n \in 1..Len(heard) : heard'[n] = heard[n]
  BY HeardMore
<1>4. /\ e.args = [m \in 1..Cardinality(U) |-> heard[Nth(U, m)]]
      /\ e.id = IF N = {} THEN None ELSE heard[Nth(N, Cardinality(N))].call
  BY DEF Gathered
<1>5. Gathered(e, i)' <=>
         /\ e.args = [m \in 1..Cardinality(U) |-> heard'[Nth(U, m)]]
         /\ e.id = IF N = {} THEN None ELSE heard'[Nth(N, Cardinality(N))].call
  BY <1>1 DEF Gathered
<1> HIDE DEF U, N
<1>6. \A m \in 1..Cardinality(U) : heard'[Nth(U, m)] = heard[Nth(U, m)]
  <2>1. \A m \in 1..Cardinality(U) : Nth(U, m) \in U
    BY <1>2, NthIs
  <2>2. QED
    BY <1>2, <1>3, <2>1
<1>7. N # {} => heard'[Nth(N, Cardinality(N))] = heard[Nth(N, Cardinality(N))]
  <2>1. ASSUME N # {} PROVE Nth(N, Cardinality(N)) \in N
    <3>1. Cardinality(N) \in Nat /\ Cardinality(N) # 0
      BY <1>2, <2>1, FS_CardinalityType, FS_EmptySet
    <3>2. Cardinality(N) \in 1..Cardinality(N)
      BY <3>1
    <3>3. QED
      BY <1>2, <3>2, NthIs
  <2>2. QED
    BY <1>2, <1>3, <2>1
<1>8. QED
  BY <1>4, <1>5, <1>6, <1>7

(* A part that comes under this index is the last piece, and its id, if it *)
(* carries one, the last id.                                               *)
LEMMA GatheredGrows ==
    ASSUME TextTyped, CallTyped, NEW d \in Delta, heard' = Append(heard, d),
           index' = index, NEW i, index[d.call] = i,
           NEW old \in Acc, Gathered(old, i),
           NEW e \in Acc, e.args = Append(old.args, d),
           e.id = IF d.part = 1 THEN d.call ELSE old.id
    PROVE  Gathered(e, i)'
<1> DEFINE U == Under(i)
           N == Named(i)
           m == Len(heard) + 1
           V == U \union {m}
           k == Cardinality(U)
<1>1. /\ U \in SUBSET Nat /\ IsFiniteSet(U) /\ N \in SUBSET Nat /\ IsFiniteSet(N)
      /\ U \subseteq 1..Len(heard) /\ N \subseteq U
  BY UnderIsFinite
<1>2. /\ Len(heard) \in Nat /\ heard'[m] = d
      /\ \A n \in 1..Len(heard) : heard'[n] = heard[n]
  BY HeardMore
<1>3. /\ old.args = [n \in 1..k |-> heard[Nth(U, n)]]
      /\ old.id = IF N = {} THEN None ELSE heard[Nth(N, Cardinality(N))].call
      /\ old.args \in Seq(Delta) /\ e.args \in Seq(Delta)
  BY DEF Gathered, Acc
<1>4. Under(i)' = V
  BY UnderGrows
<1>5. Named(i)' = IF d.part = 1 THEN N \union {m} ELSE N
  BY UnderGrows
<1>6. m \in Nat /\ \A n \in U : n < m
  <2>1. m \in Nat
    BY <1>2
  <2>2. \A n \in 1..Len(heard) : n < m
    BY <1>2
  <2>3. QED
    BY <1>1, <2>1, <2>2
<1>7. k \in Nat
  BY <1>1, FS_CardinalityType
<1> HIDE DEF U, N, m, V, k
<1>8. /\ Cardinality(V) = k + 1 /\ IsFiniteSet(V)
      /\ \A n \in 1..k : Nth(V, n) = Nth(U, n)
      /\ Nth(V, k + 1) = m
  BY <1>1, <1>6, NthGrows DEF k, V
<1>9. \A n \in 1..k : heard'[Nth(U, n)] = heard[Nth(U, n)]
  <2>1. \A n \in 1..k : Nth(U, n) \in U
    BY <1>1, NthIs DEF k
  <2>2. QED
    BY <1>1, <1>2, <2>1
<1>10. e.args = [n \in 1..(k + 1) |-> heard'[Nth(V, n)]]
  <2>1. Len(old.args) = k /\ \A n \in 1..k : old.args[n] = heard[Nth(U, n)]
    BY <1>3, <1>7
  <2>2. Len(e.args) = k + 1 /\ DOMAIN e.args = 1..(k + 1)
    BY <1>3, <1>7, <2>1
  <2>3. \A n \in 1..k : e.args[n] = old.args[n]
    BY <1>3, <1>7, <2>1
  <2>4. e.args[k + 1] = d
    BY <1>3, <1>7, <2>1
  <2>5. \A n \in 1..(k + 1) : n \in 1..k \/ n = k + 1
    BY <1>7
  <2>6. \A n \in 1..(k + 1) : e.args[n] = heard'[Nth(V, n)]
    <3>1. \A n \in 1..k : e.args[n] = heard'[Nth(V, n)]
      BY <1>8, <1>9, <2>1, <2>3
    <3>2. e.args[k + 1] = heard'[Nth(V, k + 1)]
      BY <1>2, <1>8, <2>4
    <3>3. QED
      BY <2>5, <3>1, <3>2
  <2>7. e.args \in [1..(k + 1) -> Delta]
    BY <1>3, <2>2, SeqIsFunction
  <2>8. QED
    BY <2>6, <2>7
<1>11. e.id = IF Named(i)' = {} THEN None
              ELSE heard'[Nth(Named(i)', Cardinality(Named(i)'))].call
  <2>1. CASE d.part = 1
    <3>1. Cardinality(N) \in Nat /\ \A n \in N : n < m
      BY <1>1, <1>6, FS_CardinalityType
    <3>2. /\ Cardinality(N \union {m}) = Cardinality(N) + 1
          /\ Nth(N \union {m}, Cardinality(N) + 1) = m
      BY <1>1, <1>6, <3>1, NthGrows
    <3>3. Named(i)' = N \union {m} /\ N \union {m} # {} /\ e.id = d.call
      BY <1>5, <2>1
    <3>4. QED
      BY <1>2, <3>2, <3>3
  <2>2. CASE d.part # 1
    <3>1. Named(i)' = N /\ e.id = old.id
      BY <1>5, <2>2
    <3>2. N # {} => heard'[Nth(N, Cardinality(N))] = heard[Nth(N, Cardinality(N))]
      <4>1. ASSUME N # {} PROVE Nth(N, Cardinality(N)) \in N
        <5>1. Cardinality(N) \in Nat /\ Cardinality(N) # 0
          BY <1>1, <4>1, FS_CardinalityType, FS_EmptySet
        <5>2. Cardinality(N) \in 1..Cardinality(N)
          BY <5>1
        <5>3. QED
          BY <1>1, <5>2, NthIs
      <4>2. QED
        BY <1>1, <1>2, <4>1
    <3>3. QED
      BY <1>3, <3>1, <3>2
  <2>3. QED
    BY <2>1, <2>2
<1>12. e.args = [n \in 1..Cardinality(Under(i)') |-> heard'[Nth(Under(i)', n)]]
  BY <1>4, <1>8, <1>10
<1>13. QED
  BY <1>11, <1>12 DEF Gathered

(* The parts kept under an index in use are those heard under it.          *)
Gathering ==
    /\ DOMAIN accum = Used
    /\ \A i \in Used : \A e \in Acc : accum[i] = e => Gathered(e, i)

LEMMA InitGathering == StreamInit => Gathering
BY DEF StreamInit, Gathering, Used

LEMMA GatheringSame ==
    ASSUME Gathering, UNCHANGED <<index, accum, heard>> PROVE Gathering'
<1>1. Used' = Used
  BY DEF Used
<1>2. ASSUME NEW e, NEW i, Gathered(e, i) PROVE Gathered(e, i)'
  <2>1. Under(i)' = Under(i) /\ Named(i)' = Named(i)
    BY DEF Under, Named
  <2>2. QED
    BY <1>2, <2>1 DEF Gathered
<1>3. QED
  BY <1>1, <1>2 DEF Gathering

LEMMA NothingGathered ==
    ASSUME CallTyped, NEW i, i \notin Used
    PROVE  Fresh \in Acc /\ Gathered(Fresh, i)
<1>1. Under(i) = {} /\ Named(i) = {}
  BY DEF Used, Under, Named
<1>2. Cardinality(Under(i)) = 0 /\ 1..0 = {}
  BY <1>1, FS_EmptySet
<1>3. Fresh.args = <<>> /\ Fresh.id = None /\ Fresh \in Acc
  BY DEF Fresh, Acc
<1>4. [m \in 1..Cardinality(Under(i)) |-> heard[Nth(Under(i), m)]] = <<>>
  BY <1>2
<1>5. QED
  BY <1>1, <1>3, <1>4 DEF Gathered

LEMMA StepGathering ==
    TextTyped /\ CallTyped /\ Gathering /\ [StreamNext]_streamVars => Gathering'
<1> SUFFICES ASSUME TextTyped, CallTyped, Gathering, [StreamNext]_streamVars
             PROVE  Gathering'
  OBVIOUS
<1>1. ASSUME NEW k \in Chunk, Healthy(k) PROVE Gathering'
  BY <1>1, GatheringSame DEF Healthy, Take, Send
<1>2. ASSUME NEW k \in Chunk, SinkRaises(k) PROVE Gathering'
  BY <1>2, GatheringSame DEF SinkRaises, Take, Send
<1>3. ASSUME NEW k \in Chunk, Garbled(k) PROVE Gathering'
  BY <1>3, GatheringSame DEF Garbled, Send, callVars
<1>4. CASE FeedNext
  <2>1. PICK d \in Delta : d = pending[1]
    BY <1>4, FeedNextIs
  <2>2. /\ accum' = Feed(accum, d) /\ heard' = Append(heard, d) /\ index' = index
    BY <1>4, <2>1, FeedNextIs
  <2>3. PICK i : i = index[d.call]
    OBVIOUS
  <2>4. PICK old \in Acc : old = IF i \in DOMAIN accum THEN accum[i] ELSE Fresh
    BY <2>3, FeedIs
  <2>5. /\ DOMAIN accum' = DOMAIN accum \union {i}
        /\ \A x \in DOMAIN accum : x # i => accum'[x] = accum[x]
        /\ accum'[i].args = Append(old.args, d)
        /\ accum'[i].id = IF d.part = 1 THEN d.call ELSE old.id
        /\ accum'[i] \in Acc
    BY <2>2, <2>3, <2>4, FeedIs
  <2>6. Used' = Used \union {i}
    BY <2>2, <2>3, UnderGrows
  <2>7. DOMAIN accum = Used
        /\ \A x \in Used : \A e \in Acc : accum[x] = e => Gathered(e, x)
    BY DEF Gathering
  <2>8. Gathered(old, i)
    BY <2>4, <2>7, NothingGathered
  <2>9. ASSUME NEW x \in Used', NEW e \in Acc, accum'[x] = e
        PROVE  Gathered(e, x)'
    <3>1. CASE x = i
      <4>1. e.args = Append(old.args, d)
            /\ e.id = IF d.part = 1 THEN d.call ELSE old.id
        BY <2>5, <2>9, <3>1
      <4>2. Gathered(e, i)'
        BY <2>2, <2>3, <2>8, <4>1, GatheredGrows
      <4>3. QED
        BY <3>1, <4>2
    <3>2. CASE x # i
      <4>1. x \in Used /\ accum[x] = e
        BY <2>5, <2>6, <2>7, <2>9, <3>2
      <4>2. Gathered(e, x)
        BY <2>7, <4>1
      <4>3. QED
        BY <2>2, <2>3, <3>2, <4>2, GatheredStays
    <3>3. QED
      BY <3>1, <3>2
  <2>10. QED
    BY <2>5, <2>6, <2>7, <2>9 DEF Gathering
<1>5. CASE StreamEnds
  BY <1>5, GatheringSame DEF StreamEnds, callVars, serverVars
<1>6. CASE StreamFails
  BY <1>6, GatheringSame DEF StreamFails, callVars, serverVars
<1>7. CASE StreamOver
  BY <1>7, GatheringSame DEF StreamOver, streamVars, callVars, serverVars
<1>8. CASE UNCHANGED streamVars
  BY <1>8, GatheringSame DEF streamVars, callVars, serverVars
<1>9. QED
  BY <1>1, <1>2, <1>3, <1>4, <1>5, <1>6, <1>7, <1>8 DEF StreamNext

LEMMA GatheringAlways == StreamSpec => []Gathering
BY InitGathering, StepGathering, TypedAlways, PTL DEF StreamSpec

(* For any calls, indexes and number of parts, and whatever the            *)
(* interleaving: the calls of a response are those of the indexes that     *)
(* were used, in their order, each with all the pieces heard under its     *)
(* index, in the order they came, and with the last id among them          *)
(* (_StreamAccumulator.feed and assemble).                                 *)
THEOREM ResponseIsFaithful == StreamSpec => []ResponseIsWhatWasHeard
<1>1. TextTyped /\ CallTyped /\ Gathering /\ Queued => ResponseIsWhatWasHeard
  <2> SUFFICES ASSUME TextTyped, CallTyped, Gathering, Queued,
                      outcome = "returned"
               PROVE  /\ Len(response.calls) = Cardinality(Used)
                      /\ \A j \in 1..Cardinality(Used) :
                            Gathered(response.calls[j], Nth(Used, j))
    BY DEF ResponseIsWhatWasHeard
  <2>1. response = AssembledResponse /\ DOMAIN accum = Used
    BY DEF Queued, Gathering
  <2>2. /\ Len(response.calls) = Cardinality(Used)
        /\ \A j \in 1..Cardinality(Used) :
              Nth(Used, j) \in Used /\ response.calls[j] = accum[Nth(Used, j)]
    BY <2>1, AssembledIs
  <2>3. \A i \in Used : accum[i] \in Acc /\ Gathered(accum[i], i)
    BY <2>1 DEF Gathering, CallTyped
  <2>4. QED
    BY <2>2, <2>3
<1>2. QED
  BY <1>1, TypedAlways, QueuedAlways, GatheringAlways, PTL

-----------------------------------------------------------------------------
(* Which calls the response holds, and which pieces each of them.          *)

(* With no line garbled and no index shared, what is kept under an index   *)
(* is the beginning of the one call that has it, as far as it was fed.     *)
Whole ==
    ~garbled /\ IsInjective(index) =>
        /\ \A i \in DOMAIN accum : \E c \in Calls : Fed(c) > 0 /\ index[c] = i
        /\ \A c \in Calls : Fed(c) > 0 =>
              /\ index[c] \in DOMAIN accum
              /\ accum[index[c]].id = c
              /\ accum[index[c]].args = [p \in 1..Fed(c) |-> [call |-> c, part |-> p]]

(* With no line garbled, a piece lies under the index of its call, with    *)
(* the id of its call unless the index is shared.                          *)
Unmixed ==
    ~garbled =>
        /\ \A c \in Calls : Fed(c) > 0 =>
              /\ index[c] \in DOMAIN accum
              /\ accum[index[c]].id = c \/ Shared(c)
        /\ \A i \in DOMAIN accum : \A d \in ToSet(accum[i].args) :
              index[d.call] = i /\ (d.call = accum[i].id \/ Shared(d.call))

LEMMA InitWhole == StreamInit => Whole
<1>1. StreamInit => DOMAIN accum = {} /\ \A c \in Calls : Fed(c) = 0
  BY DEF StreamInit, Fed, Waiting
<1>2. ~(0 > 0)
  OBVIOUS
<1>3. QED
  BY <1>1, <1>2 DEF Whole

LEMMA InitUnmixed == StreamInit => Unmixed
<1>1. StreamInit => DOMAIN accum = {} /\ \A c \in Calls : Fed(c) = 0
  BY DEF StreamInit, Fed, Waiting
<1>2. ~(0 > 0)
  OBVIOUS
<1>3. QED
  BY <1>1, <1>2 DEF Unmixed

LEMMA WholeSame ==
    ASSUME Whole, UNCHANGED <<garbled, index, accum>>,
           \A c \in Calls : Fed(c)' = Fed(c)
    PROVE  Whole'
BY DEF Whole

LEMMA UnmixedSame ==
    ASSUME Unmixed, UNCHANGED <<garbled, index, accum>>,
           \A c \in Calls : Fed(c)' = Fed(c)
    PROVE  Unmixed'
BY DEF Unmixed, Shared

LEMMA SetOfMore ==
    ASSUME NEW S, NEW s \in Seq(S), NEW x \in S
    PROVE  ToSet(Append(s, x)) = ToSet(s) \union {x}
<1>1. Len(s) \in Nat /\ DOMAIN s = 1..Len(s)
  OBVIOUS
<1>2. 1..(Len(s) + 1) = 1..Len(s) \union {Len(s) + 1}
  BY <1>1
<1>3. /\ DOMAIN Append(s, x) = 1..(Len(s) + 1)
      /\ \A i \in 1..Len(s) : Append(s, x)[i] = s[i]
      /\ Append(s, x)[Len(s) + 1] = x
  OBVIOUS
<1>4. ToSet(Append(s, x)) = {Append(s, x)[i] : i \in 1..(Len(s) + 1)}
  BY <1>3 DEF ToSet
<1>5. ToSet(s) = {s[i] : i \in 1..Len(s)}
  BY <1>1 DEF ToSet
<1>6. QED
  BY <1>2, <1>3, <1>4, <1>5

(* The first n pieces of a call, and one more.                             *)
Pieces(c, n) == [p \in 1..n |-> [call |-> c, part |-> p]]

LEMMA OnePieceMore ==
    ASSUME NEW d \in Delta, NEW s \in Seq(Delta),
           s = Pieces(d.call, d.part - 1)
    PROVE  Append(s, d) = Pieces(d.call, d.part)
<1> DEFINE n == d.part
           t == Append(s, d)
<1>1. n \in Nat /\ n >= 1 /\ d = [call |-> d.call, part |-> n]
  BY StreamBounds DEF Delta
<1>2. Len(s) = n - 1 /\ \A p \in 1..(n - 1) : s[p] = [call |-> d.call, part |-> p]
  BY <1>1 DEF Pieces
<1>3. t \in Seq(Delta) /\ Len(t) = n
      /\ (\A p \in 1..(n - 1) : t[p] = s[p]) /\ t[n] = d
  BY <1>1, <1>2
<1>4. t \in [1..n -> Delta]
  BY <1>3, SeqIsFunction
<1>5. \A p \in 1..n : p \in 1..(n - 1) \/ p = n
  BY <1>1
<1> HIDE DEF n, t
<1>6. \A p \in 1..n : t[p] = [call |-> d.call, part |-> p]
  <2>1. \A p \in 1..(n - 1) : t[p] = [call |-> d.call, part |-> p]
    BY <1>2, <1>3
  <2>2. t[n] = [call |-> d.call, part |-> n]
    BY <1>1, <1>3
  <2>3. QED
    BY <1>5, <2>1, <2>2
<1>7. QED
  BY <1>4, <1>6 DEF n, t, Pieces

LEMMA FeedKeepsWhole ==
    ASSUME TextTyped, CallTyped, Queued, Whole, FeedNext PROVE Whole'
<1> SUFFICES ASSUME ~garbled', IsInjective(index)'
             PROVE  /\ \A i \in DOMAIN accum' :
                           \E c \in Calls : Fed(c)' > 0 /\ index'[c] = i
                    /\ \A c \in Calls : Fed(c)' > 0 =>
                          /\ index'[c] \in DOMAIN accum'
                          /\ accum'[index'[c]].id = c
                          /\ accum'[index'[c]].args =
                                [p \in 1..Fed(c)' |-> [call |-> c, part |-> p]]
  BY DEF Whole
<1>1. PICK d \in Delta : d = pending[1]
  BY FeedNextIs
<1>2. accum' = Feed(accum, d) /\ UNCHANGED <<index, garbled>>
  BY <1>1, FeedNextIs
<1>3. PICK i : i = index[d.call]
  OBVIOUS
<1>4. PICK old \in Acc : old = IF i \in DOMAIN accum THEN accum[i] ELSE Fresh
  BY <1>3, FeedIs
<1>5. /\ DOMAIN accum' = DOMAIN accum \union {i} /\ d.call \in Calls
      /\ \A x \in DOMAIN accum : x # i => accum'[x] = accum[x]
      /\ accum'[i].args = Append(old.args, d)
      /\ accum'[i].id = IF d.part = 1 THEN d.call ELSE old.id
  BY <1>2, <1>3, <1>4, FeedIs
<1>6. /\ Fed(d.call)' = d.part /\ Fed(d.call) = d.part - 1
      /\ \A c \in Calls : c # d.call => Fed(c)' = Fed(c)
  BY <1>1, FeedTakesTheNext
<1>7. d.part \in Nat /\ d.part >= 1
  BY StreamBounds DEF Delta
<1>8. /\ \A x \in DOMAIN accum : \E c \in Calls : Fed(c) > 0 /\ index[c] = x
      /\ \A c \in Calls : Fed(c) > 0 =>
            /\ index[c] \in DOMAIN accum
            /\ accum[index[c]].id = c
            /\ accum[index[c]].args = [p \in 1..Fed(c) |-> [call |-> c, part |-> p]]
  BY <1>2 DEF Whole
<1>9. \A b, c \in Calls : index[b] = index[c] => b = c
  BY <1>2 DEF IsInjective, TextTyped
<1>10. old.args = [p \in 1..(d.part - 1) |-> [call |-> d.call, part |-> p]]
       /\ (d.part # 1 => old.id = d.call)
  <2>1. CASE d.part = 1
    <3>1. ~(Fed(d.call) > 0)
      BY <1>6, <2>1
    <3>2. i \notin DOMAIN accum
      BY <1>3, <1>5, <1>8, <1>9, <3>1
    <3>3. old = Fresh /\ Fresh.args = <<>>
      BY <1>4, <3>2 DEF Fresh
    <3>4. 1..(d.part - 1) = {}
      BY <2>1
    <3>5. [p \in 1..(d.part - 1) |-> [call |-> d.call, part |-> p]] = <<>>
      BY <3>4
    <3>6. QED
      BY <2>1, <3>3, <3>5
  <2>2. CASE d.part # 1
    <3>1. Fed(d.call) > 0
      BY <1>6, <1>7, <2>2
    <3>2. i \in DOMAIN accum /\ old = accum[i]
      BY <1>3, <1>4, <1>5, <1>8, <3>1
    <3>3. /\ old.id = d.call
          /\ old.args = [p \in 1..Fed(d.call) |-> [call |-> d.call, part |-> p]]
      BY <1>3, <1>5, <1>8, <3>1, <3>2
    <3>4. QED
      BY <1>6, <3>3
  <2>3. QED
    BY <2>1, <2>2
<1>11. /\ accum'[i].id = d.call
       /\ accum'[i].args = [p \in 1..d.part |-> [call |-> d.call, part |-> p]]
  <2>1. old.args \in Seq(Delta)
    BY DEF Acc
  <2>2. Append(old.args, d) = [p \in 1..d.part |-> [call |-> d.call, part |-> p]]
    <3>1. old.args = Pieces(d.call, d.part - 1)
      BY <1>10 DEF Pieces
    <3>2. Append(old.args, d) = Pieces(d.call, d.part)
      BY <2>1, <3>1, OnePieceMore
    <3>3. QED
      BY <3>2 DEF Pieces
  <2>3. QED
    BY <1>5, <1>10, <2>2
<1>12. ASSUME NEW x \in DOMAIN accum'
       PROVE  \E c \in Calls : Fed(c)' > 0 /\ index'[c] = x
  <2>1. CASE x = i
    BY <1>2, <1>3, <1>5, <1>6, <1>7, <2>1
  <2>2. CASE x # i
    <3>1. PICK c \in Calls : Fed(c) > 0 /\ index[c] = x
      BY <1>5, <1>8, <1>12, <2>2
    <3>2. c # d.call
      BY <1>3, <2>2, <3>1
    <3>3. QED
      BY <1>2, <1>6, <3>1, <3>2
  <2>3. QED
    BY <2>1, <2>2
<1>13. ASSUME NEW c \in Calls, Fed(c)' > 0
       PROVE  /\ index'[c] \in DOMAIN accum'
              /\ accum'[index'[c]].id = c
              /\ accum'[index'[c]].args =
                    [p \in 1..Fed(c)' |-> [call |-> c, part |-> p]]
  <2>1. CASE c = d.call
    BY <1>2, <1>3, <1>5, <1>6, <1>11, <2>1
  <2>2. CASE c # d.call
    <3>1. Fed(c)' = Fed(c) /\ Fed(c) > 0
      BY <1>6, <1>13, <2>2
    <3>2. index[c] # i
      BY <1>3, <1>5, <1>9, <2>2
    <3>3. index[c] \in DOMAIN accum /\ accum'[index[c]] = accum[index[c]]
      BY <1>5, <1>8, <3>1, <3>2
    <3>4. /\ accum[index[c]].id = c
          /\ accum[index[c]].args = [p \in 1..Fed(c) |-> [call |-> c, part |-> p]]
      BY <1>8, <3>1
    <3>5. QED
      BY <1>2, <1>5, <3>1, <3>3, <3>4
  <2>3. QED
    BY <2>1, <2>2
<1>14. QED
  BY <1>12, <1>13

LEMMA FeedKeepsUnmixed ==
    ASSUME TextTyped, CallTyped, Queued, Unmixed, FeedNext PROVE Unmixed'
<1> SUFFICES ASSUME ~garbled'
             PROVE  /\ \A c \in Calls : Fed(c)' > 0 =>
                          /\ index'[c] \in DOMAIN accum'
                          /\ accum'[index'[c]].id = c \/ Shared(c)'
                    /\ \A x \in DOMAIN accum' : \A b \in ToSet(accum'[x].args) :
                          /\ index'[b.call] = x
                          /\ b.call = accum'[x].id \/ Shared(b.call)'
  BY DEF Unmixed
<1>1. PICK d \in Delta : d = pending[1]
  BY FeedNextIs
<1>2. accum' = Feed(accum, d) /\ UNCHANGED <<index, garbled>>
  BY <1>1, FeedNextIs
<1>3. PICK i : i = index[d.call]
  OBVIOUS
<1>4. PICK old \in Acc : old = IF i \in DOMAIN accum THEN accum[i] ELSE Fresh
  BY <1>3, FeedIs
<1>5. /\ DOMAIN accum' = DOMAIN accum \union {i} /\ d.call \in Calls
      /\ \A x \in DOMAIN accum : x # i => accum'[x] = accum[x]
      /\ accum'[i].args = Append(old.args, d)
      /\ accum'[i].id = IF d.part = 1 THEN d.call ELSE old.id
  BY <1>2, <1>3, <1>4, FeedIs
<1>6. /\ Fed(d.call)' = d.part /\ Fed(d.call) = d.part - 1
      /\ \A c \in Calls : c # d.call => Fed(c)' = Fed(c)
  BY <1>1, FeedTakesTheNext
<1>7. d.part \in Nat /\ d.part >= 1
  BY StreamBounds DEF Delta
<1>8. /\ \A c \in Calls : Fed(c) > 0 =>
            /\ index[c] \in DOMAIN accum
            /\ accum[index[c]].id = c \/ Shared(c)
      /\ \A x \in DOMAIN accum : \A b \in ToSet(accum[x].args) :
            index[b.call] = x /\ (b.call = accum[x].id \/ Shared(b.call))
  BY <1>2 DEF Unmixed
<1>9. \A c : Shared(c)' <=> Shared(c)
  BY <1>2 DEF Shared
<1>10. \A c \in Calls : index[c] = i /\ c # d.call => Shared(c)
  BY <1>3, <1>5 DEF Shared
<1>11. accum'[i].id = d.call \/ Shared(d.call)
  <2>1. CASE d.part = 1
    BY <1>5, <2>1
  <2>2. CASE d.part # 1
    <3>1. Fed(d.call) > 0
      BY <1>6, <1>7, <2>2
    <3>2. i \in DOMAIN accum /\ (accum[i].id = d.call \/ Shared(d.call))
      BY <1>3, <1>5, <1>8, <3>1
    <3>3. QED
      BY <1>4, <1>5, <2>2, <3>2
  <2>3. QED
    BY <2>1, <2>2
<1>12. ASSUME NEW c \in Calls, Fed(c)' > 0
       PROVE  /\ index'[c] \in DOMAIN accum'
              /\ accum'[index'[c]].id = c \/ Shared(c)'
  <2>1. CASE c = d.call
    BY <1>2, <1>3, <1>5, <1>9, <1>11, <2>1
  <2>2. CASE c # d.call
    <3>1. Fed(c) > 0
      BY <1>6, <1>12, <2>2
    <3>2. index[c] \in DOMAIN accum /\ (accum[index[c]].id = c \/ Shared(c))
      BY <1>8, <3>1
    <3>3. CASE index[c] = i
      BY <1>2, <1>5, <1>9, <1>10, <2>2, <3>3
    <3>4. CASE index[c] # i
      BY <1>2, <1>5, <1>9, <3>2, <3>4
    <3>5. QED
      BY <3>3, <3>4
  <2>3. QED
    BY <2>1, <2>2
<1>13. ASSUME NEW x \in DOMAIN accum', NEW b \in ToSet(accum'[x].args)
       PROVE  /\ index'[b.call] = x
              /\ b.call = accum'[x].id \/ Shared(b.call)'
  <2>1. CASE x = i
    <3>1. old.args \in Seq(Delta)
      BY DEF Acc
    <3>2. b \in ToSet(old.args) \union {d}
      <4>1. ToSet(Append(old.args, d)) = ToSet(old.args) \union {d}
        BY <3>1, SetOfMore
      <4>2. QED
        BY <1>5, <1>13, <2>1, <4>1
    <3>3. CASE b = d
      BY <1>2, <1>3, <1>9, <1>11, <2>1, <3>3
    <3>4. CASE b \in ToSet(old.args)
      <4>1. b \in Delta /\ old.args # <<>>
        BY <3>1, <3>4 DEF ToSet
      <4>2. i \in DOMAIN accum /\ old = accum[i]
        BY <1>4, <4>1 DEF Fresh
      <4>3. index[b.call] = i /\ b.call \in Calls
        BY <1>8, <3>4, <4>1, <4>2 DEF Delta
      <4>4. CASE b.call = d.call
        BY <1>2, <1>9, <1>11, <2>1, <4>3, <4>4
      <4>5. CASE b.call # d.call
        BY <1>2, <1>9, <1>10, <2>1, <4>3, <4>5
      <4>6. QED
        BY <4>4, <4>5
    <3>5. QED
      BY <3>2, <3>3, <3>4
  <2>2. CASE x # i
    <3>1. x \in DOMAIN accum /\ accum'[x] = accum[x]
      BY <1>5, <1>13, <2>2
    <3>2. b \in ToSet(accum[x].args)
      BY <1>13, <3>1
    <3>3. index[b.call] = x /\ (b.call = accum[x].id \/ Shared(b.call))
      BY <1>8, <3>1, <3>2
    <3>4. QED
      BY <1>2, <1>9, <3>1, <3>3
  <2>3. QED
    BY <2>1, <2>2
<1>14. QED
  BY <1>12, <1>13

LEMMA StepWhole ==
    TextTyped /\ CallTyped /\ Queued /\ Whole /\ [StreamNext]_streamVars => Whole'
<1> SUFFICES ASSUME TextTyped, CallTyped, Queued, Whole, [StreamNext]_streamVars
             PROVE  Whole'
  OBVIOUS
<1>1. ASSUME NEW k \in Chunk, Healthy(k) PROVE Whole'
  <2>1. Take(k) /\ UNCHANGED <<garbled, index, accum>>
    BY <1>1 DEF Healthy, Take, Send
  <2>2. \A c \in Calls : Fed(c)' = Fed(c)
    BY <2>1, TakeQueues
  <2>3. QED
    BY <2>1, <2>2, WholeSame
<1>2. ASSUME NEW k \in Chunk, SinkRaises(k) PROVE Whole'
  <2>1. Take(k) /\ UNCHANGED <<garbled, index, accum>>
    BY <1>2 DEF SinkRaises, Take, Send
  <2>2. \A c \in Calls : Fed(c)' = Fed(c)
    BY <2>1, TakeQueues
  <2>3. QED
    BY <2>1, <2>2, WholeSame
<1>3. ASSUME NEW k \in Chunk, Garbled(k) PROVE Whole'
  BY <1>3 DEF Garbled, Whole
<1>4. CASE FeedNext
  BY <1>4, FeedKeepsWhole
<1>5. CASE StreamEnds
  <2>1. UNCHANGED <<garbled, index, accum, pending, sent>>
    BY <1>5 DEF StreamEnds, callVars, serverVars
  <2>2. QED
    BY <2>1, FedSame, WholeSame
<1>6. CASE StreamFails
  <2>1. UNCHANGED <<garbled, index, accum, pending, sent>>
    BY <1>6 DEF StreamFails, callVars, serverVars
  <2>2. QED
    BY <2>1, FedSame, WholeSame
<1>7. CASE StreamOver
  <2>1. UNCHANGED <<garbled, index, accum, pending, sent>>
    BY <1>7 DEF StreamOver, streamVars, callVars, serverVars
  <2>2. QED
    BY <2>1, FedSame, WholeSame
<1>8. CASE UNCHANGED streamVars
  <2>1. UNCHANGED <<garbled, index, accum, pending, sent>>
    BY <1>8 DEF streamVars, callVars, serverVars
  <2>2. QED
    BY <2>1, FedSame, WholeSame
<1>9. QED
  BY <1>1, <1>2, <1>3, <1>4, <1>5, <1>6, <1>7, <1>8 DEF StreamNext

LEMMA StepUnmixed ==
    TextTyped /\ CallTyped /\ Queued /\ Unmixed /\ [StreamNext]_streamVars => Unmixed'
<1> SUFFICES ASSUME TextTyped, CallTyped, Queued, Unmixed, [StreamNext]_streamVars
             PROVE  Unmixed'
  OBVIOUS
<1>1. ASSUME NEW k \in Chunk, Healthy(k) PROVE Unmixed'
  <2>1. Take(k) /\ UNCHANGED <<garbled, index, accum>>
    BY <1>1 DEF Healthy, Take, Send
  <2>2. \A c \in Calls : Fed(c)' = Fed(c)
    BY <2>1, TakeQueues
  <2>3. QED
    BY <2>1, <2>2, UnmixedSame
<1>2. ASSUME NEW k \in Chunk, SinkRaises(k) PROVE Unmixed'
  <2>1. Take(k) /\ UNCHANGED <<garbled, index, accum>>
    BY <1>2 DEF SinkRaises, Take, Send
  <2>2. \A c \in Calls : Fed(c)' = Fed(c)
    BY <2>1, TakeQueues
  <2>3. QED
    BY <2>1, <2>2, UnmixedSame
<1>3. ASSUME NEW k \in Chunk, Garbled(k) PROVE Unmixed'
  BY <1>3 DEF Garbled, Unmixed
<1>4. CASE FeedNext
  BY <1>4, FeedKeepsUnmixed
<1>5. CASE StreamEnds
  <2>1. UNCHANGED <<garbled, index, accum, pending, sent>>
    BY <1>5 DEF StreamEnds, callVars, serverVars
  <2>2. QED
    BY <2>1, FedSame, UnmixedSame
<1>6. CASE StreamFails
  <2>1. UNCHANGED <<garbled, index, accum, pending, sent>>
    BY <1>6 DEF StreamFails, callVars, serverVars
  <2>2. QED
    BY <2>1, FedSame, UnmixedSame
<1>7. CASE StreamOver
  <2>1. UNCHANGED <<garbled, index, accum, pending, sent>>
    BY <1>7 DEF StreamOver, streamVars, callVars, serverVars
  <2>2. QED
    BY <2>1, FedSame, UnmixedSame
<1>8. CASE UNCHANGED streamVars
  <2>1. UNCHANGED <<garbled, index, accum, pending, sent>>
    BY <1>8 DEF streamVars, callVars, serverVars
  <2>2. QED
    BY <2>1, FedSame, UnmixedSame
<1>9. QED
  BY <1>1, <1>2, <1>3, <1>4, <1>5, <1>6, <1>7, <1>8 DEF StreamNext

LEMMA PiecesAlways == StreamSpec => [](Whole /\ Unmixed)
BY InitWhole, InitUnmixed, StepWhole, StepUnmixed, TypedAlways, QueuedAlways,
   PTL DEF StreamSpec

(* For any calls, indexes and number of parts, and whatever the            *)
(* interleaving: with no line garbled and no index shared, the response    *)
(* holds the calls the service began, each under its own id and with the   *)
(* parts that were sent of it, in order; and with no line garbled, a piece *)
(* is with the id of its call unless the call shares its index             *)
(* (_StreamAccumulator.feed).                                              *)
THEOREM ResponseHoldsTheCalls == StreamSpec => []CallsAreTheServices
<1>1. TextTyped /\ CallTyped /\ Queued /\ Whole /\ Unmixed => CallsAreTheServices
  <2> SUFFICES ASSUME TextTyped, CallTyped, Queued, Whole, Unmixed,
                      outcome = "returned"
               PROVE  /\ ~garbled /\ IsInjective(index) =>
                           /\ {e.id : e \in ToSet(response.calls)} =
                                 {c \in Calls : sent[c] > 0}
                           /\ \A e \in ToSet(response.calls) : e.args =
                                 [p \in 1..sent[e.id] |->
                                     [call |-> e.id, part |-> p]]
                      /\ \A e \in ToSet(response.calls) : \A d \in ToSet(e.args) :
                            e.id # d.call => garbled \/ Shared(d.call)
    BY DEF CallsAreTheServices
  <2>1. response = AssembledResponse /\ pending = <<>>
    BY DEF Queued
  <2>2. ToSet(response.calls) = {accum[i] : i \in DOMAIN accum}
    BY <2>1, AssembledIs
  <2>3. \A c \in Calls : Fed(c) = sent[c]
    BY <2>1 DEF Fed, Waiting
  <2>4. ASSUME ~garbled, IsInjective(index)
        PROVE  /\ {e.id : e \in ToSet(response.calls)} =
                     {c \in Calls : sent[c] > 0}
               /\ \A e \in ToSet(response.calls) :
                     e.args = [p \in 1..sent[e.id] |->
                                  [call |-> e.id, part |-> p]]
    <3>1. /\ \A i \in DOMAIN accum : \E c \in Calls : sent[c] > 0 /\ index[c] = i
          /\ \A c \in Calls : sent[c] > 0 =>
                /\ index[c] \in DOMAIN accum
                /\ accum[index[c]].id = c
                /\ accum[index[c]].args =
                      [p \in 1..sent[c] |-> [call |-> c, part |-> p]]
      BY <2>3, <2>4 DEF Whole
    <3>2. ASSUME NEW e \in ToSet(response.calls)
          PROVE  /\ e.id \in Calls /\ sent[e.id] > 0
                 /\ e.args = [p \in 1..sent[e.id] |->
                                 [call |-> e.id, part |-> p]]
      <4>1. PICK i \in DOMAIN accum : e = accum[i]
        BY <2>2
      <4>2. PICK c \in Calls : sent[c] > 0 /\ index[c] = i
        BY <3>1
      <4>3. e.id = c
        BY <3>1, <4>1, <4>2
      <4>4. e.args = [p \in 1..sent[c] |-> [call |-> c, part |-> p]]
        BY <3>1, <4>1, <4>2
      <4>5. QED
        BY <4>2, <4>3, <4>4
    <3>3. ASSUME NEW c \in Calls, sent[c] > 0
          PROVE  \E e \in ToSet(response.calls) : e.id = c
      <4>1. accum[index[c]] \in ToSet(response.calls) /\ accum[index[c]].id = c
        BY <2>2, <3>1, <3>3
      <4>2. QED
        BY <4>1
    <3>4. {e.id : e \in ToSet(response.calls)} = {c \in Calls : sent[c] > 0}
      <4> DEFINE R == ToSet(response.calls)
      <4>1. /\ \A e \in R : e.id \in Calls /\ sent[e.id] > 0
            /\ \A c \in Calls : sent[c] > 0 => \E e \in R : e.id = c
        BY <3>2, <3>3
      <4> HIDE DEF R
      <4>2. {e.id : e \in R} = {c \in Calls : sent[c] > 0}
        BY <4>1
      <4>3. QED
        BY <4>2 DEF R
    <3>5. QED
      BY <3>2, <3>4
  <2>5. ASSUME ~garbled, NEW e \in ToSet(response.calls), NEW d \in ToSet(e.args),
               e.id # d.call
        PROVE  Shared(d.call)
    <3>1. PICK i \in DOMAIN accum : e = accum[i]
      BY <2>2
    <3>2. QED
      BY <2>5, <3>1 DEF Unmixed
  <2>6. QED
    BY <2>4, <2>5
<1>2. QED
  BY <1>1, TypedAlways, QueuedAlways, PiecesAlways, PTL

=============================================================================
