--------------------------- MODULE Understanding ---------------------------
(***************************************************************************)
(* How one round of a turn gets its proposal: the strategies of            *)
(* core/agent/pipeline/strategy.py and the stages they chain: intent.py    *)
(* (which operation), slots.py (its required arguments, by rule or by      *)
(* concurrent narrow questions to the model) and assembler.py (the call).  *)
(*                                                                         *)
(* Every question to the model may fail, and a failure costs one of        *)
(* MaxFaults. The value of an argument is the operation and the name it    *)
(* was obtained for. The registry declares only str, int, bool and list    *)
(* arguments, the types _coerce produces, so an assembled call that has    *)
(* its required arguments always passes validate_arguments.                *)
(***************************************************************************)
EXTENDS Descent, Integers, Sequences, FiniteSets, SequencesExt

CONSTANTS
    Operations,  \* the registered operations
    Slots,       \* the names of arguments
    Required,    \* their required arguments, in order
    Modes,       \* the values of ERDTREE_UNDERSTANDING
    Backends,    \* what classifies: "model", or the injected "embedder"
    Counts,      \* the values of ERDTREE_SLOT_WORKERS
    TopK,        \* TOP_K_MAX
    NoOp, Null,  \* no call, no answer
    MaxRounds,   \* bound: proposals
    MaxFaults    \* bound: failed questions

ASSUME RequiredAssumption ==
    /\ Required \in [Operations -> Seq(Slots)]
    /\ \A o \in Operations : IsInjective(Required[o])
ASSUME ChoiceAssumption ==
    /\ Modes \subseteq {"native", "decomposed", "fast-then-decompose"}
    /\ Backends \subseteq {"model", "embedder"}
    /\ NoOp \notin Operations
ASSUME NumbersAssumption ==
    Counts \subseteq Int /\ TopK \in Nat \ {0} /\ MaxRounds \in Nat /\ MaxFaults \in Nat

VARIABLES
    mode,      \* the strategy the process was started with
    backend,   \* its classifier
    workers,   \* the number of slot workers it was given
    pc,        \* the stage the proposal is in
    native,    \* what the native pass of this round gave
    ranked,    \* the candidates still to be tried
    chosen,    \* what the classifier named in this round
    values,    \* the arguments found for the first of them
    todo,      \* submitted questions no worker has taken
    busy,      \* questions the workers are asking
    finished,  \* answers not yet gathered
    result,    \* the proposal
    lost,      \* a question of this round failed
    rounds, faults

searchVars == <<ranked, chosen, values, todo, busy, finished>>
setup == <<mode, backend, workers>>
vars == <<setup, pc, native, searchVars, result, lost, rounds, faults>>

Value == [op : Operations, slot : Slots]
Args == UNION {[S -> Value] : S \in SUBSET Slots}
NoArgs == [s \in {} |-> Null]

(* The native pass: calls that passed the router, missed calls, English.   *)
Native == [calls : BOOLEAN, misses : BOOLEAN, english : BOOLEAN]
Nothing == [calls |-> FALSE, misses |-> FALSE, english |-> FALSE]

(* A proposal; an assembled call is there when op is an operation.         *)
Result == [source : {"native", "decomposed", "raised"}, native : Native,
           op : Operations \union {NoOp}, args : Args]
Empty(source) == [source |-> source, native |-> Nothing, op |-> NoOp,
                  args |-> NoArgs]

TypeOK ==
    /\ mode \in Modes /\ backend \in Backends /\ workers \in Counts
    /\ pc \in {"idle", "native", "intent", "try", "resolve", "ask",
               "assemble", "choose", "done"}
    /\ native \in Native
    /\ ranked \in Seq(Operations) /\ Len(ranked) <= TopK
    /\ chosen \subseteq Operations
    /\ values \in Args
    /\ todo \subseteq Slots /\ busy \subseteq Slots
    /\ finished \subseteq Slots \X (Value \union {Null})
    /\ result \in Result
    /\ lost \in BOOLEAN
    /\ rounds \in 0..MaxRounds /\ faults \in 0..MaxFaults

-----------------------------------------------------------------------------
(* The operators named ...Slip are variants of the definition that follows *)
(* them, each with a plausible slip; the properties notice every one.      *)

Propose ==
    /\ pc \in {"idle", "done"} /\ rounds < MaxRounds
    /\ rounds' = rounds + 1
    /\ native' = Nothing /\ lost' = FALSE
    /\ result' = Empty("native")
    /\ ranked' = <<>> /\ chosen' = {} /\ values' = NoArgs
    /\ pc' = IF mode = "decomposed" THEN "intent" ELSE "native"
    /\ UNCHANGED <<setup, todo, busy, finished, faults>>

Fault == faults < MaxFaults /\ faults' = faults + 1 /\ lost' = TRUE

UsableSlip(n) == (n.calls /\ ~n.misses) \/ n.english
Usable(n) == n.calls \/ n.english

(* The native pass. A reply with calls is not English, even when they all  *)
(* miss; one with neither is nothing at all.                               *)
NativeAnswers ==
    /\ pc = "native"
    /\ \E n \in Native :
          /\ n.english => ~n.calls /\ ~n.misses
          /\ native' = n
          /\ IF mode = "native" \/ Usable(n)
                THEN /\ result' = [Empty("native") EXCEPT !.native = n]
                     /\ pc' = "done"
                ELSE /\ pc' = "intent" /\ UNCHANGED result
    /\ UNCHANGED <<setup, searchVars, lost, rounds, faults>>

Raise == pc' = "done" /\ result' = Empty("raised")

NativeFails ==
    /\ pc = "native" /\ Fault /\ Raise
    /\ UNCHANGED <<setup, native, searchVars, rounds>>

(* classify_intent: the model names one operation, the embedder ranks up   *)
(* to TopK ties, and either may leave nothing to try.                      *)
Rankings ==
    LET most == IF backend = "model" THEN 1 ELSE TopK
    IN  {<<>>} \union UNION {SetToSeqs(S) :
                      S \in {T \in SUBSET Operations : Cardinality(T) \in 1..most}}

Classify ==
    /\ pc = "intent"
    /\ \E r \in Rankings : ranked' = r /\ chosen' = ToSet(r)
    /\ pc' = "try"
    /\ UNCHANGED <<setup, native, values, todo, busy, finished, result,
                   lost, rounds, faults>>

(* Only the model's question is asked inside a try.                        *)
ClassifyFails ==
    /\ pc = "intent" /\ Fault
    /\ IF backend = "model"
          THEN pc' = "try" /\ UNCHANGED result
          ELSE Raise
    /\ UNCHANGED <<setup, native, searchVars, rounds>>

-----------------------------------------------------------------------------
(* One candidate: the arguments a rule resolves, questions for the others, *)
(* then the call.                                                          *)

Own(s) == [op |-> Head(ranked), slot |-> s]

(* The first assemble learns which required arguments are missing; an      *)
(* operation without any is a call already.                                *)
TryCandidateSlip ==
    /\ pc = "try"
    /\ pc' = IF ranked = <<>> THEN "choose"
             ELSE IF Required[Head(ranked)] = <<>> THEN "assemble"
             ELSE "resolve"
    /\ UNCHANGED <<setup, native, searchVars, result, lost, rounds,
                   faults>>
TryCandidate ==
    /\ pc = "try"
    /\ values' = NoArgs
    /\ pc' = IF ranked = <<>> THEN "choose"
             ELSE IF Required[Head(ranked)] = <<>> THEN "assemble"
             ELSE "resolve"
    /\ UNCHANGED <<setup, native, ranked, chosen, todo, busy, finished,
                   result, lost, rounds, faults>>

PoolSlip == workers
Pool == IF workers < 1 THEN 1 ELSE workers

(* extract_slots: a question per argument no rule resolves, which the pool *)
(* takes in any order. A pool of no workers cannot be made.                *)
Resolve ==
    /\ pc = "resolve"
    /\ \E S \in SUBSET ToSet(Required[Head(ranked)]) :
          LET fuzzy == ToSet(Required[Head(ranked)]) \ S
          IN  /\ values' = [s \in DOMAIN values \union S |->
                                IF s \in S THEN Own(s) ELSE values[s]]
              /\ IF fuzzy = {} \/ Pool > 0
                    THEN todo' = fuzzy /\ pc' = "ask" /\ UNCHANGED result
                    ELSE Raise /\ UNCHANGED todo
    /\ UNCHANGED <<setup, native, ranked, chosen, busy, finished, lost, rounds,
                   faults>>

Ask(s) ==
    /\ pc = "ask" /\ s \in todo /\ Cardinality(busy) < Pool
    /\ busy' = busy \union {s} /\ todo' = todo \ {s}
    /\ UNCHANGED <<setup, pc, native, ranked, chosen, values, finished,
                   result, lost, rounds, faults>>

Finish(s, v) ==
    /\ busy' = busy \ {s}
    /\ finished' = finished \union {<<s, v>>}
    /\ UNCHANGED <<setup, pc, native, ranked, chosen, values, todo,
                   result, rounds>>

(* An answer, "null" or a failed question: both of the latter leave the    *)
(* argument out.                                                           *)
Answered(s) ==
    /\ pc = "ask" /\ s \in busy
    /\ \E v \in {Own(s), Null} : Finish(s, v)
    /\ UNCHANGED <<lost, faults>>

QuestionFails(s) ==
    /\ pc = "ask" /\ s \in busy /\ Fault /\ Finish(s, Null)

(* as_completed: the answers come in any order, each with the question it  *)
(* was asked for.                                                          *)
GatherSlip(s, v) ==
    /\ pc = "ask" /\ <<s, v>> \in finished
    /\ finished' = finished \ {<<s, v>>}
    /\ LET first == SelectSeq(Required[Head(ranked)], LAMBDA x : x \notin DOMAIN values)[1]
       IN  values' = IF v = Null THEN values
                     ELSE [x \in DOMAIN values \union {first} |->
                              IF x = first THEN v ELSE values[x]]
    /\ UNCHANGED <<setup, pc, native, ranked, chosen, todo, busy,
                   result, lost, rounds, faults>>
Gather(s, v) ==
    /\ pc = "ask" /\ <<s, v>> \in finished
    /\ finished' = finished \ {<<s, v>>}
    /\ values' = IF v = Null THEN values
                 ELSE [x \in DOMAIN values \union {s} |->
                          IF x = s THEN v ELSE values[x]]
    /\ UNCHANGED <<setup, pc, native, ranked, chosen, todo, busy,
                   result, lost, rounds, faults>>

AllGatheredSlip ==
    /\ pc = "ask" /\ ToSet(Required[Head(ranked)]) \subseteq DOMAIN values
    /\ todo = {} /\ busy = {} /\ finished = {}
    /\ pc' = "assemble"
    /\ UNCHANGED <<setup, native, searchVars, result, lost, rounds, faults>>
AllGathered ==
    /\ pc = "ask" /\ todo = {} /\ busy = {} /\ finished = {}
    /\ pc' = "assemble"
    /\ UNCHANGED <<setup, native, searchVars, result, lost, rounds,
                   faults>>

CompleteSlip == TRUE
Complete == ToSet(Required[Head(ranked)]) \subseteq DOMAIN values

(* The second assemble: the call, or the next of the candidates.           *)
Assemble ==
    /\ pc = "assemble"
    /\ IF Complete
          THEN /\ result' = [source |-> "decomposed", native |-> Nothing,
                             op |-> Head(ranked), args |-> values]
               /\ pc' = "choose"
               /\ UNCHANGED ranked
          ELSE ranked' = Tail(ranked) /\ pc' = "try" /\ UNCHANGED result
    /\ UNCHANGED <<setup, native, chosen, values, todo, busy, finished,
                   lost, rounds, faults>>

(* An escalation that assembled no call gives the native result back.      *)
ChooseSlip ==
    /\ pc = "choose" /\ pc' = "done"
    /\ result' = IF result.op # NoOp THEN result ELSE Empty("decomposed")
    /\ UNCHANGED <<setup, native, searchVars, lost, rounds, faults>>
Choose ==
    /\ pc = "choose" /\ pc' = "done"
    /\ result' = IF result.op # NoOp THEN result
                 ELSE IF mode = "decomposed" THEN Empty("decomposed")
                 ELSE [Empty("native") EXCEPT !.native = native]
    /\ UNCHANGED <<setup, native, searchVars, lost, rounds, faults>>

-----------------------------------------------------------------------------
Init ==
    /\ mode \in Modes /\ backend \in Backends /\ workers \in Counts
    /\ pc = "idle" /\ native = Nothing
    /\ ranked = <<>> /\ chosen = {} /\ values = NoArgs
    /\ todo = {} /\ busy = {} /\ finished = {}
    /\ result = Empty("native")
    /\ lost = FALSE /\ rounds = 0 /\ faults = 0

Extract == \/ Resolve \/ AllGathered
           \/ \E s \in todo : Ask(s)
           \/ \E f \in finished : Gather(f[1], f[2])

(* What the code does by itself, and what the service does.                *)
OwnStep == TryCandidate \/ Extract \/ Assemble \/ Choose

Reply == NativeAnswers \/ Classify \/ \E s \in Slots : Answered(s)

Fail == NativeFails \/ ClassifyFails \/ \E s \in Slots : QuestionFails(s)

Stop == pc = "done" /\ rounds = MaxRounds /\ UNCHANGED vars

Next == Propose \/ OwnStep \/ Reply \/ Fail \/ Stop

Spec == Init /\ [][Next]_vars

(* The code and its workers run. Nothing is assumed of the service, whose  *)
(* requests have no timeout.                                               *)
FairSpec == Spec /\ WF_vars(OwnStep)

-----------------------------------------------------------------------------
(* A call put together from several questions is whole: it is of an        *)
(* operation the classifier named in this round, has all the arguments the *)
(* operation requires, and every one of them was obtained for that         *)
(* argument of that operation, in whatever order the workers finished and  *)
(* whatever candidates were tried before (extract_slots, _resolve_candidate*)
(* and assemble).                                                          *)
CallIsWhole ==
    result.op # NoOp =>
        /\ result.op \in chosen
        /\ DOMAIN result.args = ToSet(Required[result.op])
        /\ \A s \in DOMAIN result.args :
              result.args[s] = [op |-> result.op, slot |-> s]

(* An error leaves propose only when a question to the service failed:     *)
(* nothing the other stages meet, such as a worker count of zero or a      *)
(* candidate that cannot be filled, ends the turn (DecomposedStrategy).    *)
OnlyServiceErrorsEscape == pc = "done" /\ result.source = "raised" => lost

(* An escalation never takes the place of something usable and, when it    *)
(* yields no call, loses nothing: with a native pass the proposal is the   *)
(* native one unless that had neither calls nor English and a call was     *)
(* assembled in its place (FastThenDecomposeStrategy.propose).             *)
EscalationOnlyAdds ==
    (pc = "done" /\ mode # "decomposed" /\ result.source # "raised") =>
        IF result.source = "native"
           THEN result.native = native
           ELSE ~native.calls /\ ~native.english /\ result.op # NoOp

(* Every proposal ends, unless the service never answers a question: no    *)
(* worker, no answer and no candidate is waited for in vain.               *)
AwaitsReply == pc \in {"native", "intent"} \/ busy # {}

ProposalEnds == []<>(pc \in {"idle", "done"}) \/ <>[]AwaitsReply

(* What bounds a proposal, whatever the model answers: it passes from      *)
(* stage to stage and never back, an operation that cannot be completed is *)
(* off the ranking for good, and the workers' questions are counted down.  *)
StagesLeft == CASE pc = "native" -> 3
                [] pc = "intent" -> 2
                [] pc \in {"try", "resolve", "ask", "assemble"} -> 1
                [] OTHER -> 0

StepsLeft == CASE pc = "try" -> 4
               [] pc = "resolve" -> 3
               [] pc = "ask" -> 2
               [] pc \in {"assemble", "choose"} -> 1
               [] OTHER -> 0

QuestionsLeft ==
    3 * Cardinality(todo) + 2 * Cardinality(busy) + Cardinality(finished)

ProposalVariant == <<StagesLeft, Len(ranked), StepsLeft, QuestionsLeft>>

ProposalDescends ==
    [][pc \notin {"idle", "done"} => Below(ProposalVariant', ProposalVariant)]_vars

=============================================================================
