-------------------------- MODULE TranscriptMemory --------------------------
(***************************************************************************)
(* The transcript memory of a session: TranscriptMemory of                 *)
(* core/agent/memory.py, and the parts of Repl.run_turn and _record_turn   *)
(* (core/agent/repl.py) that fill it and read it.                          *)
(*                                                                         *)
(* A turn appends its messages to a list: an assistant message per round,  *)
(* a result per call, a request to try again. When the turn returns, the   *)
(* list is cut into one record per assistant message; when an exception    *)
(* leaves the turn, the list is lost. A request that refers back is shown  *)
(* the latest records as they are and the older ones without their output, *)
(* as many of them as the budget admits.                                   *)
(*                                                                         *)
(* A message is its role, where it arose, the ids of the calls it carries  *)
(* or answers, and whether it carries output. What a request is shown is   *)
(* kept as a sequence of records: the program flattens it.                 *)
(***************************************************************************)
EXTENDS Integers, Sequences, FiniteSets, SequencesExt

CONSTANTS
    KeepRecent,  \* keep_recent: how many records are shown as they are
    Threshold,   \* ERDTREE_COMPACTION_THRESHOLD, 0 for no budget
    Output,      \* the size of the output a result carries
    MaxRounds,   \* rounds of a turn
    MaxCalls,    \* bound: calls of one reply
    MaxTurns,    \* bound: requests of the session
    MaxReplies   \* bound: replies of the session

ASSUME WindowAssumption == KeepRecent \in Nat /\ Threshold \in Int
ASSUME OutputAssumption == Output \in Nat \ {0}
ASSUME BoundsAssumption == /\ MaxRounds \in Nat /\ MaxCalls \in Nat
                           /\ MaxTurns \in Nat /\ MaxReplies \in Nat

VARIABLES
    phase,     \* where run_turn is
    turn,      \* requests so far
    round,     \* rounds of this turn
    replies,   \* replies of the session
    reasked,   \* what this turn asked the model to do again
    messages,  \* the messages this turn appended
    todo,      \* the calls of the reply that await their result
    group,     \* the record that _record_turn fills, if any
    turns,     \* the records of the memory
    completed, \* the turns that returned, with the rounds they took
    older,     \* compacted_older while the budget is enforced
    history    \* the records this turn was shown

turnVars == <<turn, round, replies, reasked>>
memoryVars == <<group, turns, completed>>
vars == <<phase, turnVars, messages, todo, memoryVars, older, history>>

Phases == {"prompt", "evict", "ask", "dispatch", "record"}

(* Calls of a reply have the ids 1..MaxCalls; a call that was written as   *)
(* text has no id and is in no message, its result carries 0.              *)
TextId == 0
CallIds == 1..MaxCalls

Message == [role : {"assistant", "tool", "user"}, turn : Nat, round : Nat,
            ids : SUBSET (CallIds \union {TextId}), verbose : BOOLEAN]
Turn == [assistant : Message, results : Seq(Message)]
Call == [id : CallIds \union {TextId}, valid : BOOLEAN]

TypeOK ==
    /\ phase \in Phases
    /\ turn \in 0..MaxTurns
    /\ round \in 0..MaxRounds
    /\ replies \in 0..MaxReplies
    /\ reasked \in SUBSET {"empty", "blocked"}
    /\ messages \in Seq(Message)
    /\ todo \in Seq(Call)
    /\ group \in Seq(Turn) /\ Len(group) <= 1
    /\ turns \in Seq(Turn)
    /\ completed \in Seq(Nat \X Nat)
    /\ older \in Seq(Turn)
    /\ history \in Seq(Turn)

-----------------------------------------------------------------------------
(* The operators named ...Slip are variants of the definition that follows *)
(* them, each with a plausible slip; the properties notice every one.      *)

Said(role, r, ids, verbose) ==
    [role |-> role, turn |-> turn, round |-> r, ids |-> ids,
     verbose |-> verbose]
Spoken(ids) == Said("assistant", round + 1, ids, FALSE)

(* _compact_tool_result and _compact_turn: a result keeps its outcome and  *)
(* loses its output.                                                       *)
Compact(t) ==
    [assistant |-> t.assistant,
     results |-> [i \in DOMAIN t.results |->
                      [t.results[i] EXCEPT !.verbose = FALSE]]]

(* _byte_len of the messages of some records.                              *)
Total(s) == LET upTo[n \in 0..Len(s)] ==
                    IF n = 0 THEN 0 ELSE upTo[n - 1] + s[n]
            IN  upTo[Len(s)]
SizeOf(m) == IF m.verbose THEN 1 + Output ELSE 1
TurnSize(t) == SizeOf(t.assistant)
               + Total([i \in DOMAIN t.results |-> SizeOf(t.results[i])])
Size(ts) == Total([i \in DOMAIN ts |-> TurnSize(ts[i])])

(* The records that are shown as they are, and those before them.          *)
Window(ts) == LET keep == IF KeepRecent < Len(ts) THEN KeepRecent ELSE Len(ts)
              IN  SubSeq(ts, Len(ts) - keep + 1, Len(ts))
Before(ts) == SubSeq(ts, 1, Len(ts) - Len(Window(ts)))
Compacted(ts) == [i \in DOMAIN ts |-> Compact(ts[i])]

-----------------------------------------------------------------------------
(* compacted_history. The pops of its loop are steps.                      *)

OverBudgetSlip == Threshold > 0 /\ Size(older) > Threshold
OverBudget == Threshold > 0 /\ Size(Window(turns)) + Size(older) > Threshold

EvictOldest ==
    /\ phase = "evict" /\ older # <<>> /\ OverBudget
    /\ older' = Tail(older)
    /\ UNCHANGED <<phase, turnVars, messages, todo, memoryVars, history>>

ShowHistorySlip ==
    /\ phase = "evict" /\ (older = <<>> \/ ~OverBudget)
    /\ history' = older \o Compacted(Window(turns))
    /\ older' = <<>>
    /\ phase' = "ask"
    /\ UNCHANGED <<turnVars, messages, todo, memoryVars>>
ShowHistory ==
    /\ phase = "evict" /\ (older = <<>> \/ ~OverBudget)
    /\ history' = older \o Window(turns)
    /\ older' = <<>>
    /\ phase' = "ask"
    /\ UNCHANGED <<turnVars, messages, todo, memoryVars>>

(* A request. Only one that refers back (needs_history) is shown a past.   *)
RunTurn(refersBack) ==
    /\ phase = "prompt" /\ turn < MaxTurns
    /\ turn' = turn + 1
    /\ older' = IF refersBack THEN Compacted(Before(turns)) ELSE <<>>
    /\ phase' = IF refersBack THEN "evict" ELSE "ask"
    /\ UNCHANGED <<round, replies, reasked, messages, todo, memoryVars,
                   history>>

-----------------------------------------------------------------------------
(* The rounds of the turn.                                                 *)

NextRound ==
    /\ phase = "ask" /\ round < MaxRounds /\ replies < MaxReplies
    /\ round' = round + 1 /\ replies' = replies + 1

InOrder(ids) == \A i, j \in DOMAIN ids : i < j => ids[i] < ids[j]

Calls(ids, valid) == [n \in DOMAIN ids |-> [id |-> ids[n], valid |-> valid]]

(* A reply with calls, of which some do not validate. The valid ones are   *)
(* run first, then the others are answered with what was wrong.            *)
AskCalls(ids, missed) ==
    /\ NextRound
    /\ messages' = Append(messages, Spoken(ids))
    /\ \E first \in SetToSeqs(ids \ missed), last \in SetToSeqs(missed) :
          /\ InOrder(first) /\ InOrder(last)
          /\ todo' = Calls(first, TRUE) \o Calls(last, FALSE)
    /\ phase' = "dispatch"
    /\ UNCHANGED <<turn, reasked, memoryVars, older, history>>

(* A call written as text: the router makes a call of it, or refuses it.   *)
(* The message in the list carries no call either way.                     *)
AskText(valid) ==
    /\ NextRound
    /\ messages' = Append(messages, Spoken({}))
    /\ todo' = <<[id |-> TextId, valid |-> valid]>>
    /\ phase' = "dispatch"
    /\ UNCHANGED <<turn, reasked, memoryVars, older, history>>

(* One result: of an operation that ran, with or without output, of one    *)
(* that was refused, or of a call that was no operation.                   *)
Result(verbose) ==
    /\ phase = "dispatch" /\ todo # <<>>
    /\ verbose => Head(todo).valid
    /\ messages' = Append(messages, Said("tool", round, {Head(todo).id}, verbose))
    /\ todo' = Tail(todo)
    /\ UNCHANGED <<phase, turnVars, memoryVars, older, history>>

RoundEnds ==
    /\ phase = "dispatch" /\ todo = <<>>
    /\ phase' = "ask"
    /\ UNCHANGED <<turnVars, messages, todo, memoryVars, older, history>>

(* An empty reply, or prose where an operation was due: asked again, once  *)
(* for each reason.                                                        *)
Reask(reason) ==
    /\ NextRound /\ reason \notin reasked
    /\ reasked' = reasked \union {reason}
    /\ messages' = messages \o
          <<Spoken({}), Said("user", round + 1, {}, FALSE)>>
    /\ UNCHANGED <<phase, turn, todo, memoryVars, older, history>>

(* A second empty reply costs a round and adds its message.                *)
EmptyAgain ==
    /\ NextRound /\ "empty" \in reasked
    /\ messages' = Append(messages, Spoken({}))
    /\ UNCHANGED <<phase, turn, reasked, todo, memoryVars, older, history>>

Answer ==
    /\ NextRound
    /\ messages' = Append(messages, Spoken({}))
    /\ phase' = "record"
    /\ UNCHANGED <<turn, reasked, todo, memoryVars, older, history>>

CapReached ==
    /\ phase = "ask" /\ round = MaxRounds
    /\ phase' = "record"
    /\ UNCHANGED <<turnVars, messages, todo, memoryVars, older, history>>

(* run_turn is left: its locals are gone.                                  *)
TurnOver ==
    /\ phase' = "prompt"
    /\ round' = 0 /\ reasked' = {} /\ messages' = <<>> /\ todo' = <<>>
    /\ group' = <<>> /\ history' = <<>>
    /\ UNCHANGED <<turn, replies, older>>

(* The service is gone, or the audit log cannot be written: the exception  *)
(* leaves run_turn. What the turn appended is never recorded.              *)
Abort ==
    /\ phase \in {"ask", "dispatch"}
    /\ TurnOver
    /\ UNCHANGED <<turns, completed>>

-----------------------------------------------------------------------------
(* _record_turn: the messages of the turn, one at a time.                  *)

StartGroupSlip ==
    /\ phase = "record" /\ messages # <<>>
    /\ Head(messages).role = "assistant"
    /\ turns' = turns \o group
    /\ group' = <<[assistant |-> Head(messages),
                   results |-> IF group = <<>> THEN <<>>
                               ELSE group[1].results]>>
    /\ messages' = Tail(messages)
    /\ UNCHANGED <<phase, turnVars, todo, completed, older, history>>
StartGroup ==
    /\ phase = "record" /\ messages # <<>>
    /\ Head(messages).role = "assistant"
    /\ turns' = turns \o group
    /\ group' = <<[assistant |-> Head(messages), results |-> <<>>]>>
    /\ messages' = Tail(messages)
    /\ UNCHANGED <<phase, turnVars, todo, completed, older, history>>

ExtendGroup ==
    /\ phase = "record" /\ messages # <<>>
    /\ Head(messages).role = "tool" /\ group # <<>>
    /\ group' = <<[group[1] EXCEPT
                       !.results = Append(@, Head(messages))]>>
    /\ messages' = Tail(messages)
    /\ UNCHANGED <<phase, turnVars, todo, turns, completed, older, history>>

SkipMessage ==
    /\ phase = "record" /\ messages # <<>>
    /\ Head(messages).role # "assistant"
    /\ ~(Head(messages).role = "tool" /\ group # <<>>)
    /\ messages' = Tail(messages)
    /\ UNCHANGED <<phase, turnVars, todo, memoryVars, older, history>>

TurnReturnsSlip ==
    /\ phase = "record" /\ messages = <<>>
    /\ TurnOver
    /\ completed' = Append(completed, <<turn, round>>)
    /\ UNCHANGED turns
TurnReturns ==
    /\ phase = "record" /\ messages = <<>>
    /\ TurnOver
    /\ turns' = turns \o group
    /\ completed' = Append(completed, <<turn, round>>)

SessionOver == phase = "prompt" /\ turn = MaxTurns /\ UNCHANGED vars

Init ==
    /\ phase = "prompt"
    /\ turn = 0 /\ round = 0 /\ replies = 0 /\ reasked = {}
    /\ messages = <<>> /\ todo = <<>> /\ group = <<>>
    /\ turns = <<>> /\ completed = <<>>
    /\ older = <<>> /\ history = <<>>

Reply ==
    \/ \E n \in CallIds : \E missed \in SUBSET (1..n) : AskCalls(1..n, missed)
    \/ \E valid \in BOOLEAN : AskText(valid)
    \/ \E reason \in {"empty", "blocked"} : Reask(reason)
    \/ EmptyAgain
    \/ Answer

Next ==
    \/ \E refersBack \in BOOLEAN : RunTurn(refersBack)
    \/ EvictOldest \/ ShowHistory
    \/ Reply \/ CapReached
    \/ \E verbose \in BOOLEAN : Result(verbose)
    \/ RoundEnds \/ Abort
    \/ StartGroup \/ ExtendGroup \/ SkipMessage \/ TurnReturns
    \/ SessionOver

Spec == Init /\ [][Next]_vars

-----------------------------------------------------------------------------
(* Properties.                                                             *)

(* A record in which every call has its one result, in the round of the    *)
(* call, and in which a result without a call stands alone: its call was   *)
(* text, and the reply carried no other.                                   *)
Answered(t) ==
    LET ids == [i \in DOMAIN t.results |-> t.results[i].ids]
    IN  /\ \A i, j \in DOMAIN ids : i # j => ids[i] \cap ids[j] = {}
        /\ \/ UNION ToSet(ids) = t.assistant.ids
           \/ t.assistant.ids = {} /\ ids = <<{TextId}>>
        /\ \A i \in DOMAIN ids : t.results[i].round = t.assistant.round

(* What a request is shown never holds a call without its result, nor a    *)
(* result of another round or of a call its reply did not carry, but for   *)
(* that of a call read from the text of a reply: not after a turn that was *)
(* abandoned between two results, and not where the budget cuts the past   *)
(* (run_turn, _record_turn, compacted_history). The order of the results   *)
(* of one reply is left open.                                              *)
ShownIsAnswered == \A i \in DOMAIN history : Answered(history[i])

(* The memory holds the rounds of the turns that returned, every one,      *)
(* once and in order, and nothing of a turn that was abandoned.            *)
Place(t) == <<t.assistant.turn, t.assistant.round>>
Earlier(p, q) == p[1] < q[1] \/ (p[1] = q[1] /\ p[2] < q[2])
Rounds(n) == {<<completed[n][1], r>> : r \in 1..completed[n][2]}
RemembersReturnedTurns ==
    phase # "record" =>
        /\ \A i, j \in DOMAIN turns :
              i < j => Earlier(Place(turns[i]), Place(turns[j]))
        /\ {Place(turns[i]) : i \in DOMAIN turns}
           = UNION {Rounds(n) : n \in DOMAIN completed}

(* What a request is shown is an unbroken end of the memory: the latest    *)
(* records as they were, those before them with their outcomes.            *)
ShownIsRecent ==
    (phase \in {"ask", "dispatch"} /\ history # <<>>) =>
        /\ Len(history) >= Len(Window(turns))
        /\ \A i \in DOMAIN history :
              LET t == turns[Len(turns) - Len(history) + i]
              IN  history[i] = IF i > Len(history) - Len(Window(turns))
                               THEN t ELSE Compact(t)

(* The budget is exceeded only by the records that are shown as they are,  *)
(* and nothing is forgotten that the budget had room for: the next older   *)
(* record would exceed it.                                                 *)
ForgetsForTheBudget ==
    (phase \in {"ask", "dispatch"} /\ history # <<>>) =>
        LET n == Len(turns) - Len(history)
        IN  /\ \/ Threshold <= 0 \/ Size(history) <= Threshold
               \/ Len(history) = Len(Window(turns))
            /\ n > 0 => /\ Threshold > 0
                        /\ Size(history) + TurnSize(Compact(turns[n]))
                               > Threshold
=============================================================================
