------------------------ MODULE TranscriptMemory_proofs ------------------------
(***************************************************************************)
(* Theorems about the transcript memory, for any window, budget, number of *)
(* rounds, calls, requests and replies.                                    *)
(***************************************************************************)
EXTENDS TranscriptMemory, SequenceTheorems, FiniteSetTheorems, TLAPS, WellFoundedInduction

LEMMA MemoryBounds ==
    /\ KeepRecent \in Nat /\ Threshold \in Int /\ Output \in Nat
    /\ MaxRounds \in Nat /\ MaxCalls \in Nat
    /\ MaxTurns \in Nat /\ MaxReplies \in Nat
BY WindowAssumption, OutputAssumption, BoundsAssumption
   DEF WindowAssumption, OutputAssumption, BoundsAssumption

-----------------------------------------------------------------------------
(* Where the turn is.                                                      *)

Scalars ==
    /\ phase \in Phases
    /\ turn \in 0..MaxTurns
    /\ round \in 0..MaxRounds
    /\ replies \in 0..MaxReplies
    /\ reasked \in SUBSET {"empty", "blocked"}

LEMMA InitScalars == Init => Scalars
BY MemoryBounds DEF Init, Scalars, Phases

LEMMA StepScalars ==
    Scalars /\ [Next]_vars => Scalars'
<1> SUFFICES ASSUME Scalars, [Next]_vars
             PROVE  Scalars'
  OBVIOUS
<1>0. Scalars /\ MaxTurns \in Nat /\ MaxRounds \in Nat /\ MaxReplies \in Nat
  BY MemoryBounds
<1>1. CASE EvictOldest
  BY <1>0, <1>1 DEF EvictOldest, turnVars, memoryVars, Scalars, Phases
<1>2. CASE ShowHistory
  BY <1>0, <1>2 DEF ShowHistory, turnVars, memoryVars, Scalars, Phases
<1>3. CASE EmptyAgain
  BY <1>0, <1>3 DEF EmptyAgain, NextRound, turnVars, memoryVars, Scalars,
     Phases
<1>4. CASE Answer
  BY <1>0, <1>4 DEF Answer, NextRound, turnVars, memoryVars, Scalars,
     Phases
<1>5. CASE CapReached
  BY <1>0, <1>5 DEF CapReached, turnVars, memoryVars, Scalars, Phases
<1>6. CASE RoundEnds
  BY <1>0, <1>6 DEF RoundEnds, turnVars, memoryVars, Scalars, Phases
<1>7. CASE Abort
  BY <1>0, <1>7 DEF Abort, TurnOver, turnVars, memoryVars, Scalars, Phases
<1>8. CASE StartGroup
  BY <1>0, <1>8 DEF StartGroup, turnVars, memoryVars, Scalars, Phases
<1>9. CASE ExtendGroup
  BY <1>0, <1>9 DEF ExtendGroup, turnVars, memoryVars, Scalars, Phases
<1>10. CASE SkipMessage
  BY <1>0, <1>10 DEF SkipMessage, turnVars, memoryVars, Scalars, Phases
<1>11. CASE TurnReturns
  BY <1>0, <1>11 DEF TurnReturns, TurnOver, turnVars, memoryVars, Scalars,
     Phases
<1>12. ASSUME NEW b \in BOOLEAN,
             RunTurn(b)
      PROVE  Scalars'
  BY <1>0, <1>12 DEF RunTurn, turnVars, memoryVars, Scalars, Phases
<1>13. ASSUME NEW n \in CallIds, NEW missed \in SUBSET (1..n),
             AskCalls(1..n, missed)
      PROVE  Scalars'
  BY <1>0, <1>13 DEF AskCalls, NextRound, turnVars, memoryVars, Scalars,
     Phases
<1>14. ASSUME NEW b \in BOOLEAN,
             AskText(b)
      PROVE  Scalars'
  BY <1>0, <1>14 DEF AskText, NextRound, turnVars, memoryVars, Scalars,
     Phases
<1>15. ASSUME NEW reason \in {"empty", "blocked"},
             Reask(reason)
      PROVE  Scalars'
  BY <1>0, <1>15 DEF Reask, NextRound, turnVars, memoryVars, Scalars,
     Phases
<1>16. ASSUME NEW b \in BOOLEAN,
             Result(b)
      PROVE  Scalars'
  BY <1>0, <1>16 DEF Result, turnVars, memoryVars, Scalars, Phases
<1>17. CASE UNCHANGED vars
  BY <1>0, <1>17 DEF vars, turnVars, memoryVars, Scalars, Phases
<1>18. CASE SessionOver
  BY <1>17, <1>18 DEF SessionOver
<1>19. QED
  BY <1>1, <1>2, <1>3, <1>4, <1>5, <1>6, <1>7, <1>8, <1>9, <1>10, <1>11,
     <1>12, <1>13, <1>14, <1>15, <1>16, <1>17, <1>18 DEF Next, Reply

LEMMA ScalarsAlways == Spec => []Scalars
BY InitScalars, StepScalars, PTL DEF Spec

-----------------------------------------------------------------------------
(* The lists.                                                              *)

LEMMA PairType ==
    ASSUME NEW S, NEW a \in S, NEW b \in S PROVE <<a, b>> \in Seq(S)
OBVIOUS

LEMMA Words ==
    ASSUME Scalars, NEW role \in {"assistant", "tool", "user"}, NEW r \in Nat,
           NEW ids \in SUBSET (CallIds \union {TextId}), NEW b \in BOOLEAN
    PROVE  Said(role, r, ids, b) \in Message
BY MemoryBounds DEF Scalars, Said, Message

LEMMA CompactType == ASSUME NEW t \in Turn PROVE Compact(t) \in Turn
<1>1. t.assistant \in Message /\ t.results \in Seq(Message)
  BY DEF Turn
<1>2. ASSUME NEW i \in DOMAIN t.results
      PROVE  [t.results[i] EXCEPT !.verbose = FALSE] \in Message
  <2>1. t.results[i] \in Message
    BY <1>1
  <2>2. QED
    BY <2>1 DEF Message
<1> DEFINE rs == [i \in DOMAIN t.results |->
                     [t.results[i] EXCEPT !.verbose = FALSE]]
<1>3. rs \in Seq(Message)
  <2>1. DOMAIN t.results = 1..Len(t.results) /\ Len(t.results) \in Nat
    BY <1>1
  <2>2. rs \in [1..Len(t.results) -> Message]
    BY <1>2, <2>1
  <2>3. QED
    BY <2>1, <2>2
<1> HIDE DEF rs
<1>4. [assistant |-> t.assistant, results |-> rs] \in Turn
  BY <1>1, <1>3 DEF Turn
<1>5. QED
  BY <1>4 DEF Compact, rs

LEMMA WindowType ==
    ASSUME NEW ts \in Seq(Turn)
    PROVE  /\ Window(ts) \in Seq(Turn) /\ Before(ts) \in Seq(Turn)
           /\ Len(Window(ts)) <= Len(ts)
           /\ Len(Before(ts)) = Len(ts) - Len(Window(ts))
           /\ \A i \in 1..Len(Window(ts)) :
                 Window(ts)[i] = ts[Len(ts) - Len(Window(ts)) + i]
           /\ \A i \in 1..Len(Before(ts)) : Before(ts)[i] = ts[i]
<1> DEFINE keep == IF KeepRecent < Len(ts) THEN KeepRecent ELSE Len(ts)
<1>1. keep \in 0..Len(ts) /\ Len(ts) \in Nat
  BY MemoryBounds
<1>2. Window(ts) = SubSeq(ts, Len(ts) - keep + 1, Len(ts))
  BY DEF Window
<1> HIDE DEF keep
<1>3. \A i \in (Len(ts) - keep + 1)..Len(ts) : ts[i] \in Turn
  BY <1>1
<1>4. /\ Window(ts) \in Seq(Turn) /\ Len(Window(ts)) = keep
      /\ \A i \in 1..keep : Window(ts)[i] = ts[Len(ts) - keep + i]
  BY <1>1, <1>2, <1>3, SubSeqProperties
<1>5. /\ Before(ts) \in Seq(Turn) /\ Len(Before(ts)) = Len(ts) - keep
      /\ \A i \in 1..(Len(ts) - keep) : Before(ts)[i] = ts[i]
  BY <1>1, <1>4, SubSeqProperties DEF Before
<1>6. Len(Window(ts)) <= Len(ts) /\ Len(Before(ts)) = Len(ts) - Len(Window(ts))
  BY <1>1, <1>4, <1>5
<1>7. \A i \in 1..Len(Window(ts)) :
         Window(ts)[i] = ts[Len(ts) - Len(Window(ts)) + i]
  BY <1>4
<1>8. \A i \in 1..Len(Before(ts)) : Before(ts)[i] = ts[i]
  BY <1>5
<1>9. QED
  BY <1>4, <1>5, <1>6, <1>7, <1>8

LEMMA CompactedType ==
    ASSUME NEW ts \in Seq(Turn)
    PROVE  /\ Compacted(ts) \in Seq(Turn) /\ Len(Compacted(ts)) = Len(ts)
           /\ \A i \in 1..Len(ts) : Compacted(ts)[i] = Compact(ts[i])
<1>1. \A i \in 1..Len(ts) : Compact(ts[i]) \in Turn
  BY CompactType
<1>2. QED
  BY <1>1 DEF Compacted

LEMMA CallsType ==
    ASSUME NEW ids, IsFiniteSet(ids), ids \subseteq CallIds,
           NEW q \in SetToSeqs(ids), NEW valid \in BOOLEAN
    PROVE  Calls(q, valid) \in Seq(Call)
<1>1. Cardinality(ids) \in Nat
  BY FS_CardinalityType
<1>2. q \in [1..Cardinality(ids) -> ids]
  BY DEF SetToSeqs
<1>3. \A n \in 1..Cardinality(ids) : [id |-> q[n], valid |-> valid] \in Call
  BY <1>2 DEF Call
<1>4. QED
  BY <1>1, <1>2, <1>3 DEF Calls

Lists ==
    /\ messages \in Seq(Message)
    /\ todo \in Seq(Call)
    /\ group \in Seq(Turn) /\ Len(group) <= 1
    /\ turns \in Seq(Turn)
    /\ completed \in Seq(Nat \X Nat)
    /\ older \in Seq(Turn)
    /\ history \in Seq(Turn)

LEMMA InitLists == Init => Lists
BY DEF Init, Lists

LEMMA StepLists ==
    Scalars /\ Lists /\ [Next]_vars => Lists'
<1> SUFFICES ASSUME Scalars, Lists, [Next]_vars
             PROVE  Lists'
  OBVIOUS
<1>0. Lists
  OBVIOUS
<1>1. CASE EvictOldest
  BY <1>0, <1>1 DEF EvictOldest, turnVars, memoryVars, Lists
<1>2. CASE ShowHistory
  <2>1. older \in Seq(Turn) /\ Window(turns) \in Seq(Turn)
    BY <1>0, WindowType DEF Lists
  <2>2. older \o Window(turns) \in Seq(Turn)
    BY <2>1
  <2>3. QED
    BY <1>0, <1>2, <2>2 DEF ShowHistory, turnVars, memoryVars, Lists
<1>3. CASE EmptyAgain
  <2>1. round + 1 \in Nat /\ {} \in SUBSET (CallIds \union {TextId})
    BY MemoryBounds DEF Scalars
  <2>2. Spoken({}) \in Message
    BY <2>1, Words DEF Spoken
  <2>3. Append(messages, Spoken({})) \in Seq(Message)
    BY <1>0, <2>2 DEF Lists
  <2>4. QED
    BY <1>0, <1>3, <2>3 DEF EmptyAgain, turnVars, memoryVars, Lists
<1>4. CASE Answer
  <2>1. round + 1 \in Nat /\ {} \in SUBSET (CallIds \union {TextId})
    BY MemoryBounds DEF Scalars
  <2>2. Spoken({}) \in Message
    BY <2>1, Words DEF Spoken
  <2>3. Append(messages, Spoken({})) \in Seq(Message)
    BY <1>0, <2>2 DEF Lists
  <2>4. QED
    BY <1>0, <1>4, <2>3 DEF Answer, turnVars, memoryVars, Lists
<1>5. CASE CapReached
  BY <1>0, <1>5 DEF CapReached, turnVars, memoryVars, Lists
<1>6. CASE RoundEnds
  BY <1>0, <1>6 DEF RoundEnds, turnVars, memoryVars, Lists
<1>7. CASE Abort
  BY <1>0, <1>7 DEF Abort, TurnOver, turnVars, memoryVars, Lists
<1>8. CASE StartGroup
  <2>1. Head(messages) \in Message /\ Tail(messages) \in Seq(Message)
    BY <1>0, <1>8 DEF StartGroup, Lists
  <2>2. [assistant |-> Head(messages), results |-> <<>>] \in Turn
    BY <2>1 DEF Turn
  <2>3. <<[assistant |-> Head(messages), results |-> <<>>]>> \in Seq(Turn)
        /\ turns \o group \in Seq(Turn)
    BY <1>0, <2>2 DEF Lists
  <2>4. Len(group') = 1
    BY <1>8 DEF StartGroup
  <2>5. QED
    BY <1>0, <1>8, <2>1, <2>3, <2>4 DEF StartGroup, turnVars, Lists
<1>9. CASE ExtendGroup
  <2>1. Head(messages) \in Message /\ Tail(messages) \in Seq(Message)
    BY <1>0, <1>9 DEF ExtendGroup, Lists
  <2>2. group[1] \in Turn
    BY <1>0, <1>9 DEF ExtendGroup, Lists
  <2> DEFINE g == [group[1] EXCEPT !.results = Append(@, Head(messages))]
  <2>3. g \in Turn
    <3>1. Append(group[1].results, Head(messages)) \in Seq(Message)
      BY <2>1, <2>2 DEF Turn
    <3>2. QED
      BY <2>2, <3>1 DEF Turn
  <2>4. group' = <<g>>
    BY <1>9 DEF ExtendGroup
  <2> HIDE DEF g
  <2>5. group' \in Seq(Turn) /\ Len(group') = 1
    BY <2>3, <2>4
  <2>6. QED
    BY <1>0, <1>9, <2>1, <2>5 DEF ExtendGroup, turnVars, Lists
<1>10. CASE SkipMessage
  BY <1>0, <1>10 DEF SkipMessage, turnVars, memoryVars, Lists
<1>11. CASE TurnReturns
  <2>1. turns \o group \in Seq(Turn)
    BY <1>0 DEF Lists
  <2>2. turn \in Nat /\ round \in Nat
    BY MemoryBounds DEF Scalars
  <2>3. <<turn, round>> \in Nat \X Nat
    BY <2>2
  <2>4. Append(completed, <<turn, round>>) \in Seq(Nat \X Nat)
    BY <1>0, <2>3 DEF Lists
  <2>5. QED
    BY <1>0, <1>11, <2>1, <2>4 DEF TurnReturns, TurnOver, Lists
<1>12. ASSUME NEW b \in BOOLEAN,
             RunTurn(b)
      PROVE  Lists'
  <2>1. Before(turns) \in Seq(Turn)
    BY <1>0, WindowType DEF Lists
  <2>2. Compacted(Before(turns)) \in Seq(Turn)
    BY <2>1, CompactedType
  <2>3. QED
    BY <1>0, <1>12, <2>2 DEF RunTurn, memoryVars, Lists
<1>13. ASSUME NEW n \in CallIds, NEW missed \in SUBSET (1..n),
             AskCalls(1..n, missed)
      PROVE  Lists'
  <2>1. 1..n \subseteq CallIds /\ IsFiniteSet(1..n)
    BY FS_Interval, MemoryBounds DEF CallIds
  <2>2. /\ IsFiniteSet((1..n) \ missed) /\ IsFiniteSet(missed)
        /\ (1..n) \ missed \subseteq CallIds /\ missed \subseteq CallIds
    BY <2>1, FS_Subset
  <2>3. round + 1 \in Nat /\ 1..n \in SUBSET (CallIds \union {TextId})
    BY <2>1, MemoryBounds DEF Scalars
  <2>4. Append(messages, Spoken(1..n)) \in Seq(Message)
    <3>1. Spoken(1..n) \in Message
      BY <2>3, Words DEF Spoken
    <3>2. QED
      BY <1>0, <3>1 DEF Lists
  <2>5. PICK first \in SetToSeqs((1..n) \ missed), last \in SetToSeqs(missed) :
           todo' = Calls(first, TRUE) \o Calls(last, FALSE)
    BY <1>13 DEF AskCalls
  <2>6. Calls(first, TRUE) \in Seq(Call) /\ Calls(last, FALSE) \in Seq(Call)
    BY <2>2, CallsType
  <2>7. todo' \in Seq(Call)
    BY <2>5, <2>6, ConcatProperties, Zenon
  <2>8. QED
    BY <1>0, <1>13, <2>4, <2>7 DEF AskCalls, memoryVars, Lists
<1>14. ASSUME NEW b \in BOOLEAN,
             AskText(b)
      PROVE  Lists'
  <2>1. round + 1 \in Nat /\ {} \in SUBSET (CallIds \union {TextId})
    BY MemoryBounds DEF Scalars
  <2>2. Spoken({}) \in Message
    BY <2>1, Words DEF Spoken
  <2>3. Append(messages, Spoken({})) \in Seq(Message)
    BY <1>0, <2>2 DEF Lists
  <2>4. [id |-> TextId, valid |-> b] \in Call
    BY DEF Call
  <2>5. QED
    BY <1>0, <1>14, <2>3, <2>4 DEF AskText, turnVars, memoryVars, Lists
<1>15. ASSUME NEW reason \in {"empty", "blocked"},
             Reask(reason)
      PROVE  Lists'
  <2>1. round + 1 \in Nat /\ {} \in SUBSET (CallIds \union {TextId})
    BY MemoryBounds DEF Scalars
  <2>2. Spoken({}) \in Message /\ Said("user", round + 1, {}, FALSE) \in Message
    BY <2>1, Words DEF Spoken
  <2>3. messages \o <<Spoken({}), Said("user", round + 1, {}, FALSE)>>
           \in Seq(Message)
    <3>1. messages \in Seq(Message)
      BY <1>0 DEF Lists
    <3>2. <<Spoken({}), Said("user", round + 1, {}, FALSE)>> \in Seq(Message)
      BY <2>2, PairType
    <3>3. QED
      BY <3>1, <3>2, ConcatProperties, Zenon
  <2>4. QED
    BY <1>0, <1>15, <2>3 DEF Reask, turnVars, memoryVars, Lists
<1>16. ASSUME NEW b \in BOOLEAN,
             Result(b)
      PROVE  Lists'
  <2>1. Head(todo) \in Call /\ Tail(todo) \in Seq(Call)
    BY <1>0, <1>16 DEF Result, Lists
  <2>2. {Head(todo).id} \in SUBSET (CallIds \union {TextId}) /\ round \in Nat
    BY <2>1, MemoryBounds DEF Call, Scalars
  <2>3. Said("tool", round, {Head(todo).id}, b) \in Message
    BY <2>2, Words
  <2>4. Append(messages, Said("tool", round, {Head(todo).id}, b)) \in Seq(Message)
    BY <1>0, <2>3 DEF Lists
  <2>5. QED
    BY <1>0, <1>16, <2>1, <2>4 DEF Result, turnVars, memoryVars, Lists
<1>17. CASE UNCHANGED vars
  BY <1>0, <1>17 DEF vars, turnVars, memoryVars, Lists
<1>18. CASE SessionOver
  BY <1>17, <1>18 DEF SessionOver
<1>19. QED
  BY <1>1, <1>2, <1>3, <1>4, <1>5, <1>6, <1>7, <1>8, <1>9, <1>10, <1>11,
     <1>12, <1>13, <1>14, <1>15, <1>16, <1>17, <1>18 DEF Next, Reply

LEMMA ListsAlways == Spec => []Lists
BY InitLists, StepLists, ScalarsAlways, PTL DEF Spec

(* The memory and the turn keep the types of their variables:              *)
(* TranscriptMemory, run_turn, _record_turn.                               *)
THEOREM MemoryTypeCorrect == Spec => []TypeOK
<1>1. Scalars /\ Lists => TypeOK
  BY Zenon DEF Scalars, Lists, TypeOK
<1>2. QED
  BY <1>1, ScalarsAlways, ListsAlways, PTL

-----------------------------------------------------------------------------
(* What is shown. The evictions leave an end of the older records, the     *)
(* window follows it, and the memory does not change until the turn ends.  *)

End(ts, shown) ==
    LET seen == Len(Window(ts)) + Len(shown)
    IN  /\ seen <= Len(ts)
        /\ \A i \in 1..Len(shown) : shown[i] = Compact(ts[Len(ts) - seen + i])

Recent ==
    /\ phase = "evict" => End(turns, older)
    /\ (phase \in {"ask", "dispatch"} /\ history # <<>>) =>
          \E shown \in Seq(Turn) :
             End(turns, shown) /\ history = shown \o Window(turns)
    /\ phase \in {"prompt", "evict"} => history = <<>>

LEMMA InitRecent == Init => Recent
BY DEF Init, Recent

LEMMA StepRecent ==
    Lists /\ Recent /\ [Next]_vars => Recent'
<1> SUFFICES ASSUME Lists, Recent, [Next]_vars
             PROVE  Recent'
  OBVIOUS
<1>0. Recent
  OBVIOUS
<1>1. CASE EvictOldest
  <2>1. /\ phase = "evict" /\ older # <<>> /\ older' = Tail(older)
        /\ UNCHANGED <<phase, turns, history>>
    BY <1>1 DEF EvictOldest, memoryVars
  <2>2. /\ older \in Seq(Turn) /\ turns \in Seq(Turn)
        /\ Window(turns) \in Seq(Turn)
    BY WindowType DEF Lists
  <2>3. Len(Tail(older)) = Len(older) - 1
        /\ \A i \in 1..Len(Tail(older)) : Tail(older)[i] = older[i + 1]
    BY <2>1, <2>2
  <2>4. End(turns, older)
    BY <1>0, <2>1 DEF Recent
  <2>5. End(turns, Tail(older))
    <3> DEFINE seen == Len(Window(turns)) + Len(older)
    <3>1. seen <= Len(turns) /\ seen \in Int /\ Len(older) \in Nat
          /\ \A i \in 1..Len(older) :
                older[i] = Compact(turns[Len(turns) - seen + i])
      BY <2>2, <2>4 DEF End
    <3>2. Len(Window(turns)) + Len(Tail(older)) = seen - 1
      <4>1. Len(Window(turns)) \in Int /\ Len(older) \in Int
        BY <2>2
      <4>2. QED
        BY <2>3, <4>1
    <3> HIDE DEF seen
    <3>3. ASSUME NEW i \in 1..Len(Tail(older))
          PROVE  Tail(older)[i] = Compact(turns[Len(turns) - (seen - 1) + i])
      <4>1. i + 1 \in 1..Len(older) /\ Len(turns) \in Int
        BY <2>2, <2>3, <3>1
      <4>2. Len(turns) - (seen - 1) + i = Len(turns) - seen + (i + 1)
        BY <3>1, <4>1
      <4>3. QED
        BY <2>3, <3>1, <4>1, <4>2
    <3>4. seen - 1 <= Len(turns)
      BY <2>2, <3>1
    <3>5. QED
      BY <3>2, <3>3, <3>4 DEF End
  <2>6. QED
    BY <1>0, <2>1, <2>5 DEF Recent, End
<1>2. CASE ShowHistory
  <2>1. /\ phase = "evict" /\ phase' = "ask" /\ turns' = turns
        /\ history' = older \o Window(turns)
    BY <1>2 DEF ShowHistory, memoryVars
  <2>2. End(turns, older) /\ older \in Seq(Turn)
    BY <1>0, <2>1 DEF Recent, Lists
  <2>3. Window(turns') = Window(turns) /\ (End(turns', older) <=> End(turns, older))
    BY <2>1
  <2>4. \E shown \in Seq(Turn) :
           End(turns', shown) /\ history' = shown \o Window(turns')
    BY <2>1, <2>2, <2>3
  <2>5. QED
    BY <2>1, <2>4 DEF Recent
<1>3. CASE EmptyAgain
  BY <1>0, <1>3 DEF EmptyAgain, NextRound, turnVars, memoryVars, Recent
<1>4. CASE Answer
  BY <1>0, <1>4 DEF Answer, NextRound, turnVars, memoryVars, Recent
<1>5. CASE CapReached
  BY <1>0, <1>5 DEF CapReached, turnVars, memoryVars, Recent
<1>6. CASE RoundEnds
  BY <1>0, <1>6 DEF RoundEnds, turnVars, memoryVars, Recent
<1>7. CASE Abort
  BY <1>0, <1>7 DEF Abort, TurnOver, turnVars, memoryVars, Recent
<1>8. CASE StartGroup
  BY <1>0, <1>8 DEF StartGroup, turnVars, memoryVars, Recent
<1>9. CASE ExtendGroup
  BY <1>0, <1>9 DEF ExtendGroup, turnVars, memoryVars, Recent
<1>10. CASE SkipMessage
  BY <1>0, <1>10 DEF SkipMessage, turnVars, memoryVars, Recent
<1>11. CASE TurnReturns
  BY <1>0, <1>11 DEF TurnReturns, TurnOver, turnVars, memoryVars, Recent
<1>12. ASSUME NEW b \in BOOLEAN,
             RunTurn(b)
      PROVE  Recent'
  <2>1. /\ phase' \in {"evict", "ask"} /\ history = <<>>
        /\ UNCHANGED <<turns, history>>
        /\ phase' = "evict" => older' = Compacted(Before(turns))
    BY <1>0, <1>12 DEF RunTurn, memoryVars, Recent
  <2> DEFINE shown == Compacted(Before(turns))
  <2>2. /\ turns \in Seq(Turn) /\ Before(turns) \in Seq(Turn)
        /\ Window(turns) \in Seq(Turn)
        /\ Len(Before(turns)) = Len(turns) - Len(Window(turns))
        /\ \A i \in 1..Len(Before(turns)) : Before(turns)[i] = turns[i]
    BY WindowType DEF Lists
  <2>3. Len(shown) = Len(Before(turns))
        /\ \A i \in 1..Len(Before(turns)) : shown[i] = Compact(Before(turns)[i])
    BY <2>2, CompactedType
  <2> HIDE DEF shown
  <2>4. Len(Window(turns)) + Len(shown) = Len(turns) /\ Len(turns) \in Nat
    BY <2>2, <2>3
  <2>5. \A i \in 1..Len(shown) :
           shown[i] = Compact(turns[Len(turns) - Len(turns) + i])
    BY <2>2, <2>3, <2>4
  <2>6. End(turns, shown)
    BY <2>4, <2>5 DEF End
  <2>7. QED
    BY <2>1, <2>6 DEF Recent, shown, End
<1>13. ASSUME NEW n \in CallIds, NEW missed \in SUBSET (1..n),
             AskCalls(1..n, missed)
      PROVE  Recent'
  BY <1>0, <1>13 DEF AskCalls, NextRound, turnVars, memoryVars, Recent
<1>14. ASSUME NEW b \in BOOLEAN,
             AskText(b)
      PROVE  Recent'
  BY <1>0, <1>14 DEF AskText, NextRound, turnVars, memoryVars, Recent
<1>15. ASSUME NEW reason \in {"empty", "blocked"},
             Reask(reason)
      PROVE  Recent'
  BY <1>0, <1>15 DEF Reask, NextRound, turnVars, memoryVars, Recent
<1>16. ASSUME NEW b \in BOOLEAN,
             Result(b)
      PROVE  Recent'
  BY <1>0, <1>16 DEF Result, turnVars, memoryVars, Recent
<1>17. CASE UNCHANGED vars
  BY <1>0, <1>17 DEF vars, turnVars, memoryVars, Recent
<1>18. CASE SessionOver
  BY <1>17, <1>18 DEF SessionOver
<1>19. QED
  BY <1>1, <1>2, <1>3, <1>4, <1>5, <1>6, <1>7, <1>8, <1>9, <1>10, <1>11,
     <1>12, <1>13, <1>14, <1>15, <1>16, <1>17, <1>18 DEF Next, Reply

LEMMA RecentAlways == Spec => []Recent
BY InitRecent, StepRecent, ListsAlways, PTL DEF Spec

(* What a request is shown is an unbroken end of the memory: the latest    *)
(* records as they were, those before them with their outcomes:            *)
(* compacted_history.                                                      *)
THEOREM ShownIsAnEnd == Spec => []ShownIsRecent
<1>1. Lists /\ Recent => ShownIsRecent
  <2> SUFFICES ASSUME Lists, Recent, phase \in {"ask", "dispatch"}, history # <<>>
               PROVE  /\ Len(history) >= Len(Window(turns))
                      /\ \A i \in DOMAIN history :
                            LET t == turns[Len(turns) - Len(history) + i]
                            IN  history[i] =
                                   IF i > Len(history) - Len(Window(turns))
                                   THEN t ELSE Compact(t)
    BY DEF ShownIsRecent
  <2>1. PICK shown \in Seq(Turn) :
           End(turns, shown) /\ history = shown \o Window(turns)
    BY DEF Recent
  <2>2. /\ turns \in Seq(Turn) /\ Window(turns) \in Seq(Turn)
        /\ \A i \in 1..Len(Window(turns)) :
              Window(turns)[i] = turns[Len(turns) - Len(Window(turns)) + i]
    BY WindowType DEF Lists
  <2> DEFINE w == Len(Window(turns))
             n == Len(shown)
             m == Len(turns)
  <2>3. w \in Nat /\ n \in Nat /\ m \in Nat
    BY <2>2
  <2>4. /\ Len(history) = n + w /\ DOMAIN history = 1..(n + w)
        /\ \A i \in 1..(n + w) :
              history[i] = IF i <= n THEN shown[i] ELSE Window(turns)[i - n]
    <3>1. history \in Seq(Turn) /\ Len(history) = n + w
          /\ \A i \in 1..(n + w) :
              history[i] = IF i <= n THEN shown[i] ELSE Window(turns)[i - n]
      BY <2>1, <2>2, ConcatProperties, Zenon
    <3>2. QED
      BY <3>1
  <2>5. /\ w + n <= m
        /\ \A i \in 1..n : shown[i] = Compact(turns[m - (w + n) + i])
    BY <2>1 DEF End
  <2>6. \A i \in 1..w : Window(turns)[i] = turns[m - w + i]
    BY <2>2
  <2> HIDE DEF w, n, m
  <2>7. ASSUME NEW i \in 1..(n + w)
        PROVE  history[i] = IF i > (n + w) - w THEN turns[m - (n + w) + i]
                            ELSE Compact(turns[m - (n + w) + i])
    <3>1. CASE i <= n
      <4>1. i \in 1..n /\ ~(i > (n + w) - w) /\ m - (n + w) + i = m - (w + n) + i
        BY <2>3, <3>1
      <4>2. QED
        BY <2>4, <2>5, <3>1, <4>1
    <3>2. CASE i > n
      <4>1. i - n \in 1..w /\ m - w + (i - n) = m - (n + w) + i /\ ~(i <= n)
            /\ i > (n + w) - w
        BY <2>3, <3>2
      <4>2. QED
        BY <2>4, <2>6, <4>1
    <3>3. QED
      BY <2>3, <3>1, <3>2
  <2>8. n + w >= w
    BY <2>3
  <2>9. QED
    BY <2>4, <2>7, <2>8 DEF w, m
<1>2. QED
  BY <1>1, ListsAlways, RecentAlways, PTL

-----------------------------------------------------------------------------
(* Induction over the naturals: a set of naturals that is not empty has a  *)
(* least element.                                                          *)

LEMMA LessRel == \A x, y \in Nat : x < y => <<x, y>> \in OpToRel(<, Nat)
<1> SUFFICES ASSUME NEW x \in Nat, NEW y \in Nat, x < y
             PROVE  <<x, y>> \in OpToRel(<, Nat)
  BY Zenon
<1>1. OpToRel(<, Nat) = {ss \in Nat \X Nat : ss[1] < ss[2]}
  BY Zenon DEF OpToRel
<1> DEFINE r == OpToRel(<, Nat)
<1>2. r = {ss \in Nat \X Nat : ss[1] < ss[2]}
  BY <1>1, Zenon
<1> HIDE DEF r
<1>3. <<x, y>> \in r
  BY <1>2
<1>4. QED
  BY <1>3, Zenon DEF r

LEMMA LeastNat ==
    ASSUME NEW T, T \subseteq Nat, T # {}
    PROVE  \E x \in T : \A y \in T : x <= y
<1> DEFINE r == OpToRel(<, Nat)
<1>1. IsWellFoundedOn(r, Nat)
  BY NatLessThanWellFounded, Zenon
<1>2. \A x, y \in Nat : x < y => <<x, y>> \in r
  BY LessRel, Zenon
<1> HIDE DEF r
<1>3. PICK x \in T : \A y \in T : ~ (<<y, x>> \in r)
  BY WFMin, <1>1
<1>4. ASSUME NEW y \in T PROVE x <= y
  <2>1. x \in Nat /\ y \in Nat /\ ~(y < x)
    BY <1>2, <1>3
  <2>2. QED
    BY <2>1
<1>5. QED
  BY <1>4

-----------------------------------------------------------------------------
(* Sizes. A running sum of a sequence exists, and there is only one.       *)

RunningSum(f, s, n) ==
    /\ f[0] = 0
    /\ \A i \in 1..n : f[i] = f[i - 1] + s[i]

LEMMA RunningSumExists ==
    ASSUME NEW s \in Seq(Nat)
    PROVE  \E f \in [0..Len(s) -> Nat] : RunningSum(f, s, Len(s))
<1> DEFINE T == {n \in 0..Len(s) : ~\E f \in [0..n -> Nat] : RunningSum(f, s, n)}
<1>1. SUFFICES ASSUME T # {} PROVE FALSE
  OBVIOUS
<1>2. PICK n \in T : \A m \in T : n <= m
  <2>1. T \subseteq Nat
    OBVIOUS
  <2> HIDE DEF T
  <2>2. QED
    BY <1>1, <2>1, LeastNat
<1>3. n \in Nat /\ n <= Len(s) /\ ~\E f \in [0..n -> Nat] : RunningSum(f, s, n)
  BY <1>2
<1>4. CASE n = 0
  <2>1. [i \in 0..0 |-> 0] \in [0..0 -> Nat]
    OBVIOUS
  <2>2. RunningSum([i \in 0..0 |-> 0], s, 0)
    BY DEF RunningSum
  <2>3. QED
    BY <1>3, <1>4, <2>1, <2>2
<1>5. CASE n > 0
  <2>1. n - 1 \in 0..Len(s) /\ n - 1 \notin T
    <3>1. n - 1 \in 0..Len(s) /\ ~(n <= n - 1)
      BY <1>3, <1>5
    <3> HIDE DEF T
    <3>2. QED
      BY <1>2, <3>1
  <2>2. PICK f \in [0..(n - 1) -> Nat] : RunningSum(f, s, n - 1)
    BY <2>1
  <2>3. s[n] \in Nat /\ n - 1 \in 0..(n - 1) /\ f[n - 1] \in Nat
    BY <1>3, <1>5
  <2> DEFINE g == [i \in 0..n |-> IF i = n THEN f[n - 1] + s[n] ELSE f[i]]
  <2>4. \A i \in 0..(n - 1) : g[i] = f[i]
    BY <1>3
  <2>5. g[n] = f[n - 1] + s[n]
    BY <1>3
  <2>6. g \in [0..n -> Nat]
    BY <1>3, <2>3
  <2> HIDE DEF g
  <2>7. ASSUME NEW i \in 1..n PROVE g[i] = g[i - 1] + s[i]
    <3>1. CASE i = n
      BY <1>3, <1>5, <2>3, <2>4, <2>5, <3>1
    <3>2. CASE i # n
      <4>1. i \in 1..(n - 1) /\ i \in 0..(n - 1) /\ i - 1 \in 0..(n - 1)
        BY <1>3, <3>2
      <4>2. QED
        BY <2>2, <2>4, <4>1 DEF RunningSum
    <3>3. QED
      BY <3>1, <3>2
  <2>8. g[0] = 0
    BY <1>3, <1>5, <2>2, <2>4 DEF RunningSum
  <2>9. QED
    BY <1>3, <2>6, <2>7, <2>8 DEF RunningSum
<1>6. QED
  BY <1>3, <1>4, <1>5

LEMMA RunningSumUnique ==
    ASSUME NEW n \in Nat, NEW s, NEW f, NEW g,
           RunningSum(f, s, n), RunningSum(g, s, n)
    PROVE  \A i \in 0..n : f[i] = g[i]
<1> DEFINE T == {i \in 0..n : f[i] # g[i]}
<1>1. SUFFICES ASSUME T # {} PROVE FALSE
  OBVIOUS
<1>2. PICK i \in T : \A m \in T : i <= m
  <2>1. T \subseteq Nat
    OBVIOUS
  <2> HIDE DEF T
  <2>2. QED
    BY <1>1, <2>1, LeastNat
<1>3. i \in 0..n /\ f[i] # g[i]
  BY <1>2
<1>4. i # 0
  BY <1>3 DEF RunningSum
<1>5. i \in 1..n /\ i - 1 \in 0..n /\ i - 1 \notin T
  BY <1>2, <1>3, <1>4
<1>6. f[i - 1] = g[i - 1]
  BY <1>5
<1>7. f[i] = f[i - 1] + s[i] /\ g[i] = g[i - 1] + s[i]
  BY <1>5 DEF RunningSum
<1>8. QED
  BY <1>3, <1>6, <1>7

LEMMA TotalIs ==
    ASSUME NEW s \in Seq(Nat), NEW f, RunningSum(f, s, Len(s))
    PROVE  Total(s) = f[Len(s)]
<1> DEFINE Sums(g) == g = [n \in 0..Len(s) |->
                              IF n = 0 THEN 0 ELSE g[n - 1] + s[n]]
<1>1. PICK h \in [0..Len(s) -> Nat] : RunningSum(h, s, Len(s))
  BY RunningSumExists
<1>2. Len(s) \in Nat
  OBVIOUS
<1>3. Sums(h)
  <2>1. \A n \in 0..Len(s) : h[n] = IF n = 0 THEN 0 ELSE h[n - 1] + s[n]
    BY <1>1, <1>2 DEF RunningSum
  <2>2. QED
    BY <2>1
<1> DEFINE u == CHOOSE g : Sums(g)
<1>4. Sums(u)
  BY <1>3, Zenon
<1>5. Total(s) = u[Len(s)]
  BY Zenon DEF Total
<1> HIDE DEF u
<1>6. RunningSum(u, s, Len(s))
  BY <1>2, <1>4 DEF RunningSum
<1>7. u[Len(s)] = f[Len(s)]
  BY <1>2, <1>6, RunningSumUnique
<1>8. QED
  BY <1>5, <1>7

LEMMA TotalType == ASSUME NEW s \in Seq(Nat) PROVE Total(s) \in Nat
<1>1. PICK h \in [0..Len(s) -> Nat] : RunningSum(h, s, Len(s))
  BY RunningSumExists
<1>2. QED
  BY <1>1, TotalIs

LEMMA TotalOfOne == ASSUME NEW n \in Nat PROVE Total(<<n>>) = n
<1>1. <<n>> \in Seq(Nat) /\ Len(<<n>>) = 1
  OBVIOUS
<1> DEFINE f == [i \in 0..1 |-> IF i = 0 THEN 0 ELSE n]
<1>2. RunningSum(f, <<n>>, Len(<<n>>)) /\ f[1] = n
  BY DEF RunningSum
<1> HIDE DEF f
<1>3. QED
  BY <1>1, <1>2, TotalIs

(* The total of two sequences, one after the other.                        *)
LEMMA TotalOfConcat ==
    ASSUME NEW a \in Seq(Nat), NEW b \in Seq(Nat)
    PROVE  Total(a \o b) = Total(a) + Total(b)
<1>1. PICK f \in [0..Len(a) -> Nat] : RunningSum(f, a, Len(a))
  BY RunningSumExists
<1>2. PICK g \in [0..Len(b) -> Nat] : RunningSum(g, b, Len(b))
  BY RunningSumExists
<1>3. Total(a) = f[Len(a)] /\ Total(b) = g[Len(b)]
  BY <1>1, <1>2, TotalIs
<1> DEFINE n == Len(a)
           m == Len(b)
           c == a \o b
           h == [i \in 0..(n + m) |-> IF i <= n THEN f[i] ELSE f[n] + g[i - n]]
<1>4. n \in Nat /\ m \in Nat /\ c \in Seq(Nat) /\ Len(c) = n + m
  OBVIOUS
<1>5. /\ \A i \in 1..n : c[i] = a[i]
      /\ \A i \in 1..m : c[n + i] = b[i]
  OBVIOUS
<1>6. /\ \A i \in 0..n : h[i] = f[i]
      /\ \A i \in 1..m : h[n + i] = f[n] + g[i]
  BY <1>4
<1>7. \A i \in 0..m : h[n + i] = f[n] + g[i]
  <2>1. h[n] = f[n] /\ f[n] \in Nat /\ g[0] = 0
    BY <1>1, <1>2, <1>4, <1>6 DEF RunningSum
  <2>2. h[n + 0] = f[n] + g[0]
    BY <1>4, <2>1
  <2> HIDE DEF n, m, h
  <2>3. QED
    BY <1>4, <1>6, <2>2
<1> HIDE DEF n, m, c, h
<1>8. h[0] = 0
  BY <1>1, <1>4, <1>6 DEF RunningSum
<1>9. ASSUME NEW i \in 1..(n + m) PROVE h[i] = h[i - 1] + c[i]
  <2>1. CASE i <= n
    <3>1. i \in 1..n /\ i \in 0..n /\ i - 1 \in 0..n
      BY <1>4, <2>1
    <3>2. f[i] = f[i - 1] + a[i]
      BY <1>1, <3>1 DEF RunningSum, n
    <3>3. QED
      BY <1>5, <1>6, <3>1, <3>2
  <2>2. CASE i > n
    <3> DEFINE j == i - n
    <3>1. j \in 1..m /\ j \in 0..m /\ j - 1 \in 0..m
          /\ i = n + j /\ i - 1 = n + (j - 1)
      BY <1>4, <2>2
    <3> HIDE DEF j
    <3>2. g[j] = g[j - 1] + b[j]
      BY <1>2, <3>1 DEF RunningSum, m
    <3>3. h[i] = f[n] + g[j] /\ h[i - 1] = f[n] + g[j - 1] /\ c[i] = b[j]
      BY <1>5, <1>7, <3>1
    <3>4. f[n] \in Nat /\ g[j - 1] \in Nat /\ b[j] \in Nat
      <4>1. f[n] \in Nat
        <5>1. n \in 0..n
          BY <1>4
        <5>2. f \in [0..n -> Nat]
          BY DEF n
        <5>3. QED
          BY <5>1, <5>2
      <4>2. g[j - 1] \in Nat
        BY <3>1 DEF m
      <4>3. b[j] \in Nat
        BY <3>1 DEF m
      <4>4. QED
        BY <4>1, <4>2, <4>3
    <3> DEFINE x == f[n]
               y == g[j - 1]
               z == b[j]
    <3>5. x \in Nat /\ y \in Nat /\ z \in Nat
      BY <3>4
    <3>6. h[i] = x + (y + z) /\ h[i - 1] = x + y /\ c[i] = z
      BY <3>2, <3>3
    <3> HIDE DEF x, y, z
    <3>7. QED
      BY <3>5, <3>6
  <2>3. QED
    BY <1>4, <2>1, <2>2
<1>10. RunningSum(h, c, Len(c))
  BY <1>4, <1>8, <1>9 DEF RunningSum
<1>11. Total(c) = h[n + m]
  BY <1>4, <1>10, TotalIs
<1>12. h[n + m] = f[n] + g[m]
  BY <1>4, <1>7
<1>13. QED
  BY <1>3, <1>11, <1>12 DEF c, n, m

LEMMA TurnSizeType == ASSUME NEW t \in Turn PROVE TurnSize(t) \in Nat
<1>1. \A m \in Message : SizeOf(m) \in Nat
  BY MemoryBounds DEF SizeOf
<1>2. t.assistant \in Message /\ t.results \in Seq(Message)
  BY DEF Turn
<1> DEFINE sizes == [i \in DOMAIN t.results |-> SizeOf(t.results[i])]
<1>3. \A i \in 1..Len(t.results) : SizeOf(t.results[i]) \in Nat
  BY <1>1, <1>2
<1>4. sizes \in Seq(Nat)
  BY <1>2, <1>3
<1> HIDE DEF sizes
<1>5. Total(sizes) \in Nat
  BY <1>4, TotalType
<1>6. QED
  BY <1>1, <1>2, <1>5 DEF TurnSize, sizes

LEMMA SizesType ==
    ASSUME NEW ts \in Seq(Turn)
    PROVE  [i \in DOMAIN ts |-> TurnSize(ts[i])] \in Seq(Nat)
<1>1. \A i \in 1..Len(ts) : TurnSize(ts[i]) \in Nat
  BY TurnSizeType
<1>2. QED
  BY <1>1

LEMMA SizeType == ASSUME NEW ts \in Seq(Turn) PROVE Size(ts) \in Nat
BY SizesType, TotalType DEF Size

LEMMA SizeOfConcat ==
    ASSUME NEW a \in Seq(Turn), NEW b \in Seq(Turn)
    PROVE  Size(a \o b) = Size(a) + Size(b)
<1> DEFINE S(ts) == [i \in DOMAIN ts |-> TurnSize(ts[i])]
<1>1. /\ a \o b \in Seq(Turn) /\ Len(a \o b) = Len(a) + Len(b)
      /\ \A i \in 1..(Len(a) + Len(b)) :
            (a \o b)[i] = IF i <= Len(a) THEN a[i] ELSE b[i - Len(a)]
  BY ConcatProperties, Zenon
<1>2. S(a) \in Seq(Nat) /\ S(b) \in Seq(Nat) /\ S(a \o b) \in Seq(Nat)
  BY <1>1, SizesType
<1>3. /\ Len(S(a)) = Len(a) /\ Len(S(b)) = Len(b)
      /\ Len(S(a \o b)) = Len(a) + Len(b)
      /\ Len(a) \in Nat /\ Len(b) \in Nat
  BY <1>1
<1>4. \A i \in 1..(Len(a) + Len(b)) :
         S(a \o b)[i] = IF i <= Len(a) THEN S(a)[i] ELSE S(b)[i - Len(a)]
  BY <1>1, <1>3
<1> HIDE DEF S
<1>5. S(a \o b) = S(a) \o S(b)
  <2>1. /\ S(a) \o S(b) \in Seq(Nat)
        /\ Len(S(a) \o S(b)) = Len(a) + Len(b)
        /\ \A i \in 1..(Len(a) + Len(b)) :
            (S(a) \o S(b))[i] = IF i <= Len(a) THEN S(a)[i] ELSE S(b)[i - Len(a)]
    <3> DEFINE p == S(a)
               q == S(b)
    <3>1. p \in Seq(Nat) /\ q \in Seq(Nat) /\ Len(p) = Len(a) /\ Len(q) = Len(b)
      BY <1>2, <1>3
    <3> HIDE DEF p, q
    <3>2. /\ p \o q \in Seq(Nat) /\ Len(p \o q) = Len(a) + Len(b)
          /\ \A i \in 1..(Len(a) + Len(b)) :
                (p \o q)[i] = IF i <= Len(a) THEN p[i] ELSE q[i - Len(a)]
      <4>1. /\ p \o q \in Seq(Nat) /\ Len(p \o q) = Len(p) + Len(q)
            /\ \A i \in 1..(Len(p) + Len(q)) :
                  (p \o q)[i] = IF i <= Len(p) THEN p[i] ELSE q[i - Len(p)]
        BY <3>1, ConcatProperties
      <4>2. QED
        BY <3>1, <4>1
    <3>3. QED
      BY <3>2, Zenon DEF p, q
  <2> DEFINE p == S(a \o b)
             q == S(a) \o S(b)
  <2>2. \A i \in 1..(Len(a) + Len(b)) : p[i] = q[i]
    BY <1>4, <2>1, Zenon
  <2>3. p \in Seq(Nat) /\ q \in Seq(Nat) /\ Len(p) = Len(q)
        /\ Len(p) = Len(a) + Len(b)
    BY <1>2, <1>3, <2>1
  <2> HIDE DEF p, q
  <2>4. \A i \in 1..Len(p) : p[i] = q[i]
    BY <2>2, <2>3
  <2>5. p = q
    BY <2>3, <2>4, SeqEqual
  <2>6. QED
    BY <2>5 DEF p, q
<1>6. Total(S(a) \o S(b)) = Total(S(a)) + Total(S(b))
  BY <1>2, TotalOfConcat
<1>7. QED
  BY <1>5, <1>6 DEF Size, S

LEMMA SizeOfOne == ASSUME NEW t \in Turn PROVE Size(<<t>>) = TurnSize(t)
<1>1. TurnSize(t) \in Nat
  BY TurnSizeType
<1>2. [i \in DOMAIN <<t>> |-> TurnSize(<<t>>[i])] = <<TurnSize(t)>>
  OBVIOUS
<1>3. QED
  BY <1>1, <1>2, TotalOfOne DEF Size

-----------------------------------------------------------------------------
(* The budget. Every record that was evicted had to be: the window, the    *)
(* records that were left and the latest one evicted exceed the budget.    *)

Missing(ts, shown) == Len(ts) - Len(Window(ts)) - Len(shown)
Forced(ts, shown) ==
    Missing(ts, shown) > 0 =>
        /\ Threshold > 0
        /\ Size(Window(ts)) + Size(shown)
           + TurnSize(Compact(ts[Missing(ts, shown)])) > Threshold
Fits(ts, shown) == \/ Threshold <= 0
                   \/ Size(Window(ts)) + Size(shown) <= Threshold
                   \/ shown = <<>>

Budgeted ==
    /\ phase = "evict" => Forced(turns, older)
    /\ (phase \in {"ask", "dispatch"} /\ history # <<>>) =>
          \E shown \in Seq(Turn) :
             /\ history = shown \o Window(turns)
             /\ Forced(turns, shown) /\ Fits(turns, shown)

LEMMA InitBudgeted == Init => Budgeted
BY DEF Init, Budgeted

LEMMA StepBudgeted ==
    Lists /\ Recent /\ Budgeted /\ [Next]_vars => Budgeted'
<1> SUFFICES ASSUME Lists, Recent, Budgeted, [Next]_vars
             PROVE  Budgeted'
  OBVIOUS
<1>0. Lists /\ Recent /\ Budgeted
  OBVIOUS
<1>1. CASE EvictOldest
  <2>1. /\ phase = "evict" /\ older # <<>> /\ older' = Tail(older)
        /\ UNCHANGED <<phase, turns, history>>
        /\ Threshold > 0 /\ Size(Window(turns)) + Size(older) > Threshold
    BY <1>1 DEF EvictOldest, OverBudget, memoryVars
  <2>2. /\ older \in Seq(Turn) /\ turns \in Seq(Turn)
        /\ Window(turns) \in Seq(Turn)
    BY WindowType DEF Lists
  <2>3. End(turns, older)
    BY <1>0, <2>1 DEF Recent
  <2> DEFINE rest == Tail(older)
             n == Missing(turns, rest)
  <2>4. /\ rest \in Seq(Turn) /\ Len(rest) = Len(older) - 1
        /\ older = <<older[1]>> \o rest /\ older[1] \in Turn
        /\ 1 \in 1..Len(older)
    BY <2>1, <2>2
  <2>5. older[1] = Compact(turns[n])
    <3>1. older[1] = Compact(turns[Len(turns) - (Len(Window(turns)) + Len(older)) + 1])
      BY <2>3, <2>4 DEF End
    <3>2. n = Len(turns) - (Len(Window(turns)) + Len(older)) + 1
      BY <2>2, <2>4 DEF Missing
    <3>3. QED
      BY <3>1, <3>2
  <2>6. Size(older) = TurnSize(older[1]) + Size(rest)
    <3>1. <<older[1]>> \in Seq(Turn)
      BY <2>4
    <3>2. Size(<<older[1]>> \o rest) = Size(<<older[1]>>) + Size(rest)
      BY <2>4, <3>1, SizeOfConcat
    <3>3. QED
      BY <2>4, <3>2, SizeOfOne
  <2>7. /\ Size(Window(turns)) \in Nat /\ Size(rest) \in Nat
        /\ TurnSize(older[1]) \in Nat
    BY <2>2, <2>4, SizeType, TurnSizeType
  <2>8. Size(Window(turns)) + Size(rest) + TurnSize(older[1]) > Threshold
    BY <2>1, <2>6, <2>7, MemoryBounds
  <2>9. Forced(turns, rest)
    BY <2>1, <2>5, <2>8 DEF Forced
  <2> HIDE DEF rest, n
  <2>10. Forced(turns', older')
    BY <2>1, <2>9 DEF rest
  <2>11. QED
    BY <1>0, <2>1, <2>10 DEF Budgeted
<1>2. CASE ShowHistory
  <2>1. /\ phase = "evict" /\ phase' = "ask" /\ turns' = turns
        /\ history' = older \o Window(turns)
        /\ older = <<>> \/ ~OverBudget
    BY <1>2 DEF ShowHistory, memoryVars
  <2>2. Forced(turns, older) /\ older \in Seq(Turn)
    BY <1>0, <2>1 DEF Budgeted, Lists
  <2>3. Fits(turns, older)
    <3>1. /\ turns \in Seq(Turn) /\ Window(turns) \in Seq(Turn)
      BY WindowType DEF Lists
    <3>2. Size(Window(turns)) \in Nat /\ Size(older) \in Nat
      BY <2>2, <3>1, SizeType
    <3>3. QED
      BY <2>1, <3>2, MemoryBounds DEF Fits, OverBudget
  <2>4. Window(turns') = Window(turns) /\ Forced(turns', older)
        /\ Fits(turns', older)
    BY <2>1, <2>2, <2>3
  <2>5. QED
    BY <2>1, <2>2, <2>4 DEF Budgeted
<1>3. CASE EmptyAgain
  BY <1>0, <1>3 DEF EmptyAgain, NextRound, turnVars, memoryVars, Budgeted
<1>4. CASE Answer
  BY <1>0, <1>4 DEF Answer, NextRound, turnVars, memoryVars, Budgeted
<1>5. CASE CapReached
  BY <1>0, <1>5 DEF CapReached, turnVars, memoryVars, Budgeted
<1>6. CASE RoundEnds
  BY <1>0, <1>6 DEF RoundEnds, turnVars, memoryVars, Budgeted
<1>7. CASE Abort
  BY <1>0, <1>7 DEF Abort, TurnOver, turnVars, memoryVars, Budgeted
<1>8. CASE StartGroup
  BY <1>0, <1>8 DEF StartGroup, turnVars, memoryVars, Budgeted
<1>9. CASE ExtendGroup
  BY <1>0, <1>9 DEF ExtendGroup, turnVars, memoryVars, Budgeted
<1>10. CASE SkipMessage
  BY <1>0, <1>10 DEF SkipMessage, turnVars, memoryVars, Budgeted
<1>11. CASE TurnReturns
  BY <1>0, <1>11 DEF TurnReturns, TurnOver, turnVars, memoryVars, Budgeted
<1>12. ASSUME NEW b \in BOOLEAN,
             RunTurn(b)
      PROVE  Budgeted'
  <2>1. /\ phase' \in {"evict", "ask"} /\ history = <<>>
        /\ UNCHANGED <<turns, history>>
        /\ phase' = "evict" => older' = Compacted(Before(turns))
    BY <1>0, <1>12 DEF RunTurn, memoryVars, Recent
  <2>2. /\ turns \in Seq(Turn) /\ Before(turns) \in Seq(Turn)
        /\ Window(turns) \in Seq(Turn)
        /\ Len(Before(turns)) = Len(turns) - Len(Window(turns))
    BY WindowType DEF Lists
  <2>3. Len(Compacted(Before(turns))) = Len(turns) - Len(Window(turns))
    BY <2>2, CompactedType
  <2>4. Missing(turns, Compacted(Before(turns))) = 0
    <3>1. Len(turns) \in Nat /\ Len(Window(turns)) \in Nat
      BY <2>2
    <3>2. QED
      BY <2>3, <3>1 DEF Missing
  <2>5. Forced(turns, Compacted(Before(turns)))
    BY <2>4 DEF Forced
  <2>6. phase' = "evict" => Forced(turns', older')
    BY <2>1, <2>5
  <2>7. QED
    BY <2>1, <2>6 DEF Budgeted
<1>13. ASSUME NEW n \in CallIds, NEW missed \in SUBSET (1..n),
             AskCalls(1..n, missed)
      PROVE  Budgeted'
  BY <1>0, <1>13 DEF AskCalls, NextRound, turnVars, memoryVars, Budgeted
<1>14. ASSUME NEW b \in BOOLEAN,
             AskText(b)
      PROVE  Budgeted'
  BY <1>0, <1>14 DEF AskText, NextRound, turnVars, memoryVars, Budgeted
<1>15. ASSUME NEW reason \in {"empty", "blocked"},
             Reask(reason)
      PROVE  Budgeted'
  BY <1>0, <1>15 DEF Reask, NextRound, turnVars, memoryVars, Budgeted
<1>16. ASSUME NEW b \in BOOLEAN,
             Result(b)
      PROVE  Budgeted'
  BY <1>0, <1>16 DEF Result, turnVars, memoryVars, Budgeted
<1>17. CASE UNCHANGED vars
  BY <1>0, <1>17 DEF vars, turnVars, memoryVars, Budgeted
<1>18. CASE SessionOver
  BY <1>17, <1>18 DEF SessionOver
<1>19. QED
  BY <1>1, <1>2, <1>3, <1>4, <1>5, <1>6, <1>7, <1>8, <1>9, <1>10, <1>11,
     <1>12, <1>13, <1>14, <1>15, <1>16, <1>17, <1>18 DEF Next, Reply

LEMMA BudgetedAlways == Spec => []Budgeted
BY InitBudgeted, StepBudgeted, ListsAlways, RecentAlways, PTL DEF Spec

(* The budget is exceeded only by the records that are shown as they are,  *)
(* and nothing is forgotten that the budget had room for:                  *)
(* compacted_history.                                                      *)
THEOREM ForgetsOnlyForTheBudget == Spec => []ForgetsForTheBudget
<1>1. Lists /\ Budgeted => ForgetsForTheBudget
  <2> DEFINE n == Len(turns) - Len(history)
  <2> SUFFICES ASSUME Lists, Budgeted, phase \in {"ask", "dispatch"}, history # <<>>
               PROVE  /\ \/ Threshold <= 0 \/ Size(history) <= Threshold
                         \/ Len(history) = Len(Window(turns))
                      /\ n > 0 => /\ Threshold > 0
                                  /\ Size(history) + TurnSize(Compact(turns[n]))
                                        > Threshold
    BY DEF ForgetsForTheBudget
  <2>1. PICK shown \in Seq(Turn) :
           /\ history = shown \o Window(turns)
           /\ Forced(turns, shown) /\ Fits(turns, shown)
    BY DEF Budgeted
  <2>2. turns \in Seq(Turn) /\ Window(turns) \in Seq(Turn)
    BY WindowType DEF Lists
  <2>3. /\ Len(history) = Len(shown) + Len(Window(turns))
        /\ Len(shown) \in Nat /\ Len(Window(turns)) \in Nat /\ Len(turns) \in Nat
    BY <2>1, <2>2
  <2>4. Size(history) = Size(shown) + Size(Window(turns))
    BY <2>1, <2>2, SizeOfConcat
  <2>5. Size(shown) \in Nat /\ Size(Window(turns)) \in Nat
    BY <2>2, SizeType
  <2>6. n = Missing(turns, shown)
    BY <2>3 DEF Missing
  <2> HIDE DEF n
  <2>7. \/ Threshold <= 0 \/ Size(history) <= Threshold
        \/ Len(history) = Len(Window(turns))
    <3>1. CASE shown = <<>>
      BY <2>3, <3>1
    <3>2. CASE shown # <<>>
      BY <2>1, <2>4, <2>5, <3>2 DEF Fits
    <3>3. QED
      BY <3>1, <3>2
  <2>8. n > 0 => /\ Threshold > 0
                 /\ Size(history) + TurnSize(Compact(turns[n])) > Threshold
    BY <2>1, <2>4, <2>5, <2>6 DEF Forced
  <2>9. QED
    BY <2>7, <2>8
<1>2. QED
  BY <1>1, ListsAlways, BudgetedAlways, PTL

-----------------------------------------------------------------------------
(* A turn as one line: the record that _record_turn holds open, the        *)
(* messages it has not come to, and the results that are still owed. Of a  *)
(* message only the role, the turn, the round and the ids count here.      *)
Entry(m) == [role |-> m.role, turn |-> m.turn, round |-> m.round, ids |-> m.ids]
Entries(s) == [i \in DOMAIN s |-> Entry(s[i])]
Held == IF group = <<>> THEN <<>>
        ELSE <<group[1].assistant>> \o group[1].results
Due == [i \in DOMAIN todo |-> Entry(Said("tool", round, {todo[i].id}, FALSE))]
Line == Entries(Held \o messages) \o Due

Given(s, r) ==
    UNION {s[j].ids : j \in {k \in 1..Len(s) : s[k].role = "tool"
                                              /\ s[k].round = r}}

(* A line is tidy when the rounds follow each other, each opened by the    *)
(* assistant, every result belongs to a round that was opened, no two      *)
(* results of a round share an id, and every round has all its results.    *)
Ordered(s) ==
    \A i, j \in 1..Len(s) :
       i < j => /\ s[i].round <= s[j].round
                /\ s[j].role = "assistant" => s[i].round < s[j].round
Owned(s) ==
    \A j \in 1..Len(s) :
       s[j].role = "tool" =>
          \E i \in 1..Len(s) : /\ i < j /\ s[i].role = "assistant"
                               /\ s[i].round = s[j].round
Apart(s) ==
    /\ \A j \in 1..Len(s) : s[j].role = "tool" => s[j].ids # {}
    /\ \A i, j \in 1..Len(s) :
          (/\ i # j /\ s[i].role = "tool" /\ s[j].role = "tool"
           /\ s[i].round = s[j].round) => s[i].ids \cap s[j].ids = {}
Whole(ids, given) == given = ids \/ (ids = {} /\ given = {TextId})
Complete(s) ==
    \A i \in 1..Len(s) :
       s[i].role = "assistant" => Whole(s[i].ids, Given(s, s[i].round))
Tidy(s) == Ordered(s) /\ Owned(s) /\ Apart(s) /\ Complete(s)

(* What the phase says of the lists, and that the line is of this turn.    *)
Shape ==
    /\ phase # "dispatch" => todo = <<>>
    /\ phase # "record" => group = <<>>
    /\ phase \in {"prompt", "evict"} => messages = <<>> /\ round = 0
    /\ group # <<>> =>
          /\ group[1].assistant.role = "assistant"
          /\ \A i \in DOMAIN group[1].results : group[1].results[i].role = "tool"
    /\ \A i \in 1..Len(Line) : Line[i].turn = turn /\ Line[i].round <= round

(* The line of the turn and everything cut from it have their results.     *)
AllAnswered(ts) == \A i \in DOMAIN ts : Answered(ts[i])
Orderly ==
    /\ Tidy(Line)
    /\ AllAnswered(turns) /\ AllAnswered(older) /\ AllAnswered(history)

EntrySet == [role : {"assistant", "tool", "user"}, turn : Nat, round : Nat,
           ids : SUBSET (CallIds \union {TextId})]

LEMMA GivenElement ==
    ASSUME NEW s, NEW r, NEW x
    PROVE  x \in Given(s, r) <=>
           \E j \in 1..Len(s) : s[j].role = "tool" /\ s[j].round = r
                                /\ x \in s[j].ids
BY DEF Given

LEMMA TidyEmpty == Tidy(<<>>)
BY DEF Tidy, Ordered, Owned, Apart, Complete

(* A part of a tidy sequence is tidy when it keeps an assistant's message  *)
(* and the results of its round together.                                  *)
Embeds(f, t, s) ==
    /\ \A i \in 1..Len(t) : f[i] \in 1..Len(s) /\ t[i] = s[f[i]]
    /\ \A i, j \in 1..Len(t) : i < j => f[i] < f[j]
Covers(f, t, s) ==
    \A i \in 1..Len(t) : \A k \in 1..Len(s) :
       (/\ s[k].round = t[i].round
        /\ \/ t[i].role = "tool" /\ s[k].role = "assistant"
           \/ t[i].role = "assistant" /\ s[k].role = "tool")
       => \E j \in 1..Len(t) : f[j] = k

LEMMA TidyPart ==
    ASSUME NEW s \in Seq(EntrySet), NEW t \in Seq(EntrySet), NEW f,
           Tidy(s), Embeds(f, t, s), Covers(f, t, s)
    PROVE  Tidy(t)
<1>0. Len(s) \in Nat /\ Len(t) \in Nat
  OBVIOUS
<1>a. \A i \in 1..Len(t) : f[i] \in 1..Len(s) /\ t[i] = s[f[i]]
  BY DEF Embeds
<1>b. \A i, j \in 1..Len(t) : i # j => f[i] # f[j]
  <2> SUFFICES ASSUME NEW i \in 1..Len(t), NEW j \in 1..Len(t), i # j
               PROVE  f[i] # f[j]
    OBVIOUS
  <2>1. i < j \/ j < i
    BY <1>0
  <2>2. f[i] < f[j] \/ f[j] < f[i]
    BY <2>1 DEF Embeds
  <2>3. f[i] \in Nat /\ f[j] \in Nat
    BY <1>0, <1>a
  <2>4. QED
    BY <2>2, <2>3
<1>1. Ordered(t)
  <2> SUFFICES ASSUME NEW i \in 1..Len(t), NEW j \in 1..Len(t), i < j
               PROVE  /\ t[i].round <= t[j].round
                      /\ t[j].role = "assistant" => t[i].round < t[j].round
    BY DEF Ordered
  <2>1. f[i] < f[j] /\ t[i] = s[f[i]] /\ t[j] = s[f[j]]
        /\ f[i] \in 1..Len(s) /\ f[j] \in 1..Len(s)
    BY <1>a DEF Embeds
  <2>2. Ordered(s)
    BY DEF Tidy
  <2>3. QED
    BY <2>1, <2>2 DEF Ordered
<1>2. Owned(t)
  <2> SUFFICES ASSUME NEW j \in 1..Len(t), t[j].role = "tool"
               PROVE  \E i \in 1..Len(t) : /\ i < j /\ t[i].role = "assistant"
                                           /\ t[i].round = t[j].round
    BY DEF Owned
  <2>1. t[j] = s[f[j]] /\ f[j] \in 1..Len(s) /\ Owned(s)
    BY <1>a DEF Tidy
  <2>2. PICK k \in 1..Len(s) : /\ k < f[j] /\ s[k].role = "assistant"
                               /\ s[k].round = s[f[j]].round
    BY <2>1 DEF Owned
  <2>3. PICK i \in 1..Len(t) : f[i] = k
    BY <2>1, <2>2 DEF Covers
  <2>4. i < j
    <3>1. f[i] < f[j] /\ f[i] \in Nat /\ f[j] \in Nat
      BY <1>0, <1>a, <2>2, <2>3
    <3>2. ~(f[j] < f[i]) /\ i # j
      BY <3>1
    <3>3. ~(j < i)
      BY <3>2 DEF Embeds
    <3>4. QED
      BY <1>0, <3>2, <3>3
  <2>5. QED
    BY <1>a, <2>1, <2>2, <2>3, <2>4
<1>3. Apart(t)
  <2>0. Apart(s)
    BY DEF Tidy
  <2>1. \A j \in 1..Len(t) : t[j].role = "tool" => t[j].ids # {}
    BY <1>a, <2>0 DEF Apart
  <2>2. ASSUME NEW i \in 1..Len(t), NEW j \in 1..Len(t), i # j,
               t[i].role = "tool", t[j].role = "tool", t[i].round = t[j].round
        PROVE  t[i].ids \cap t[j].ids = {}
    <3>1. f[i] # f[j] /\ f[i] \in 1..Len(s) /\ f[j] \in 1..Len(s)
          /\ t[i] = s[f[i]] /\ t[j] = s[f[j]]
      BY <1>a, <1>b, <2>2
    <3>2. QED
      BY <2>0, <2>2, <3>1 DEF Apart
  <2>3. QED
    BY <2>1, <2>2 DEF Apart
<1>4. Complete(t)
  <2> SUFFICES ASSUME NEW i \in 1..Len(t), t[i].role = "assistant"
               PROVE  Whole(t[i].ids, Given(t, t[i].round))
    BY DEF Complete
  <2>1. Whole(t[i].ids, Given(s, t[i].round))
    BY <1>a DEF Tidy, Complete
  <2>2. ASSUME NEW x, x \in Given(s, t[i].round) PROVE x \in Given(t, t[i].round)
    <3>1. PICK k \in 1..Len(s) : /\ s[k].role = "tool" /\ s[k].round = t[i].round
                                 /\ x \in s[k].ids
      BY <2>2, GivenElement
    <3>2. PICK j \in 1..Len(t) : f[j] = k
      BY <3>1 DEF Covers
    <3>3. t[j] = s[k]
      BY <1>a, <3>2
    <3>4. QED
      BY <3>1, <3>3, GivenElement
  <2>3. ASSUME NEW x, x \in Given(t, t[i].round) PROVE x \in Given(s, t[i].round)
    <3>1. PICK j \in 1..Len(t) : /\ t[j].role = "tool" /\ t[j].round = t[i].round
                                 /\ x \in t[j].ids
      BY <2>3, GivenElement
    <3>2. f[j] \in 1..Len(s) /\ t[j] = s[f[j]]
      BY <1>a
    <3>3. QED
      BY <3>1, <3>2, GivenElement
  <2>4. Given(s, t[i].round) = Given(t, t[i].round)
    BY <2>2, <2>3
  <2>5. QED
    BY <2>1, <2>4
<1>5. QED
  BY <1>1, <1>2, <1>3, <1>4 DEF Tidy

(* A reply: its message, and then what answers it.                         *)
Answers(q, a) ==
    /\ \A i \in 1..Len(q) : q[i].role # "assistant" /\ q[i].round = a.round
    /\ Apart(q)
    /\ Whole(a.ids, Given(q, a.round))
Follows(t, s, a, q) ==
    /\ Len(t) = Len(s) + 1 + Len(q)
    /\ \A i \in 1..Len(s) : t[i] = s[i]
    /\ t[Len(s) + 1] = a
    /\ \A i \in 1..Len(q) : t[Len(s) + 1 + i] = q[i]

LEMMA ConcatFollows ==
    ASSUME NEW S, NEW s \in Seq(S), NEW a \in S, NEW q \in Seq(S)
    PROVE  Follows((s \o <<a>>) \o q, s, a, q)
<1> DEFINE u == s \o <<a>>
           t == u \o q
<1>1. Len(s) \in Nat /\ Len(q) \in Nat
  OBVIOUS
<1>2. /\ u \in Seq(S) /\ Len(u) = Len(s) + 1
      /\ \A i \in 1..Len(s) : u[i] = s[i]
      /\ u[Len(s) + 1] = a
  OBVIOUS
<1> HIDE DEF u
<1>3. /\ Len(t) = Len(u) + Len(q)
      /\ \A i \in 1..(Len(u) + Len(q)) :
            t[i] = IF i <= Len(u) THEN u[i] ELSE q[i - Len(u)]
  BY <1>2, ConcatProperties
<1> HIDE DEF t
<1>4. Len(t) = Len(s) + 1 + Len(q)
  BY <1>2, <1>3
<1>5. ASSUME NEW i \in 1..Len(s) PROVE t[i] = s[i]
  <2>1. i \in 1..(Len(u) + Len(q)) /\ i <= Len(u)
    BY <1>1, <1>2
  <2>2. QED
    BY <1>2, <1>3, <2>1
<1>6. t[Len(s) + 1] = a
  <2>1. Len(s) + 1 \in 1..(Len(u) + Len(q)) /\ Len(s) + 1 <= Len(u)
    BY <1>1, <1>2
  <2>2. QED
    BY <1>2, <1>3, <2>1
<1>7. ASSUME NEW i \in 1..Len(q) PROVE t[Len(s) + 1 + i] = q[i]
  <2> DEFINE k == Len(s) + 1 + i
  <2>1. k \in 1..(Len(u) + Len(q)) /\ ~(k <= Len(u)) /\ k - Len(u) = i
    BY <1>1, <1>2
  <2> HIDE DEF k
  <2>2. t[k] = q[i]
    BY <1>3, <2>1
  <2>3. QED
    BY <2>2 DEF k
<1>8. Follows(t, s, a, q)
  BY <1>4, <1>5, <1>6, <1>7 DEF Follows
<1>9. QED
  BY <1>8 DEF t, u

Precedes(s, a) == \A i \in 1..Len(s) : s[i].round < a.round

LEMMA TidyReply ==
    ASSUME NEW s \in Seq(EntrySet), NEW a \in EntrySet, NEW q \in Seq(EntrySet),
           NEW t \in Seq(EntrySet), Tidy(s), Follows(t, s, a, q),
           a.role = "assistant", Precedes(s, a), Answers(q, a)
    PROVE  Tidy(t)
<1> DEFINE n == Len(s)
           m == Len(q)
<1>0. n \in Nat /\ m \in Nat /\ a.round \in Nat
      /\ \A i \in 1..n : s[i].round \in Nat
  <2>1. \A e \in EntrySet : e.round \in Nat
    BY DEF EntrySet
  <2>2. \A i \in 1..n : s[i] \in EntrySet
    OBVIOUS
  <2>3. n \in Nat /\ m \in Nat
    OBVIOUS
  <2> HIDE DEF n, m
  <2>4. QED
    BY <2>1, <2>2, <2>3
<1>q. Apart(q) /\ Whole(a.ids, Given(q, a.round))
  BY DEF Answers
<1>1. /\ Len(t) = n + 1 + m
      /\ \A i \in 1..n : t[i] = s[i] /\ s[i].round < a.round
      /\ t[n + 1] = a /\ a.role = "assistant"
      /\ \A i \in 1..m : /\ t[n + 1 + i] = q[i]
                         /\ q[i].role # "assistant" /\ q[i].round = a.round
  BY DEF Follows, Answers, Precedes
<1>2. \A i \in 1..n : t[i] = s[i] /\ s[i].round < a.round /\ s[i].round \in Nat
  BY <1>0, <1>1
<1> HIDE DEF n, m
<1>5. ASSUME NEW i \in 1..Len(t), i > n + 1
      PROVE  /\ i - (n + 1) \in 1..m /\ t[i] = q[i - (n + 1)]
             /\ t[i].role # "assistant" /\ t[i].round = a.round
  <2> DEFINE k == i - (n + 1)
  <2>1. k \in 1..m /\ i = n + 1 + k
    BY <1>0, <1>1, <1>5
  <2> HIDE DEF k
  <2>2. t[i] = q[k] /\ t[i].role # "assistant" /\ t[i].round = a.round
    BY <1>1, <2>1
  <2>3. QED
    BY <2>1, <2>2 DEF k
<1>4. ASSUME NEW i \in 1..Len(t)
      PROVE  t[i].round = a.round <=> i > n
  <2>1. CASE i <= n
    <3>1. i \in 1..n /\ ~(i > n)
      BY <1>0, <1>1, <2>1
    <3>2. t[i].round < a.round /\ t[i].round \in Nat
      BY <1>2, <3>1
    <3>3. a.round \in Nat
      BY <1>0
    <3>4. t[i].round # a.round
      BY <3>2, <3>3
    <3>5. QED
      BY <3>1, <3>4
  <2>2. CASE i = n + 1
    BY <1>0, <1>1, <2>2
  <2>3. CASE i > n + 1
    <3>1. i > n
      BY <1>0, <1>1, <2>3
    <3>2. QED
      BY <1>5, <2>3, <3>1
  <2>4. QED
    BY <1>0, <1>1, <2>1, <2>2, <2>3
<1>6. a.round \in Nat
  BY <1>0
<1>7. Ordered(t)
  <2> SUFFICES ASSUME NEW i \in 1..Len(t), NEW j \in 1..Len(t), i < j
               PROVE  /\ t[i].round <= t[j].round
                      /\ t[j].role = "assistant" => t[i].round < t[j].round
    BY DEF Ordered
  <2>1. CASE j <= n
    <3>1. i \in 1..n /\ j \in 1..n
      BY <1>0, <2>1
    <3>2. QED
      BY <1>2, <3>1 DEF Tidy, Ordered, n
  <2>2. CASE j > n
    <3>1. t[j].round = a.round
      BY <1>4, <2>2
    <3>2. CASE i <= n
      <4>1. i \in 1..n
        BY <1>0, <3>2
      <4>2. t[i].round < a.round /\ t[i].round \in Nat
        BY <1>2, <4>1
      <4> DEFINE x == t[i].round
                 y == t[j].round
      <4>3. x < y /\ x \in Nat /\ y \in Nat
        BY <1>6, <3>1, <4>2
      <4> HIDE DEF x, y
      <4>4. x <= y /\ x < y
        BY <4>3
      <4>5. QED
        BY <4>4 DEF x, y
    <3>3. CASE i > n
      <4>1. j > n + 1
        BY <1>0, <3>3
      <4>2. t[j].role # "assistant"
        BY <1>2, <1>5, <4>1
      <4>3. t[i].round = a.round
        BY <1>4, <3>3
      <4>4. QED
        BY <1>6, <3>1, <4>2, <4>3
    <3>4. QED
      BY <1>0, <3>2, <3>3
  <2>3. QED
    BY <1>0, <2>1, <2>2
<1>8. Owned(t)
  <2> SUFFICES ASSUME NEW j \in 1..Len(t), t[j].role = "tool"
               PROVE  \E i \in 1..Len(t) : /\ i < j /\ t[i].role = "assistant"
                                           /\ t[i].round = t[j].round
    BY DEF Owned
  <2>1. CASE j <= n
    <3>1. j \in 1..n
      BY <1>0, <2>1
    <3>0. s[j].role = "tool"
      BY <1>2, <3>1
    <3>2. PICK i \in 1..n : /\ i < j /\ s[i].role = "assistant"
                            /\ s[i].round = s[j].round
      BY <3>0, <3>1 DEF Tidy, Owned, n
    <3>3. i \in 1..Len(t) /\ t[i] = s[i] /\ t[j] = s[j]
      BY <1>0, <1>1, <3>1
    <3>4. QED
      BY <3>2, <3>3
  <2>2. CASE j > n
    <3>1. t[j].round = a.round
      BY <1>4, <2>2
    <3>2. j # n + 1
      BY <1>1
    <3>3. n + 1 \in 1..Len(t) /\ n + 1 < j
      BY <1>0, <1>1, <2>2, <3>2
    <3>4. QED
      BY <1>1, <3>1, <3>3
  <2>3. QED
    BY <1>0, <2>1, <2>2
<1>9. Apart(t)
  <2>1. ASSUME NEW j \in 1..Len(t), t[j].role = "tool" PROVE t[j].ids # {}
    <3>1. CASE j <= n
      <4>1. j \in 1..n
        BY <1>0, <3>1
      <4>2. QED
        BY <1>2, <2>1, <4>1 DEF Tidy, Apart, n
    <3>2. CASE j > n + 1
      BY <1>5, <1>q, <2>1, <3>2 DEF Apart, m
    <3>3. CASE j = n + 1
      BY <1>1, <2>1, <3>3
    <3>4. QED
      BY <1>0, <3>1, <3>2, <3>3
  <2>2. ASSUME NEW i \in 1..Len(t), NEW j \in 1..Len(t), i # j,
               t[i].role = "tool", t[j].role = "tool", t[i].round = t[j].round
        PROVE  t[i].ids \cap t[j].ids = {}
    <3>1. CASE i <= n
      <4>1. i \in 1..n /\ j \in 1..n
        <5>1. t[i].round # a.round
          BY <1>0, <1>4, <3>1
        <5>2. ~(j > n)
          BY <1>4, <2>2, <5>1
        <5>3. QED
          BY <1>0, <3>1, <5>2
      <4>2. t[i] = s[i] /\ t[j] = s[j]
        BY <1>2, <4>1
      <4>3. QED
        BY <2>2, <4>1, <4>2 DEF Tidy, Apart, n
    <3>2. CASE i > n
      <4>1. i # n + 1 /\ j # n + 1
        BY <1>1, <2>2
      <4>2. j > n
        <5>1. t[i].round = a.round
          BY <1>4, <3>2
        <5>2. QED
          BY <1>4, <2>2, <5>1
      <4>3. i > n + 1 /\ j > n + 1
        BY <1>0, <3>2, <4>1, <4>2
      <4>4. /\ i - (n + 1) \in 1..m /\ t[i] = q[i - (n + 1)]
            /\ j - (n + 1) \in 1..m /\ t[j] = q[j - (n + 1)]
        BY <1>5, <4>3
      <4>5. i - (n + 1) # j - (n + 1)
        BY <1>0, <2>2
      <4> DEFINE k == i - (n + 1)
                 l == j - (n + 1)
      <4>6. k \in 1..m /\ l \in 1..m /\ k # l /\ t[i] = q[k] /\ t[j] = q[l]
        BY <4>4, <4>5
      <4> HIDE DEF k, l
      <4>7. QED
        BY <1>q, <2>2, <4>6 DEF Apart, m
    <3>3. QED
      BY <1>0, <3>1, <3>2
  <2>3. QED
    BY <2>1, <2>2 DEF Apart
<1>10. Complete(t)
  <2> SUFFICES ASSUME NEW i \in 1..Len(t), t[i].role = "assistant"
               PROVE  Whole(t[i].ids, Given(t, t[i].round))
    BY DEF Complete
  <2>1. CASE i <= n
    <3>0. i \in 1..n
      BY <1>0, <2>1
    <3>1. i \in 1..n /\ t[i] = s[i]
      BY <1>2, <3>0
    <3>2. t[i].round # a.round
      BY <1>0, <1>4, <2>1
    <3>3. ASSUME NEW x PROVE x \in Given(t, t[i].round) <=> x \in Given(s, s[i].round)
      <4>1. ASSUME NEW k \in 1..Len(t), t[k].round = t[i].round
            PROVE  k \in 1..n /\ t[k] = s[k]
        <5>1. ~(k > n)
          BY <1>4, <3>2, <4>1
        <5>2. QED
          BY <1>0, <1>2, <5>1
      <4>2. \A k \in 1..n : k \in 1..Len(t) /\ t[k] = s[k]
        BY <1>0, <1>1
      <4>3. QED
        <5>1. ASSUME x \in Given(t, t[i].round)
              PROVE  \E k \in 1..n : /\ s[k].role = "tool" /\ x \in s[k].ids
                                     /\ s[k].round = s[i].round
          <6>1. PICK k \in 1..Len(t) : /\ t[k].role = "tool" /\ x \in t[k].ids
                                       /\ t[k].round = t[i].round
            BY <5>1, GivenElement
          <6>2. k \in 1..n /\ t[k] = s[k]
            BY <4>1, <6>1
          <6>3. QED
            BY <3>1, <6>1, <6>2
        <5>2. (\E k \in 1..n : /\ s[k].role = "tool" /\ x \in s[k].ids
                               /\ s[k].round = s[i].round)
              => x \in Given(t, t[i].round)
          BY <3>1, <4>2, GivenElement
        <5>3. x \in Given(s, s[i].round) <=>
                 \E k \in 1..n : /\ s[k].role = "tool" /\ x \in s[k].ids
                                 /\ s[k].round = s[i].round
          BY GivenElement DEF n
        <5>4. QED
          BY <5>1, <5>2, <5>3
    <3>4. Given(t, t[i].round) = Given(s, s[i].round)
      BY <3>3
    <3>5. QED
      BY <3>1, <3>4 DEF Tidy, Complete, n
  <2>2. CASE i > n
    <3>1. i = n + 1
      <4>1. ~(i > n + 1)
        BY <1>2, <1>5
      <4>2. QED
        BY <1>0, <2>2, <4>1
    <3>2. t[i] = a
      BY <1>1, <3>1
    <3>3. ASSUME NEW x PROVE x \in Given(t, a.round) <=> x \in Given(q, a.round)
      <4>1. ASSUME NEW k \in 1..Len(t), t[k].role = "tool", t[k].round = a.round
            PROVE  k - (n + 1) \in 1..m /\ t[k] = q[k - (n + 1)]
        <5>1. k > n
          BY <1>4, <4>1
        <5>2. k # n + 1
          BY <1>1, <4>1
        <5>3. QED
          BY <1>0, <1>5, <5>1, <5>2
      <4>2. \A k \in 1..m : n + 1 + k \in 1..Len(t) /\ t[n + 1 + k] = q[k]
        BY <1>0, <1>1
      <4>3. ASSUME x \in Given(t, a.round) PROVE x \in Given(q, a.round)
        <5>1. PICK k \in 1..Len(t) : /\ t[k].role = "tool" /\ x \in t[k].ids
                                     /\ t[k].round = a.round
          BY <4>3, GivenElement
        <5>2. PICK l \in 1..m : t[k] = q[l]
          BY <4>1, <5>1
        <5>3. q[l].role = "tool" /\ q[l].round = a.round /\ x \in q[l].ids
          BY <5>1, <5>2
        <5>4. QED
          BY <5>3, GivenElement DEF m
      <4>4. ASSUME x \in Given(q, a.round) PROVE x \in Given(t, a.round)
        <5>1. PICK k \in 1..m : /\ q[k].role = "tool" /\ x \in q[k].ids
                                /\ q[k].round = a.round
          BY <4>4, GivenElement DEF m
        <5>2. PICK l \in 1..Len(t) : t[l] = q[k]
          BY <4>2
        <5>3. QED
          BY <5>1, <5>2, GivenElement
      <4>5. QED
        BY <4>3, <4>4
    <3>4. Given(t, a.round) = Given(q, a.round)
      BY <3>3
    <3>5. QED
      BY <1>q, <3>2, <3>4
  <2>3. QED
    BY <1>0, <2>1, <2>2
<1>11. QED
  BY <1>7, <1>8, <1>9, <1>10 DEF Tidy

LEMMA EntryType == \A m \in Message : Entry(m) \in EntrySet
BY DEF Entry, EntrySet, Message

LEMMA EntriesType ==
    ASSUME NEW s \in Seq(Message)
    PROVE  /\ Entries(s) \in Seq(EntrySet) /\ Len(Entries(s)) = Len(s)
           /\ \A i \in 1..Len(s) : Entries(s)[i] = Entry(s[i])
<1>1. \A i \in 1..Len(s) : Entry(s[i]) \in EntrySet
  BY EntryType
<1>2. QED
  BY <1>1 DEF Entries

LEMMA EntriesOfConcat ==
    ASSUME NEW a \in Seq(Message), NEW b \in Seq(Message)
    PROVE  Entries(a \o b) = Entries(a) \o Entries(b)
<1> DEFINE c == a \o b
           x == Entries(a)
           y == Entries(b)
           z == Entries(c)
<1>1. /\ c \in Seq(Message) /\ Len(c) = Len(a) + Len(b)
      /\ \A i \in 1..(Len(a) + Len(b)) :
            c[i] = IF i <= Len(a) THEN a[i] ELSE b[i - Len(a)]
  BY ConcatProperties
<1> HIDE DEF c, x, y, z
<1>2. /\ x \in Seq(EntrySet) /\ Len(x) = Len(a)
      /\ \A i \in 1..Len(a) : x[i] = Entry(a[i])
  BY EntriesType DEF x
<1>3. /\ y \in Seq(EntrySet) /\ Len(y) = Len(b)
      /\ \A i \in 1..Len(b) : y[i] = Entry(b[i])
  BY EntriesType DEF y
<1>4. /\ z \in Seq(EntrySet) /\ Len(z) = Len(a) + Len(b)
      /\ \A i \in 1..(Len(a) + Len(b)) : z[i] = Entry(c[i])
  BY <1>1, EntriesType DEF z
<1>5. /\ x \o y \in Seq(EntrySet) /\ Len(x \o y) = Len(x) + Len(y)
      /\ \A i \in 1..(Len(x) + Len(y)) :
            (x \o y)[i] = IF i <= Len(x) THEN x[i] ELSE y[i - Len(x)]
  <2>1. x \in Seq(EntrySet) /\ y \in Seq(EntrySet)
    BY <1>2, <1>3
  <2>2. QED
    BY <2>1, ConcatProperties, Zenon
<1>6. ASSUME NEW i \in 1..(Len(a) + Len(b)) PROVE z[i] = (x \o y)[i]
  <2>1. CASE i <= Len(a)
    <3>1. i \in 1..Len(a)
      BY <2>1
    <3>2. QED
      BY <1>1, <1>2, <1>3, <1>4, <1>5, <2>1, <3>1
  <2>2. CASE ~(i <= Len(a))
    <3>1. i - Len(a) \in 1..Len(b)
      BY <2>2
    <3>2. QED
      BY <1>1, <1>2, <1>3, <1>4, <1>5, <2>2, <3>1
  <2>3. QED
    BY <2>1, <2>2
<1> DEFINE w == x \o y
<1>7. w \in Seq(EntrySet) /\ Len(w) = Len(a) + Len(b)
  BY <1>2, <1>3, <1>5
<1>8. \A i \in 1..(Len(a) + Len(b)) : z[i] = w[i]
  BY <1>6
<1> HIDE DEF w
<1>9. Len(z) = Len(w) /\ \A i \in 1..Len(z) : z[i] = w[i]
  BY <1>4, <1>7, <1>8
<1>10. z = w
  BY <1>4, <1>7, <1>9, SeqEqual
<1>11. QED
  BY <1>10 DEF w, x, y, z, c

LEMMA HeldType ==
    ASSUME Lists
    PROVE  /\ Held \in Seq(Message)
           /\ group # <<>> =>
                 /\ group[1] \in Turn
                 /\ Len(Held) = 1 + Len(group[1].results)
                 /\ Held[1] = group[1].assistant
                 /\ \A i \in 1..Len(group[1].results) :
                       Held[1 + i] = group[1].results[i]
           /\ group = <<>> => Held = <<>>
<1>1. CASE group = <<>>
  BY <1>1 DEF Held
<1>2. CASE group # <<>>
  <2>1. group[1] \in Turn
    BY <1>2 DEF Lists
  <2> DEFINE a == group[1].assistant
             r == group[1].results
  <2>2. a \in Message /\ r \in Seq(Message)
    BY <2>1 DEF Turn
  <2>3. Held = <<a>> \o r
    BY <1>2 DEF Held
  <2> HIDE DEF a, r
  <2>4. <<a>> \o r \in Seq(Message) /\ Len(<<a>> \o r) = 1 + Len(r)
        /\ (<<a>> \o r)[1] = a
        /\ \A i \in 1..Len(r) : (<<a>> \o r)[1 + i] = r[i]
    BY <2>2
  <2>5. QED
    BY <1>2, <2>1, <2>3, <2>4 DEF a, r
<1>3. QED
  BY <1>1, <1>2

DueFacts ==
    /\ Due \in Seq(EntrySet) /\ Len(Due) = Len(todo)
    /\ \A i \in 1..Len(todo) :
          Due[i] = [role |-> "tool", turn |-> turn, round |-> round,
                    ids |-> {todo[i].id}]
    /\ todo = <<>> => Due = <<>>

LEMMA DueType == Scalars /\ Lists => DueFacts
<1> SUFFICES ASSUME Scalars, Lists PROVE DueFacts
  OBVIOUS
<1>1. todo \in Seq(Call) /\ turn \in Nat /\ round \in Nat
  BY MemoryBounds DEF Scalars, Lists
<1>2. ASSUME NEW i \in 1..Len(todo)
      PROVE  /\ Entry(Said("tool", round, {todo[i].id}, FALSE)) \in EntrySet
             /\ Entry(Said("tool", round, {todo[i].id}, FALSE))
                = [role |-> "tool", turn |-> turn, round |-> round,
                   ids |-> {todo[i].id}]
  <2>1. todo[i] \in Call
    BY <1>1
  <2>2. {todo[i].id} \in SUBSET (CallIds \union {TextId})
    BY <2>1 DEF Call
  <2>3. Said("tool", round, {todo[i].id}, FALSE) \in Message
    BY <1>1, <2>2, Words
  <2>4. QED
    BY <2>3, EntryType DEF Entry, Said
<1>3. DOMAIN todo = 1..Len(todo) /\ Len(todo) \in Nat
  BY <1>1
<1>4. Due = [i \in 1..Len(todo) |-> Entry(Said("tool", round, {todo[i].id}, FALSE))]
  BY <1>3 DEF Due
<1>5. Due \in Seq(EntrySet) /\ Len(Due) = Len(todo)
  <2> DEFINE e(i) == Entry(Said("tool", round, {todo[i].id}, FALSE))
  <2>1. \A i \in 1..Len(todo) : e(i) \in EntrySet
    BY <1>2
  <2>2. Due = [i \in 1..Len(todo) |-> e(i)]
    BY <1>4
  <2> HIDE DEF e
  <2>3. QED
    BY <1>3, <2>1, <2>2
<1>6. todo = <<>> => Due = <<>>
  <2>1. ASSUME todo = <<>> PROVE Due = <<>>
    <3>1. Len(Due) = 0
      BY <1>5, <2>1
    <3>2. QED
      BY <1>5, <3>1
  <2>2. QED
    BY <2>1
<1>7. QED
  BY <1>2, <1>4, <1>5, <1>6 DEF DueFacts

LineFacts ==
    /\ Held \o messages \in Seq(Message)
    /\ Line \in Seq(EntrySet)
    /\ todo = <<>> => Line = Entries(Held \o messages)
    /\ group = <<>> => Line = Entries(messages) \o Due

LEMMA LineType == Scalars /\ Lists => LineFacts
<1> SUFFICES ASSUME Scalars, Lists PROVE LineFacts
  OBVIOUS
<1>d. DueFacts
  BY DueType
<1>1. Held \in Seq(Message) /\ messages \in Seq(Message)
  BY HeldType DEF Lists
<1>2. Held \o messages \in Seq(Message)
  BY <1>1
<1>3. Entries(Held \o messages) \in Seq(EntrySet) /\ Due \in Seq(EntrySet)
  BY <1>2, <1>d, EntriesType DEF DueFacts
<1>4. Line \in Seq(EntrySet)
  BY <1>3, ConcatProperties, Zenon DEF Line
<1>5. todo = <<>> => Line = Entries(Held \o messages)
  <2>1. \A x \in Seq(EntrySet) : x \o <<>> = x
    OBVIOUS
  <2>2. QED
    BY <1>3, <1>d, <2>1 DEF Line, DueFacts
<1>6. group = <<>> => Held \o messages = messages
  BY <1>1, HeldType
<1>7. QED
  BY <1>2, <1>4, <1>5, <1>6 DEF Line, LineFacts

LEMMA LineSame ==
    ASSUME UNCHANGED <<group, messages, todo, turn, round>>
    PROVE  Line' = Line
BY DEF Line, Entries, Entry, Held, Due, Said

LEMMA LineEmpty ==
    ASSUME Scalars, Lists, group = <<>>, messages = <<>>, todo = <<>>
    PROVE  Line = <<>>
<1>1. Line = Entries(Held \o messages) /\ Held = <<>> /\ messages \in Seq(Message)
  BY LineType, HeldType DEF Lists, LineFacts
<1>2. Held \o messages = <<>>
  BY <1>1
<1>3. QED
  BY <1>1, <1>2 DEF Entries

LEMMA LineGrows ==
    ASSUME Scalars, Lists, Shape, Scalars', Lists', phase = "ask",
           NEW m \in Message, NEW rest \in Seq(Message), group' = group,
           messages' = (messages \o <<m>>) \o rest
    PROVE  Follows(Line', Line, Entry(m), Entries(rest) \o Due')
<1>l. LineFacts /\ LineFacts' /\ DueFacts'
  <2>1. LineFacts
    BY LineType
  <2>2. LineFacts'
    BY LineType, PTL
  <2>3. DueFacts'
    BY DueType, PTL
  <2>4. QED
    BY <2>1, <2>2, <2>3
<1>1. todo = <<>> /\ group = <<>>
  BY DEF Shape
<1>2. messages \in Seq(Message) /\ <<m>> \in Seq(Message)
      /\ messages \o <<m>> \in Seq(Message)
  BY DEF Lists
<1>3. Line = Entries(messages)
  <2>1. Held \o messages = messages
    BY <1>1, <1>2, HeldType
  <2>2. QED
    BY <1>1, <1>l, <2>1 DEF LineFacts
<1>4. Line' = Entries(messages') \o Due'
  BY <1>1, <1>l DEF LineFacts
<1> DEFINE x == Entries(messages)
           y == Entries(rest)
           z == Due'
<1>5. Entries(messages') = (x \o <<Entry(m)>>) \o y
  <2>1. Entries(<<m>>) = <<Entry(m)>>
    BY DEF Entries
  <2>2. Entries(messages \o <<m>>) = x \o Entries(<<m>>)
    BY <1>2, EntriesOfConcat, Zenon
  <2>3. Entries((messages \o <<m>>) \o rest)
        = Entries(messages \o <<m>>) \o y
    BY <1>2, EntriesOfConcat, Zenon
  <2> HIDE DEF x, y
  <2>4. QED
    BY <2>1, <2>2, <2>3
<1>6. x \in Seq(EntrySet) /\ y \in Seq(EntrySet) /\ Entry(m) \in EntrySet
  BY <1>2, EntriesType, EntryType
<1>7. z \in Seq(EntrySet)
  BY <1>l DEF DueFacts
<1> HIDE DEF x, y, z
<1>8. ((x \o <<Entry(m)>>) \o y) \o z = (x \o <<Entry(m)>>) \o (y \o z)
  <2>1. x \o <<Entry(m)>> \in Seq(EntrySet)
    BY <1>6
  <2>2. QED
    BY <1>6, <1>7, <2>1, ConcatAssociative
<1>9. Follows((x \o <<Entry(m)>>) \o (y \o z), x, Entry(m), y \o z)
  <2>1. y \o z \in Seq(EntrySet)
    BY <1>6, <1>7
  <2>2. QED
    BY <1>6, <2>1, ConcatFollows
<1>10. Line' = (x \o <<Entry(m)>>) \o (y \o z) /\ Line = x
  BY <1>3, <1>4, <1>5, <1>8 DEF x, z
<1>11. QED
  BY <1>9, <1>10 DEF x, y, z

LEMMA LineOfResult ==
    ASSUME Scalars, Lists, Shape, Scalars', Lists', NEW b \in BOOLEAN, Result(b)
    PROVE  Line' = Line
<1>l. LineFacts /\ LineFacts' /\ DueFacts /\ DueFacts'
  <2>1. LineFacts /\ DueFacts
    BY LineType, DueType
  <2>2. LineFacts'
    BY LineType, PTL
  <2>3. DueFacts'
    BY DueType, PTL
  <2>4. QED
    BY <2>1, <2>2, <2>3
<1>t. todo \in Seq(Call)
  BY DEF Lists
<1>1. /\ phase = "dispatch" /\ todo # <<>> /\ group = <<>> /\ group' = <<>>
      /\ messages' = Append(messages, Said("tool", round, {Head(todo).id}, b))
      /\ todo' = Tail(todo) /\ round' = round /\ turn' = turn
  BY DEF Result, turnVars, memoryVars, Shape
<1> DEFINE m == Said("tool", round, {Head(todo).id}, b)
           d == Due'
           x == Entries(messages)
<1>2. messages \in Seq(Message) /\ m \in Message
  <2>1. Head(todo) \in Call
    BY <1>1, <1>t
  <2>2. {Head(todo).id} \in SUBSET (CallIds \union {TextId}) /\ round \in Nat
    BY <2>1, MemoryBounds DEF Call, Scalars
  <2>3. QED
    BY <2>2, Words DEF Lists
<1>3. Due \in Seq(EntrySet) /\ d \in Seq(EntrySet) /\ Due = <<Entry(m)>> \o d
  <2>1. /\ Due \in Seq(EntrySet) /\ Len(Due) = Len(todo)
        /\ \A i \in 1..Len(todo) :
              Due[i] = [role |-> "tool", turn |-> turn, round |-> round,
                        ids |-> {todo[i].id}]
    BY <1>l DEF DueFacts
  <2>2. /\ d \in Seq(EntrySet) /\ Len(d) = Len(todo')
        /\ \A i \in 1..Len(todo') :
              d[i] = [role |-> "tool", turn |-> turn', round |-> round',
                      ids |-> {todo'[i].id}]
    BY <1>l DEF DueFacts
  <2>3. /\ todo \in Seq(Call) /\ Len(todo') = Len(todo) - 1 /\ Len(todo) >= 1
        /\ \A i \in 1..Len(todo') : todo'[i] = todo[i + 1]
        /\ Head(todo) = todo[1]
    BY <1>1, <1>t
  <2>4. Entry(m) = [role |-> "tool", turn |-> turn, round |-> round,
                    ids |-> {todo[1].id}] /\ Entry(m) \in EntrySet
    BY <1>2, <2>3, EntryType DEF Entry, Said
  <2>5. Due[1] = Entry(m)
    BY <2>1, <2>3, <2>4
  <2>6. ASSUME NEW i \in 1..Len(d) PROVE Due[1 + i] = d[i]
    <3>1. 1 + i \in 1..Len(todo) /\ i \in 1..Len(todo') /\ todo'[i] = todo[1 + i]
      BY <2>2, <2>3
    <3>2. Due[1 + i] = [role |-> "tool", turn |-> turn, round |-> round,
                        ids |-> {todo[1 + i].id}]
      BY <2>1, <3>1
    <3>3. d[i] = [role |-> "tool", turn |-> turn', round |-> round',
                  ids |-> {todo'[i].id}]
      BY <2>2, <3>1
    <3>4. QED
      BY <1>1, <3>1, <3>2, <3>3
  <2> DEFINE e == Entry(m)
             w == Due
  <2> HIDE DEF d, m, e, w
  <2>7. w \in Seq(EntrySet) /\ d \in Seq(EntrySet) /\ Len(w) = 1 + Len(d)
        /\ w[1] = e /\ e \in EntrySet /\ \A i \in 1..Len(d) : w[1 + i] = d[i]
    BY <2>1, <2>2, <2>3, <2>4, <2>5, <2>6 DEF e, w
  <2>8. w = <<e>> \o d
    BY <2>7
  <2>9. QED
    BY <2>7, <2>8 DEF e, w
<1>4. Entries(messages') = x \o <<Entry(m)>>
  <2>1. messages' = Append(messages, m)
    BY <1>1
  <2>2. Entries(<<m>>) = <<Entry(m)>>
    BY DEF Entries
  <2> HIDE DEF m
  <2>3. <<m>> \in Seq(Message) /\ messages' = messages \o <<m>>
    BY <1>2, <2>1
  <2>4. Entries(messages \o <<m>>) = x \o Entries(<<m>>)
    BY <1>2, <2>3, EntriesOfConcat, Zenon
  <2>5. QED
    BY <2>2, <2>3, <2>4
<1>5. x \in Seq(EntrySet) /\ <<Entry(m)>> \in Seq(EntrySet)
  BY <1>2, EntriesType, EntryType
<1>6. Line = x \o Due
  BY <1>1, <1>l DEF LineFacts
<1>7. Line' = Entries(messages') \o d
  BY <1>1, <1>l DEF LineFacts
<1> HIDE DEF m, d, x
<1>8. (x \o <<Entry(m)>>) \o d = x \o (<<Entry(m)>> \o d)
  BY <1>3, <1>5, ConcatAssociative
<1>9. QED
  BY <1>3, <1>4, <1>6, <1>7, <1>8

(* _record_turn takes the line apart from its beginning.                   *)

LEMMA TidySuffix ==
    ASSUME NEW s \in Seq(EntrySet), NEW t \in Seq(EntrySet), NEW h \in Nat,
           Tidy(s), Len(s) = h + Len(t), Len(t) >= 1,
           \A i \in 1..Len(t) : t[i] = s[h + i], t[1].role = "assistant"
    PROVE  Tidy(t)
<1> DEFINE n == Len(t)
           f == [i \in 1..n |-> h + i]
<1>1. /\ n \in Nat /\ n >= 1 /\ Len(s) = h + n
      /\ \A i \in 1..n : t[i] = s[h + i] /\ h + i \in 1..Len(s)
      /\ \A i \in 1..n : f[i] = h + i
      /\ \A i \in 1..Len(s) : s[i].round \in Nat
  <2>1. \A e \in EntrySet : e.round \in Nat
    BY DEF EntrySet
  <2>2. \A i \in 1..Len(s) : s[i] \in EntrySet
    OBVIOUS
  <2>3. QED
    BY <2>1, <2>2
<1>2. Ordered(s) /\ s[h + 1].role = "assistant" /\ 1 \in 1..n
  BY <1>1 DEF Tidy
<1> HIDE DEF f
<1>3. Embeds(f, t, s)
  BY <1>1 DEF Embeds
<1> HIDE DEF n
<1>4. Covers(f, t, s)
  <2> SUFFICES ASSUME NEW i \in 1..n, NEW k \in 1..Len(s), s[k].round = t[i].round,
                      \/ t[i].role = "tool" /\ s[k].role = "assistant"
                      \/ t[i].role = "assistant" /\ s[k].role = "tool"
               PROVE  \E j \in 1..n : f[j] = k
    BY DEF Covers, n
  <2>1. t[i] = s[h + i] /\ h + i \in 1..Len(s) /\ h + 1 \in 1..Len(s)
    BY <1>1, <1>2
  <2>2. ASSUME k <= h PROVE FALSE
    <3>1. k < h + i /\ k < h + 1
      BY <1>1, <2>2
    <3>2. CASE t[i].role = "assistant"
      <4>1. s[k].round < s[h + i].round
        BY <1>2, <2>1, <3>1, <3>2 DEF Ordered
      <4>2. QED
        BY <1>1, <2>1, <4>1
    <3>3. CASE t[i].role = "tool"
      <4>1. h + 1 < h + i
        <5>1. i # 1
          BY <1>2, <2>1, <3>3
        <5>2. QED
          BY <1>1, <5>1
      <4>2. s[k].round < s[h + 1].round /\ s[h + 1].round <= s[h + i].round
        BY <1>2, <2>1, <3>1, <4>1 DEF Ordered
      <4>3. s[k].round \in Nat /\ s[h + 1].round \in Nat /\ s[h + i].round \in Nat
        BY <1>1, <2>1
      <4>4. QED
        BY <2>1, <4>2, <4>3
    <3>4. QED
      BY <3>2, <3>3
  <2> DEFINE j == k - h
  <2>3. j \in 1..n /\ h + j = k
    BY <1>1, <2>2
  <2> HIDE DEF j
  <2>4. f[j] = k
    BY <1>1, <2>3
  <2>5. QED
    BY <2>3, <2>4
<1>5. QED
  BY <1>3, <1>4, TidyPart

(* The line t is s without its entry h + 1.                                *)
Without(t, s, h) ==
    /\ h < Len(s) /\ Len(s) = Len(t) + 1
    /\ \A i \in 1..h : t[i] = s[i]
    /\ \A i \in (h + 1)..Len(t) : t[i] = s[i + 1]

LEMMA TidySkip ==
    ASSUME NEW s \in Seq(EntrySet), NEW t \in Seq(EntrySet), NEW h \in Nat,
           Tidy(s), Without(t, s, h), s[h + 1].role = "user"
    PROVE  Tidy(t)
<1> DEFINE n == Len(t)
           f == [i \in 1..n |-> IF i <= h THEN i ELSE i + 1]
<1>0. n \in Nat
  OBVIOUS
<1>1. Len(s) = n + 1 /\ h <= n /\ n \in Nat
      /\ \A i \in 1..n : (i <= h => t[i] = s[i]) /\ (i > h => t[i] = s[i + 1])
  <2> HIDE DEF n
  <2>1. QED
    BY <1>0 DEF Without, n
<1> HIDE DEF n
<1>2. \A i \in 1..n : (i <= h => f[i] = i) /\ (i > h => f[i] = i + 1)
  BY <1>1
<1> HIDE DEF f
<1>3. Embeds(f, t, s)
  <2>1. \A i \in 1..n : f[i] \in 1..Len(s) /\ t[i] = s[f[i]]
    <3> SUFFICES ASSUME NEW i \in 1..n
                 PROVE  f[i] \in 1..Len(s) /\ t[i] = s[f[i]]
      OBVIOUS
    <3>1. i <= h \/ i > h
      OBVIOUS
    <3>2. QED
      BY <1>1, <1>2, <3>1
  <2>2. \A i, j \in 1..n : i < j => f[i] < f[j]
    <3> SUFFICES ASSUME NEW i \in 1..n, NEW j \in 1..n, i < j
                 PROVE  f[i] < f[j]
      OBVIOUS
    <3>1. (i <= h \/ i > h) /\ (j <= h \/ j > h)
      OBVIOUS
    <3>2. QED
      BY <1>1, <1>2, <3>1
  <2>3. QED
    BY <2>1, <2>2 DEF Embeds, n
<1>4. Covers(f, t, s)
  <2> SUFFICES ASSUME NEW i \in 1..n, NEW k \in 1..Len(s), s[k].round = t[i].round,
                      \/ t[i].role = "tool" /\ s[k].role = "assistant"
                      \/ t[i].role = "assistant" /\ s[k].role = "tool"
               PROVE  \E j \in 1..n : f[j] = k
    BY DEF Covers, n
  <2>1. k # h + 1
    OBVIOUS
  <2>2. CASE k <= h
    <3>1. k \in 1..n /\ f[k] = k
      BY <1>1, <1>2, <2>2
    <3>2. QED
      BY <3>1
  <2>3. CASE k > h + 1
    <3> DEFINE j == k - 1
    <3>1. j \in 1..n /\ ~(j <= h) /\ j + 1 = k
      BY <1>1, <2>3
    <3> HIDE DEF j
    <3>2. f[j] = k
      BY <1>1, <1>2, <3>1
    <3>3. QED
      BY <3>1, <3>2
  <2>4. QED
    BY <2>1, <2>2, <2>3
<1>5. QED
  BY <1>3, <1>4, TidyPart

(* Where the line stands while _record_turn works.                         *)
Recorded ==
    todo = <<>> =>
    LET h == Len(Held)
    IN  /\ Len(Line) = h + Len(messages)
        /\ \A i \in 1..h : Line[i] = Entry(Held[i])
        /\ \A i \in 1..Len(messages) : Line[h + i] = Entry(messages[i])

LEMMA LineRecorded == Scalars /\ Lists => Recorded
<1> SUFFICES ASSUME Scalars, Lists, todo = <<>>
             PROVE  LET h == Len(Held)
                    IN  /\ Len(Line) = h + Len(messages)
                        /\ \A i \in 1..h : Line[i] = Entry(Held[i])
                        /\ \A i \in 1..Len(messages) :
                              Line[h + i] = Entry(messages[i])
  BY DEF Recorded
<1> DEFINE h == Held
           c == h \o messages
<1>1. Line = Entries(c)
  BY LineType DEF LineFacts
<1>2. h \in Seq(Message) /\ messages \in Seq(Message)
  BY HeldType DEF Lists
<1> HIDE DEF h
<1>3. /\ c \in Seq(Message) /\ Len(c) = Len(h) + Len(messages)
      /\ \A i \in 1..Len(h) : c[i] = h[i]
      /\ \A i \in 1..Len(messages) : c[Len(h) + i] = messages[i]
  BY <1>2
<1> HIDE DEF c
<1>4. Len(Line) = Len(c) /\ \A i \in 1..Len(c) : Line[i] = Entry(c[i])
  BY <1>1, <1>3, EntriesType
<1>5. Len(Line) = Len(h) + Len(messages) /\ Len(h) \in Nat /\ Len(messages) \in Nat
  BY <1>2, <1>3, <1>4
<1>6. \A i \in 1..Len(h) : i \in 1..Len(c)
  BY <1>3, <1>4, <1>5
<1>7. \A i \in 1..Len(messages) : Len(h) + i \in 1..Len(c)
  BY <1>3, <1>4, <1>5
<1>8. \A i \in 1..Len(h) : Line[i] = Entry(h[i])
  BY <1>3, <1>4, <1>6
<1>9. ASSUME NEW i \in 1..Len(messages)
      PROVE  Line[Len(h) + i] = Entry(messages[i])
  <2>0. Len(h) + i \in 1..Len(c)
    BY <1>7
  <2>1. c[Len(h) + i] = messages[i]
    BY <1>3
  <2>2. Line[Len(h) + i] = Entry(c[Len(h) + i])
    BY <1>4, <2>0, Zenon
  <2>3. QED
    BY <2>1, <2>2
<1>10. QED
  BY <1>5, <1>8, <1>9 DEF h

LEMMA HeldRoles ==
    ASSUME Lists, Shape
    PROVE  /\ group # <<>> => Held[1].role = "assistant" /\ Len(Held) >= 1
           /\ \A i \in 1..Len(Held) : i # 1 => Held[i].role = "tool"
<1>1. CASE group = <<>>
  BY <1>1, HeldType
<1>2. CASE group # <<>>
  <2> DEFINE r == group[1].results
  <2>1. /\ group[1] \in Turn /\ Len(Held) = 1 + Len(r)
        /\ Held[1] = group[1].assistant
        /\ \A i \in 1..Len(r) : Held[1 + i] = r[i]
    BY <1>2, HeldType
  <2>2. r \in Seq(Message)
    BY <2>1 DEF Turn
  <2>3. group[1].assistant.role = "assistant" /\ \A i \in DOMAIN r : r[i].role = "tool"
    BY <1>2 DEF Shape
  <2> HIDE DEF r
  <2>4. ASSUME NEW i \in 1..Len(Held), i # 1 PROVE Held[i].role = "tool"
    <3> DEFINE j == i - 1
    <3>1. j \in 1..Len(r) /\ 1 + j = i
      BY <2>1, <2>2, <2>4
    <3> HIDE DEF j
    <3>2. QED
      BY <2>1, <2>2, <2>3, <3>1
  <2>5. QED
    BY <1>2, <2>1, <2>2, <2>3, <2>4
<1>3. QED
  BY <1>1, <1>2

(* A record that is closed is answered.                                    *)
LEMMA EntryFields ==
    \A m : /\ Entry(m).role = m.role /\ Entry(m).turn = m.turn
           /\ Entry(m).round = m.round /\ Entry(m).ids = m.ids
BY DEF Entry

LEMMA GroupAnswered ==
    ASSUME Scalars, Lists, Shape, Orderly, phase = "record", group # <<>>,
           messages = <<>> \/ messages[1].role = "assistant"
    PROVE  Answered(group[1])
<1> DEFINE a == group[1].assistant
           r == group[1].results
           h == Len(Held)
           n == Len(r)
<1>1. group[1] \in Turn /\ h = 1 + n /\ Held[1] = a
      /\ \A i \in 1..n : Held[1 + i] = r[i]
  BY HeldType
<1>2. a \in Message /\ r \in Seq(Message) /\ messages \in Seq(Message)
      /\ n \in Nat /\ DOMAIN r = 1..n
  BY <1>1 DEF Turn, Lists
<1>3. Recorded /\ Tidy(Line) /\ Line \in Seq(EntrySet)
  BY LineRecorded, LineType DEF Shape, Orderly, LineFacts
<1> HIDE DEF h
<1>4. /\ Len(Line) = h + Len(messages)
      /\ \A i \in 1..h : Line[i] = Entry(Held[i])
      /\ \A i \in 1..Len(messages) : Line[h + i] = Entry(messages[i])
  BY <1>3 DEF Recorded, Shape, h
<1>5. /\ \A i \in 1..h : i # 1 => Held[i].role = "tool"
      /\ Held[1].role = "assistant"
  BY HeldRoles DEF h
<1> HIDE DEF n, a, r
<1>6. /\ 1 \in 1..Len(Line) /\ Line[1] = Entry(a) /\ Line[1].role = "assistant"
  <2>1. 1 \in 1..h /\ 1 \in 1..Len(Line)
    BY <1>1, <1>2, <1>4
  <2>2. QED
    BY <1>1, <1>4, <1>5, <2>1, EntryFields
<1>7. ASSUME NEW i \in 1..n
      PROVE  /\ 1 + i \in 1..Len(Line) /\ 1 + i \in 1..h
             /\ Line[1 + i] = Entry(r[i]) /\ Line[1 + i].role = "tool"
  <2>0. Len(messages) \in Nat /\ h = 1 + n /\ Len(Line) = h + Len(messages)
    BY <1>1, <1>2, <1>4
  <2>1. 1 + i \in 1..h /\ 1 + i \in 1..Len(Line) /\ 1 + i # 1
    BY <1>2, <2>0
  <2>2. QED
    BY <1>1, <1>4, <1>5, <2>1, EntryFields
<1>8. ASSUME NEW i \in 1..n PROVE r[i].round = a.round
  <2>1. Owned(Line)
    BY <1>3 DEF Tidy
  <2>2. PICK k \in 1..Len(Line) : /\ k < 1 + i /\ Line[k].role = "assistant"
                                  /\ Line[k].round = Line[1 + i].round
    BY <1>7, <2>1 DEF Owned
  <2>3. k = 1
    <3>1. ASSUME k # 1 PROVE FALSE
      <4>1. k - 1 \in 1..n /\ 1 + (k - 1) = k
        BY <1>2, <2>2, <3>1
      <4>2. Line[k].role = "tool"
        BY <1>7, <4>1
      <4>3. QED
        BY <2>2, <4>2
    <3>2. QED
      BY <3>1
  <2>4. QED
    BY <1>6, <1>7, <2>2, <2>3, EntryFields
<1>9. \A i, j \in 1..n : i # j => r[i].ids \cap r[j].ids = {}
  <2> SUFFICES ASSUME NEW i \in 1..n, NEW j \in 1..n, i # j
               PROVE  r[i].ids \cap r[j].ids = {}
    OBVIOUS
  <2>1. 1 + i # 1 + j
    BY <1>2
  <2>2. Line[1 + i].round = Line[1 + j].round
    BY <1>7, <1>8, EntryFields
  <2>3. Line[1 + i].ids \cap Line[1 + j].ids = {}
    BY <1>3, <1>7, <2>1, <2>2 DEF Tidy, Apart
  <2>4. QED
    BY <1>7, <2>3, EntryFields
<1>10. \A i \in 1..n : r[i].ids # {}
  BY <1>3, <1>7, EntryFields DEF Tidy, Apart
<1> DEFINE given == Given(Line, a.round)
<1>11. ASSUME NEW x PROVE x \in given <=> \E i \in 1..n : x \in r[i].ids
  <2>1. ASSUME NEW k \in 1..Len(Line), Line[k].role = "tool", Line[k].round = a.round
        PROVE  \E i \in 1..n : Line[k] = Line[1 + i]
    <3>1. k <= h
      <4> SUFFICES ASSUME k > h PROVE FALSE
        BY <1>1, <1>2
      <4>1. messages[1].role = "assistant" /\ h + 1 \in 1..Len(Line)
            /\ 1 \in 1..Len(messages)
        BY <1>1, <1>2, <1>4
      <4>2. Line[h + 1].role = "assistant"
        BY <1>4, <4>1, EntryFields
      <4>3. 1 < h + 1 /\ h + 1 < k
        <5>1. k # h + 1
          BY <2>1, <4>2
        <5>2. QED
          BY <1>1, <1>2, <5>1
      <4>4. Line[1].round < Line[h + 1].round /\ Line[h + 1].round <= Line[k].round
        BY <1>3, <1>6, <4>1, <4>2, <4>3 DEF Tidy, Ordered
      <4>5. \A e \in EntrySet : e.round \in Nat
        BY DEF EntrySet
      <4>6. Line[1].round \in Nat /\ Line[h + 1].round \in Nat /\ Line[k].round \in Nat
        BY <1>3, <1>6, <4>1, <4>5
      <4>7. Line[1].round = a.round
        BY <1>6, EntryFields
      <4>8. QED
        BY <2>1, <4>4, <4>6, <4>7
    <3>2. k # 1
      BY <1>6, <2>1
    <3> DEFINE i == k - 1
    <3>3. i \in 1..n /\ 1 + i = k
      BY <1>1, <1>2, <3>1, <3>2
    <3> HIDE DEF i
    <3>4. QED
      BY <3>3
  <2>2. ASSUME x \in given PROVE \E i \in 1..n : x \in r[i].ids
    <3>1. PICK k \in 1..Len(Line) : /\ Line[k].role = "tool" /\ x \in Line[k].ids
                                    /\ Line[k].round = a.round
      BY <2>2, GivenElement
    <3>2. PICK i \in 1..n : Line[k] = Line[1 + i]
      BY <2>1, <3>1
    <3>3. x \in r[i].ids
      BY <1>7, <3>1, <3>2, EntryFields
    <3>4. QED
      BY <3>3
  <2>3. ASSUME NEW i \in 1..n, x \in r[i].ids PROVE x \in given
    <3>1. /\ Line[1 + i].role = "tool" /\ x \in Line[1 + i].ids
          /\ Line[1 + i].round = a.round /\ 1 + i \in 1..Len(Line)
      BY <1>7, <1>8, <2>3, EntryFields
    <3>2. QED
      BY <3>1, GivenElement
  <2>4. QED
    BY <2>2, <2>3
<1>12. Whole(a.ids, given)
  <2>1. Whole(Line[1].ids, Given(Line, Line[1].round))
    BY <1>3, <1>6 DEF Tidy, Complete
  <2>2. Line[1].ids = a.ids /\ Line[1].round = a.round
    BY <1>6, EntryFields
  <2>3. QED
    BY <2>1, <2>2
<1> HIDE DEF given
<1> DEFINE ids == [i \in DOMAIN r |-> r[i].ids]
<1>13. ids = [i \in 1..n |-> r[i].ids]
  BY <1>2
<1>14. UNION ToSet(ids) = given
  <2>1. ToSet(ids) = {ids[i] : i \in 1..n}
    BY <1>13 DEF ToSet
  <2>2. ToSet(ids) = {r[i].ids : i \in 1..n}
    BY <1>13, <2>1
  <2>3. QED
    BY <1>11, <2>2
<1>15. ASSUME a.ids = {}, given = {TextId} PROVE ids = <<{TextId}>>
  <2>1. \A i \in 1..n : r[i].ids = {TextId}
    BY <1>10, <1>11, <1>15
  <2>2. \A i, j \in 1..n : i = j
    BY <1>9, <2>1
  <2>3. n # 0
    <3>1. \E i \in 1..n : TextId \in r[i].ids
      BY <1>11, <1>15
    <3>2. QED
      BY <3>1
  <2>4. n = 1
    <3>1. ASSUME n > 1 PROVE FALSE
      <4>1. 1 \in 1..n /\ 2 \in 1..n
        BY <1>2, <3>1
      <4>2. QED
        BY <2>2, <4>1
    <3>2. QED
      BY <1>2, <2>3, <3>1
  <2>5. ids = [i \in 1..1 |-> {TextId}]
    BY <1>13, <2>1, <2>4
  <2>6. QED
    BY <2>5
<1>16. \A i, j \in DOMAIN ids : i # j => ids[i] \cap ids[j] = {}
  BY <1>9, <1>13
<1>17. \A i \in DOMAIN ids : r[i].round = a.round
  BY <1>8, <1>13
<1>18. UNION ToSet(ids) = a.ids \/ (a.ids = {} /\ ids = <<{TextId}>>)
  BY <1>12, <1>14, <1>15 DEF Whole
<1> HIDE DEF ids
<1>19. QED
  BY <1>16, <1>17, <1>18 DEF Answered, ids, a, r

LEMMA CompactAnswered ==
    ASSUME NEW t \in Turn, Answered(t) PROVE Answered(Compact(t))
<1> DEFINE u == Compact(t)
           ids == [i \in DOMAIN t.results |-> t.results[i].ids]
           jds == [i \in DOMAIN u.results |-> u.results[i].ids]
<1>1. /\ u.assistant = t.assistant /\ DOMAIN u.results = DOMAIN t.results
      /\ \A i \in DOMAIN t.results :
            u.results[i] = [t.results[i] EXCEPT !.verbose = FALSE]
  BY DEF Compact
<1>2. \A i \in DOMAIN t.results : t.results[i] \in Message
  BY DEF Turn
<1> HIDE DEF u
<1>3. \A i \in DOMAIN t.results : /\ u.results[i].ids = t.results[i].ids
                                  /\ u.results[i].round = t.results[i].round
  BY <1>1, <1>2 DEF Message
<1>4. jds = ids
  BY <1>1, <1>3
<1>5. /\ \A i, j \in DOMAIN ids : i # j => ids[i] \cap ids[j] = {}
      /\ \/ UNION ToSet(ids) = t.assistant.ids
         \/ t.assistant.ids = {} /\ ids = <<{TextId}>>
      /\ \A i \in DOMAIN ids : t.results[i].round = t.assistant.round
  BY DEF Answered
<1>6. DOMAIN ids = DOMAIN t.results
  OBVIOUS
<1> HIDE DEF ids, jds
<1>7. /\ \A i, j \in DOMAIN jds : i # j => jds[i] \cap jds[j] = {}
      /\ \/ UNION ToSet(jds) = u.assistant.ids
         \/ u.assistant.ids = {} /\ jds = <<{TextId}>>
      /\ \A i \in DOMAIN jds : u.results[i].round = u.assistant.round
  BY <1>1, <1>3, <1>4, <1>5, <1>6
<1>8. Answered(u)
  BY <1>7 DEF Answered, jds
<1>9. QED
  BY <1>8 DEF u

(* A reply lengthens the line by its message and what answers it.          *)

Enumerates(p, n, S) ==
    /\ \A i \in 1..n : p[i] \in S
    /\ \A i, j \in 1..n : i # j => p[i] # p[j]
    /\ \A x \in S : \E i \in 1..n : p[i] = x

LEMMA OrderingIsOnto ==
    ASSUME NEW S, IsFiniteSet(S), NEW q \in SetToSeqs(S)
    PROVE  q \in Seq(S) /\ Enumerates(q, Len(q), S)
<1> DEFINE n == Cardinality(S)
<1>1. n \in Nat
  BY FS_CardinalityType
<1>2. q \in [1..n -> S] /\ \A i, j \in 1..n : i # j => q[i] # q[j]
  BY DEF SetToSeqs
<1>3. q \in Seq(S) /\ Len(q) = n
  BY <1>1, <1>2
<1> HIDE DEF n
<1>4. q \in Injection(1..n, S)
  BY <1>2 DEF Injection, IsInjective
<1>5. Cardinality(1..n) = n
  BY <1>1, FS_Interval
<1>6. q \in Surjection(1..n, S)
  BY <1>4, <1>5, FS_Injection DEF n
<1>7. \A x \in S : \E i \in 1..n : q[i] = x
  BY <1>6 DEF Surjection
<1>8. QED
  BY <1>2, <1>3, <1>7 DEF Enumerates

LEMMA ListsOneAfterOther ==
    ASSUME NEW n \in Nat, NEW m \in Nat, NEW S, NEW T, S \cap T = {},
           NEW p, NEW q, NEW g, Enumerates(p, n, S), Enumerates(q, m, T),
           \A i \in 1..n : g[i] = p[i], \A i \in 1..m : g[n + i] = q[i]
    PROVE  Enumerates(g, n + m, S \union T)
<1>1. ASSUME NEW i \in 1..(n + m)
      PROVE  \/ i \in 1..n /\ g[i] = p[i] /\ g[i] \in S /\ ~(g[i] \in T)
             \/ /\ i - n \in 1..m /\ i = n + (i - n) /\ g[i] = q[i - n]
                /\ g[i] \in T /\ ~(g[i] \in S)
  <2>1. CASE i <= n
    <3>1. i \in 1..n
      BY <2>1
    <3>2. g[i] = p[i] /\ p[i] \in S
      BY <3>1 DEF Enumerates
    <3>3. QED
      BY <3>1, <3>2
  <2>2. CASE i > n
    <3> DEFINE k == i - n
    <3>1. k \in 1..m /\ i = n + k
      BY <2>2
    <3> HIDE DEF k
    <3>2. g[i] = q[k] /\ q[k] \in T
      BY <3>1 DEF Enumerates
    <3>3. QED
      BY <3>1, <3>2 DEF k
  <2>3. QED
    BY <2>1, <2>2
<1>2. ASSUME NEW i \in 1..(n + m), NEW j \in 1..(n + m), i # j
      PROVE  g[i] # g[j]
  <2>1. CASE g[i] \in S
    <3>1. i \in 1..n /\ g[i] = p[i]
      BY <1>1, <2>1
    <3>2. CASE g[j] \in S
      <4>1. j \in 1..n /\ g[j] = p[j]
        BY <1>1, <3>2
      <4>2. QED
        BY <1>2, <3>1, <4>1 DEF Enumerates
    <3>3. CASE ~(g[j] \in S)
      BY <2>1, <3>3
    <3>4. QED
      BY <3>2, <3>3
  <2>2. CASE ~(g[i] \in S)
    <3>1. i - n \in 1..m /\ g[i] = q[i - n]
      BY <1>1, <2>2
    <3>2. CASE g[j] \in S
      BY <2>2, <3>2
    <3>3. CASE ~(g[j] \in S)
      <4>1. j - n \in 1..m /\ g[j] = q[j - n]
        BY <1>1, <3>3
      <4>2. i - n # j - n
        BY <1>2
      <4> DEFINE k == i - n
                 l == j - n
      <4> HIDE DEF k, l
      <4>3. k \in 1..m /\ l \in 1..m /\ k # l /\ g[i] = q[k] /\ g[j] = q[l]
        BY <3>1, <4>1, <4>2 DEF k, l
      <4>4. QED
        BY <4>3 DEF Enumerates
    <3>4. QED
      BY <3>2, <3>3
  <2>3. QED
    BY <2>1, <2>2
<1>3. ASSUME NEW x \in S \union T PROVE \E i \in 1..(n + m) : g[i] = x
  <2>1. CASE x \in S
    <3>1. PICK i \in 1..n : p[i] = x
      BY <2>1 DEF Enumerates
    <3>2. i \in 1..(n + m) /\ g[i] = x
      BY <3>1
    <3>3. QED
      BY <3>2
  <2>2. CASE x \in T
    <3>1. PICK i \in 1..m : q[i] = x
      BY <2>2 DEF Enumerates
    <3>2. n + i \in 1..(n + m) /\ g[n + i] = x
      BY <3>1
    <3>3. QED
      BY <3>2
  <2>3. QED
    BY <2>1, <2>2
<1>4. \A i \in 1..(n + m) : g[i] \in S \union T
  BY <1>1
<1>5. QED
  BY <1>2, <1>3, <1>4 DEF Enumerates

LEMMA CallsAre ==
    ASSUME NEW S, IsFiniteSet(S), S \subseteq CallIds,
           NEW q \in SetToSeqs(S), NEW valid \in BOOLEAN
    PROVE  /\ Calls(q, valid) \in Seq(Call) /\ Len(Calls(q, valid)) = Len(q)
           /\ \A i \in 1..Len(q) : Calls(q, valid)[i].id = q[i]
<1>1. q \in Seq(S)
  BY OrderingIsOnto
<1>2. Calls(q, valid) \in Seq(Call)
  BY CallsType
<1>3. DOMAIN q = 1..Len(q) /\ Len(q) \in Nat
  BY <1>1
<1>4. Calls(q, valid) = [n \in 1..Len(q) |-> [id |-> q[n], valid |-> valid]]
  BY <1>3 DEF Calls
<1> DEFINE c == Calls(q, valid)
<1>5. Len(c) = Len(q)
  BY <1>2, <1>3, <1>4
<1>6. \A i \in 1..Len(q) : c[i] = [id |-> q[i], valid |-> valid]
  BY <1>4
<1> HIDE DEF c
<1>7. ASSUME NEW i \in 1..Len(q) PROVE c[i].id = q[i]
  <2>1. c[i] = [id |-> q[i], valid |-> valid]
    BY <1>6, Zenon
  <2>2. \A x, v : [id |-> x, valid |-> v].id = x
    OBVIOUS
  <2>3. QED
    BY <2>1, <2>2, Zenon
<1>8. QED
  BY <1>2, <1>5, <1>7, Zenon DEF c

Ids(c) == [i \in 1..Len(c) |-> c[i].id]

LEMMA ConcatPlaces ==
    ASSUME NEW S, NEW a \in Seq(S), NEW b \in Seq(S)
    PROVE  /\ Len(a \o b) = Len(a) + Len(b)
           /\ \A i \in 1..Len(a) : (a \o b)[i] = a[i]
           /\ \A i \in 1..Len(b) : (a \o b)[Len(a) + i] = b[i]
OBVIOUS

LEMMA CallsOfReply ==
    ASSUME NEW S, NEW T, IsFiniteSet(S), IsFiniteSet(T),
           S \subseteq CallIds, T \subseteq CallIds, S \cap T = {},
           NEW p \in SetToSeqs(S), NEW q \in SetToSeqs(T)
    PROVE  LET c == Calls(p, TRUE) \o Calls(q, FALSE)
           IN  Enumerates(Ids(c), Len(c), S \union T)
<1> DEFINE a == Calls(p, TRUE)
           b == Calls(q, FALSE)
           c == a \o b
           n == Len(p)
           m == Len(q)
<1>1. p \in Seq(S) /\ Enumerates(p, n, S) /\ q \in Seq(T) /\ Enumerates(q, m, T)
  BY OrderingIsOnto
<1>n. n \in Nat /\ m \in Nat
  BY <1>1
<1>2. /\ a \in Seq(Call) /\ Len(a) = n /\ n \in Nat
      /\ \A i \in 1..n : a[i].id = p[i]
  BY <1>n, CallsAre, Zenon
<1>3. /\ b \in Seq(Call) /\ Len(b) = m /\ m \in Nat
      /\ \A i \in 1..m : b[i].id = q[i]
  BY <1>n, CallsAre, Zenon
<1> HIDE DEF a, b, n, m
<1>4. /\ Len(c) = Len(a) + Len(b)
      /\ \A i \in 1..Len(a) : c[i] = a[i]
      /\ \A i \in 1..Len(b) : c[Len(a) + i] = b[i]
  <2>1. a \in Seq(Call) /\ b \in Seq(Call)
    BY <1>2, <1>3
  <2>2. QED
    BY <2>1, ConcatPlaces
<1> HIDE DEF c
<1> DEFINE g == Ids(c)
<1>5. Len(c) = n + m
  BY <1>2, <1>3, <1>4
<1>6. \A i \in 1..n : g[i] = p[i]
  <2> SUFFICES ASSUME NEW i \in 1..n PROVE g[i] = p[i]
    OBVIOUS
  <2>1. i \in 1..Len(c) /\ c[i] = a[i]
    BY <1>2, <1>3, <1>4, <1>5
  <2>2. QED
    BY <1>2, <2>1 DEF Ids
<1>7. \A i \in 1..m : g[n + i] = q[i]
  <2> SUFFICES ASSUME NEW i \in 1..m PROVE g[n + i] = q[i]
    OBVIOUS
  <2>1. n + i \in 1..Len(c)
    BY <1>2, <1>3, <1>5
  <2>2. c[n + i] = b[i]
    BY <1>2, <1>3, <1>4
  <2>3. QED
    BY <1>3, <2>1, <2>2 DEF Ids
<1> HIDE DEF g
<1>8. Enumerates(g, n + m, S \union T)
  BY <1>1, <1>2, <1>3, <1>6, <1>7, ListsOneAfterOther
<1>9. QED
  BY <1>5, <1>8 DEF g, c, a, b

Replied ==
    /\ phase = "ask" /\ phase' \in {"ask", "dispatch", "record"}
    /\ phase' # "dispatch" => todo' = <<>>
    /\ turn' = turn /\ round' = round + 1
    /\ UNCHANGED <<group, turns, completed, older, history>>
    /\ \E a \in EntrySet, q \in Seq(EntrySet) :
          /\ Follows(Line', Line, a, q) /\ Answers(q, a)
          /\ a.role = "assistant" /\ a.turn = turn /\ a.round = round + 1
          /\ \A i \in 1..Len(q) : q[i].turn = turn

LEMMA SpokenEntry ==
    ASSUME Scalars, NEW ids \in SUBSET CallIds
    PROVE  /\ Spoken(ids) \in Message /\ Entry(Spoken(ids)) \in EntrySet
           /\ Entry(Spoken(ids)).role = "assistant"
           /\ Entry(Spoken(ids)).turn = turn
           /\ Entry(Spoken(ids)).round = round + 1
           /\ Entry(Spoken(ids)).ids = ids
<1>1. round + 1 \in Nat /\ ids \in SUBSET (CallIds \union {TextId})
  BY MemoryBounds DEF Scalars
<1>2. Spoken(ids) \in Message
  BY <1>1, Words DEF Spoken
<1>3. QED
  BY <1>2, EntryType, EntryFields DEF Spoken, Said

LEMMA AppendIsFollowed ==
    ASSUME NEW S, NEW s \in Seq(S), NEW m \in S
    PROVE  Append(s, m) = (s \o <<m>>) \o <<>>
OBVIOUS

LEMMA TwoIsOneAndOne ==
    ASSUME NEW S, NEW x \in S, NEW y \in S
    PROVE  <<x>> \in Seq(S) /\ <<y>> \in Seq(S) /\ <<x, y>> = <<x>> \o <<y>>
<1>1. <<x>> \in Seq(S) /\ <<y>> \in Seq(S) /\ <<x, y>> \in Seq(S)
  OBVIOUS
<1>2. /\ <<x>> \o <<y>> \in Seq(S) /\ Len(<<x>> \o <<y>>) = 2
      /\ (<<x>> \o <<y>>)[1] = x /\ (<<x>> \o <<y>>)[2] = y
  OBVIOUS
<1> DEFINE c == <<x>> \o <<y>>
           d == <<x, y>>
<1>3. Len(d) = 2 /\ d[1] = x /\ d[2] = y /\ d \in Seq(S)
  OBVIOUS
<1>4. Len(c) = 2 /\ c[1] = x /\ c[2] = y /\ c \in Seq(S)
  BY <1>2
<1> HIDE DEF c, d
<1>5. Len(c) = Len(d) /\ \A i \in 1..Len(c) : c[i] = d[i]
  BY <1>3, <1>4
<1>6. c = d
  BY <1>3, <1>4, <1>5, SeqEqual
<1>7. QED
  BY <1>1, <1>6 DEF c, d

(* A reply that no result answers.                                         *)
LEMMA ReplyAlone ==
    ASSUME Scalars, Lists, Shape, Scalars', Lists', NextRound,
           messages' = Append(messages, Spoken({})),
           phase' \in {"ask", "record"},
           UNCHANGED <<turn, todo, memoryVars, older, history>>
    PROVE  Replied
<1>1. /\ phase = "ask" /\ todo = <<>> /\ todo' = <<>> /\ group' = group
      /\ turn' = turn /\ round' = round + 1
      /\ UNCHANGED <<group, turns, completed, older, history>>
  BY DEF NextRound, Shape, memoryVars
<1> DEFINE m == Spoken({})
<1>2. /\ m \in Message /\ Entry(m) \in EntrySet
      /\ Entry(m).role = "assistant" /\ Entry(m).turn = turn
      /\ Entry(m).round = round + 1 /\ Entry(m).ids = {}
  BY SpokenEntry
<1> HIDE DEF m
<1>3. messages' = (messages \o <<m>>) \o <<>> /\ <<>> \in Seq(Message)
  <2>1. messages \in Seq(Message)
    BY DEF Lists
  <2>2. QED
    BY <1>2, <2>1, AppendIsFollowed DEF m
<1>4. Follows(Line', Line, Entry(m), Entries(<<>>) \o Due')
  BY <1>1, <1>2, <1>3, LineGrows
<1>5. Entries(<<>>) \o Due' = <<>>
  <2>1. DueFacts'
    BY DueType, PTL
  <2>2. Due' = <<>>
    BY <1>1, <2>1 DEF DueFacts
  <2>3. Entries(<<>>) = <<>>
    BY DEF Entries
  <2>4. QED
    BY <2>2, <2>3
<1>6. Answers(<<>>, Entry(m))
  <2>1. Given(<<>>, Entry(m).round) = {}
    BY GivenElement
  <2>2. QED
    BY <1>2, <2>1 DEF Answers, Apart, Whole
<1>7. <<>> \in Seq(EntrySet) /\ \A i \in 1..Len(<<>>) : <<>>[i].turn = turn
  OBVIOUS
<1>8. Follows(Line', Line, Entry(m), <<>>)
  BY <1>4, <1>5
<1>9. \E a \in EntrySet, q \in Seq(EntrySet) :
         /\ Follows(Line', Line, a, q) /\ Answers(q, a)
         /\ a.role = "assistant" /\ a.turn = turn /\ a.round = round + 1
         /\ \A i \in 1..Len(q) : q[i].turn = turn
  BY <1>2, <1>6, <1>7, <1>8, Zenon
<1>10. QED
  BY <1>1, <1>9 DEF Replied

LEMMA ReplyAskedAgain ==
    ASSUME Scalars, Lists, Shape, Scalars', Lists', NEW reason, Reask(reason)
    PROVE  Replied
<1>1. /\ phase = "ask" /\ phase' = "ask" /\ todo = <<>> /\ todo' = <<>>
      /\ group' = group /\ turn' = turn /\ round' = round + 1
      /\ UNCHANGED <<group, turns, completed, older, history>>
  BY DEF Reask, NextRound, Shape, memoryVars
<1> DEFINE m == Spoken({})
           u == Said("user", round + 1, {}, FALSE)
<1>2. /\ m \in Message /\ Entry(m) \in EntrySet
      /\ Entry(m).role = "assistant" /\ Entry(m).turn = turn
      /\ Entry(m).round = round + 1 /\ Entry(m).ids = {}
  BY SpokenEntry
<1>3. /\ u \in Message /\ Entry(u) \in EntrySet /\ Entry(u).role = "user"
      /\ Entry(u).turn = turn /\ Entry(u).round = round + 1
  <2>1. round + 1 \in Nat /\ {} \in SUBSET (CallIds \union {TextId})
    BY MemoryBounds DEF Scalars
  <2>2. u \in Message
    BY <2>1, Words
  <2>3. QED
    BY <2>2, EntryType, EntryFields DEF Said
<1>4. messages' = messages \o <<m, u>> /\ messages \in Seq(Message)
  BY DEF Reask, Lists
<1> HIDE DEF m, u
<1>5. messages' = (messages \o <<m>>) \o <<u>> /\ <<u>> \in Seq(Message)
  <2>1. <<m>> \in Seq(Message) /\ <<u>> \in Seq(Message) /\ <<m, u>> = <<m>> \o <<u>>
    <3>1. m \in Message /\ u \in Message
      BY <1>2, <1>3
    <3>2. QED
      BY <3>1, TwoIsOneAndOne
  <2>2. messages \o (<<m>> \o <<u>>) = (messages \o <<m>>) \o <<u>>
    BY <1>4, <2>1, ConcatAssociative
  <2>3. QED
    BY <1>4, <2>1, <2>2
<1>6. Follows(Line', Line, Entry(m), Entries(<<u>>) \o Due')
  BY <1>1, <1>2, <1>5, LineGrows
<1> DEFINE q == <<Entry(u)>>
<1>7. Entries(<<u>>) \o Due' = q
  <2>1. DueFacts'
    BY DueType, PTL
  <2>2. Due' = <<>>
    BY <1>1, <2>1 DEF DueFacts
  <2>3. Entries(<<u>>) = <<Entry(u)>>
    BY DEF Entries
  <2>4. QED
    BY <1>3, <2>2, <2>3
<1>8. q \in Seq(EntrySet) /\ Len(q) = 1 /\ q[1] = Entry(u)
      /\ \A i \in 1..Len(q) : q[i] = Entry(u)
  BY <1>3
<1> HIDE DEF q
<1>9. Answers(q, Entry(m))
  <2>1. \A i \in 1..Len(q) : q[i].role # "assistant" /\ q[i].round = Entry(m).round
                             /\ q[i].role # "tool"
    BY <1>2, <1>3, <1>8
  <2>2. Given(q, Entry(m).round) = {}
    BY <2>1, GivenElement
  <2>3. QED
    BY <1>2, <2>1, <2>2 DEF Answers, Apart, Whole
<1>10. \A i \in 1..Len(q) : q[i].turn = turn
  BY <1>3, <1>8
<1>11. Follows(Line', Line, Entry(m), q)
  BY <1>6, <1>7
<1>12. QED
  BY <1>1, <1>2, <1>8, <1>9, <1>10, <1>11 DEF Replied

(* A reply whose calls await their results.                                *)
LEMMA ReplyWithCalls ==
    ASSUME Scalars, Lists, Shape, Scalars', Lists', NextRound,
           NEW ids \in SUBSET CallIds, NEW answers,
           messages' = Append(messages, Spoken(ids)),
           phase' = "dispatch",
           UNCHANGED <<turn, memoryVars, older, history>>,
           \A i, j \in 1..Len(todo') : i # j => todo'[i].id # todo'[j].id,
           \A x : x \in answers <=> \E i \in 1..Len(todo') : todo'[i].id = x,
           Whole(ids, answers)
    PROVE  Replied
<1>1. /\ phase = "ask" /\ todo = <<>> /\ group' = group
      /\ turn' = turn /\ round' = round + 1
      /\ UNCHANGED <<group, turns, completed, older, history>>
  BY DEF NextRound, Shape, memoryVars
<1> DEFINE m == Spoken(ids)
           q == Due'
<1>2. /\ m \in Message /\ Entry(m) \in EntrySet
      /\ Entry(m).role = "assistant" /\ Entry(m).turn = turn
      /\ Entry(m).round = round + 1 /\ Entry(m).ids = ids
  BY SpokenEntry
<1> HIDE DEF m
<1>3. messages' = (messages \o <<m>>) \o <<>> /\ <<>> \in Seq(Message)
  <2>1. messages \in Seq(Message)
    BY DEF Lists
  <2>2. QED
    BY <1>2, <2>1, AppendIsFollowed DEF m
<1>4. Follows(Line', Line, Entry(m), Entries(<<>>) \o q)
  BY <1>1, <1>2, <1>3, LineGrows
<1>5. /\ q \in Seq(EntrySet) /\ Len(q) = Len(todo')
      /\ \A i \in 1..Len(q) :
            q[i] = [role |-> "tool", turn |-> turn', round |-> round',
                    ids |-> {todo'[i].id}]
  <2>1. DueFacts'
    BY DueType, PTL
  <2>2. QED
    BY <2>1 DEF DueFacts
<1> HIDE DEF q
<1>6. Entries(<<>>) \o q = q
  <2>1. Entries(<<>>) = <<>>
    BY DEF Entries
  <2>2. QED
    BY <1>5, <2>1
<1>7. \A i \in 1..Len(q) : /\ q[i].role = "tool" /\ q[i].turn = turn
                           /\ q[i].round = Entry(m).round
                           /\ q[i].ids = {todo'[i].id}
  <2> SUFFICES ASSUME NEW i \in 1..Len(q)
               PROVE  /\ q[i].role = "tool" /\ q[i].turn = turn
                      /\ q[i].round = Entry(m).round
                      /\ q[i].ids = {todo'[i].id}
    OBVIOUS
  <2>1. q[i] = [role |-> "tool", turn |-> turn', round |-> round',
                ids |-> {todo'[i].id}]
    BY <1>5
  <2>2. QED
    BY <1>1, <1>2, <2>1
<1>n. Len(q) = Len(todo')
  BY <1>5
<1>8. Apart(q)
  <2>1. \A j \in 1..Len(q) : q[j].ids # {}
    BY <1>7
  <2>2. \A i, j \in 1..Len(q) : i # j => q[i].ids \cap q[j].ids = {}
    BY <1>7, <1>n
  <2>3. QED
    BY <2>1, <2>2 DEF Apart
<1>9. Given(q, Entry(m).round) = answers
  <2>1. ASSUME NEW x
        PROVE  x \in Given(q, Entry(m).round) <=> x \in answers
    <3>1. x \in Given(q, Entry(m).round) <=> \E j \in 1..Len(q) : x \in q[j].ids
      BY <1>7, GivenElement
    <3>2. (\E j \in 1..Len(q) : x \in q[j].ids)
          <=> \E j \in 1..Len(todo') : todo'[j].id = x
      BY <1>n, <1>7
    <3>3. QED
      BY <3>1, <3>2
  <2>2. QED
    BY <2>1
<1>10. Answers(q, Entry(m))
  BY <1>2, <1>7, <1>8, <1>9 DEF Answers
<1>11. Follows(Line', Line, Entry(m), q)
  BY <1>4, <1>6
<1>12. \A i \in 1..Len(q) : q[i].turn = turn
  BY <1>7
<1>13. QED
  BY <1>1, <1>2, <1>5, <1>10, <1>11, <1>12 DEF Replied

LEMMA ReplyLine ==
    ASSUME Scalars, Lists, Shape, Scalars', Lists', Reply
    PROVE  Replied
<1>1. ASSUME NEW n \in CallIds, NEW missed \in SUBSET (1..n),
             AskCalls(1..n, missed)
      PROVE  Replied
  <2>1. 1..n \in SUBSET CallIds /\ IsFiniteSet(1..n)
    BY FS_Interval, MemoryBounds DEF CallIds
  <2>2. /\ IsFiniteSet((1..n) \ missed) /\ IsFiniteSet(missed)
        /\ (1..n) \ missed \subseteq CallIds /\ missed \subseteq CallIds
        /\ ((1..n) \ missed) \cap missed = {}
        /\ ((1..n) \ missed) \union missed = 1..n
    BY <2>1, FS_Subset
  <2>3. PICK first \in SetToSeqs((1..n) \ missed), last \in SetToSeqs(missed) :
           todo' = Calls(first, TRUE) \o Calls(last, FALSE)
    BY <1>1 DEF AskCalls
  <2>4. /\ \A i, j \in 1..Len(todo') : i # j => todo'[i].id # todo'[j].id
        /\ \A i \in 1..Len(todo') : todo'[i].id \in 1..n
        /\ \A x \in 1..n : \E i \in 1..Len(todo') : todo'[i].id = x
    <3> DEFINE A == (1..n) \ missed
               B == missed
               c == todo'
    <3>1. /\ IsFiniteSet(A) /\ IsFiniteSet(B) /\ A \subseteq CallIds
          /\ B \subseteq CallIds /\ A \cap B = {} /\ A \union B = 1..n
          /\ first \in SetToSeqs(A) /\ last \in SetToSeqs(B)
          /\ c = Calls(first, TRUE) \o Calls(last, FALSE)
      BY <2>2, <2>3
    <3> HIDE DEF A, B, c
    <3>2. Enumerates(Ids(c), Len(c), 1..n)
      <4> DEFINE e == Calls(first, TRUE) \o Calls(last, FALSE)
      <4>1. Enumerates(Ids(e), Len(e), A \union B)
        BY <3>1, CallsOfReply, Zenon
      <4> HIDE DEF e
      <4>2. c = e
        BY <3>1 DEF e
      <4>3. QED
        BY <3>1, <4>1, <4>2
    <3>3. \A i \in 1..Len(c) : Ids(c)[i] = c[i].id
      BY DEF Ids
    <3>4. QED
      BY <3>2, <3>3 DEF c, Enumerates
  <2>5. \A x : x \in 1..n <=> \E i \in 1..Len(todo') : todo'[i].id = x
    BY <2>4
  <2>6. Whole(1..n, 1..n)
    BY DEF Whole
  <2>7. /\ NextRound /\ messages' = Append(messages, Spoken(1..n))
        /\ phase' = "dispatch"
        /\ UNCHANGED <<turn, memoryVars, older, history>>
    BY <1>1 DEF AskCalls, memoryVars
  <2>8. QED
    BY <2>1, <2>4, <2>5, <2>6, <2>7, ReplyWithCalls
<1>2. ASSUME NEW b \in BOOLEAN, AskText(b) PROVE Replied
  <2>1. /\ NextRound /\ messages' = Append(messages, Spoken({}))
        /\ phase' = "dispatch" /\ todo' = <<[id |-> TextId, valid |-> b]>>
        /\ UNCHANGED <<turn, memoryVars, older, history>>
    BY <1>2 DEF AskText, memoryVars
  <2>2. Len(todo') = 1 /\ todo'[1].id = TextId
    BY <2>1
  <2>3. \A x : x \in {TextId} <=> \E i \in 1..Len(todo') : todo'[i].id = x
    BY <2>2
  <2>4. \A i, j \in 1..Len(todo') : i # j => todo'[i].id # todo'[j].id
    BY <2>2
  <2>5. Whole({}, {TextId}) /\ {} \in SUBSET CallIds
    BY DEF Whole
  <2>6. QED
    BY <2>1, <2>3, <2>4, <2>5, ReplyWithCalls
<1>3. ASSUME NEW reason \in {"empty", "blocked"}, Reask(reason) PROVE Replied
  BY <1>3, ReplyAskedAgain
<1>4. CASE EmptyAgain
  <2>1. /\ NextRound /\ messages' = Append(messages, Spoken({}))
        /\ phase' \in {"ask", "record"}
        /\ UNCHANGED <<turn, todo, memoryVars, older, history>>
    BY <1>4 DEF EmptyAgain, NextRound, memoryVars
  <2>2. QED
    BY <2>1, ReplyAlone
<1>5. CASE Answer
  <2>1. /\ NextRound /\ messages' = Append(messages, Spoken({}))
        /\ phase' \in {"ask", "record"}
        /\ UNCHANGED <<turn, todo, memoryVars, older, history>>
    BY <1>5 DEF Answer, NextRound, memoryVars
  <2>2. QED
    BY <2>1, ReplyAlone
<1>6. QED
  BY <1>1, <1>2, <1>3, <1>4, <1>5 DEF Reply

(* What each step of _record_turn does to the line.                        *)

LEMMA LineOfExtend ==
    ASSUME Scalars, Lists, Shape, Scalars', Lists', ExtendGroup
    PROVE  Line' = Line
<1>1. /\ phase = "record" /\ phase' = "record" /\ messages # <<>> /\ group # <<>>
      /\ group' = <<[group[1] EXCEPT !.results = Append(@, Head(messages))]>>
      /\ messages' = Tail(messages) /\ todo = <<>> /\ todo' = <<>>
  BY DEF ExtendGroup, Shape
<1> DEFINE a == group[1].assistant
           r == group[1].results
           x == Head(messages)
           rest == Tail(messages)
<1>2. /\ group[1] \in Turn /\ messages \in Seq(Message)
  BY <1>1, HeldType DEF Lists
<1>3. a \in Message /\ r \in Seq(Message)
      /\ group[1] = [assistant |-> a, results |-> r]
  BY <1>2 DEF Turn
<1>4. x \in Message /\ rest \in Seq(Message) /\ messages = <<x>> \o rest
  BY <1>1, <1>2
<1> HIDE DEF a, r, x, rest
<1>5. group' = <<[assistant |-> a, results |-> Append(r, x)]>>
  <2>1. \A b, q, z : [[assistant |-> b, results |-> q] EXCEPT !.results = z]
                     = [assistant |-> b, results |-> z]
    OBVIOUS
  <2> DEFINE g == group[1]
  <2> HIDE DEF g
  <2>2. group' = <<[g EXCEPT !.results = Append(g.results, x)]>>
    BY <1>1 DEF g, x
  <2>3. g = [assistant |-> a, results |-> r] /\ g.results = r
    BY <1>3 DEF g
  <2>4. [g EXCEPT !.results = Append(g.results, x)]
        = [assistant |-> a, results |-> Append(r, x)]
    <3> DEFINE z == Append(g.results, x)
    <3> HIDE DEF z
    <3>1. [g EXCEPT !.results = z] = [assistant |-> a, results |-> z]
      BY <2>1, <2>3
    <3>2. z = Append(r, x)
      BY <2>3 DEF z
    <3>3. QED
      BY <3>1, <3>2 DEF z
  <2>5. QED
    BY <2>2, <2>4
<1>6. Held = <<a>> \o r
  BY <1>1 DEF Held, a, r
<1>7. Held' = <<a>> \o Append(r, x)
  BY <1>5 DEF Held
<1>8. <<a>> \o Append(r, x) = (<<a>> \o r) \o <<x>>
  <2>1. <<a>> \in Seq(Message) /\ <<x>> \in Seq(Message)
    BY <1>3, <1>4
  <2>2. Append(r, x) = r \o <<x>>
    BY <1>3, <1>4, AppendIsConcat
  <2>3. <<a>> \o (r \o <<x>>) = (<<a>> \o r) \o <<x>>
    BY <1>3, <2>1, ConcatAssociative
  <2>4. QED
    BY <2>2, <2>3
<1> DEFINE h == <<a>> \o r
<1>9. h \in Seq(Message) /\ <<x>> \in Seq(Message)
  BY <1>3, <1>4
<1> HIDE DEF h
<1>10. (h \o <<x>>) \o rest = h \o (<<x>> \o rest)
  BY <1>4, <1>9, ConcatAssociative
<1>11. Held' \o messages' = Held \o messages
  BY <1>1, <1>4, <1>6, <1>7, <1>8, <1>10 DEF h, rest
<1>12. Line = Entries(Held \o messages)
  BY <1>1, LineType DEF LineFacts
<1>13. Line' = Entries(Held' \o messages')
  <2>1. LineFacts'
    BY LineType, PTL
  <2>2. QED
    BY <1>1, <2>1 DEF LineFacts
<1>14. QED
  BY <1>11, <1>12, <1>13 DEF Entries

(* What closing a record does to the line: its round is gone from the      *)
(* front.                                                                  *)
Shortened ==
    LET h == Len(Held)
        n == Len(Line')
    IN  /\ h \in Nat /\ n >= 1 /\ Len(Line) = h + n
        /\ \A i \in 1..n : Line'[i] = Line[h + i]
        /\ Line'[1].role = "assistant"

LEMMA LineOfStart ==
    ASSUME Scalars, Lists, Shape, Scalars', Lists', StartGroup
    PROVE  Shortened
<1>1. /\ phase = "record" /\ messages # <<>>
      /\ Head(messages).role = "assistant"
      /\ group' = <<[assistant |-> Head(messages), results |-> <<>>]>>
      /\ messages' = Tail(messages) /\ todo = <<>> /\ todo' = <<>>
  BY DEF StartGroup, Shape
<1> DEFINE x == Head(messages)
           rest == Tail(messages)
           h == Len(Held)
           n == Len(messages)
<1>2. messages \in Seq(Message) /\ n \in Nat /\ n >= 1
  <2>1. messages \in Seq(Message)
    BY DEF Lists
  <2>2. QED
    BY <1>1, <2>1
<1>3. x \in Message /\ rest \in Seq(Message) /\ messages = <<x>> \o rest
  BY <1>1, <1>2
<1>4. Held' \o messages' = messages
  <2>1. Held' = <<x>> \o <<>>
    BY <1>1 DEF Held
  <2> HIDE DEF x, rest
  <2>2. <<x>> \o <<>> = <<x>>
    BY <1>3
  <2>3. QED
    BY <1>1, <1>3, <2>1, <2>2 DEF rest
<1>5. Line' = Entries(messages)
  <2>1. LineFacts'
    BY LineType, PTL
  <2>2. QED
    BY <1>1, <1>4, <2>1 DEF LineFacts, Entries
<1>6. Len(Line') = n /\ \A i \in 1..n : Line'[i] = Entry(messages[i])
  BY <1>2, <1>5, EntriesType
<1>7. h \in Nat
  BY HeldType
<1>8. Recorded
  BY <1>1, LineRecorded
<1> HIDE DEF h, n
<1>9. Len(Line) = h + n /\ \A i \in 1..n : Line[h + i] = Entry(messages[i])
  BY <1>1, <1>8 DEF Recorded, h, n
<1>10. \A i \in 1..n : Line'[i] = Line[h + i]
  BY <1>6, <1>9
<1>11. Line'[1].role = "assistant"
  <2>1. 1 \in 1..n /\ messages[1].role = "assistant"
    BY <1>1, <1>2 DEF n
  <2>2. QED
    BY <1>6, <2>1, EntryFields
<1>12. QED
  BY <1>2, <1>6, <1>7, <1>9, <1>10, <1>11 DEF Shortened, h

(* What passing over a message that is in no record does to the line.      *)
Skipped ==
    LET h == Len(Held)
    IN  /\ h \in Nat /\ Without(Line', Line, h)
        /\ Line[h + 1].role = "user"

LEMMA LineOfSkip ==
    ASSUME Scalars, Lists, Shape, Orderly, Scalars', Lists', SkipMessage
    PROVE  Skipped
<1>1. /\ phase = "record" /\ phase' = "record" /\ messages # <<>>
      /\ Head(messages).role # "assistant"
      /\ ~(Head(messages).role = "tool" /\ group # <<>>)
      /\ group' = group
      /\ messages' = Tail(messages) /\ todo = <<>> /\ todo' = <<>>
  BY DEF SkipMessage, Shape, memoryVars
<1> DEFINE h == Len(Held)
           n == Len(messages)
<1>2. messages \in Seq(Message) /\ n \in Nat /\ n >= 1
  <2>1. messages \in Seq(Message)
    BY DEF Lists
  <2>2. QED
    BY <1>1, <2>1
<1>3. /\ Len(messages') = n - 1
      /\ \A i \in 1..(n - 1) : messages'[i] = messages[i + 1]
      /\ Head(messages) = messages[1] /\ messages[1] \in Message
  BY <1>1, <1>2
<1>4. Recorded
  BY <1>1, LineRecorded
<1>5. Recorded'
  BY LineRecorded, PTL
<1>6. Held' = Held
  BY <1>1 DEF Held
<1>7. h \in Nat
  BY HeldType
<1> HIDE DEF h, n
<1>8. /\ Len(Line) = h + n
      /\ \A i \in 1..h : Line[i] = Entry(Held[i])
      /\ \A i \in 1..n : Line[h + i] = Entry(messages[i])
  BY <1>1, <1>4 DEF Recorded, h, n
<1>9. /\ Len(Line') = h + (n - 1)
      /\ \A i \in 1..h : Line'[i] = Entry(Held[i])
      /\ \A i \in 1..(n - 1) : Line'[h + i] = Entry(messages[i + 1])
  BY <1>1, <1>3, <1>5, <1>6 DEF Recorded, h
<1>10. Without(Line', Line, h)
  <2>1. h < Len(Line) /\ Len(Line) = Len(Line') + 1
    BY <1>2, <1>7, <1>8, <1>9
  <2>2. \A i \in 1..h : Line'[i] = Line[i]
    BY <1>8, <1>9
  <2>3. ASSUME NEW i \in (h + 1)..Len(Line') PROVE Line'[i] = Line[i + 1]
    <3> DEFINE k == i - h
    <3>1. k \in 1..(n - 1) /\ k + 1 \in 1..n /\ h + k = i /\ h + (k + 1) = i + 1
      BY <1>2, <1>7, <1>9
    <3> HIDE DEF k
    <3>2. Line'[h + k] = Entry(messages[k + 1])
      BY <1>9, <3>1
    <3>3. Line[h + (k + 1)] = Entry(messages[k + 1])
      BY <1>8, <3>1
    <3>4. QED
      BY <3>1, <3>2, <3>3
  <2>4. QED
    BY <2>1, <2>2, <2>3 DEF Without
<1>11. Line[h + 1].role = "user"
  <2>1. Line[h + 1] = Entry(messages[1]) /\ h + 1 \in 1..Len(Line)
    <3>1. 1 \in 1..n /\ h + 1 \in 1..(h + n)
      BY <1>2, <1>7
    <3>2. Line[h + 1] = Entry(messages[1])
      BY <1>8, <3>1
    <3>3. QED
      BY <1>8, <3>1, <3>2
  <2>2. CASE messages[1].role = "tool"
    <3>1. h = 0
      BY <1>1, <1>3, <2>2, HeldType DEF h
    <3>2. Owned(Line)
      BY DEF Orderly, Tidy
    <3>3. 1 \in 1..Len(Line) /\ Line[1].role = "tool"
      BY <2>1, <2>2, <3>1, EntryFields
    <3>4. \E i \in 1..Len(Line) : i < 1
      BY <3>2, <3>3 DEF Owned
    <3>5. QED
      BY <3>4
  <2>3. CASE messages[1].role = "user"
    BY <2>1, <2>3, EntryFields
  <2>4. messages[1].role \in {"assistant", "tool", "user"}
    BY <1>3 DEF Message
  <2>5. QED
    BY <1>1, <1>3, <2>2, <2>3, <2>4
<1>12. QED
  BY <1>7, <1>10, <1>11 DEF Skipped, h

LEMMA FollowsAll ==
    ASSUME NEW s \in Seq(EntrySet), NEW a, NEW q \in Seq(EntrySet), NEW t,
           Follows(t, s, a, q), NEW i \in 1..Len(t)
    PROVE  \/ i \in 1..Len(s) /\ t[i] = s[i]
           \/ i = Len(s) + 1 /\ t[i] = a
           \/ \E k \in 1..Len(q) : i = Len(s) + 1 + k /\ t[i] = q[k]
<1> DEFINE n == Len(s)
           m == Len(q)
<1>1. n \in Nat /\ m \in Nat
  OBVIOUS
<1> HIDE DEF n, m
<1>2. /\ Len(t) = n + 1 + m
      /\ \A k \in 1..n : t[k] = s[k]
      /\ t[n + 1] = a
      /\ \A k \in 1..m : t[n + 1 + k] = q[k]
  BY DEF Follows, n, m
<1>3. CASE i <= n
  <2>1. i \in 1..n
    BY <1>1, <1>2, <1>3
  <2>2. QED
    BY <1>2, <2>1 DEF n
<1>4. CASE i = n + 1
  BY <1>2, <1>4 DEF n
<1>5. CASE i > n + 1
  <2> DEFINE k == i - (n + 1)
  <2>1. k \in 1..m /\ i = n + 1 + k
    BY <1>1, <1>2, <1>5
  <2> HIDE DEF k
  <2>2. t[i] = q[k]
    BY <1>2, <2>1
  <2>3. QED
    BY <2>1, <2>2 DEF n, m
<1>6. QED
  BY <1>1, <1>2, <1>3, <1>4, <1>5

Silent == (group = <<>> /\ messages = <<>> /\ todo = <<>>) => Line = <<>>

LEMMA LineSilent == Scalars /\ Lists => Silent
BY LineEmpty DEF Silent

LEMMA SilentAfter ==
    ASSUME Scalars', Lists', group' = <<>>, messages' = <<>>, todo' = <<>>
    PROVE  Line' = <<>>
<1>1. Silent'
  BY LineSilent, PTL
<1>2. QED
  BY <1>1 DEF Silent

LEMMA InitShape == Init => Shape
<1> SUFFICES ASSUME Init PROVE Shape
  OBVIOUS
<1>1. Line = <<>>
  BY InitScalars, InitLists, LineSilent DEF Init, Silent
<1>2. QED
  BY <1>1 DEF Init, Shape

LEMMA StepShape ==
    Scalars /\ Lists /\ Orderly /\ Shape /\ [Next]_vars => Shape'
<1> SUFFICES ASSUME Scalars, Lists, Orderly, Shape, [Next]_vars
             PROVE  Shape'
  OBVIOUS
<1>0. Scalars' /\ Lists'
  BY StepScalars, StepLists
<1>1. CASE EvictOldest
  <2>1. Line' = Line
    BY <1>1, LineSame DEF EvictOldest, turnVars, memoryVars
  <2>2. QED
    BY <1>1, <2>1 DEF EvictOldest, turnVars, memoryVars, Shape
<1>2. CASE ShowHistory
  <2>1. Line' = Line
    BY <1>2, LineSame DEF ShowHistory, turnVars, memoryVars
  <2>2. QED
    BY <1>2, <2>1 DEF ShowHistory, turnVars, memoryVars, Shape
<1>3. CASE CapReached
  <2>1. Line' = Line
    BY <1>3, LineSame DEF CapReached, turnVars, memoryVars
  <2>2. QED
    BY <1>3, <2>1 DEF CapReached, turnVars, memoryVars, Shape
<1>4. CASE RoundEnds
  <2>1. Line' = Line
    BY <1>4, LineSame DEF RoundEnds, turnVars, memoryVars
  <2>2. QED
    BY <1>4, <2>1 DEF RoundEnds, turnVars, memoryVars, Shape
<1>5. CASE UNCHANGED vars
  <2>1. Line' = Line
    BY <1>5, LineSame DEF vars, turnVars, memoryVars
  <2>2. QED
    BY <1>5, <2>1 DEF vars, turnVars, memoryVars, Shape
<1>6. ASSUME NEW b \in BOOLEAN, Result(b) PROVE Shape'
  <2>1. Line' = Line
    BY <1>0, <1>6, LineOfResult
  <2>2. QED
    BY <1>6, <2>1 DEF Result, turnVars, memoryVars, Shape
<1>7. CASE Reply
  <2>1. Replied
    BY <1>0, <1>7, ReplyLine
  <2>2. PICK a \in EntrySet, q \in Seq(EntrySet) :
           /\ Follows(Line', Line, a, q) /\ Answers(q, a)
           /\ a.turn = turn /\ a.round = round + 1
           /\ \A i \in 1..Len(q) : q[i].turn = turn
    BY <2>1 DEF Replied
  <2>3. Line \in Seq(EntrySet) /\ round \in Nat
    BY LineType, MemoryBounds DEF LineFacts, Scalars
  <2>4. \A i \in 1..Len(q) : q[i].round = round + 1
    BY <2>2 DEF Answers
  <2>5. \A i \in 1..Len(Line) : Line[i].turn = turn /\ Line[i].round <= round
    BY DEF Shape
  <2>6. \A i \in 1..Len(Line) : Line[i].round \in Nat
    <3>1. \A e \in EntrySet : e.round \in Nat
      BY DEF EntrySet
    <3>2. QED
      BY <2>3, <3>1
  <2>7. ASSUME NEW i \in 1..Len(Line')
        PROVE  Line'[i].turn = turn /\ Line'[i].round <= round + 1
    <3>1. CASE i \in 1..Len(Line) /\ Line'[i] = Line[i]
      BY <2>3, <2>5, <2>6, <3>1
    <3>2. CASE Line'[i] = a
      BY <2>2, <2>3, <3>2
    <3>3. CASE \E k \in 1..Len(q) : Line'[i] = q[k]
      BY <2>2, <2>3, <2>4, <3>3
    <3>4. QED
      BY <2>2, <2>3, <3>1, <3>2, <3>3, FollowsAll
  <2>8. group = <<>> /\ group' = <<>>
    BY <2>1 DEF Shape, Replied
  <2>9. QED
    BY <2>1, <2>7, <2>8 DEF Replied, Shape
<1>8. ASSUME NEW b \in BOOLEAN, RunTurn(b) PROVE Shape'
  <2>1. /\ phase = "prompt" /\ group' = <<>> /\ messages' = <<>> /\ todo' = <<>>
        /\ round' = 0 /\ phase' \in {"evict", "ask"}
    BY <1>8 DEF RunTurn, memoryVars, Shape
  <2>2. Line' = <<>>
    BY <1>0, <2>1, SilentAfter
  <2>3. QED
    BY <2>1, <2>2 DEF Shape
<1>9. CASE Abort
  <2>1. /\ group' = <<>> /\ messages' = <<>> /\ todo' = <<>> /\ round' = 0
        /\ phase' = "prompt"
    BY <1>9 DEF Abort, TurnOver
  <2>2. Line' = <<>>
    BY <1>0, <2>1, SilentAfter
  <2>3. QED
    BY <2>1, <2>2 DEF Shape
<1>10. CASE TurnReturns
  <2>1. /\ group' = <<>> /\ messages' = <<>> /\ todo' = <<>> /\ round' = 0
        /\ phase' = "prompt"
    BY <1>10 DEF TurnReturns, TurnOver
  <2>2. Line' = <<>>
    BY <1>0, <2>1, SilentAfter
  <2>3. QED
    BY <2>1, <2>2 DEF Shape
<1>11. CASE StartGroup
  <2>1. /\ phase = "record" /\ phase' = "record" /\ todo' = <<>>
        /\ turn' = turn /\ round' = round
        /\ group' = <<[assistant |-> Head(messages), results |-> <<>>]>>
        /\ Head(messages).role = "assistant"
    BY <1>11 DEF StartGroup, turnVars, Shape
  <2>2. Shortened
    BY <1>0, <1>11, LineOfStart
  <2>3. /\ group'[1].assistant.role = "assistant"
        /\ \A i \in DOMAIN group'[1].results : group'[1].results[i].role = "tool"
    BY <2>1
  <2>4. ASSUME NEW i \in 1..Len(Line')
        PROVE  Line'[i].turn = turn /\ Line'[i].round <= round
    <3> DEFINE h == Len(Held)
               n == Len(Line')
    <3>1. h \in Nat /\ Len(Line) = h + n /\ Line'[i] = Line[h + i] /\ n \in Nat
      <4>1. Line' \in Seq(EntrySet)
        <5>1. LineFacts'
          BY <1>0, LineType, PTL
        <5>2. QED
          BY <5>1 DEF LineFacts
      <4>2. QED
        BY <2>2, <4>1 DEF Shortened
    <3>2. h + i \in 1..Len(Line)
      BY <3>1
    <3> HIDE DEF h
    <3>3. QED
      BY <3>1, <3>2 DEF Shape
  <2>5. QED
    BY <2>1, <2>3, <2>4 DEF Shape
<1>12. CASE ExtendGroup
  <2>1. /\ phase = "record" /\ phase' = "record" /\ todo' = <<>>
        /\ turn' = turn /\ round' = round /\ group # <<>> /\ messages # <<>>
        /\ group' = <<[group[1] EXCEPT !.results = Append(@, Head(messages))]>>
        /\ Head(messages).role = "tool"
    BY <1>12 DEF ExtendGroup, turnVars, Shape
  <2>2. Line' = Line
    BY <1>0, <1>12, LineOfExtend
  <2> DEFINE g == group[1]
             r == group[1].results
             x == Head(messages)
  <2>3. /\ g \in Turn /\ r \in Seq(Message) /\ x \in Message
        /\ g.assistant.role = "assistant"
        /\ \A i \in DOMAIN r : r[i].role = "tool"
    <3>1. g \in Turn
      BY <2>1, HeldType
    <3>2. r \in Seq(Message)
      BY <3>1 DEF Turn
    <3>3. x \in Message
      BY <2>1 DEF Lists
    <3>4. QED
      BY <2>1, <3>1, <3>2, <3>3 DEF Shape
  <2>4. group'[1].assistant = g.assistant /\ group'[1].results = Append(r, x)
    BY <2>1, <2>3 DEF Turn
  <2>5. \A i \in DOMAIN Append(r, x) : Append(r, x)[i].role = "tool"
    BY <2>1, <2>3
  <2>6. QED
    BY <2>1, <2>2, <2>3, <2>4, <2>5 DEF Shape
<1>13. CASE SkipMessage
  <2>1. /\ phase = "record" /\ phase' = "record" /\ todo' = <<>>
        /\ turn' = turn /\ round' = round /\ group' = group
    BY <1>13 DEF SkipMessage, turnVars, memoryVars, Shape
  <2>2. Skipped
    BY <1>0, <1>13, LineOfSkip
  <2>3. ASSUME NEW i \in 1..Len(Line')
        PROVE  Line'[i].turn = turn /\ Line'[i].round <= round
    <3> DEFINE h == Len(Held)
               n == Len(Line')
    <3>1. Line' \in Seq(EntrySet)
      <4>1. LineFacts'
        BY <1>0, LineType, PTL
      <4>2. QED
        BY <4>1 DEF LineFacts
    <3>2. /\ h \in Nat /\ n \in Nat /\ Len(Line) = n + 1
          /\ \A k \in 1..h : Line'[k] = Line[k]
          /\ \A k \in (h + 1)..n : Line'[k] = Line[k + 1]
      BY <2>2, <3>1 DEF Skipped, Without
    <3> HIDE DEF h
    <3>3. \E k \in 1..Len(Line) : Line'[i] = Line[k]
      <4>1. CASE i <= h
        <5>1. i \in 1..h /\ i \in 1..Len(Line)
          BY <3>2, <4>1
        <5>2. QED
          BY <3>2, <5>1
      <4>2. CASE i > h
        <5>1. i \in (h + 1)..n /\ i + 1 \in 1..Len(Line)
          BY <3>2, <4>2
        <5>2. QED
          BY <3>2, <5>1
      <4>3. QED
        BY <3>2, <4>1, <4>2
    <3>4. QED
      BY <3>3 DEF Shape
  <2>4. QED
    BY <2>1, <2>3 DEF Shape
<1>14. CASE SessionOver
  BY <1>5, <1>14 DEF SessionOver
<1>15. QED
  BY <1>1, <1>2, <1>3, <1>4, <1>5, <1>6, <1>7, <1>8, <1>9, <1>10, <1>11,
     <1>12, <1>13, <1>14 DEF Next

LEMMA AnsweredOneAfterOther ==
    ASSUME NEW s \in Seq(Turn), NEW t \in Seq(Turn), AllAnswered(s), AllAnswered(t)
    PROVE  AllAnswered(s \o t)
<1>1. /\ Len(s \o t) = Len(s) + Len(t) /\ s \o t \in Seq(Turn)
      /\ \A i \in 1..(Len(s) + Len(t)) :
            (s \o t)[i] = IF i <= Len(s) THEN s[i] ELSE t[i - Len(s)]
  BY ConcatProperties
<1>2. /\ \A i \in 1..Len(s) : Answered(s[i])
      /\ \A i \in 1..Len(t) : Answered(t[i])
  BY DEF AllAnswered
<1>3. ASSUME NEW i \in 1..(Len(s) + Len(t)) PROVE Answered((s \o t)[i])
  <2>1. CASE i <= Len(s)
    <3>1. i \in 1..Len(s)
      BY <2>1
    <3>2. QED
      BY <1>1, <1>2, <2>1, <3>1
  <2>2. CASE ~(i <= Len(s))
    <3>1. i - Len(s) \in 1..Len(t)
      BY <2>2
    <3>2. QED
      BY <1>1, <1>2, <2>2, <3>1
  <2>3. QED
    BY <2>1, <2>2
<1>4. DOMAIN (s \o t) = 1..(Len(s) + Len(t))
  BY <1>1
<1>5. QED
  BY <1>3, <1>4 DEF AllAnswered

LEMMA ClosedAnswered ==
    ASSUME Scalars, Lists, Shape, Orderly, phase = "record",
           messages = <<>> \/ messages[1].role = "assistant"
    PROVE  AllAnswered(turns \o group)
<1>1. turns \in Seq(Turn) /\ group \in Seq(Turn) /\ Len(group) <= 1
      /\ AllAnswered(turns)
  BY DEF Lists, Orderly
<1>2. AllAnswered(group)
  <2>1. CASE group = <<>>
    BY <2>1 DEF AllAnswered
  <2>2. CASE group # <<>>
    <3>1. Answered(group[1])
      BY <2>2, GroupAnswered
    <3>2. \A i \in DOMAIN group : i = 1
      BY <1>1
    <3>3. QED
      BY <3>1, <3>2 DEF AllAnswered
  <2>3. QED
    BY <2>1, <2>2
<1>3. QED
  BY <1>1, <1>2, AnsweredOneAfterOther

LEMMA InitOrderly == Init => Orderly
<1> SUFFICES ASSUME Init PROVE Orderly
  OBVIOUS
<1>1. Line = <<>>
  BY InitScalars, InitLists, LineSilent DEF Init, Silent
<1>2. QED
  BY <1>1, TidyEmpty DEF Init, Orderly, AllAnswered

LEMMA StepOrderly ==
    Scalars /\ Lists /\ Shape /\ Orderly /\ [Next]_vars => Orderly'
<1> SUFFICES ASSUME Scalars, Lists, Shape, Orderly, [Next]_vars
             PROVE  Orderly'
  OBVIOUS
<1>0. Scalars' /\ Lists'
  BY StepScalars, StepLists
<1>1. CASE EvictOldest
  <2>1. Line' = Line
    BY <1>1, LineSame DEF EvictOldest, turnVars, memoryVars
  <2>2. AllAnswered(Tail(older))
    <3>1. older \in Seq(Turn) /\ older # <<>> /\ AllAnswered(older)
      BY <1>1 DEF EvictOldest, Lists, Orderly
    <3>2. \A i \in DOMAIN Tail(older) : /\ Tail(older)[i] = older[i + 1]
                                        /\ i + 1 \in DOMAIN older
      BY <3>1
    <3>3. QED
      BY <3>1, <3>2 DEF AllAnswered
  <2>3. QED
    BY <1>1, <2>1, <2>2 DEF EvictOldest, memoryVars, Orderly
<1>2. CASE ShowHistory
  <2>1. Line' = Line
    BY <1>2, LineSame DEF ShowHistory, turnVars, memoryVars
  <2>2. older \in Seq(Turn) /\ turns \in Seq(Turn) /\ Window(turns) \in Seq(Turn)
    BY WindowType DEF Lists
  <2>3. AllAnswered(Window(turns))
    <3>1. \A i \in 1..Len(Window(turns)) :
             Window(turns)[i] = turns[Len(turns) - Len(Window(turns)) + i]
      BY <2>2, WindowType
    <3>2. Len(Window(turns)) <= Len(turns)
      BY <2>2, WindowType
    <3>3. \A i \in 1..Len(Window(turns)) :
             Len(turns) - Len(Window(turns)) + i \in 1..Len(turns)
      BY <2>2, <3>2
    <3>4. \A i \in 1..Len(turns) : Answered(turns[i])
      BY <2>2 DEF Orderly, AllAnswered
    <3>5. \A i \in 1..Len(Window(turns)) : Answered(Window(turns)[i])
      BY <3>1, <3>3, <3>4
    <3>6. QED
      BY <2>2, <3>5 DEF AllAnswered
  <2>4. AllAnswered(older \o Window(turns))
    BY <2>2, <2>3, AnsweredOneAfterOther DEF Orderly
  <2>5. AllAnswered(<<>>)
    BY DEF AllAnswered
  <2>6. QED
    BY <1>2, <2>1, <2>4, <2>5 DEF ShowHistory, memoryVars, Orderly
<1>3. CASE CapReached
  <2>1. Line' = Line
    BY <1>3, LineSame DEF CapReached, turnVars, memoryVars
  <2>2. QED
    BY <1>3, <2>1 DEF CapReached, turnVars, memoryVars, Orderly
<1>4. CASE RoundEnds
  <2>1. Line' = Line
    BY <1>4, LineSame DEF RoundEnds, turnVars, memoryVars
  <2>2. QED
    BY <1>4, <2>1 DEF RoundEnds, turnVars, memoryVars, Orderly
<1>5. CASE UNCHANGED vars
  <2>1. Line' = Line
    BY <1>5, LineSame DEF vars, turnVars, memoryVars
  <2>2. QED
    BY <1>5, <2>1 DEF vars, turnVars, memoryVars, Orderly
<1>6. ASSUME NEW b \in BOOLEAN, Result(b) PROVE Orderly'
  <2>1. Line' = Line
    BY <1>0, <1>6, LineOfResult
  <2>2. QED
    BY <1>6, <2>1 DEF Result, turnVars, memoryVars, Orderly
<1>7. CASE Reply
  <2>1. Replied
    BY <1>0, <1>7, ReplyLine
  <2>2. PICK a \in EntrySet, q \in Seq(EntrySet) :
           /\ Follows(Line', Line, a, q) /\ Answers(q, a)
           /\ a.role = "assistant" /\ a.round = round + 1
    BY <2>1 DEF Replied
  <2>3. Line \in Seq(EntrySet) /\ Line' \in Seq(EntrySet) /\ round \in Nat
    <3>1. LineFacts'
      BY <1>0, LineType, PTL
    <3>2. QED
      BY <3>1, LineType, MemoryBounds DEF LineFacts, Scalars
  <2>4. \A i \in 1..Len(Line) : Line[i].round < a.round
    <3>1. \A e \in EntrySet : e.round \in Nat
      BY DEF EntrySet
    <3>2. \A i \in 1..Len(Line) : Line[i].round \in Nat /\ Line[i].round <= round
      BY <2>3, <3>1 DEF Shape
    <3>3. QED
      BY <2>2, <2>3, <3>2
  <2>5. Tidy(Line) /\ Follows(Line', Line, a, q) /\ Answers(q, a)
        /\ a.role = "assistant" /\ Precedes(Line, a)
    BY <2>2, <2>4 DEF Orderly, Precedes
  <2>6. Tidy(Line')
    BY <2>3, <2>4, <2>5, TidyReply
  <2>7. QED
    BY <2>1, <2>6 DEF Replied, Orderly
<1>8. ASSUME NEW b \in BOOLEAN, RunTurn(b) PROVE Orderly'
  <2>1. /\ group' = <<>> /\ messages' = <<>> /\ todo' = <<>>
        /\ turns' = turns /\ history' = history
        /\ older' = Compacted(Before(turns)) \/ older' = <<>>
    BY <1>8 DEF RunTurn, memoryVars, Shape
  <2>2. Line' = <<>>
    BY <1>0, <2>1, SilentAfter
  <2>3. AllAnswered(Compacted(Before(turns)))
    <3>1. /\ turns \in Seq(Turn) /\ Before(turns) \in Seq(Turn)
          /\ \A i \in 1..Len(Before(turns)) : Before(turns)[i] = turns[i]
      BY WindowType DEF Lists
    <3>2. Len(Before(turns)) <= Len(turns)
      <4>1. Len(Before(turns)) = Len(turns) - Len(Window(turns))
        BY <3>1, WindowType
      <4>2. Window(turns) \in Seq(Turn)
        BY <3>1, WindowType
      <4>3. QED
        BY <3>1, <4>1, <4>2
    <3>3. \A i \in 1..Len(turns) : Answered(turns[i]) /\ turns[i] \in Turn
      BY <3>1 DEF Orderly, AllAnswered
    <3>4. \A i \in 1..Len(Before(turns)) :
             Answered(Before(turns)[i]) /\ Before(turns)[i] \in Turn
      BY <3>1, <3>2, <3>3
    <3> DEFINE front == Before(turns)
               short == Compacted(front)
    <3>5. short \in Seq(Turn) /\ Len(short) = Len(front)
          /\ \A i \in 1..Len(front) : short[i] = Compact(front[i])
      BY <3>1, CompactedType
    <3> HIDE DEF front, short
    <3>6. \A i \in 1..Len(front) : Answered(front[i]) /\ front[i] \in Turn
      BY <3>4 DEF front
    <3>7. \A i \in 1..Len(short) : Answered(short[i])
      BY <3>5, <3>6, CompactAnswered
    <3>8. AllAnswered(short)
      BY <3>5, <3>7 DEF AllAnswered
    <3>9. QED
      BY <3>8 DEF front, short
  <2>4. AllAnswered(<<>>)
    BY DEF AllAnswered
  <2>5. AllAnswered(older')
    BY <2>1, <2>3, <2>4
  <2>6. QED
    BY <2>1, <2>2, <2>5, TidyEmpty DEF Orderly
<1>9. CASE Abort
  <2>1. /\ group' = <<>> /\ messages' = <<>> /\ todo' = <<>>
        /\ turns' = turns /\ history' = <<>> /\ older' = older
    BY <1>9 DEF Abort, TurnOver
  <2>2. Line' = <<>>
    BY <1>0, <2>1, SilentAfter
  <2>3. AllAnswered(<<>>)
    BY DEF AllAnswered
  <2>4. QED
    BY <2>1, <2>2, <2>3, TidyEmpty DEF Orderly
<1>10. CASE TurnReturns
  <2>1. /\ group' = <<>> /\ messages' = <<>> /\ todo' = <<>>
        /\ turns' = turns \o group /\ history' = <<>> /\ older' = older
        /\ phase = "record" /\ messages = <<>>
    BY <1>10 DEF TurnReturns, TurnOver
  <2>2. Line' = <<>>
    BY <1>0, <2>1, SilentAfter
  <2>3. AllAnswered(<<>>)
    BY DEF AllAnswered
  <2>4. AllAnswered(turns \o group)
    BY <2>1, ClosedAnswered
  <2>5. QED
    BY <2>1, <2>2, <2>3, <2>4, TidyEmpty DEF Orderly
<1>11. CASE StartGroup
  <2>1. /\ phase = "record" /\ messages # <<>>
        /\ Head(messages).role = "assistant"
        /\ turns' = turns \o group /\ older' = older /\ history' = history
    BY <1>11 DEF StartGroup
  <2>2. AllAnswered(turns \o group)
    <3>1. messages[1].role = "assistant"
      <4>1. messages \in Seq(Message)
        BY DEF Lists
      <4>2. QED
        BY <2>1, <4>1
    <3>2. QED
      BY <2>1, <3>1, ClosedAnswered
  <2>3. Line \in Seq(EntrySet) /\ Line' \in Seq(EntrySet)
    <3>1. LineFacts'
      BY <1>0, LineType, PTL
    <3>2. QED
      BY <3>1, LineType DEF LineFacts
  <2>4. Shortened
    BY <1>0, <1>11, LineOfStart
  <2>5. Tidy(Line')
    <3> DEFINE h == Len(Held)
               t == Line'
    <3>1. /\ h \in Nat /\ Len(t) >= 1 /\ Len(Line) = h + Len(t)
          /\ \A i \in 1..Len(t) : t[i] = Line[h + i]
          /\ t[1].role = "assistant"
      BY <2>4 DEF Shortened
    <3>2. Tidy(Line) /\ t \in Seq(EntrySet)
      BY <2>3 DEF Orderly
    <3> HIDE DEF h, t
    <3>3. Tidy(t)
      BY <2>3, <3>1, <3>2, TidySuffix
    <3>4. QED
      BY <3>3 DEF t
  <2>6. QED
    BY <2>1, <2>2, <2>5 DEF Orderly
<1>12. CASE ExtendGroup
  <2>1. Line' = Line
    BY <1>0, <1>12, LineOfExtend
  <2>2. QED
    BY <1>12, <2>1 DEF ExtendGroup, Orderly
<1>13. CASE SkipMessage
  <2>1. Skipped
    BY <1>0, <1>13, LineOfSkip
  <2>2. Line \in Seq(EntrySet) /\ Line' \in Seq(EntrySet)
    <3>1. LineFacts'
      BY <1>0, LineType, PTL
    <3>2. QED
      BY <3>1, LineType DEF LineFacts
  <2>3. Tidy(Line')
    <3> DEFINE h == Len(Held)
               t == Line'
    <3>1. /\ h \in Nat /\ Without(t, Line, h) /\ Line[h + 1].role = "user"
      BY <2>1 DEF Skipped
    <3>2. Tidy(Line) /\ t \in Seq(EntrySet)
      BY <2>2 DEF Orderly
    <3> HIDE DEF h, t
    <3>3. Tidy(t)
      BY <2>2, <3>1, <3>2, TidySkip
    <3>4. QED
      BY <3>3 DEF t
  <2>4. QED
    BY <1>13, <2>3 DEF SkipMessage, memoryVars, Orderly
<1>14. CASE SessionOver
  BY <1>5, <1>14 DEF SessionOver
<1>15. QED
  BY <1>1, <1>2, <1>3, <1>4, <1>5, <1>6, <1>7, <1>8, <1>9, <1>10, <1>11,
     <1>12, <1>13, <1>14 DEF Next

LEMMA OrderlyAlways == Spec => [](Shape /\ Orderly)
BY InitShape, InitOrderly, StepShape, StepOrderly, ScalarsAlways, ListsAlways,
   PTL DEF Spec

(* What a request is shown never holds a call without its result, nor a    *)
(* result of another round or of a call its reply did not carry, but for   *)
(* that of a call read from the text of a reply without calls: run_turn,   *)
(* _record_turn, compacted_history.                                        *)
THEOREM ShownHoldsWholeRounds == Spec => []ShownIsAnswered
<1>1. Orderly => ShownIsAnswered
  BY DEF Orderly, AllAnswered, ShownIsAnswered
<1>2. QED
  BY <1>1, OrderlyAlways, PTL

(* The rounds that have an assistant's message in a sequence of entries,   *)
(* and where a sequence of records arose.                                  *)
Spoke(s) == {s[j].round : j \in {k \in 1..Len(s) : s[k].role = "assistant"}}
PlacesOf(ts) == {Place(ts[i]) : i \in 1..Len(ts)}
Rising(ts) == \A i, j \in 1..Len(ts) : i < j => Earlier(Place(ts[i]), Place(ts[j]))
Now == {<<turn, r>> : r \in Spoke(Line)}
ThisTurn == {<<turn, r>> : r \in 1..round}
Past == UNION {Rounds(n) : n \in DOMAIN completed}

(* The records of the memory and the rounds that still wait in the line    *)
(* are those of the turns that returned and of this one; the memory is in  *)
(* order, and what waits comes after it.                                   *)
Remembering ==
    /\ Rising(turns)
    /\ PlacesOf(turns) \union Now = Past \union ThisTurn
    /\ \A p \in PlacesOf(turns) :
          /\ p[1] <= turn
          /\ phase \in {"evict", "ask", "dispatch"} => p[1] < turn
    /\ \A p \in Past : p[1] <= turn /\ (phase # "prompt" => p[1] < turn)
    /\ \A p \in PlacesOf(turns), q \in Now : Earlier(p, q)

LEMMA SpokeElement ==
    ASSUME NEW s, NEW x
    PROVE  x \in Spoke(s) <=>
           \E j \in 1..Len(s) : s[j].role = "assistant" /\ s[j].round = x
BY DEF Spoke

LEMMA SpokeNothing == Spoke(<<>>) = {}
BY DEF Spoke

LEMMA SpokeReply ==
    ASSUME NEW s \in Seq(EntrySet), NEW a \in EntrySet, NEW q \in Seq(EntrySet),
           NEW t, Follows(t, s, a, q), Answers(q, a), a.role = "assistant"
    PROVE  Spoke(t) = Spoke(s) \union {a.round}
<1>0. Len(s) \in Nat /\ Len(q) \in Nat /\ Len(t) = Len(s) + 1 + Len(q)
  BY DEF Follows
<1>1. ASSUME NEW x \in Spoke(t) PROVE x \in Spoke(s) \union {a.round}
  <2>1. PICK j \in 1..Len(t) : t[j].role = "assistant" /\ t[j].round = x
    BY <1>1, SpokeElement
  <2>2. CASE j \in 1..Len(s) /\ t[j] = s[j]
    BY <2>1, <2>2, SpokeElement
  <2>3. CASE t[j] = a
    BY <2>1, <2>3
  <2>4. CASE \E k \in 1..Len(q) : t[j] = q[k]
    BY <2>1, <2>4 DEF Answers
  <2>5. (j \in 1..Len(s) /\ t[j] = s[j]) \/ t[j] = a
        \/ \E k \in 1..Len(q) : t[j] = q[k]
    BY FollowsAll
  <2>6. QED
    BY <2>2, <2>3, <2>4, <2>5, Zenon
<1>2. ASSUME NEW x \in Spoke(s) PROVE x \in Spoke(t)
  <2>1. PICK j \in 1..Len(s) : s[j].role = "assistant" /\ s[j].round = x
    BY <1>2, SpokeElement
  <2>2. t[j] = s[j] /\ j \in 1..Len(t)
    BY <1>0, <2>1 DEF Follows
  <2>3. QED
    BY <2>1, <2>2, SpokeElement
<1>3. a.round \in Spoke(t)
  <2>1. t[Len(s) + 1] = a /\ Len(s) + 1 \in 1..Len(t)
    BY <1>0 DEF Follows
  <2>2. QED
    BY <2>1, SpokeElement
<1>4. QED
  BY <1>1, <1>2, <1>3

LEMMA SpokeSkip ==
    ASSUME NEW s \in Seq(EntrySet), NEW t \in Seq(EntrySet), NEW h \in Nat,
           Without(t, s, h), s[h + 1].role = "user"
    PROVE  Spoke(t) = Spoke(s)
<1>0. /\ Len(s) \in Nat /\ Len(t) \in Nat /\ Len(s) = Len(t) + 1 /\ h < Len(s)
      /\ \A i \in 1..h : t[i] = s[i]
      /\ \A i \in (h + 1)..Len(t) : t[i] = s[i + 1]
  BY DEF Without
<1>1. ASSUME NEW x \in Spoke(t) PROVE x \in Spoke(s)
  <2>1. PICK j \in 1..Len(t) : t[j].role = "assistant" /\ t[j].round = x
    BY <1>1, SpokeElement
  <2>2. CASE j <= h
    <3>1. j \in 1..h /\ j \in 1..Len(s)
      BY <1>0, <2>2
    <3>2. QED
      BY <1>0, <2>1, <3>1, SpokeElement
  <2>3. CASE j > h
    <3>1. j \in (h + 1)..Len(t) /\ j + 1 \in 1..Len(s)
      BY <1>0, <2>3
    <3>2. t[j] = s[j + 1]
      BY <1>0, <3>1
    <3>3. QED
      BY <2>1, <3>1, <3>2, SpokeElement
  <2>4. QED
    BY <1>0, <2>2, <2>3
<1>2. ASSUME NEW x \in Spoke(s) PROVE x \in Spoke(t)
  <2>1. PICK j \in 1..Len(s) : s[j].role = "assistant" /\ s[j].round = x
    BY <1>2, SpokeElement
  <2>2. j # h + 1
    BY <2>1
  <2>3. CASE j <= h
    <3>1. j \in 1..h /\ j \in 1..Len(t)
      BY <1>0, <2>3
    <3>2. QED
      BY <1>0, <2>1, <3>1, SpokeElement
  <2>4. CASE j > h
    <3> DEFINE k == j - 1
    <3>1. k \in (h + 1)..Len(t) /\ k \in 1..Len(t) /\ k + 1 = j
      BY <1>0, <2>2, <2>4
    <3> HIDE DEF k
    <3>2. t[k] = s[k + 1]
      BY <1>0, <3>1
    <3>3. QED
      BY <2>1, <3>1, <3>2, SpokeElement
  <2>5. QED
    BY <1>0, <2>3, <2>4
<1>3. QED
  BY <1>1, <1>2

(* What is left of a line when its first record is closed.                 *)
Leaves(t, s, h) ==
    /\ Len(s) = h + Len(t)
    /\ \A i \in 1..Len(t) : t[i] = s[h + i]
    /\ \A i \in 1..h : i # 1 => s[i].role = "tool"
    /\ h > 0 => s[1].role = "assistant"

LEMMA SpokeLeft ==
    ASSUME NEW s \in Seq(EntrySet), NEW t \in Seq(EntrySet), NEW h \in Nat,
           Tidy(s), Leaves(t, s, h)
    PROVE  /\ h = 0 => Spoke(s) = Spoke(t)
           /\ h > 0 => /\ Spoke(s) = {s[1].round} \union Spoke(t)
                       /\ \A r \in Spoke(t) : s[1].round < r
<1>0. /\ Len(s) \in Nat /\ Len(t) \in Nat /\ Len(s) = h + Len(t)
      /\ \A i \in 1..Len(t) : t[i] = s[h + i]
      /\ \A i \in 1..h : i # 1 => s[i].role = "tool"
      /\ h > 0 => s[1].role = "assistant"
  BY DEF Leaves
<1>1. ASSUME NEW x \in Spoke(t)
      PROVE  x \in Spoke(s) /\ (h > 0 => s[1].round < x)
  <2>1. PICK j \in 1..Len(t) : t[j].role = "assistant" /\ t[j].round = x
    BY <1>1, SpokeElement
  <2>2. h + j \in 1..Len(s) /\ t[j] = s[h + j]
    BY <1>0
  <2>3. x \in Spoke(s)
    BY <2>1, <2>2, SpokeElement
  <2>4. h > 0 => s[1].round < x
    <3>1. h > 0 => 1 \in 1..Len(s) /\ 1 < h + j
      BY <1>0
    <3>2. QED
      BY <2>1, <2>2, <3>1 DEF Tidy, Ordered
  <2>5. QED
    BY <2>3, <2>4
<1>2. ASSUME NEW x \in Spoke(s)
      PROVE  x \in Spoke(t) \/ (h > 0 /\ x = s[1].round)
  <2>1. PICK j \in 1..Len(s) : s[j].role = "assistant" /\ s[j].round = x
    BY <1>2, SpokeElement
  <2>2. CASE j > h
    <3> DEFINE k == j - h
    <3>1. k \in 1..Len(t) /\ h + k = j
      BY <1>0, <2>2
    <3> HIDE DEF k
    <3>2. t[k] = s[j]
      BY <1>0, <3>1
    <3>3. QED
      BY <2>1, <3>1, <3>2, SpokeElement
  <2>3. CASE j <= h
    <3>1. j \in 1..h
      BY <1>0, <2>3
    <3>2. j = 1
      BY <1>0, <2>1, <3>1
    <3>3. QED
      BY <2>1, <2>3, <3>2
  <2>4. QED
    BY <1>0, <2>2, <2>3
<1>3. h > 0 => s[1].round \in Spoke(s)
  <2>1. h > 0 => 1 \in 1..Len(s)
    BY <1>0
  <2>2. QED
    BY <1>0, <2>1, SpokeElement
<1>a. \A x \in Spoke(t) : x \in Spoke(s) /\ (h > 0 => s[1].round < x)
  BY <1>1
<1>b. \A x \in Spoke(s) : x \in Spoke(t) \/ (h > 0 /\ x = s[1].round)
  BY <1>2
<1>4. CASE h = 0
  <2>1. ~(h > 0)
    BY <1>4
  <2>2. \A x \in Spoke(s) : x \in Spoke(t)
    BY <1>b, <2>1, Zenon
  <2>3. Spoke(s) = Spoke(t)
    BY <1>a, <2>2, Zenon
  <2>4. QED
    BY <2>1, <2>3
<1>5. CASE h > 0
  <2>1. Spoke(s) = {s[1].round} \union Spoke(t)
    BY <1>a, <1>b, <1>3, <1>5
  <2>2. \A r \in Spoke(t) : s[1].round < r
    BY <1>a, <1>5
  <2>3. QED
    BY <1>5, <2>1, <2>2
<1>6. QED
  BY <1>4, <1>5

LEMMA PlacesElement ==
    ASSUME NEW ts, NEW p
    PROVE  p \in PlacesOf(ts) <=> \E i \in 1..Len(ts) : Place(ts[i]) = p
BY DEF PlacesOf

(* The memory with a record more.                                          *)
LEMMA RisingGrows ==
    ASSUME NEW ts \in Seq(Turn), NEW g \in Seq(Turn), Len(g) <= 1, Rising(ts),
           \A p \in PlacesOf(ts), q \in PlacesOf(g) : Earlier(p, q)
    PROVE  /\ Rising(ts \o g)
           /\ PlacesOf(ts \o g) = PlacesOf(ts) \union PlacesOf(g)
<1> DEFINE c == ts \o g
           n == Len(ts)
<1>1. /\ n \in Nat /\ Len(g) \in Nat /\ Len(c) = n + Len(g)
      /\ \A i \in 1..n : c[i] = ts[i]
      /\ \A i \in 1..Len(g) : c[n + i] = g[i]
  BY ConcatPlaces
<1>2. \A i \in 1..n : ts[i] = ts[i] /\ Place(ts[i]) \in PlacesOf(ts)
  BY PlacesElement
<1>3. \A i \in 1..Len(g) : Place(g[i]) \in PlacesOf(g)
  BY PlacesElement
<1> HIDE DEF c, n
<1>4. \A i \in 1..Len(c) : i \in 1..n \/ (i = n + 1 /\ Len(g) = 1)
  <2>1. n \in Nat /\ Len(g) \in {0, 1} /\ Len(c) = n + Len(g)
    <3>1. Len(g) \in Nat /\ Len(g) <= 1
      OBVIOUS
    <3>2. \A k \in Nat : k <= 1 => k \in {0, 1}
      OBVIOUS
    <3>3. QED
      BY <1>1, <3>1, <3>2, Zenon
  <2>2. \A k \in {0, 1} : \A i \in 1..(n + k) : i \in 1..n \/ (i = n + 1 /\ k = 1)
    BY <2>1
  <2>3. QED
    BY <2>1, <2>2
<1>5. ASSUME NEW i \in 1..Len(c), NEW j \in 1..Len(c), i < j
      PROVE  Earlier(Place(c[i]), Place(c[j]))
  <2>1. i \in 1..n
    BY <1>1, <1>4, <1>5
  <2>2. CASE j \in 1..n
    <3>1. Earlier(Place(ts[i]), Place(ts[j]))
      BY <1>5, <2>1, <2>2 DEF Rising, n
    <3>2. QED
      BY <1>1, <2>1, <2>2, <3>1
  <2>3. CASE j = n + 1 /\ Len(g) = 1
    <3>1. c[j] = g[1] /\ 1 \in 1..Len(g)
      BY <1>1, <2>3
    <3>2. Place(g[1]) \in PlacesOf(g) /\ Place(ts[i]) \in PlacesOf(ts)
      BY <1>2, <1>3, <2>1, <3>1
    <3>3. c[i] = ts[i]
      BY <1>1, <2>1
    <3>4. QED
      BY <3>1, <3>2, <3>3
  <2>4. QED
    BY <1>4, <2>2, <2>3
<1>6. ASSUME NEW p \in PlacesOf(c) PROVE p \in PlacesOf(ts) \union PlacesOf(g)
  <2>1. PICK i \in 1..Len(c) : Place(c[i]) = p
    BY <1>6, PlacesElement
  <2>2. CASE i \in 1..n
    BY <1>1, <1>2, <2>1, <2>2
  <2>3. CASE i = n + 1 /\ Len(g) = 1
    <3>1. c[i] = g[1] /\ 1 \in 1..Len(g)
      BY <1>1, <2>3
    <3>2. QED
      BY <1>3, <2>1, <3>1
  <2>4. QED
    BY <1>4, <2>2, <2>3
<1>7. ASSUME NEW p \in PlacesOf(ts) PROVE p \in PlacesOf(c)
  <2>1. PICK i \in 1..n : Place(ts[i]) = p
    BY <1>7, PlacesElement DEF n
  <2>2. c[i] = ts[i] /\ i \in 1..Len(c)
    BY <1>1
  <2>3. QED
    BY <2>1, <2>2, PlacesElement
<1>8. ASSUME NEW p \in PlacesOf(g) PROVE p \in PlacesOf(c)
  <2>1. PICK i \in 1..Len(g) : Place(g[i]) = p
    BY <1>8, PlacesElement
  <2>2. c[n + i] = g[i] /\ n + i \in 1..Len(c)
    BY <1>1
  <2>3. QED
    BY <2>1, <2>2, PlacesElement
<1>9. Rising(c)
  BY <1>5 DEF Rising
<1>10. PlacesOf(c) = PlacesOf(ts) \union PlacesOf(g)
  BY <1>6, <1>7, <1>8
<1>11. QED
  BY <1>9, <1>10 DEF c

(* Where the record stands that _record_turn fills.                        *)
LEMMA GroupPlace ==
    ASSUME Scalars, Lists, Shape, todo = <<>>
    PROVE  LET h == Len(Held)
           IN  /\ h \in Nat
               /\ \A i \in 1..h : i # 1 => Line[i].role = "tool"
               /\ h > 0 => Line[1].role = "assistant"
               /\ PlacesOf(group)
                  = IF h > 0 THEN {<<turn, Line[1].round>>} ELSE {}
<1> DEFINE h == Len(Held)
<1>1. /\ Held \in Seq(Message) /\ h \in Nat
      /\ group = <<>> => h = 0
      /\ group # <<>> => h > 0 /\ Held[1] = group[1].assistant
  <2>1. Held \in Seq(Message) /\ h \in Nat
    BY HeldType
  <2>2. group = <<>> => h = 0
    BY HeldType
  <2>3. group # <<>> => h > 0 /\ Held[1] = group[1].assistant
    BY <2>1, HeldType, HeldRoles
  <2>4. QED
    BY <2>1, <2>2, <2>3
<1>2. \A i \in 1..h : Line[i] = Entry(Held[i])
  BY LineRecorded DEF Recorded
<1>3. Len(Line) = h + Len(messages) /\ Len(messages) \in Nat
  BY LineRecorded DEF Recorded, Lists
<1>4. \A i \in 1..h : i # 1 => Held[i].role = "tool"
  BY HeldRoles
<1>5. group # <<>> => Held[1].role = "assistant"
  BY HeldRoles
<1> HIDE DEF h
<1>6. \A i \in 1..h : i # 1 => Line[i].role = "tool"
  BY <1>2, <1>4, EntryFields
<1>7. CASE group = <<>>
  <2>1. h = 0 /\ PlacesOf(group) = {}
    BY <1>1, <1>7 DEF PlacesOf
  <2>2. QED
    BY <1>1, <1>6, <2>1 DEF h
<1>8. CASE group # <<>>
  <2>1. h > 0 /\ 1 \in 1..h /\ 1 \in 1..Len(Line) /\ Held[1] = group[1].assistant
    BY <1>1, <1>3, <1>8
  <2>2. Line[1] = Entry(group[1].assistant) /\ Line[1].turn = turn
    BY <1>2, <2>1 DEF Shape
  <2>3. Line[1].role = "assistant" /\ Place(group[1]) = <<turn, Line[1].round>>
    <3>1. group[1].assistant.role = "assistant"
      BY <1>8 DEF Shape
    <3>2. QED
      BY <2>2, <3>1, EntryFields DEF Place
  <2>4. Len(group) = 1
    <3>1. group \in Seq(Turn) /\ Len(group) <= 1
      BY DEF Lists
    <3>2. Len(group) # 0
      BY <1>8, <3>1, EmptySeq
    <3>3. Len(group) \in Nat
      BY <3>1
    <3>4. \A k \in Nat : k <= 1 /\ k # 0 => k = 1
      OBVIOUS
    <3>5. QED
      BY <3>1, <3>2, <3>3, <3>4, Zenon
  <2>5. PlacesOf(group) = {<<turn, Line[1].round>>}
    BY <2>3, <2>4 DEF PlacesOf
  <2>6. QED
    BY <1>1, <1>6, <2>1, <2>3, <2>5 DEF h
<1>9. QED
  BY <1>7, <1>8

(* A record is closed: its place leaves the line and enters the memory.    *)
LEMMA RecordClosed ==
    ASSUME Scalars, Lists, Shape, Orderly, Remembering, todo = <<>>,
           NEW t \in Seq(EntrySet),
           Len(Line) = Len(Held) + Len(t),
           \A i \in 1..Len(t) : t[i] = Line[Len(Held) + i]
    PROVE  LET left == {<<turn, r>> : r \in Spoke(t)}
           IN  /\ Rising(turns \o group)
               /\ PlacesOf(turns \o group) \union left = PlacesOf(turns) \union Now
               /\ \A p \in PlacesOf(turns \o group) : p[1] <= turn
               /\ \A p \in PlacesOf(turns \o group), q \in left : Earlier(p, q)
<1> DEFINE h == Len(Held)
           left == {<<turn, r>> : r \in Spoke(t)}
           g == PlacesOf(group)
           k == PlacesOf(turns)
<1>1. /\ h \in Nat
      /\ \A i \in 1..h : i # 1 => Line[i].role = "tool"
      /\ h > 0 => Line[1].role = "assistant"
      /\ g = IF h > 0 THEN {<<turn, Line[1].round>>} ELSE {}
  BY GroupPlace
<1>2. Leaves(t, Line, h)
  BY <1>1 DEF Leaves
<1>3. Line \in Seq(EntrySet) /\ Tidy(Line)
  BY LineType DEF LineFacts, Orderly
<1> HIDE DEF h
<1>4. /\ h = 0 => Spoke(Line) = Spoke(t)
      /\ h > 0 => /\ Spoke(Line) = {Line[1].round} \union Spoke(t)
                  /\ \A r \in Spoke(t) : Line[1].round < r
  BY <1>1, <1>2, <1>3, SpokeLeft
<1>5. Now = g \union left
  <2>1. CASE h = 0
    BY <1>1, <1>4, <2>1 DEF Now
  <2>2. CASE h > 0
    BY <1>1, <1>4, <2>2 DEF Now
  <2>3. QED
    BY <1>1, <2>1, <2>2
<1>6. \A p \in g, q \in left : Earlier(p, q)
  <2>1. ASSUME NEW p \in g, NEW q \in left PROVE Earlier(p, q)
    <3>1. h > 0 /\ p = <<turn, Line[1].round>>
      BY <1>1, <2>1
    <3>2. PICK r \in Spoke(t) : q = <<turn, r>>
      BY <2>1
    <3>3. Line[1].round < r
      BY <1>4, <3>1
    <3>4. QED
      BY <3>1, <3>2, <3>3 DEF Earlier
  <2>2. QED
    BY <2>1
<1>7. \A p \in g : p[1] <= turn
  <2>1. \A p \in g : p[1] = turn
    BY <1>1
  <2>2. turn \in Int
    BY MemoryBounds DEF Scalars
  <2>3. QED
    BY <2>1, <2>2
<1>8. /\ Rising(turns) /\ \A p \in k : p[1] <= turn
      /\ \A p \in k, q \in Now : Earlier(p, q)
  BY DEF Remembering
<1>9. turns \in Seq(Turn) /\ group \in Seq(Turn) /\ Len(group) <= 1
  BY DEF Lists
<1>10. Rising(turns \o group) /\ PlacesOf(turns \o group) = k \union g
  BY <1>5, <1>8, <1>9, RisingGrows
<1> HIDE DEF left, g, k
<1>11. QED
  BY <1>5, <1>6, <1>7, <1>8, <1>10 DEF left, k

(* While a turn runs, the memory is that of the turns that returned.       *)
LEMMA MemoryIsThePast ==
    ASSUME Scalars, Lists, Shape, Remembering, phase # "record"
    PROVE  PlacesOf(turns) = Past
<1>0. turn \in Int
  BY MemoryBounds DEF Scalars
<1>1. CASE phase = "prompt"
  <2>1. ThisTurn = {}
    BY <1>1 DEF Shape, ThisTurn
  <2>2. Now = {}
    <3>1. Line = <<>>
      BY <1>1, LineEmpty DEF Shape
    <3>2. QED
      BY <3>1, SpokeNothing DEF Now
  <2>3. QED
    BY <2>1, <2>2 DEF Remembering
<1>2. CASE phase # "prompt"
  <2>1. phase \in {"evict", "ask", "dispatch"}
    BY <1>2 DEF Scalars, Phases
  <2>2. \A p \in Now \union ThisTurn : p[1] = turn
    BY DEF Now, ThisTurn
  <2>3. \A p \in PlacesOf(turns) \union Past : p[1] < turn
    BY <1>2, <2>1 DEF Remembering
  <2>4. \A p \in PlacesOf(turns) \union Past : p \notin Now \union ThisTurn
    BY <1>0, <2>2, <2>3
  <2>5. QED
    BY <2>4 DEF Remembering
<1>3. QED
  BY <1>1, <1>2

LEMMA RecordTurns ==
    ASSUME NEW ts \in Seq(Turn)
    PROVE  \A i \in 1..Len(ts) : ts[i].assistant.turn \in Nat
<1>1. \A t \in Turn : t.assistant \in Message
  BY DEF Turn
<1>2. \A m \in Message : m.turn \in Nat
  BY DEF Message
<1>3. \A i \in 1..Len(ts) : ts[i] \in Turn
  OBVIOUS
<1>4. QED
  BY <1>1, <1>2, <1>3

LEMMA InitRemembering == Init => Remembering
<1> SUFFICES ASSUME Init PROVE Remembering
  OBVIOUS
<1>1. Line = <<>>
  BY InitScalars, InitLists, LineSilent DEF Init, Silent
<1>2. Now = {} /\ PlacesOf(turns) = {} /\ Past = {} /\ ThisTurn = {}
  BY <1>1, SpokeNothing DEF Init, Now, PlacesOf, Past, ThisTurn
<1>3. QED
  BY <1>2 DEF Init, Remembering, Rising

LEMMA StepRemembering ==
    Scalars /\ Lists /\ Shape /\ Orderly /\ Remembering /\ [Next]_vars => Remembering'
<1> SUFFICES ASSUME Scalars, Lists, Shape, Orderly, Remembering, [Next]_vars
             PROVE  Remembering'
  OBVIOUS
<1>0. Scalars' /\ Lists'
  BY StepScalars, StepLists
<1>1. CASE EvictOldest
  <2>1. Line' = Line
    BY <1>1, LineSame DEF EvictOldest, turnVars, memoryVars
  <2>2. /\ UNCHANGED <<turn, round, turns, completed>>
        /\ \/ phase' = phase
           \/ phase = "evict" /\ phase' = "ask"
           \/ phase = "ask" /\ phase' = "record"
           \/ phase = "dispatch" /\ phase' = "ask"
    BY <1>1 DEF EvictOldest, turnVars, memoryVars
  <2>3. /\ UNCHANGED <<turns, turn, PlacesOf(turns), Now, Past, ThisTurn>>
    BY <2>1, <2>2 DEF PlacesOf, Now, Past, Rounds, ThisTurn
  <2>4. QED
    BY <2>2, <2>3 DEF Remembering
<1>2. CASE ShowHistory
  <2>1. Line' = Line
    BY <1>2, LineSame DEF ShowHistory, turnVars, memoryVars
  <2>2. /\ UNCHANGED <<turn, round, turns, completed>>
        /\ \/ phase' = phase
           \/ phase = "evict" /\ phase' = "ask"
           \/ phase = "ask" /\ phase' = "record"
           \/ phase = "dispatch" /\ phase' = "ask"
    BY <1>2 DEF ShowHistory, turnVars, memoryVars
  <2>3. /\ UNCHANGED <<turns, turn, PlacesOf(turns), Now, Past, ThisTurn>>
    BY <2>1, <2>2 DEF PlacesOf, Now, Past, Rounds, ThisTurn
  <2>4. QED
    BY <2>2, <2>3 DEF Remembering
<1>3. CASE CapReached
  <2>1. Line' = Line
    BY <1>3, LineSame DEF CapReached, turnVars, memoryVars
  <2>2. /\ UNCHANGED <<turn, round, turns, completed>>
        /\ \/ phase' = phase
           \/ phase = "evict" /\ phase' = "ask"
           \/ phase = "ask" /\ phase' = "record"
           \/ phase = "dispatch" /\ phase' = "ask"
    BY <1>3 DEF CapReached, turnVars, memoryVars
  <2>3. /\ UNCHANGED <<turns, turn, PlacesOf(turns), Now, Past, ThisTurn>>
    BY <2>1, <2>2 DEF PlacesOf, Now, Past, Rounds, ThisTurn
  <2>4. QED
    BY <2>2, <2>3 DEF Remembering
<1>4. CASE RoundEnds
  <2>1. Line' = Line
    BY <1>4, LineSame DEF RoundEnds, turnVars, memoryVars
  <2>2. /\ UNCHANGED <<turn, round, turns, completed>>
        /\ \/ phase' = phase
           \/ phase = "evict" /\ phase' = "ask"
           \/ phase = "ask" /\ phase' = "record"
           \/ phase = "dispatch" /\ phase' = "ask"
    BY <1>4 DEF RoundEnds, turnVars, memoryVars
  <2>3. /\ UNCHANGED <<turns, turn, PlacesOf(turns), Now, Past, ThisTurn>>
    BY <2>1, <2>2 DEF PlacesOf, Now, Past, Rounds, ThisTurn
  <2>4. QED
    BY <2>2, <2>3 DEF Remembering
<1>5. CASE UNCHANGED vars
  <2>1. Line' = Line
    BY <1>5, LineSame DEF vars, turnVars, memoryVars
  <2>2. /\ UNCHANGED <<turn, round, turns, completed>>
        /\ \/ phase' = phase
           \/ phase = "evict" /\ phase' = "ask"
           \/ phase = "ask" /\ phase' = "record"
           \/ phase = "dispatch" /\ phase' = "ask"
    BY <1>5 DEF vars, turnVars, memoryVars
  <2>3. /\ UNCHANGED <<turns, turn, PlacesOf(turns), Now, Past, ThisTurn>>
    BY <2>1, <2>2 DEF PlacesOf, Now, Past, Rounds, ThisTurn
  <2>4. QED
    BY <2>2, <2>3 DEF Remembering
<1>6. ASSUME NEW b \in BOOLEAN, Result(b) PROVE Remembering'
  <2>1. Line' = Line
    BY <1>0, <1>6, LineOfResult
  <2>2. /\ UNCHANGED <<turn, round, turns, completed>>
        /\ \/ phase' = phase
           \/ phase = "evict" /\ phase' = "ask"
           \/ phase = "ask" /\ phase' = "record"
           \/ phase = "dispatch" /\ phase' = "ask"
    BY <1>6 DEF Result, turnVars, memoryVars
  <2>3. /\ UNCHANGED <<turns, turn, PlacesOf(turns), Now, Past, ThisTurn>>
    BY <2>1, <2>2 DEF PlacesOf, Now, Past, Rounds, ThisTurn
  <2>4. QED
    BY <2>2, <2>3 DEF Remembering
<1>7. CASE Reply
  <2>1. Replied
    BY <1>0, <1>7, ReplyLine
  <2>2. /\ phase = "ask" /\ phase' \in {"ask", "dispatch", "record"}
        /\ turn' = turn /\ round' = round + 1 /\ UNCHANGED <<turns, completed>>
    BY <2>1 DEF Replied
  <2>3. Spoke(Line') = Spoke(Line) \union {round + 1}
    <3>1. PICK a \in EntrySet, q \in Seq(EntrySet) :
             /\ Follows(Line', Line, a, q) /\ Answers(q, a)
             /\ a.role = "assistant" /\ a.round = round + 1
      BY <2>1 DEF Replied
    <3>2. Line \in Seq(EntrySet)
      BY LineType DEF LineFacts
    <3>3. Spoke(Line') = Spoke(Line) \union {a.round}
      BY <3>1, <3>2, SpokeReply
    <3>4. QED
      BY <3>1, <3>3
  <2>4. /\ UNCHANGED <<PlacesOf(turns), Past>>
        /\ Now' = Now \union {<<turn, round + 1>>}
        /\ ThisTurn' = ThisTurn \union {<<turn, round + 1>>}
    <3>1. UNCHANGED <<PlacesOf(turns), Past>>
      BY <2>2 DEF PlacesOf, Past, Rounds
    <3>2. Now' = Now \union {<<turn, round + 1>>}
      BY <2>2, <2>3 DEF Now
    <3>3. 1..(round + 1) = (1..round) \union {round + 1}
      BY MemoryBounds DEF Scalars
    <3>4. ThisTurn' = ThisTurn \union {<<turn, round + 1>>}
      BY <2>2, <3>3 DEF ThisTurn
    <3>5. QED
      BY <3>1, <3>2, <3>4
  <2>5. \A p \in PlacesOf(turns) : Earlier(p, <<turn, round + 1>>)
    BY <2>2 DEF Remembering, Earlier
  <2>6. QED
    BY <2>2, <2>4, <2>5 DEF Remembering
<1>8. ASSUME NEW b \in BOOLEAN, RunTurn(b) PROVE Remembering'
  <2>1. /\ phase = "prompt" /\ group' = <<>> /\ messages' = <<>> /\ todo' = <<>>
        /\ turn' = turn + 1 /\ round' = 0 /\ phase' # "prompt"
        /\ UNCHANGED <<turns, completed>>
    BY <1>8 DEF RunTurn, memoryVars, Shape
  <2>2. Now' = {} /\ ThisTurn' = {}
    <3>1. Line' = <<>>
      BY <1>0, <2>1, SilentAfter
    <3>2. QED
      BY <2>1, <3>1, SpokeNothing DEF Now, ThisTurn
  <2>3. PlacesOf(turns) = Past
    BY <2>1, MemoryIsThePast
  <2>4. UNCHANGED <<PlacesOf(turns), Past>>
    BY <2>1 DEF PlacesOf, Past, Rounds
  <2>5. \A p \in PlacesOf(turns) : p[1] < turn + 1
    <3>1. ASSUME NEW p \in PlacesOf(turns) PROVE p[1] < turn + 1
      <4>1. p[1] \in Int
        <5>1. PICK i \in 1..Len(turns) : p = Place(turns[i])
          BY <3>1, PlacesElement
        <5>2. turns[i].assistant.turn \in Nat
          BY RecordTurns DEF Lists
        <5>3. QED
          BY <5>1, <5>2 DEF Place
      <4>2. p[1] <= turn /\ turn \in Int
        BY MemoryBounds DEF Remembering, Scalars
      <4> HIDE DEF Remembering
      <4>3. QED
        BY <4>1, <4>2
    <3>2. QED
      BY <3>1
  <2>6. \A p \in PlacesOf(turns) : p[1] <= turn + 1
    <3>1. \A p \in PlacesOf(turns) : p[1] \in Int
      <4>1. \A i \in 1..Len(turns) : turns[i].assistant.turn \in Nat
        BY RecordTurns DEF Lists
      <4>2. QED
        BY <4>1, PlacesElement DEF Place
    <3>2. turn \in Int
      BY MemoryBounds DEF Scalars
    <3>3. QED
      BY <2>5, <3>1, <3>2
  <2>7. QED
    BY <2>1, <2>2, <2>3, <2>4, <2>5, <2>6 DEF Remembering
<1>9. CASE Abort
  <2>1. /\ phase \in {"ask", "dispatch"} /\ phase' = "prompt"
        /\ group' = <<>> /\ messages' = <<>> /\ todo' = <<>> /\ round' = 0
        /\ UNCHANGED <<turn, turns, completed>>
    BY <1>9 DEF Abort, TurnOver
  <2>2. Now' = {} /\ ThisTurn' = {}
    <3>1. Line' = <<>>
      BY <1>0, <2>1, SilentAfter
    <3>2. QED
      BY <2>1, <3>1, SpokeNothing DEF Now, ThisTurn
  <2>3. PlacesOf(turns) = Past
    BY <2>1, MemoryIsThePast
  <2>4. UNCHANGED <<PlacesOf(turns), Past>>
    BY <2>1 DEF PlacesOf, Past, Rounds
  <2>5. QED
    BY <2>1, <2>2, <2>3, <2>4 DEF Remembering
<1>10. CASE TurnReturns
  <2>1. /\ phase = "record" /\ phase' = "prompt" /\ messages = <<>> /\ todo = <<>>
        /\ group' = <<>> /\ messages' = <<>> /\ todo' = <<>>
        /\ turn' = turn /\ round' = 0 /\ turns' = turns \o group
        /\ completed' = Append(completed, <<turn, round>>)
    BY <1>10 DEF TurnReturns, TurnOver, Shape
  <2>2. Now' = {} /\ ThisTurn' = {}
    <3>1. Line' = <<>>
      BY <1>0, <2>1, SilentAfter
    <3>2. QED
      BY <2>1, <3>1, SpokeNothing DEF Now, ThisTurn
  <2>3. /\ Rising(turns \o group)
        /\ PlacesOf(turns \o group) = PlacesOf(turns) \union Now
        /\ \A p \in PlacesOf(turns \o group) : p[1] <= turn
    <3> DEFINE t == <<>>
    <3>1. t \in Seq(EntrySet) /\ Len(t) = 0
      OBVIOUS
    <3>2. Len(Line) = Len(Held) + Len(messages) /\ Len(messages) = 0
      BY <2>1, LineRecorded DEF Recorded
    <3>3. Len(Line) = Len(Held) + Len(t)
      BY <3>1, <3>2
    <3>4. \A i \in 1..Len(t) : t[i] = Line[Len(Held) + i]
      BY <3>1
    <3>5. {<<turn, r>> : r \in Spoke(t)} = {}
      BY SpokeNothing
    <3> HIDE DEF t
    <3>6. QED
      BY <2>1, <3>1, <3>3, <3>4, <3>5, RecordClosed
  <2>4. Past' = Past \union ThisTurn
    <3> DEFINE n == Len(completed)
    <3>1. /\ completed \in Seq(Nat \X Nat) /\ n \in Nat
          /\ DOMAIN completed = 1..n /\ DOMAIN completed' = 1..(n + 1)
          /\ \A i \in 1..n : completed'[i] = completed[i]
          /\ completed'[n + 1] = <<turn, round>>
      <4>1. completed \in Seq(Nat \X Nat)
        BY DEF Lists
      <4> DEFINE x == <<turn, round>>
      <4>2. completed' = Append(completed, x)
        BY <2>1
      <4> HIDE DEF x
      <4>3. /\ DOMAIN Append(completed, x) = 1..(n + 1)
            /\ \A i \in 1..n : Append(completed, x)[i] = completed[i]
            /\ Append(completed, x)[n + 1] = x
        BY <4>1
      <4>4. QED
        BY <4>1, <4>2, <4>3 DEF x
    <3> HIDE DEF n
    <3> DEFINE R(i) == {<<completed[i][1], r>> : r \in 1..completed[i][2]}
               N(i) == {<<completed'[i][1], r>> : r \in 1..completed'[i][2]}
    <3>2. \A i \in 1..n : N(i) = R(i)
      BY <3>1
    <3>3. N(n + 1) = ThisTurn
      <4>1. completed'[n + 1][1] = turn /\ completed'[n + 1][2] = round
        BY <3>1
      <4>2. QED
        BY <4>1 DEF ThisTurn
    <3>4. \A i \in 1..(n + 1) : i \in 1..n \/ i = n + 1
      BY <3>1
    <3>5. 1..n \subseteq 1..(n + 1) /\ n + 1 \in 1..(n + 1)
      BY <3>1
    <3>6. Past = UNION {R(i) : i \in 1..n}
      BY <3>1 DEF Past, Rounds
    <3>7. Past' = UNION {N(i) : i \in 1..(n + 1)}
      BY <3>1 DEF Past, Rounds
    <3> HIDE DEF R, N
    <3> DEFINE m == n + 1
               I == 1..n
               J == 1..m
    <3>8. /\ \A i \in I : N(i) = R(i) /\ i \in J
          /\ \A i \in J : i \in I \/ i = m
          /\ m \in J /\ N(m) = ThisTurn
          /\ Past = UNION {R(i) : i \in I} /\ Past' = UNION {N(i) : i \in J}
      BY <3>2, <3>3, <3>4, <3>5, <3>6, <3>7
    <3> HIDE DEF I, J, m
    <3>9. \A x : x \in Past <=> \E i \in I : x \in R(i)
      BY <3>8
    <3>10. \A x : x \in Past' <=> \E i \in J : x \in N(i)
      BY <3>8
    <3>11. ASSUME NEW x PROVE x \in Past' <=> x \in Past \/ x \in ThisTurn
      BY <3>8, <3>9, <3>10
    <3>12. QED
      BY <3>11
  <2>5. PlacesOf(turns)' = PlacesOf(turns \o group)
        /\ Rising(turns)' = Rising(turns \o group)
    BY <2>1 DEF PlacesOf, Rising
  <2>6. \A p \in Past' : p[1] <= turn
    <3>1. PlacesOf(turns \o group) = Past'
      BY <2>3, <2>4 DEF Remembering
    <3>2. QED
      BY <2>3, <3>1
  <2>7. QED
    BY <2>1, <2>2, <2>3, <2>4, <2>5, <2>6 DEF Remembering
<1>11. CASE StartGroup
  <2>1. /\ phase = "record" /\ turns' = turns \o group
        /\ UNCHANGED <<phase, turn, round, completed>> /\ todo = <<>>
    BY <1>11 DEF StartGroup, turnVars, Shape
  <2>2. Shortened
    BY <1>0, <1>11, LineOfStart
  <2>3. Line' \in Seq(EntrySet)
    <3>1. LineFacts'
      BY <1>0, LineType, PTL
    <3>2. QED
      BY <3>1 DEF LineFacts
  <2> DEFINE t == Line'
             left == {<<turn, r>> : r \in Spoke(t)}
  <2>4. /\ t \in Seq(EntrySet) /\ Len(Line) = Len(Held) + Len(t)
        /\ \A i \in 1..Len(t) : t[i] = Line[Len(Held) + i]
    BY <2>2, <2>3 DEF Shortened
  <2>5. Now' = left
    BY <2>1 DEF Now
  <2> HIDE DEF t
  <2>6. /\ Rising(turns \o group)
        /\ PlacesOf(turns \o group) \union left = PlacesOf(turns) \union Now
        /\ \A p \in PlacesOf(turns \o group) : p[1] <= turn
        /\ \A p \in PlacesOf(turns \o group), q \in left : Earlier(p, q)
    BY <2>1, <2>4, RecordClosed
  <2>7. UNCHANGED <<Past, ThisTurn>> /\ PlacesOf(turns)' = PlacesOf(turns \o group)
        /\ Rising(turns)' = Rising(turns \o group)
    BY <2>1 DEF Past, Rounds, ThisTurn, PlacesOf, Rising
  <2> HIDE DEF left
  <2>8. QED
    BY <2>1, <2>5, <2>6, <2>7 DEF Remembering
<1>12. CASE ExtendGroup
  <2>1. Line' = Line
    BY <1>0, <1>12, LineOfExtend
  <2>2. /\ UNCHANGED <<turn, round, turns, completed>>
        /\ \/ phase' = phase
           \/ phase = "evict" /\ phase' = "ask"
           \/ phase = "ask" /\ phase' = "record"
           \/ phase = "dispatch" /\ phase' = "ask"
    BY <1>12 DEF ExtendGroup, turnVars, memoryVars
  <2>3. /\ UNCHANGED <<turns, turn, PlacesOf(turns), Now, Past, ThisTurn>>
    BY <2>1, <2>2 DEF PlacesOf, Now, Past, Rounds, ThisTurn
  <2>4. QED
    BY <2>2, <2>3 DEF Remembering
<1>13. CASE SkipMessage
  <2>1. Skipped
    BY <1>0, <1>13, LineOfSkip
  <2>2. UNCHANGED <<phase, turn, round, turns, completed>>
    BY <1>13 DEF SkipMessage, turnVars, memoryVars
  <2>3. Line \in Seq(EntrySet) /\ Line' \in Seq(EntrySet)
    <3>1. LineFacts'
      BY <1>0, LineType, PTL
    <3>2. QED
      BY <3>1, LineType DEF LineFacts
  <2>4. Spoke(Line') = Spoke(Line)
    <3> DEFINE h == Len(Held)
               t == Line'
    <3>1. h \in Nat /\ Without(t, Line, h) /\ Line[h + 1].role = "user"
      BY <2>1 DEF Skipped
    <3> HIDE DEF h, t
    <3>2. t \in Seq(EntrySet)
      BY <2>3 DEF t
    <3>3. Spoke(t) = Spoke(Line)
      BY <2>3, <3>1, <3>2, SpokeSkip
    <3>4. QED
      BY <3>3 DEF t
  <2>5. UNCHANGED <<PlacesOf(turns), Now, Past, ThisTurn>>
    BY <2>2, <2>4 DEF PlacesOf, Now, Past, Rounds, ThisTurn
  <2>6. QED
    BY <2>2, <2>5 DEF Remembering
<1>14. CASE SessionOver
  BY <1>5, <1>14 DEF SessionOver
<1>15. QED
  BY <1>1, <1>2, <1>3, <1>4, <1>5, <1>6, <1>7, <1>8, <1>9, <1>10, <1>11,
     <1>12, <1>13, <1>14 DEF Next

LEMMA RememberingAlways == Spec => [](Scalars /\ Lists /\ Shape /\ Remembering)
BY InitRemembering, StepRemembering, OrderlyAlways, ScalarsAlways, ListsAlways,
   PTL DEF Spec

(* The memory holds the rounds of the turns that returned, every one, once *)
(* and in order, and nothing of a turn that was abandoned: run_turn,       *)
(* _record_turn.                                                           *)
THEOREM HoldsTheReturnedTurns == Spec => []RemembersReturnedTurns
<1>1. Scalars /\ Lists /\ Shape /\ Remembering => RemembersReturnedTurns
  <2>1. SUFFICES ASSUME Scalars, Lists, Shape, Remembering, phase # "record"
                 PROVE  /\ \A i, j \in DOMAIN turns :
                              i < j => Earlier(Place(turns[i]), Place(turns[j]))
                        /\ {Place(turns[i]) : i \in DOMAIN turns} = Past
    BY DEF RemembersReturnedTurns, Past
  <2>2. DOMAIN turns = 1..Len(turns)
    BY DEF Lists
  <2>3. PlacesOf(turns) = Past
    BY <2>1, MemoryIsThePast
  <2>4. QED
    BY <2>1, <2>2, <2>3 DEF PlacesOf, Remembering, Rising
<1>2. QED
  BY <1>1, RememberingAlways, PTL
=============================================================================
