--------------------------- MODULE StreamAssembly ---------------------------
(***************************************************************************)
(* How the stream of one answer becomes a response: _parse_stream,         *)
(* _parse_chunk, _StreamAccumulator and stream_responder of                *)
(* core/model/ollama.py. chat() is stream_responder without a sink.        *)
(*                                                                         *)
(* The service sends the text as numbered tokens and every call as the     *)
(* parts 1..Parts, of which the first carries its id and name and each one *)
(* a piece of its arguments. Parts of several calls may come in one chunk  *)
(* and in any interleaving. A line may arrive garbled, the sink may raise, *)
(* and the stream may break or close before its end.                       *)
(*                                                                         *)
(* The names differ from those of Understanding, which makes a call of the *)
(* response: the theorems about both are in one module.                    *)
(***************************************************************************)
EXTENDS Integers, Sequences, FiniteSets, SequencesExt

CONSTANTS
    Calls,       \* the calls the answer may hold
    Indexes,     \* the indexes the service gives them (0 if it gives none)
    Parts,       \* the parts of a call
    None,        \* no id has been heard
    MaxTokens,   \* bound: tokens of text
    MaxTroubles  \* bound: garbled lines, and failures of the sink

ASSUME CallsAssumption == IsFiniteSet(Calls) /\ None \notin Calls
ASSUME IndexesAssumption == Indexes \subseteq Nat /\ Indexes # {}
ASSUME StreamBoundsAssumption == /\ Parts \in Nat \ {0} /\ MaxTokens \in Nat
                                 /\ MaxTroubles \in Nat

VARIABLES
    index,     \* index[c]: the index of call c
    tokens,    \* tokens sent
    sent,      \* sent[c]: parts of call c sent
    garbled,   \* a line arrived garbled
    text,      \* _content_parts
    accum,     \* _tc_accum
    pending,   \* the parts of this chunk that feed has still to take
    finish,    \* _finish_reason is set
    sink,      \* there is a sink and it has not raised
    emitted,   \* the tokens the sink took
    heard,     \* the parts fed, in order
    outcome,   \* what the caller has: nothing yet, a response, an error
    response,  \* the response
    troubles

serverVars == <<index, tokens, sent>>
textVars == <<text, finish, sink, emitted>>
callVars == <<accum, pending, heard>>
streamVars == <<serverVars, garbled, textVars, callVars, outcome, response,
                troubles>>

Delta == [call : Calls, part : 1..Parts]
Acc == [id : Calls \union {None}, args : Seq(Delta)]
Response == [text : Seq(1..MaxTokens), calls : Seq(Acc), finish : BOOLEAN]
NoResponse == [text |-> <<>>, calls |-> <<>>, finish |-> FALSE]

StreamTypeOK ==
    /\ index \in [Calls -> Indexes]
    /\ tokens \in 0..MaxTokens
    /\ sent \in [Calls -> 0..Parts]
    /\ garbled \in BOOLEAN
    /\ text \in Seq(1..MaxTokens)
    /\ DOMAIN accum \subseteq Indexes
    /\ \A i \in DOMAIN accum : accum[i] \in Acc
    /\ pending \in Seq(Delta)
    /\ finish \in BOOLEAN /\ sink \in BOOLEAN
    /\ emitted \in Seq(1..MaxTokens)
    /\ heard \in Seq(Delta)
    /\ outcome \in {"open", "returned", "refused", "broken"}
    /\ response \in Response
    /\ troubles \in 0..MaxTroubles

(* The n-th of a finite set of numbers.                                    *)
Nth(S, n) == CHOOSE x \in S : Cardinality({y \in S : y < x}) = n - 1

-----------------------------------------------------------------------------
(* A chunk the service may send next: a token, the next parts of one or    *)
(* more calls, the finish reason, or several of these, in any order.       *)

Chunk == [token : BOOLEAN, calls : UNION {SetToSeqs(S) : S \in SUBSET Calls},
          finish : BOOLEAN]

MaySend(k) ==
    /\ outcome = "open"
    /\ k.token => tokens < MaxTokens
    /\ \A c \in ToSet(k.calls) : sent[c] < Parts
    /\ k.token \/ k.calls # <<>> \/ k.finish

Send(k) ==
    /\ tokens' = IF k.token THEN tokens + 1 ELSE tokens
    /\ sent' = [c \in Calls |-> IF c \in ToSet(k.calls) THEN sent[c] + 1
                                                        ELSE sent[c]]
    /\ UNCHANGED index

Deltas(k) == [j \in 1..Len(k.calls) |->
                 [call |-> k.calls[j], part |-> sent[k.calls[j]] + 1]]

-----------------------------------------------------------------------------
(* The operators named ...Slip are variants of the definition that follows *)
(* them, each with a plausible slip; the properties notice every one.      *)

Fresh == [id |-> None, args |-> <<>>]

(* The loop of _StreamAccumulator.feed: one part after the other. Nothing  *)
(* else of the stream happens meanwhile.                                   *)
FeedSlip(a, d) ==
    LET i   == index[d.call]
        old == IF i \in DOMAIN a THEN a[i] ELSE Fresh
        new == [id   |-> IF d.part = 1 THEN d.call ELSE None,
                args |-> Append(old.args, d)]
    IN  [x \in DOMAIN a \union {i} |-> IF x = i THEN new ELSE a[x]]
Feed(a, d) ==
    LET i   == index[d.call]
        old == IF i \in DOMAIN a THEN a[i] ELSE Fresh
        new == [id   |-> IF d.part = 1 THEN d.call ELSE old.id,
                args |-> Append(old.args, d)]
    IN  [x \in DOMAIN a \union {i} |-> IF x = i THEN new ELSE a[x]]

FeedNext ==
    /\ pending # <<>>
    /\ accum' = Feed(accum, Head(pending))
    /\ heard' = Append(heard, Head(pending))
    /\ pending' = Tail(pending)
    /\ UNCHANGED <<serverVars, garbled, textVars, outcome, response, troubles>>

(* _safe_emit: a sink that raises gets nothing more of this answer.        *)
EmitSlip(ok) ==
    /\ emitted' = IF ok THEN Append(emitted, tokens + 1) ELSE emitted
    /\ UNCHANGED sink
Emit(ok) ==
    /\ emitted' = IF sink /\ ok THEN Append(emitted, tokens + 1) ELSE emitted
    /\ sink' = (sink /\ ok)

(* A line that parses: the token goes to the sink first, then the chunk    *)
(* into the response, its text before its calls.                           *)
Take(k) ==
    /\ pending = <<>> /\ MaySend(k) /\ Send(k)
    /\ text' = IF k.token THEN Append(text, tokens + 1) ELSE text
    /\ pending' = Deltas(k)
    /\ finish' = (finish \/ k.finish)
    /\ UNCHANGED <<garbled, accum, heard, outcome, response>>

Healthy(k) ==
    /\ Take(k)
    /\ IF k.token THEN Emit(TRUE) ELSE UNCHANGED <<sink, emitted>>
    /\ UNCHANGED troubles

SinkRaises(k) ==
    /\ Take(k) /\ k.token /\ sink /\ Emit(FALSE)
    /\ troubles < MaxTroubles /\ troubles' = troubles + 1

(* A line that does not parse is an empty chunk.                           *)
Garbled(k) ==
    /\ pending = <<>> /\ MaySend(k) /\ Send(k)
    /\ troubles < MaxTroubles /\ troubles' = troubles + 1
    /\ garbled' = TRUE
    /\ UNCHANGED <<textVars, callVars, outcome, response>>

(* assemble: the calls in the order of their indexes.                      *)
AssembledSlip ==
    LET n == Cardinality(DOMAIN accum)
    IN  [text |-> text, finish |-> finish,
         calls |-> [j \in 1..n |-> accum[Nth(DOMAIN accum, n + 1 - j)]]]
AssembledResponse ==
    LET n == Cardinality(DOMAIN accum)
    IN  [text |-> text, finish |-> finish,
         calls |-> [j \in 1..n |-> accum[Nth(DOMAIN accum, j)]]]

(* The sentinel, or the end of the lines without one: both are the end.    *)
StreamEnds ==
    /\ pending = <<>> /\ outcome = "open" /\ outcome' = "returned"
    /\ response' = AssembledResponse
    /\ UNCHANGED <<serverVars, garbled, textVars, callVars, troubles>>

(* No connection or an error status: a ConnectionError. Later, whatever    *)
(* the reading of the stream raises.                                       *)
StreamFails ==
    /\ pending = <<>> /\ outcome = "open"
    /\ outcome' = IF /\ tokens = 0 /\ \A c \in Calls : sent[c] = 0
                     /\ ~finish /\ ~garbled THEN "refused" ELSE "broken"
    /\ UNCHANGED <<serverVars, garbled, textVars, callVars, response, troubles>>

StreamInit ==
    /\ index \in [Calls -> Indexes]
    /\ tokens = 0 /\ sent = [c \in Calls |-> 0]
    /\ garbled = FALSE
    /\ text = <<>> /\ accum = <<>> /\ pending = <<>> /\ finish = FALSE
    /\ sink \in BOOLEAN /\ emitted = <<>> /\ heard = <<>>
    /\ outcome = "open" /\ response = NoResponse
    /\ troubles = 0

StreamOver == outcome # "open" /\ UNCHANGED streamVars

StreamNext == \/ \E k \in Chunk : Healthy(k) \/ SinkRaises(k) \/ Garbled(k)
              \/ FeedNext \/ StreamEnds \/ StreamFails \/ StreamOver

StreamSpec == StreamInit /\ [][StreamNext]_streamVars

-----------------------------------------------------------------------------
(* The places in what was heard of the parts that came under an index, and *)
(* of those among them that carry an id.                                   *)
Used == {index[heard[n].call] : n \in 1..Len(heard)}
Under(i) == {n \in 1..Len(heard) : index[heard[n].call] = i}
Named(i) == {n \in Under(i) : heard[n].part = 1}

(* The response is what was heard, whatever the interleaving: the calls in *)
(* the order of their indexes, each with all the pieces that came under    *)
(* its index, in the order they came, and with the last id among them      *)
(* (_StreamAccumulator: "accumulate by index").                            *)
Gathered(e, i) ==
    /\ e.args = [m \in 1..Cardinality(Under(i)) |-> heard[Nth(Under(i), m)]]
    /\ e.id = IF Named(i) = {} THEN None
              ELSE heard[Nth(Named(i), Cardinality(Named(i)))].call
ResponseIsWhatWasHeard ==
    outcome = "returned" =>
        /\ Len(response.calls) = Cardinality(Used)
        /\ \A j \in 1..Cardinality(Used) :
              Gathered(response.calls[j], Nth(Used, j))

(* While no line is garbled and no two calls share an index, a stream gives*)
(* back exactly the calls the service began, each under its own id and with*)
(* every part that was sent of it, in order, also when it ends early. And  *)
(* of any stream without a garbled line: no call holds a piece of another, *)
(* or lacks its id, unless it shares its index with another. The           *)
(* interleaving of the parts is never a cause.                             *)
Shared(c) == \E b \in Calls \ {c} : index[b] = index[c]
CallsAreTheServices ==
    outcome = "returned" =>
        /\ ~garbled /\ IsInjective(index) =>
               /\ {e.id : e \in ToSet(response.calls)} = {c \in Calls : sent[c] > 0}
               /\ \A e \in ToSet(response.calls) :
                     e.args = [p \in 1..sent[e.id] |-> [call |-> e.id, part |-> p]]
        /\ \A e \in ToSet(response.calls) : \A d \in ToSet(e.args) :
               e.id # d.call => garbled \/ Shared(d.call)

(* The sink has been given a beginning of the text and, if it is still     *)
(* healthy, all of it: a sink that failed once is not tried again, so what *)
(* it was given has no gap (_safe_emit, stream_responder). What the sink   *)
(* does with it is its own affair: that of the console only collects.      *)
ShownIsABeginning ==
    /\ IsPrefix(emitted, text)
    /\ sink => emitted = text

=============================================================================
