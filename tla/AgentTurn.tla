----------------------------- MODULE AgentTurn -----------------------------
(***************************************************************************)
(* The turn engine of core/agent/repl.py (Repl.run_turn, _dispatch_calls,  *)
(* _resolve_gate, interactive_loop) with the parts of the system it drives *)
(* on every turn: the permission gate, the no-call guard, the audit log,   *)
(* the snapshot cache and the transcript memory.                           *)
(*                                                                         *)
(* The environment is nondeterministic: what the model replies, what the   *)
(* operator answers at a gate, what an operation returns and whether it    *)
(* changed the machine, an audit write that raises, a lost model service,  *)
(* and the death of the process between any two steps.                     *)
(***************************************************************************)
EXTENDS Permissions, Descent, Sequences, FiniteSets

CONSTANTS
    Calls,      \* the validated tool calls the model can produce
    MaxRounds,  \* Repl.max_rounds
    Batch,      \* bound: calls in one reply, and malformed calls in one reply
    MaxTurns,   \* bound: turns over all sessions
    MaxFaults,  \* bound: faults
    FaultKinds, \* the faults that can happen: "audit", "connection", "death"
    NoCall      \* stands for no clearance in the refinement below

ASSUME NoCallAssumption == NoCall \notin [call : Calls, consent : Consent]
ASSUME CallsAssumption  == Calls \subseteq Call
ASSUME RoundsAssumption == MaxRounds \in Nat \ {0}
ASSUME BoundsAssumption == Batch \in Nat /\ MaxTurns \in Nat /\ MaxFaults \in Nat

VARIABLES
    interactive,    \* a person is present (one-shot requests: FALSE)
    turns,          \* turns begun so far
    faults,         \* faults so far
    phase,          \* where the loop is
    wants,          \* the request of this turn asks for an operation
    round,          \* rounds taken in this turn
    nocallReasked,  \* the no-call guard has asked again in this turn
    emptyReasked,   \* an empty reply has been asked again in this turn
    missesLeft,     \* malformed calls of this reply not yet recorded
    pending,        \* validated calls of this reply, the head in progress
    consent,        \* what the operator did for the head of pending
    refused,        \* operations stopped at the gate in this turn
    outputShown,    \* real output of a read was displayed in this turn
    ended,          \* the turn ended with text for the operator
    screen,         \* kinds of things the operator was shown in this turn
    ran,            \* every operation executed so far, in order
    opBase,         \* Len(ran) when this turn began
    audit,          \* the audit log
    remembered,     \* indices of ran whose results are in the memory
    cache,          \* the cached snapshot, relative to this session's changes
    unsettled       \* operations of this process that reported failure, or
                    \* after which a fault ended the turn

turnVars == <<wants, round, nocallReasked, emptyReasked, refused, outputShown,
              ended, screen, opBase>>
callVars == <<missesLeft, pending, consent>>
logVars  == <<ran, audit, remembered, cache, unsettled>>
sessionVars == <<interactive, turns, faults>>
vars == <<sessionVars, phase, turnVars, callVars, logVars>>

Phases == {"idle", "propose", "blocked", "misses", "calls", "confirm",
           "refuse", "dispatch", "record", "finish"}

(* What can be displayed: a reply of the model by its shape, a fixed line  *)
(* of the guard or of the fallback, a gate prompt, a step line, the real   *)
(* output of a read, the one-line report of an aborted turn.               *)
Shown == {"plain", "result", "echo", "fixed", "fallback", "prompt", "step",
          "output", "error"}

Shape == {"plain", "result", "echo"}

Executed == [call : Calls, consent : Consent, ok : BOOLEAN, changed : BOOLEAN]

AuditRecord == [kind : {"ran", "refused", "miss", "blocked"}, op : Nat]

TypeOK ==
    /\ interactive \in BOOLEAN
    /\ turns \in 0..MaxTurns
    /\ faults \in 0..MaxFaults
    /\ phase \in Phases
    /\ wants \in BOOLEAN
    /\ round \in 0..MaxRounds
    /\ nocallReasked \in BOOLEAN
    /\ emptyReasked \in BOOLEAN
    /\ missesLeft \in 0..Batch
    /\ pending \in Seq(Calls)
    /\ consent \in Consent
    /\ refused \in Nat
    /\ outputShown \in BOOLEAN
    /\ ended \in BOOLEAN
    /\ screen \subseteq Shown
    /\ ran \in Seq(Executed)
    /\ opBase \in 0..Len(ran)
    /\ audit \in Seq(AuditRecord)
    /\ remembered \subseteq 1..Len(ran)
    /\ cache \in {"cold", "fresh", "stale"}
    /\ unsettled \subseteq 1..Len(ran)

-----------------------------------------------------------------------------

(* outcome.tool_calls_made, and what the guard counts as an attempt.       *)
Made == Len(ran) - opBase
Dispatched == Made + refused

DecisionFor(call) == LoopDecision(call, interactive)

(* The operation whose record is about to be written, if there is one.     *)
InFlight == IF phase = "record" THEN {Len(ran)} ELSE {}

(* The operators named ...Slip are variants of the definition that follows *)
(* them, each with a plausible slip; the properties notice every one.      *)

(* The loop goes round again while rounds are left, n of them taken.       *)
AfterRoundSlip(n) == "propose"
AfterRound(n) == IF n < MaxRounds THEN "propose" ELSE "finish"

(* nocallguard.should_block: a reply in words that must not be displayed.  *)
ShouldBlockSlip(shape) == Dispatched = 0 /\ wants
ShouldBlock(shape) == Dispatched = 0 /\ (shape = "result" \/ wants)

(* Nothing the operator could see: the condition of the fallback line.     *)
NothingVisibleSlip == ~ended /\ ~outputShown /\ audit = <<>>
NothingVisible == ~ended /\ ~outputShown /\ Dispatched = 0

(* A change that succeeded invalidates the cached snapshot.                *)
CacheAfterSlip(class, ok) == cache
CacheAfter(class, ok) == IF class # "read" /\ ok THEN "cold" ELSE cache

(* The audit records the loop writes; n is the operation that just ran.    *)
NoRunRecord(kind) == [kind |-> kind, op |-> 0]
RunRecordSlip(n) ==
    [kind |-> IF ran[n].ok THEN "ran" ELSE "miss", op |-> n]
RunRecord(n) == [kind |-> "ran", op |-> n]

(* What is in the memory after a turn that did not complete: nothing new.  *)
MemoryAfterAbortSlip == remembered \union (opBase + 1)..Len(ran)
MemoryAfterAbort == remembered

(* The locals of run_turn are gone once it returns or raises; what the     *)
(* operator saw, asked for and had attempted stays visible here.           *)
LocalsGone ==
    /\ round' = 0
    /\ nocallReasked' = FALSE
    /\ emptyReasked' = FALSE
    /\ outputShown' = FALSE
    /\ ended' = FALSE
    /\ missesLeft' = 0 /\ pending' = <<>> /\ consent' = "none"

Init ==
    /\ interactive \in BOOLEAN
    /\ turns = 0 /\ faults = 0
    /\ phase = "idle"
    /\ wants = FALSE /\ round = 0
    /\ nocallReasked = FALSE /\ emptyReasked = FALSE
    /\ missesLeft = 0 /\ pending = <<>> /\ consent = "none"
    /\ refused = 0 /\ outputShown = FALSE /\ ended = FALSE
    /\ screen = {}
    /\ ran = <<>> /\ opBase = 0
    /\ audit = <<>> /\ remembered = {}
    /\ cache = "cold" /\ unsettled = {}

(* One line of the operator starts a turn: the display and the counters    *)
(* are reset and the snapshot is taken from the cache, or collected when   *)
(* the cache is cold or past its time to live (a collection that raises    *)
(* leaves nothing usable). A one-shot run, without a person, is a session  *)
(* of a single turn.                                                       *)
BeginTurn ==
    /\ phase = "idle"
    /\ turns < MaxTurns
    /\ interactive \/ turns = 0
    /\ turns' = turns + 1
    /\ phase' = "propose"
    /\ wants' \in BOOLEAN
    /\ LocalsGone
    /\ refused' = 0
    /\ screen' = {}
    /\ opBase' = Len(ran)
    /\ cache' \in {cache, "fresh", "cold"}
    /\ UNCHANGED <<interactive, faults, ran, audit, remembered, unsettled>>

(* Strategy.propose, one round of the model. Each of the four actions      *)
(* below is one kind of result: nothing at all, text, or calls of which    *)
(* some may be malformed.                                                  *)
BeginRoundSlip == phase = "propose" /\ round < MaxRounds /\ round' = round
BeginRound ==
    /\ phase = "propose"
    /\ round < MaxRounds
    /\ round' = round + 1

EmptyReply ==
    /\ BeginRound
    /\ emptyReasked' = TRUE
    /\ phase' = IF emptyReasked THEN "calls" ELSE AfterRound(round')
    /\ UNCHANGED <<sessionVars, wants, nocallReasked, refused, outputShown,
                   ended, screen, opBase, callVars, logVars>>

(* A reply in words. Text that repeats the runtime's own corrections is    *)
(* replaced by a fixed line. Text is blocked when nothing was attempted    *)
(* and it looks like a result or the request asked for an operation.       *)
(* Bulky text after real output was displayed is not displayed again.      *)
TextReply(shape, bulky) ==
    /\ BeginRound
    /\ IF shape # "echo" /\ ShouldBlock(shape)
       THEN /\ phase' = "blocked"
            /\ UNCHANGED <<ended, screen>>
       ELSE /\ phase' = "finish"
            /\ ended' = TRUE
            /\ screen' = screen \union
                 (IF shape = "echo" THEN {"fixed"}
                  ELSE IF outputShown /\ bulky THEN {} ELSE {shape})
    /\ UNCHANGED <<sessionVars, wants, nocallReasked, emptyReasked, refused,
                   outputShown, opBase, callVars, logVars>>

CallReply(calls, misses) ==
    /\ BeginRound
    /\ Len(calls) + misses > 0
    /\ pending' = calls
    /\ missesLeft' = misses
    /\ phase' = IF misses > 0 THEN "misses" ELSE "calls"
    /\ UNCHANGED <<sessionVars, wants, nocallReasked, emptyReasked, refused,
                   outputShown, ended, screen, opBase, consent, logVars>>

(* The blocked reply is recorded, then asked again once; the second time   *)
(* the operator is told that nothing was run.                              *)
RecordBlocked ==
    /\ phase = "blocked"
    /\ audit' = Append(audit, NoRunRecord("blocked"))
    /\ nocallReasked' = TRUE
    /\ IF nocallReasked
       THEN /\ screen' = screen \union {"fixed"}
            /\ ended' = TRUE
            /\ phase' = "finish"
       ELSE /\ phase' = AfterRound(round)
            /\ UNCHANGED <<screen, ended>>
    /\ UNCHANGED <<sessionVars, wants, round, emptyReasked, refused,
                   outputShown, opBase, callVars, ran, remembered, cache,
                   unsettled>>

(* One record for each malformed call, before the valid ones are run.      *)
RecordMiss ==
    /\ phase = "misses"
    /\ audit' = Append(audit, NoRunRecord("miss"))
    /\ missesLeft' = missesLeft - 1
    /\ phase' = IF missesLeft = 1 THEN "calls" ELSE "misses"
    /\ UNCHANGED <<sessionVars, turnVars, pending, consent, ran, remembered,
                   cache, unsettled>>

(* No call of this reply is left: the results go back to the model.        *)
EndRound ==
    /\ phase = "calls"
    /\ pending = <<>>
    /\ phase' = AfterRound(round)
    /\ UNCHANGED <<sessionVars, turnVars, callVars, logVars>>

-----------------------------------------------------------------------------

(* The gate of the next call. A read clears at once, a refusal never does, *)
(* the other two put a prompt on the screen and wait.                      *)
ResolveGate ==
    /\ phase = "calls"
    /\ pending # <<>>
    /\ LET gate == DecisionFor(Head(pending)).gate IN
        \/ gate = "allow"  /\ phase' = "dispatch" /\ UNCHANGED <<refused, screen>>
        \/ gate = "refuse" /\ phase' = "refuse" /\ refused' = refused + 1
                           /\ UNCHANGED screen
        \/ gate \in {"confirm", "confirm_typed"} /\ phase' = "confirm"
                           /\ screen' = screen \union {"prompt"}
                           /\ UNCHANGED refused
    /\ consent' = "none"
    /\ UNCHANGED <<sessionVars, wants, round, nocallReasked, emptyReasked,
                   outputShown, ended, opBase, missesLeft, pending, logVars>>

(* The operator answers the prompt; end of input counts as another answer. *)
OperatorAnswers(answer) ==
    /\ phase = "confirm"
    /\ IF Clears(DecisionFor(Head(pending)).gate, answer)
       THEN /\ phase' = "dispatch"
            /\ consent' = answer
            /\ UNCHANGED refused
       ELSE /\ phase' = "refuse"
            /\ refused' = refused + 1
            /\ UNCHANGED consent
    /\ UNCHANGED <<sessionVars, wants, round, nocallReasked, emptyReasked,
                   outputShown, ended, screen, opBase, missesLeft, pending,
                   logVars>>

(* A refused or declined call is recorded and answered with a "not run"    *)
(* result; the display prints nothing for it.                              *)
RecordRefusalSlip ==
    /\ phase = "refuse"
    /\ audit' = Append(audit, RunRecord(Len(ran)))
    /\ pending' = Tail(pending)
    /\ phase' = "calls"
    /\ UNCHANGED <<sessionVars, turnVars, missesLeft, consent, ran, remembered,
                   cache, unsettled>>

RecordRefusal ==
    /\ phase = "refuse"
    /\ audit' = Append(audit, NoRunRecord("refused"))
    /\ pending' = Tail(pending)
    /\ phase' = "calls"
    /\ UNCHANGED <<sessionVars, turnVars, missesLeft, consent, ran, remembered,
                   cache, unsettled>>

(* The operation runs. It can fail, or time out, after it changed the      *)
(* machine; a read changes nothing.                                        *)
Dispatch(ok, changed) ==
    /\ phase = "dispatch"
    /\ changed => DecisionFor(Head(pending)).op_class # "read"
    /\ ran' = Append(ran, [call |-> Head(pending), consent |-> consent,
                           ok |-> ok, changed |-> changed])
    /\ cache' = IF changed /\ cache = "fresh" THEN "stale" ELSE cache
    /\ phase' = "record"
    /\ UNCHANGED <<sessionVars, turnVars, callVars, audit, remembered, unsettled>>

(* Only now is it recorded; then the step line and, for a read that        *)
(* succeeded, its output are displayed, and a change that succeeded        *)
(* invalidates the cached snapshot.                                        *)
RecordRun(output) ==
    LET done == ran[Len(ran)]
        class == DecisionFor(Head(pending)).op_class
        showsOutput == class = "read" /\ done.ok /\ output
    IN  /\ phase = "record"
        /\ audit' = Append(audit, RunRecord(Len(ran)))
        /\ screen' = screen \union {"step"} \union
                        (IF showsOutput THEN {"output"} ELSE {})
        /\ outputShown' = (outputShown \/ showsOutput)
        /\ cache' = CacheAfter(class, done.ok)
        /\ unsettled' = IF done.ok THEN unsettled ELSE unsettled \union {Len(ran)}
        /\ pending' = Tail(pending)
        /\ consent' = "none"
        /\ phase' = "calls"
        /\ UNCHANGED <<sessionVars, wants, round, nocallReasked, emptyReasked,
                       refused, ended, opBase, missesLeft, ran, remembered>>

(* After the last round: the fallback line if the operator saw nothing,    *)
(* then the results of the turn are folded into the transcript memory.     *)
FinishTurn ==
    /\ phase = "finish"
    /\ screen' = screen \union
         (IF NothingVisible THEN {"fallback"} ELSE {})
    /\ remembered' = remembered \union (opBase + 1)..Len(ran)
    /\ phase' = "idle"
    /\ LocalsGone
    /\ UNCHANGED <<sessionVars, wants, refused, opBase, ran, audit, cache, unsettled>>

-----------------------------------------------------------------------------
(* Faults.                                                                 *)

(* An exception that leaves run_turn is reported in one line and the loop  *)
(* reads the next request; what was left of the turn is forgotten.         *)
AbandonTurn ==
    /\ faults < MaxFaults
    /\ faults' = faults + 1
    /\ phase' = "idle"
    /\ screen' = screen \union {"error"}
    /\ LocalsGone
    /\ remembered' = MemoryAfterAbort
    /\ unsettled' = unsettled \union InFlight
    /\ UNCHANGED <<interactive, turns, wants, refused, opBase, ran, cache>>

(* AuditLog.write raises: either the write failed and there is no record,  *)
(* or the sync after it failed and the record is there.                    *)
AuditFault ==
    /\ "audit" \in FaultKinds
    /\ phase \in {"blocked", "misses", "refuse", "record"}
    /\ AbandonTurn
    /\ \/ UNCHANGED audit
       \/ audit' = Append(audit,
            CASE phase = "blocked" -> NoRunRecord("blocked")
              [] phase = "misses"  -> NoRunRecord("miss")
              [] phase = "refuse"  -> NoRunRecord("refused")
              [] phase = "record"  -> RunRecord(Len(ran)))

(* The responder raises: the local model service is not reachable.         *)
ConnectionLost ==
    /\ "connection" \in FaultKinds
    /\ phase = "propose"
    /\ round < MaxRounds
    /\ AbandonTurn
    /\ UNCHANGED audit

(* The process dies (a signal, an interrupt at a prompt) and the operator  *)
(* logs in again: everything but the machine and the audit log is new.     *)
ProcessDies ==
    /\ "death" \in FaultKinds
    /\ faults < MaxFaults
    /\ faults' = faults + 1
    /\ phase' = "idle"
    /\ screen' = {"error"}
    /\ LocalsGone
    /\ wants' = FALSE
    /\ refused' = 0
    /\ opBase' = Len(ran)
    /\ remembered' = {}
    /\ cache' = "cold" /\ unsettled' = {}
    /\ UNCHANGED <<interactive, turns, ran, audit>>

(* An idle loop waits for a line for as long as the operator likes.        *)
AwaitLine == phase = "idle" /\ UNCHANGED vars

-----------------------------------------------------------------------------

Replies == UNION {[1..n -> Calls] : n \in 0..Batch}

(* A reply of the model. Nothing bounds the time it takes: the request to   *)
(* the local service has no timeout.                                       *)
ModelReplies ==
    \/ EmptyReply
    \/ \E shape \in Shape, bulky \in BOOLEAN : TextReply(shape, bulky)
    \/ \E calls \in Replies, misses \in 0..Batch : CallReply(calls, misses)

(* What the program does by itself; an operation that takes too long is    *)
(* killed by the helper that runs it.                                      *)
OwnStep ==
    \/ RecordBlocked
    \/ RecordMiss
    \/ EndRound
    \/ ResolveGate
    \/ RecordRefusal
    \/ \E ok, changed \in BOOLEAN : Dispatch(ok, changed)
    \/ \E output \in BOOLEAN : RecordRun(output)
    \/ FinishTurn

Environment ==
    \/ BeginTurn
    \/ \E answer \in Answer : OperatorAnswers(answer)
    \/ AuditFault
    \/ ConnectionLost
    \/ ProcessDies
    \/ AwaitLine

Next == ModelReplies \/ OwnStep \/ Environment

Spec == Init /\ [][Next]_vars

(* Nothing is assumed of the model, of the operator or of the faults.      *)
FairSpec == Spec /\ WF_vars(OwnStep)

-----------------------------------------------------------------------------
(* Properties.                                                             *)

(* The operations that have their record in the audit log.                 *)
RanRecords == {n \in DOMAIN audit : audit[n].kind = "ran"}
Recorded == {audit[n].op : n \in RanRecords}

(* Whatever the model proposes and however turns are cut short, an         *)
(* operation that ran was allowed by the strictest class anyone assigns to *)
(* it: a read, or a change a present person consented to, or a destructive *)
(* change whose word was typed. (I3; permissions.escalate.)                *)
RanWithConsent ==
    \A n \in DOMAIN ran :
        /\ Sufficient(ran[n].consent, StrictestClass(ran[n].call))
        /\ ran[n].consent # "none" => interactive

(* No operation has two records, and the log tells the order in which      *)
(* operations ran. (I4; the single audit.write after the dispatch.)        *)
AuditInOrder ==
    \A m, n \in RanRecords : m < n => audit[m].op < audit[n].op

(* An operation without a record is the one in flight, or it was lost to a *)
(* fault of its own: there are never more gaps in the log than faults.     *)
GapsAreFaults ==
    Cardinality((DOMAIN ran) \ (Recorded \union InFlight)) <= faults

(* The memory never holds a result that the audit log does not: a turn     *)
(* that lost a record is not remembered. (run_turn records the memory only *)
(* after every audit.write of the turn has returned.)                      *)
RememberedIsRecorded == remembered \subseteq Recorded

(* Text shaped like a result, or any text when the request asked for an    *)
(* operation, is displayed only in a turn that attempted one.              *)
(* (nocallguard.should_block.)                                             *)
TextNeedsAttempt ==
    Dispatched = 0 => /\ "result" \notin screen
                      /\ "plain" \in screen => ~wants

(* A turn of a session with a person always ends with something displayed. *)
(* (The fallback line of run_turn.)                                        *)
NeverSilent ==
    phase = "idle" /\ turns > 0 /\ interactive => screen # {}

(* The cached snapshot lags behind a change this session made only if the  *)
(* operation that made it reported failure, or its record is not written   *)
(* or raised and ended the turn; and since then no change has succeeded,   *)
(* of which the first would have thrown the snapshot away. (I5;            *)
(* context.invalidate.)                                                    *)
StaleHasCause ==
    cache = "stale" =>
        \E n \in InFlight \union unsettled :
            /\ ran[n].changed
            /\ \A m \in (n + 1)..Len(ran) :
                  \/ m \in InFlight \union unsettled
                  \/ DecisionFor(ran[m].call).op_class = "read"

(* What the three invariants above rest on, from step to step: what the    *)
(* phase says of the other variables, the consent for the call in          *)
(* progress, and the records still owed by a turn in progress.             *)
CallInProgress ==
    /\ phase = "misses" => missesLeft > 0
    /\ phase \in {"confirm", "refuse", "dispatch", "record"} => pending # <<>>
    /\ phase = "record" => Len(ran) > opBase

CallIsCleared ==
    phase = "dispatch" =>
        /\ Sufficient(consent, StrictestClass(Head(pending)))
        /\ consent # "none" => interactive

LogIsBehind ==
    /\ Recorded \subseteq DOMAIN ran
    /\ phase = "record" => Len(ran) \notin Recorded
    /\ phase # "idle" => (opBase + 1)..Len(ran) \subseteq Recorded \union InFlight

(* A turn ends unless someone else holds it up for ever: the operator at a *)
(* prompt, or a model service that never answers a request that the loop   *)
(* may still make. (The cap on rounds.)                                    *)
AwaitsReply == phase = "propose" /\ round < MaxRounds

TurnProgress ==
    []<>(phase \in {"idle", "confirm"}) \/ <>[]AwaitsReply

(* What bounds a turn, whatever the model replies: a round costs one of    *)
(* MaxRounds, a call or a malformed call of a reply is taken off it, and   *)
(* in between a call moves on. Every step taken within a turn, an answer   *)
(* of the operator and a fault included, uses some of it up.               *)
StepsLeft ==
    CASE phase \in {"blocked", "misses", "calls"} -> 4
      [] phase = "confirm" -> 3
      [] phase \in {"refuse", "dispatch"} -> 2
      [] phase = "record" -> 1
      [] OTHER -> 0

TurnVariant ==
    <<IF phase = "idle" THEN 0 ELSE 1 + MaxRounds - round,
      missesLeft + Len(pending),
      StepsLeft>>

TurnDescends ==
    [][phase # "idle" => Below(TurnVariant', TurnVariant)]_vars

(* The loop implements gated execution: only a call that passed its own    *)
(* gate runs, once, and only an operation that just ran enters the log.    *)
Gated == INSTANCE GatedExecution WITH
    present   <- interactive,
    clearance <- IF phase = "dispatch"
                 THEN [call |-> Head(pending), consent |-> consent]
                 ELSE NoCall,
    history   <- [n \in DOMAIN ran |->
                    [call |-> ran[n].call, consent |-> ran[n].consent]],
    entries   <- Recorded

ImplementsGatedExecution == Gated!GSpec
=============================================================================
