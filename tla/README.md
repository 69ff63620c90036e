# A TLA+ model of the erdtree agent

This directory models the agent in `src/core` that turns a request in plain
English into operations on a Linux machine, and the login shell in `src/shell` that
hosts it: the turn engine with its permission gate and no-call guard, the audit log,
the compound-request planner with its verification, the transcript memory, the
snapshot cache, the index over past operations, the strategies that turn a request
into a call, the client of the model service, and the shell with its display. TLC
checks the models on small instances; TLAPS proves the main safety properties for
every value of their constants.

`PROJECT.json` has the same material in a form for tools: the components, the runs,
for every definition the lines of the source it stands for, a plausible slip for
every checked property (the operators named `...Slip`), the disagreements between
documentation and code, and the hazards with the properties that would catch them.

## The system

One session is one process: `main.py` or the login shell wires a `Repl` to a model
service on localhost, a registry of 55 tools, an `AuditLog`, a snapshot cache and a
transcript memory. A request is a *turn*. In each of at most `max_rounds` rounds a
strategy proposes a reply, from the model directly or from narrow questions to it; a
reply is nothing, words, or calls, some of which may be malformed. A valid call is
rendered as a command line, classified, gated, run, recorded and displayed; its result
goes back to the model. Several sessions may share one audit file and one index over it.

| component | state it keeps | operations | what makes it correct |
|---|---|---|---|
| Turn engine, `agent/repl.py` | counters, messages and display state of the turn | `run_turn`, `_dispatch_calls`, `_resolve_gate`, `interactive_loop` | nothing runs unconsented; each run is recorded; a turn ends and shows something |
| Permission gate, `agent/permissions.py` | none | `classify`, `escalate` | the strictest opinion wins; no person, no change |
| No-call guard, `agent/nocallguard.py` | none | `should_block`, `is_runtime_echo` | no claimed result without an attempt |
| Audit log, `agent/audit.py` | a descriptor; a shared append-only file | `write`, `close`, `iter_records` | what `write` returned for survives; a torn line costs little |
| Compound plans, `pipeline/plan.py`, `pipeline/verify.py` | steps, position, re-plans, attempts | `run_plan`, `_execute_step`, `verify` | nothing is repeated or continued that is not safe to |
| Snapshot cache, `context/cache.py`, `agent/context.py` | snapshot, expiry, lock | `get`, `invalidate`, `ttl`, `snapshot_text` | no answer older than its time to live or than a change of this session |
| Transcript memory, `agent/memory.py`, `agent/historygate.py` | records of past rounds | `record`, `compacted_history` | calls keep their results; bounded; only what was recorded, all of it that fits |
| Episodic memory, `agent/episodic.py`, `rag/index.py` | an index file and the size of the log it was built at | `recall`, `_ensure_index`, `build_index` | the index follows the log; a failure heals |
| Strategies, `pipeline/strategy.py`, `intent.py`, `slots.py`, `assembler.py` | per request: candidates, arguments, worker results | `propose`, slot workers, assembly | the order of the workers does not matter; escalation loses nothing |
| Model client, `model/ollama.py` | an open stream | `chat`, `stream_responder` | calls assembled as sent, in any interleaving |
| Product shell, `src/shell` | mode, the agent, child process | guarded start, dispatch, passthrough | always a way back to a plain shell |
| Console display, in `agent/repl.py` | spinner thread, line state | `tool_step`, `tool_step_result`, `confirm` | a turn abandoned half-way does not spoil the next |
| Router, `agent/router.py`; operation runner and tools, `core/tools` | none | `route`; `dispatch`, `run_subprocess` | well-formed calls only; every operation ends (timeouts) |
| Retrieval, fine-tuning, sandbox, benchmarks, host files | files | offline | outside the running system |

How they interact: the turn engine calls everything else synchronously on one
thread. What is concurrent is outside that thread: other sessions on the audit file
and on the index, slot workers, spinner threads, other users of the snapshot cache, the
operator, the model service and the machine. What makes the system hard is partial
failure: a record that cannot be written after the operation ran, an operation that is
killed after it took effect, a process that ends between two steps, a collection that
raises while the lock is held, a write to disk that takes half of what it was given, a service that
never answers.

## The modules

| module | models | state |
|---|---|---|
| `Permissions` | `permissions.py` and the two confirm prompts | none; operators |
| `AgentTurn` | the turn engine with the gate, the guard, and what it does to log, cache and memory | 21 variables, most of them a local or a field of the code, named in the comments |
| `GatedExecution` | the abstract promise: one clearance, one run, at most one log entry | `clearance`, `history`, `entries` |
| `Descent` | no code: the order of tuples of naturals by which turns, plans and proposals are shown to end | none; one operator |
| `AuditLog` | writers, one file, power losses and the reader | pieces of the file, what is on the disk, per-writer state |
| `PlanRun` | `run_plan` with `verify` | plan, position, re-plans, retries, history, log and its counters, reports |
| `TranscriptMemory` | the rounds of a turn as the memory sees them, recording, compaction, eviction | messages of the turn, records, what is shown |
| `SnapshotCache` | the cache, its lock and its collections | clock, machine, snapshot, expiry, lock, per-thread place |
| `EpisodicIndex` | `recall` and the build of the index, step by step, for several sessions | log, files, path, per-session place |
| `Understanding` | the three strategies and their stages | candidates, arguments, questions queued, asked and answered |
| `ConsoleDisplay` | the methods of the console that touch its flags and its spinner | flags, threads |
| `ShellSession` | the login shell, composed with `ConsoleDisplay` by `EXTENDS` | mode, service, place in a line, rounds and steps of a turn |
| `StreamAssembly` | the stream of one answer, and what the client makes of it | what was sent, heard, emitted |
| `..._proofs` | theorems about eight of them | |
| `MC...` | instances for TLC | |

What they have in common: a place in the code (`phase`, `pc`) stands before each call
that may fail or wait, so that a fault or another actor can fall exactly there. History
variables that only the properties read are named so in the comments (`ran`, `unsettled`,
`short`, `cut`, `slow`, `missed`, `disturbed`, `lost`).

### AgentTurn

`phase` is the place in `run_turn`. `propose` is the wait for the model; `blocked`,
`misses`, `refuse` and `record` each stand before one `audit.write`, so that a fault
can fall on exactly that write; `confirm` is a prompt; `dispatch` is the moment
between a cleared gate and the operation; `finish` is the tail of `run_turn` after
the last round. A command line is the set of the classes of its fragments (`Call`), so
that chains, substitutions and disagreement with the registry can occur, and the
regular expressions that classify one fragment are left out. What the model says is
reduced to what the loop tells apart: an echo of the runtime's own correction, text
shaped like a result, plain text, bulky or not, and whether the request asks for an
operation.

The environment acts at any time: `BeginTurn`, `OperatorAnswers`, `AuditFault` (the
write raises, with or without its record in the file), `ConnectionLost`,
`ProcessDies`. `ran`, the history of operations with the consent each ran under, is
what the properties speak of; the code keeps it only in the machine.

`cache` is relative to this session's changes: `fresh`, `stale` when a change came
after the snapshot was taken, `cold` when the next `get` will collect. The time to
live may end at any turn; `SnapshotCache` has the cache in full. `unsettled` holds the
operations of this process that the code gives no chance to invalidate the cache: those that reported
failure, and those whose turn a fault ended before their success was acted on. `StaleHasCause`
asks for one of them, and that nothing since has succeeded in a change.

### AuditLog

The file is a sequence of pieces, one for each `os.write`. A piece is whole or torn
in one of three ways that the reader tells apart: all but the newline, a prefix, and
a prefix that ends inside a multi-byte character. A power loss keeps what was synced
and any first part of the rest. The count that `os.write` returns is not looked at by
the code, so a short write goes on to the sync and returns like a complete one; `short` remembers
the records it happened to. `OnDisk` is the records whose whole line, newline included, is synced.

### PlanRun

`run_plan` is a library with tests that no entry point calls yet. Each phase
before an `audit.write` is again a phase of its own. A call carries, next to its
classes, the row of the retry table its tool is in and the gate of the read that
would verify it (none, allowed, refused). What the classifier takes for a read may still change the
machine when the registry declares the call a change; the cache then stays as it is, as in the code. The
default planner makes one step per
clause, and it may make any call or none. A write to the log and the counting of it are apart, as in
the code: `records` is the local of `_execute_step` and `verify`, `counted` the field of the
`PlanRun`, and an exception may fall between a write and its count. An exception that leaves `run_plan` (a record
that cannot be written, a planner or a prompt that raises) ends the behaviour.

### TranscriptMemory

The turn engine again, seen from the memory: a round appends an assistant message, then a
result per call, or a request to try again. Only when the turn returns is the list cut into
records, message by message (`group` is the record `_record_turn` is filling); an exception
loses the list. A later request that refers back is shown the last `KeepRecent` records as
they are and older ones compacted, and the oldest compacted ones are dropped one by one
(phase `evict`) while the size exceeds the threshold. A message is its role, its origin,
the ids of the calls it carries or answers, and whether it carries output; a size counts a
unit per message and `Output` for output. Calls salvaged from text have no id and are in no
message, as in the code. Whether a request refers back is free.

### SnapshotCache

The machine is a version that every change increments. A collection reads the domains
one after another under the lock while time passes and the machine changes; a domain that
cannot be read is `Missing` in the snapshot and the rest go on, and the whole
collection may raise. A get and a forced get (`Call`, then `Hit` or `Miss`, `Read` and `Store`), `Invalidate`
and `SetTTL` are actions of threads; the clock is that of `time.monotonic`. The expiry is computed from the time read before the
collection began, as in the code, and the setter of `ttl` leaves the expiry of what is
cached alone. An answer carries the `ttl` in force when the cache was looked at, and its snapshot
the one it was stored under. `FreshWithinTTL` measures by the first, but for an entry stored under a longer
one; that exception is where the code departs from its documentation (below). `floor`, the version
at the last invalidate, is what `InvalidateIsABarrier` compares with. What a turn makes of a snapshot is
left out: the live location lines, the fallback when rendering it raises (`context.py:124-128`), the facts.

### EpisodicIndex

`recall` and the build are cut where another process can step in: after the size is
read, after the log is loaded, before the unlink, after the connect that creates an empty
file, after the first `CREATE TABLE` (which sqlite3 commits by itself), after the commit,
and where the size is read again. Files are numbered, so a file that was unlinked lives on
for those who have it open. Every step may fail, a process may restart, the log may grow
and become unreadable at any moment. What the embedder ranks is left out: an answer is how
many records the index it came from covers, and who made it.

The attempt to prove `NothingHasCause` showed a case worth knowing: a session whose
rebuild fails after another session unlinked its index does not heal on the next recall, but
when the log has grown by `rebuild_delta` or someone else has rebuilt. The properties
account for it through `disturbed`.

### Understanding

`pc` is the stage: the native pass, the classification, a candidate tried by rule, its
open arguments asked concurrently, assembly, and the choice between what the native pass gave and
what was assembled. Submitted questions (`todo`), those being asked (`busy`) and the answers not yet
gathered (`finished`) are the pool; as in the code, a pool can only be made with at least
one worker. Each question may fail with a lost service or otherwise, and each stage treats the
two as the code does. The mode, the classifier and the number of workers are chosen at the
start, as the environment variables do.

### ConsoleDisplay and ShellSession

`ConsoleDisplay` has the methods as operators: the granted confirmation, the open line,
the spinner with a thread and a stop event per step. `ShellSession` calls them in the order
of a turn and lets the spinner threads paint in between; a join may give up on a slow
thread. The shell starts with a probe and a factory that may each fail, reads a line,
runs it raw or as a turn. A turn asks the service at most `MaxRounds` times and then ends at the prompt. When
the service is lost the shell replaces itself by bash, unless the understanding is
`decomposed`: there the failed question counts as one without an answer and only uses up a
round. A record that cannot be written ends the turn with a message. Errors that no handler of the shell
is for (a line that does not decode at `shell.py:319`, the working directory that cannot be named
at `shell.py:417`, a null character in a raw command) end the shell, and so does Ctrl-C anywhere but
at the prompt. `cut` remembers that a turn was abandoned between a step and its result (`open`), because
`begin_turn` does not reset what the step left set, that the one result this can spoil is on the
screen (`closing`), and that it is past (`closed`).

### StreamAssembly

The service sends tokens of text and the parts of its calls in any
interleaving, with indexes it may give to two calls. A chunk may hold a token, several parts and the
finish reason together, and more chunks may follow the finish. The parts of a chunk are `pending` until the
loop of `_StreamAccumulator.feed` has taken them one by one (`FeedNext`); nothing else of the stream
happens meanwhile. A line may be garbled, the sink may raise, the stream may break or close before
its end; a stream that closes without `[DONE]` is taken for complete, as in the code. The names
begin with `Stream` where `Understanding` has the same ones, since the theorems about the two, the
stream and the call made of its response, share a module.

## The runs

| run | instance | checks |
|---|---|---|
| `turn` | 1 turn, 2 rounds, replies of up to 2 calls and 2 malformed ones, 1 fault, fairness | `RanWithConsent`, `TextNeedsAttempt`, `NeverSilent`, `TurnProgress`, `TurnDescends` |
| `sessions` | 2 turns of 1 round, 2 faults, calls the classifier and the registry disagree on | `AuditInOrder`, `GapsAreFaults`, `RememberedIsRecorded`, `StaleHasCause`, `ImplementsGatedExecution` |
| `log` | 2 writers, 4 records, 3 faults, every tear | `DurableOnReturn`, `LossBounded` |
| `plan` | 3 clauses of 5 calls (one declared a change and classified a read) or none, 1 re-plan, 1 retry, fairness | `RepeatsAreSafe`, `OnlyTrustedSteps`, `HistoryIsThePlan`, `RecordsFollowRuns`, `StaleHasCause`, `PlanEnds` |
| `memory` | 3 turns of up to 2 rounds and 2 calls, 4 replies, a window of 2, a budget that evicts | `ShownIsAnswered`, `RemembersReturnedTurns`, `ShownIsRecent`, `ForgetsForTheBudget` |
| `snapshot` | 2 threads, 2 domains, either of which may be missing, times to live 0 and 2, 3 ticks, 3 calls, 1 change, fairness | `FreshWithinTTL`, `InvalidateIsABarrier`, `GetReturns` |
| `recall` | 2 sessions, 4 records, rebuild after 2, 3 recalls, 1 fault, symmetric sessions | `LagIsBounded`, `NothingHasCause` |
| `understanding` | 3 operations with shared arguments, all modes and classifiers, 0 or 2 workers, 2 rounds, 2 faults, fairness | `CallIsWhole`, `OnlyServiceErrorsEscape`, `EscalationOnlyAdds`, `ProposalEnds` |
| `shell` | 3 lines, 3 steps, 2 rounds, 2 faults, native and decomposed, with and without a terminal, fairness | `MarkIsTrue`, `StrayFrameHasCause`, `PromptIsQuiet`, `LineIsHandled`, `FallsBack` |
| `stream` | 2 calls of 3 parts on 2 indexes, 2 tokens, 1 garbled line or failure of the sink | `ResponseIsWhatWasHeard`, `CallsAreTheServices`, `ShownIsABeginning` |

The type invariants are proved instead of run.

Why these bounds are enough for the cases to happen:

* `turn`, `sessions`: two rounds let a blocked or empty reply be asked again and
  answered, two calls per reply let a fault or a decline fall between them, and two
  malformed calls let it fall between their records. Two turns let what one turn left
  behind (memory, cache, log) meet the next, and two faults let a restart follow an
  abandoned turn. A call that the registry and the classifier disagree on changes the machine under either
  class.
* `log`: two writers let a record end up behind another's torn one; three faults let a tear, a
  failing call and a power loss follow each other.
* `plan`: three clauses with one re-plan let a re-planned step fail again with work left,
  which is the only way to halt; one retry separates the cap from zero and from one too
  many.
* `memory`: four replies fill the window and leave two records to compact, of which the budget
  drops none, one or both; a turn of two rounds has room for a re-ask, or an abandoned
  second reply between two results.
* `snapshot`: two threads let one wait for the lock while the other collects, two domains
  let a change fall inside a collection, three calls let an invalidate or a new `ttl` fall
  between two gets, three ticks let a snapshot expire.
* `recall`: two sessions are enough for one to unlink what the other is building or has
  open, four records for two rebuilds and growth during one, three recalls for a failure,
  its healing and another's interference.
* `understanding`: three required arguments on two workers let a worker take a second question
  while the other still asks; two operations sharing an argument let a value of the
  wrong candidate show; two rounds let one leave something behind for the next; zero workers is
  a configuration the environment accepts.
* `shell`: three steps let the spinner of an abandoned step meet two later ones; three
  lines cover a change of mode, a raw command and a turn, or a cut turn and two after it, of which the
  second must be marked truly again; two rounds separate a lost service in the last round from one
  before it.
* `stream`: two calls on two indexes interleave, or share one; three parts let the middle one be
  lost or overtaken.

`MaxTurns`, `MaxFaults`, `MaxRecords`, `Batch`, `MaxReplies`, `MaxCalls`, `MaxTime`,
`MaxChanges`, `MaxLog`, `MaxRecalls`, `MaxLines`, `MaxSteps`, `MaxTokens`,
`MaxTroubles` and the `MaxRounds` of `Understanding` bound the exploration; `MaxRounds` elsewhere, `Clauses`,
`MaxReplans`, `RetryMax`, `KeepRecent`, `Threshold`, `TTLs`, `Delta`, `TopK` and `Counts`
are parameters of the code. Deadlock is checked in every run: an idle loop, a returned plan
and an ended session are states that stutter explicitly.

### Fairness

Weak fairness of the program's own steps, and nothing else. They are sequential code, an
operation ends because `run_subprocess` kills it at its timeout, a slot worker and a
spinner are threads the system schedules, a collection of the machine ends, and a thread that waits
for the lock of the cache gets it when nobody holds it. Nothing is assumed of the operator, of
raw commands, of the faults or of the model service: `ollama.py` opens its requests without a timeout. So
`TurnProgress` says that a turn ends unless a prompt is open or the model service holds it
up for ever; `TurnDescends` says, without any fairness, that it has only so many steps to take,
whatever the model replies. `PlanEnds`, `ProposalEnds` and `LineIsHandled` say the same as
`TurnProgress` of a plan, a
proposal and a line of the shell. `FallsBack` says that a turn whose service goes away for good ends
in bash, whatever step it was at, unless the understanding is decomposed, the step is one of the last round, a
record fails, or the operator leaves a prompt open; `GetReturns`, that a `get` comes back even when the collection
before it raised with the lock held.

### Where code and documentation disagree

Each of these runs checks one sentence of the documentation, and TLC finds a behaviour of
the code that does not keep it. The quotations are in `PROJECT.json`.

| run | sentence | what happens |
|---|---|---|
| `stricter` | the stricter of the two classes wins | a plan asks the classifier only |
| `shell_less` | never leave the user shell-less | an error that nothing catches (a line that does not decode, `getcwd` after a `cd` in a removed directory, a null character), or a Ctrl-C while the shell starts, a turn runs or a raw command is waited for, ends the login shell |

Others that the modelling met, each visible in the module named and not a run of its own:

* `AgentTurn`: "every attempted op writes exactly one record" (`repl.py:25`), but a write
  that raises after the operation ran leaves none and the session goes on
  (`GapsAreFaults` says when). "Never shown when no operation actually ran"
  (`README.md:135`), but a declined call counts as an attempt. "After any mutating op the
  context cache is invalidated" (`repl.py:28`), but not after one that reports failure. The
  fallback line means to leave no turn without output, but a one-shot request (no person)
  whose change is refused ends without any; `NeverSilent` is therefore stated for sessions with a
  person.
* `AuditLog`: a record is "durable before this call returns" (`audit.py:169`), but the count that `os.write`
  returns is ignored (`audit.py:185`), so a short write returns with the rest of the record nowhere;
  `DurableOnReturn` excepts exactly these records. Records after a corrupt line "are returned normally" (`audit.py:35`), but the
  next record continues a line torn before its newline. Lines that are not JSON are
  "silently skipped" (`audit.py:228`), but a tear inside a character makes the reader raise.
* `SnapshotCache`: a `ttl` of 0 means "always re-collect" (`cache.py:47`), and no answer is older than one
  `ttl` (`cache.py:10-12`), but a `ttl` set to 0, or to less, while an entry is cached leaves that entry served
  until the old one has passed; `FreshWithinTTL` excepts exactly these answers.
* `PlanRun`: a re-plan "sees reality" (`plan.py:55`), but it is given the first snapshot again. "A
  successful mutation changes the box — invalidate context" (`plan.py:449`), but not after one that the
  classifier takes for a read, nor after one that failed and changed the machine all the same;
  `StaleHasCause` excepts exactly these steps.
* `TranscriptMemory`: one record "per completed turn" (`memory.py:128`), but there is one
  per round, so a window of two may cover a single request. A `tool_call_id` "MUST equal
  the id" (`docs/decisions/0002-tool-call-protocol.md:145`), but a call salvaged from text
  has the empty id and is in no message.
* `Understanding`: in decomposed mode a lost service is swallowed by the classification and
  the slots (`intent.py:357`, `slots.py:291`), so the fallback to bash never happens there;
  native misses that an assembled call replaces are not audited.
* `ShellSession`: an HTTP error status counts as a lost connection (`ollama.py:401`) and
  leads to bash although the service is alive. When `exec_bash` returns in mid-session, the
  comment says "stop cleanly" and the loop goes on (`shell.py:424`). A tick stands for an operation that was
  confirmed (`ConsoleDisplay`), but the confirmation of a turn cut within a step is still there for the next
  result (`repl.py:189-196`); `MarkIsTrue` excepts that one result. A bare `cd` is
  "handled in-process (in either mode)" (`shell.py:18`), but in English mode it is English.

## What is proved

For every value of the constants, under the assumptions named in the modules: the caps and
bounds are naturals (`Threshold` and `Counts` may be negative, as in the code), calls and
required arguments have the shape they have in the registry, sets that must have a member
have one, and placeholders are none of the values they stand beside. The bounds on the
exploration are constants too, so what is proved holds for any number of turns, faults,
writers, sessions, threads, tokens, steps or lines. Every safety invariant and every action property
that a passing run checks is stated by a theorem.

Each proof has one step per action, and under it one per conjunct of the invariant that the
action can disturb. Hardly any property below is inductive by itself; what it is strengthened by:

* `AgentTurn_proofs`
  * `TypeCorrect`: the program reads the head of `pending`. `CallInProgress` says that in
    the phases that do so there is one.
  * `ConsentBeforeRun` (`RanWithConsent`): `CallIsCleared`, in phase `dispatch` the consent
    for the head of `pending` is enough for its strictest class. The lemma
    `LoopDecisionIsStrictest` says that `classify` followed by `escalate` is the gate of the
    strictest class anyone assigns; it replaces what a sweep of the registry can only sample.
  * `LogInOrder`, `GapsComeFromFaults`, `MemoryFollowsLog`: `LogIsBehind`, within a turn
    everything since it began is recorded or in flight.
  * `NoClaimWithoutAttempt` (`TextNeedsAttempt`) needs nothing more: the count of attempts
    never falls within a turn, and words are shown only by the replies the guard lets pass.
  * `NoTurnIsSilent` (`NeverSilent`): `SomethingShown`, whatever makes the fallback line
    unnecessary has already put something on the screen.
  * `LagHasCause` (`StaleHasCause`): `LastIsHead`, the operation in flight is the call at the head of
    `pending`, and no read to the gate if it changed anything, so that the step that finishes it invalidates the cache for that operation or adds that one
    to `unsettled`; `CauseStays`, an operation remains the cause until a change succeeds after it.
  * `LoopIsGatedExecution`: each action maps to a step of `GatedExecution` or a stutter;
    `clearance` is the consent of the head of `pending` in phase `dispatch`, and a fault
    there is a lapse.
  * `TurnsComeToAnEnd` (`TurnDescends`): every step of a turn brings `TurnVariant` down, the rounds
    left, the calls of the reply left, and the steps left of the call at its head. That its
    components are naturals is the type invariant; `CallInProgress` gives that a handled call is
    taken off.
* `AuditLog_proofs`
  * `LogTypeCorrect`; `ReturnedIsDurable` (`DurableOnReturn`): `WritingIsInFile`, the whole
    line a writer is about to sync is in the file wherever others have written since, unless its
    write was short.
  * `LossIsBounded` (`LossBounded`): `TornAreCounted`, there are no more torn pieces than
    faults that tear, and the lemma `LostFollowTorn`, a whole piece the reader loses stands right
    behind a torn one; so the lost ones map one to one into the torn ones.
* `PlanRun_proofs`
  * `PlanTypeCorrect`: `StepInProgress`, a phase that runs something has a call, and one
    that spends a budget has some left.
  * `PlanIsCleared` (`ClearedByClassifier`): `StepIsCleared`, consent is empty between
    steps and enough within one, retries included.
  * `PlanIsTrusted` (`OnlyTrustedSteps`) and `PrefixIsKept` (`HistoryIsThePlan`):
    `LaterIsNewer`, every step that may still run is newer than every report that
    invalidated it.
  * `RepetitionIsSafe` (`RepeatsAreSafe`): `Budgeted`, `attempts` counts the retries of the
    clause in progress, `InOrder`, no later clause has run, `Repeatable`, what is verified
    at all is a change, and `FoundInv`: no read of the clause in progress has found its change
    in place unless that read is the last thing that ran and is about to be recorded.
  * `RecordsKeepUp` (`RecordsFollowRuns`): `Logged`, everything that ran is in the log except
    the one whose record is due, and `Tallied`, what is counted and what is about to be counted
    make up the log, but for the record whose write raised. `PlanLagHasCause` (`StaleHasCause`):
    `LastIsCurrent`, what is being recorded is the step in progress, so that the cache is dropped by exactly
    what `Invalidates` says; `CauseStays`, a step remains the cause until something after it does.
  * `RunsComeToAnEnd` (`PlanDescends`): positions left, retries left, steps left of the step in
    progress. Planning again leaves the position it failed at, so it needs no place of its own in
    the tuple. `NoEndlessDescent` says that nothing goes down for ever in this order; it comes from
    the library's theorem on lexicographic products, and with it a behaviour of `AgentTurn`,
    `PlanRun` or `Understanding` that takes steps for ever leaves the turn, ends the run (which
    stutters) or leaves the proposal.
* `SnapshotCache_proofs`: `CacheTypeCorrect`, `NothingOlderThanInvalidate`
  (`InvalidateIsABarrier`), `FreshForItsTTL` (`FreshWithinTTL`). `LockInv`: only the holder of the lock collects; `BarrierInv` and
  `FreshInv`: what is cached or being collected is already as recent as the answer made of
  it must be, and what a collection has read it read after the time it will be stamped with.
* `TranscriptMemory_proofs`
  * `MemoryTypeCorrect`; `ShownIsAnEnd` (`ShownIsRecent`): while the budget is enforced, `older` is
    an end of the compacted records before the window.
  * `ForgetsOnlyForTheBudget` (`ForgetsForTheBudget`): `Budgeted`, the window, what is left of the
    older records and the latest one dropped exceed the threshold. What a size is had to be proved
    first: `Total` is a recursive function, and that it is the sum, of naturals and of two
    sequences joined, goes by least counterexample (`LeastNat`), the form of induction the prover
    can use.
  * `ShownHoldsWholeRounds` (`ShownIsAnswered`): `Orderly`. The turn is seen as one line: the record
    `_record_turn` holds open, the messages it has not come to, the results still owed. The line
    is `Tidy` (rounds follow each other, each is opened by the assistant and has a result for each
    of its ids) after every reply and every step of the cut, so that a record that is closed is a whole
    round. A reply that misses, an empty one and a blocked one are three ways to make the line longer; each is
    proved tidy once, and passing over a message that is in no record is proved to leave the line tidy.
  * `HoldsTheReturnedTurns` (`RemembersReturnedTurns`): `Remembering`, the places of the records
    and of the rounds still in the line are those of the turns that returned and of this one, and
    what waits comes after what is kept.
* `EpisodicIndex_proofs`: `IndexTypeCorrect`; `IndexesAreNotMixed` (`OneMakerPerFile`): a
  builder is alone in its file, and while it builds the path is not an older file of its
  own; `AnswersLagLittle` (`LagIsBounded`): the lag is split into what the session knows to be new and
  what its index missed while it was built; `EmptyAnswersHaveACause` (`NothingHasCause`):
  undisturbed, the path is a whole index unless the session knows it must rebuild.
* `Understanding_proofs`: `StageTypeCorrect`, `CallsAreWhole` (`CallIsWhole`), `ErrorsAreTheServices`
  (`OnlyServiceErrorsEscape`), `EscalationAdds` (`EscalationOnlyAdds`). Every question
  queued, asked or answered is about an argument the current candidate still needs; leaving
  a candidate with questions in the pool is what would break it. `ProposalsComeToAnEnd`
  (`ProposalDescends`): stages left, candidates left, steps left of the candidate, questions left
  (three units for one queued, two for one asked, one for an answer not gathered); it needs that
  the questions can be counted, which a sequence of required arguments gives.
* `Understanding_proofs`, about `StreamAssembly`
  * `StreamTypeCorrect`; `ScreenHasNoGap` (`ShownIsABeginning`) is inductive with the types.
  * `ResponseIsFaithful` (`ResponseIsWhatWasHeard`): `Gathering`, what is kept under an index is what was heard
    under it, in order, with the last id; and `Queued`, a response that was returned is that of the
    state it was made in. The order of the calls is that of their indexes, the `n`-th of a
    finite set of numbers: lemmas by counting say that it is there, is one, and stays where it is when
    a greater number joins the set, since parts are heard in order.
  * `ResponseHoldsTheCalls` (`CallsAreTheServices`): `Whole`, with no garbled line and no shared index, what
    is kept under an index is the beginning of its one call as far as it was fed, and
    `Unmixed`, with no garbled line a piece lies under its call's index, with its call's id
    unless the index is shared. `Queued` tells how far that is while a chunk is half taken.
* `ShellSession_proofs`: `ShellTypeCorrect`, `MarksAreTrue`
  (`MarkIsTrue`), `FramesStayOnTheirLine` (`StrayFrameHasCause`), `NothingIsLeftAtThePrompt`
  (`PromptIsQuiet`). `Line`: a line is open or a confirmation granted only between a step
  and its result, unless a turn was cut there and no result was shown since; `Alone`: only the spinner of the open line is
  alive, as long as no join gave up.

`ClearedByClassifier`, `OneMakerPerFile`, `PlanDescends` and `ProposalDescends` are
proved and in no run; TLC agrees with each on the instances of the runs.

Only model-checked are the liveness properties (`TurnProgress`, `PlanEnds`, `GetReturns`,
`ProposalEnds`, `LineIsHandled`, `FallsBack`): liveness under fairness is out of the prover's
reach. For the first, second and fourth the theorems on descent prove the half that needs no
fairness, that there is no endless run of steps; what stays with TLC is that the program never
stops where a step of its own is due.

## Not modelled, and what is left

* The regular expressions of the classifier, the guard and the history gate, the splitting
  of a sentence into clauses, the parsing and schema check of a call in the router, prompts, facts,
  tool selection and wording: pure text. Where they decide something, the model lets them decide
  either way.
* The free-text fallback (`pipeline/fallback.py`): one question, one classification and a
  record handed to a caller that does not exist yet. It keeps no state, runs nothing, and
  never raises; there is no order of steps to get wrong.
* The tools' command lines, what the collectors read from the machine (`SnapshotCache` has the
  order and the time they take) and the retrieval arithmetic (`EpisodicIndex` has its steps on
  the file): pure input and output. An operation is one that succeeds or fails and may have changed the
  machine either way.
* Fine-tuning data, training scripts, benchmarks, the sandbox and host configuration: most of
  the lines of the repository, offline, and not part of the running system. Two of them
  keep state and would make small modules: the resumable generator with its checkpoint
  (`finetune/generate.py`) and the spend cap of `finetune/train/pod_guard.sh`.
* The text a turn makes of a snapshot (`context.py:102-138`): string building over what `SnapshotCache`
  returns.
* What some properties take for granted: the ids of the calls of one reply are distinct
  (`ShownIsAnswered`), the log of `EpisodicIndex` only grows, a call that the stream ends early is right as far
  as it was sent (`CallsAreTheServices`; the router checks its shape), and a clause that a
  planner drops is its own business (`HistoryIsThePlan`).
* `audit.py:235` (an undecodable log stops the reader) and `plan.py:560` (the re-plan's old
  snapshot) are hazards without a property, because the code does what the hazard
  describes.

Two refinements one might look for do not hold. `PlanRun` does not implement `GatedExecution`: it
clears a call with the classifier alone (the run `stricter` shows it), repeats a change under the
consent given for the first attempt, and runs its verifying reads without a clearance; what it
does promise is `ClearedByClassifier` and `RepeatsAreSafe`. And the `cache` of `AgentTurn` counts
only the changes of its own session, while `SnapshotCache` has changes by others.

Worth doing next: a descent for a line of the shell and for a `get` of the cache;
`EpisodicIndex` over the torn pieces of `AuditLog` instead of a flag that says whether the log can be
read; a module of the cache and one session's turns, from which the three values `cache` has in
`AgentTurn` could be derived.
