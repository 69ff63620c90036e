---------------------------- MODULE ShellSession ----------------------------
(***************************************************************************)
(* The login shell: ProductShell of shell/shell.py, with its startup probe *)
(* (shell/hooks/startup.py), its dispatch of lines (shell/dispatch.py), the*)
(* raw commands and the exec into bash of shell/passthrough.py, and the    *)
(* display of the turns it runs (ConsoleDisplay).                          *)
(*                                                                         *)
(* A turn is the part of it the session and the display can tell: a        *)
(* number of rounds, each a question to the service, and steps that are    *)
(* confirmed or not, run, recorded and shown. Ctrl-C may come at any       *)
(* moment.                                                                 *)
(***************************************************************************)
EXTENDS ConsoleDisplay

CONSTANTS
    MaxRounds,  \* max_rounds of the loop
    MaxLines,   \* bound: lines the operator types
    MaxFaults   \* bound: startup failures, records not written, slow joins

ASSUME RoundsAssumption == MaxRounds \in Nat \ {0}
ASSUME BoundsAssumption == MaxLines \in Nat /\ MaxFaults \in Nat

VARIABLES
    pc,     \* where the session is
    mode,   \* ShellState.mode
    up,     \* the service answers
    bash,   \* bash can be started in place of the shell
    why,    \* why the shell ended
    decomposed, \* the understanding is "decomposed", with no native question
    rounds, \* rounds of the turn so far
    kind,   \* the step of the turn: a read or a confirmed write
    cut,    \* a turn was abandoned between a step and its result: since then
            \* no result was shown, one was, or more were
    slow,   \* a join gave up
    lines, calls, faults

sessionVars == <<pc, mode, up, bash, why, decomposed, rounds, kind, cut, slow,
                 lines, calls, faults>>
vars == <<sessionVars, displayVars>>

Turn == {"turn", "reply", "gate", "declined", "step", "audit", "result", "join"}

TypeOK ==
    /\ DisplayTypeOK
    /\ pc \in {"start", "build", "prompt", "command", "failed", "bash", "ended"}
             \union Turn
    /\ mode \in {"NL", "BASH"}
    /\ up \in BOOLEAN /\ bash \in BOOLEAN
    /\ why \in {"none", "left", "bashless", "interrupt", "error"}
    /\ decomposed \in BOOLEAN /\ rounds \in 0..MaxRounds
    /\ kind \in {"none", "read", "write"}
    /\ cut \in {"no", "open", "closing", "closed"} /\ slow \in BOOLEAN
    /\ lines \in 0..MaxLines /\ calls \in steps..MaxSteps
    /\ faults \in 0..MaxFaults

-----------------------------------------------------------------------------
(* The operators named ...Slip are variants of the definition that follows *)
(* them, each with a plausible slip; the properties notice every one.      *)

Goto(place) == pc' = place /\ UNCHANGED <<mode, up, bash, why, decomposed>>
End(reason) == /\ pc' = "ended" /\ why' = reason
               /\ UNCHANGED <<mode, up, bash, decomposed>>

Fault == faults < MaxFaults /\ faults' = faults + 1

(* exec_bash: it replaces the process, or returns to a caller that goes on *)
(* to failed.                                                              *)
ExecBash(failed) ==
    IF bash THEN Goto("bash") ELSE failed

(* The service comes and goes as it likes.                                 *)
ServiceToggles ==
    /\ pc \notin {"bash", "ended"}
    /\ up' = ~up
    /\ UNCHANGED <<pc, mode, bash, why, decomposed, rounds, kind, cut, slow,
                   lines, calls, faults, displayVars>>

(* _guarded_start: the probe, then the factory. Either may fail although   *)
(* the service answers: the model is not loaded, the tier is not built.    *)
Probe ==
    /\ pc = "start"
    /\ IF up THEN Goto("build") ELSE ExecBash(End("bashless"))
    /\ UNCHANGED <<rounds, kind, cut, slow, lines, calls, faults, displayVars>>

Build ==
    /\ pc = "build" /\ Goto("prompt")
    /\ UNCHANGED <<rounds, kind, cut, slow, lines, calls, faults, displayVars>>

StartFails ==
    /\ pc \in {"start", "build"} /\ Fault
    /\ ExecBash(End("bashless"))
    /\ UNCHANGED <<rounds, kind, cut, slow, lines, calls, displayVars>>

-----------------------------------------------------------------------------
(* A line at the prompt. Reading it can raise what _loop does not catch: a *)
(* byte that does not decode.                                              *)

LineFails ==
    /\ pc = "prompt"
    /\ End("error")
    /\ UNCHANGED <<rounds, kind, cut, slow, lines, calls, faults, displayVars>>

Typed == pc = "prompt" /\ lines < MaxLines /\ lines' = lines + 1

Leave ==
    /\ pc = "prompt"
    /\ End("left")
    /\ UNCHANGED <<rounds, kind, cut, slow, lines, calls, faults, displayVars>>

Toggle ==
    /\ Typed
    /\ mode' = IF mode = "NL" THEN "BASH" ELSE "NL"
    /\ UNCHANGED <<pc, up, bash, why, decomposed, rounds, kind, cut, slow,
                   calls, faults, displayVars>>

(* In BASH mode every other line, exit and quit included; in NL mode one   *)
(* that dispatch takes for a command.                                      *)
RunRaw ==
    /\ Typed /\ Goto("command")
    /\ UNCHANGED <<rounds, kind, cut, slow, calls, faults, displayVars>>

(* Nothing guards _exec_raw: getcwd raises after a cd within a removed     *)
(* directory, chdir and Popen do on a null character.                      *)
RawEnds ==
    /\ pc = "command"
    /\ Goto("prompt") \/ End("error")
    /\ UNCHANGED <<rounds, kind, cut, slow, lines, calls, faults, displayVars>>

(* begin_turn resets neither confirmed nor header nor the spinner.         *)
BeginTurn ==
    /\ Typed /\ mode = "NL" /\ Goto("turn")
    /\ kind' = "none" /\ rounds' = 0
    /\ UNCHANGED <<cut, slow, calls, faults, displayVars>>

-----------------------------------------------------------------------------
(* The turn. _run_english_turn: a ConnectionError is bash, any other error *)
(* is a message and the next prompt.                                       *)

(* The next round, if there is one. The decomposed understanding takes a   *)
(* question that fails for one without an answer, so that a lost service   *)
(* only uses up the rounds; the native question fails the turn.            *)
AskServiceSlip ==
    /\ pc = "turn"
    /\ \/ rounds = MaxRounds /\ Goto("prompt") /\ UNCHANGED rounds
       \/ /\ rounds < MaxRounds /\ rounds' = rounds + 1
          /\ \/ up /\ Goto("reply")
             \/ ~up /\ Goto("turn")
    /\ UNCHANGED <<kind, cut, slow, lines, calls, faults, displayVars>>
AskService ==
    /\ pc = "turn"
    /\ \/ rounds = MaxRounds /\ Goto("prompt") /\ UNCHANGED rounds
       \/ /\ rounds < MaxRounds /\ rounds' = rounds + 1
          /\ \/ up /\ Goto("reply")
             \/ ~up /\ decomposed /\ Goto("turn")
             \/ ~up /\ ~decomposed /\ ExecBash(Goto("prompt"))
    /\ UNCHANGED <<kind, cut, slow, lines, calls, faults, displayVars>>

(* The service answers, or closes the stream early, which is the same to   *)
(* the client: a step, the end of the turn, or a reply to ask again about. *)
(* No timeout bounds the wait.                                             *)
Reply ==
    /\ pc = "reply"
    /\ \/ calls < MaxSteps /\ Goto("gate")
       \/ Goto("prompt")
       \/ Goto("turn")
    /\ UNCHANGED <<rounds, kind, cut, slow, lines, calls, faults, displayVars>>

(* An error status or a reset is a ConnectionError; what breaks in the     *)
(* middle of a stream otherwise is a message and a prompt, as in Reply.    *)
ReplyFails ==
    /\ pc = "reply"
    /\ \/ decomposed /\ Goto("turn")
       \/ ~decomposed /\ ExecBash(Goto("prompt"))
    /\ UNCHANGED <<rounds, kind, cut, slow, lines, calls, faults, displayVars>>

(* _resolve_gate: a read is allowed, a write is confirmed or declined.     *)
Gate ==
    /\ pc = "gate" /\ calls' = calls + 1
    /\ \/ kind' = "read" /\ Goto("step") /\ Confirm(FALSE)
       \/ kind' = "write" /\ Goto("step") /\ Confirm(TRUE)
       \/ kind' = "none" /\ Goto("declined") /\ Confirm(FALSE)
    /\ UNCHANGED <<rounds, cut, slow, lines, faults>>

OpenStep ==
    /\ pc = "step" /\ ToolStep /\ Goto("audit")
    /\ UNCHANGED <<rounds, kind, cut, slow, lines, calls, faults>>

(* The operation has run. A record that cannot be written raises out of    *)
(* the turn.                                                               *)
Record ==
    /\ pc = "audit" /\ Goto("result")
    /\ UNCHANGED <<rounds, kind, cut, slow, lines, calls, faults, displayVars>>

RecordFails ==
    /\ pc \in {"audit", "declined"} /\ Fault
    /\ Goto("failed")
    /\ cut' = IF pc = "audit" THEN "open" ELSE cut
    /\ UNCHANGED <<rounds, kind, slow, lines, calls, displayVars>>

(* "Could not complete that request."                                      *)
SayFailed ==
    /\ pc = "failed" /\ Goto("prompt")
    /\ UNCHANGED <<rounds, kind, cut, slow, lines, calls, faults, displayVars>>

(* tool_step_result, of a step that ran and of one that was declined.      *)
StopSpin ==
    /\ pc \in {"result", "declined"} /\ StopSpinner /\ Goto("join")
    /\ UNCHANGED <<rounds, kind, cut, slow, lines, calls, faults>>

(* The next call of the same reply, if there is one, or the next round.    *)
ShowResult ==
    /\ Goto("turn") \/ (calls < MaxSteps /\ Goto("gate"))
    /\ \E status \in {"ok", "failed", "skipped"} :
          (status = "skipped") = (kind = "none") /\ ToolStepResult(status)
    /\ cut' = CASE cut = "open" -> "closing"
               [] cut = "closing" -> "closed"
               [] OTHER -> cut

Join ==
    /\ pc = "join" /\ Joined /\ ShowResult
    /\ UNCHANGED <<rounds, kind, slow, lines, calls, faults>>

JoinGivesUp ==
    /\ pc = "join" /\ ~Joined /\ Fault /\ ShowResult
    /\ slow' = TRUE
    /\ UNCHANGED <<rounds, kind, lines, calls>>

(* Ctrl-C outside the prompt is caught nowhere.                            *)
Interrupt ==
    /\ pc \in Turn \union {"command", "start", "build"}
    /\ End("interrupt")
    /\ UNCHANGED <<rounds, kind, cut, slow, lines, calls, faults, displayVars>>

-----------------------------------------------------------------------------
Init ==
    /\ DisplayInit
    /\ pc = "start" /\ mode = "NL" /\ why = "none"
    /\ up \in BOOLEAN /\ bash \in BOOLEAN /\ decomposed \in BOOLEAN
    /\ rounds = 0 /\ kind = "none" /\ cut = "no" /\ slow = FALSE
    /\ lines = 0 /\ calls = 0 /\ faults = 0

Startup == Probe \/ Build

Working == AskService \/ OpenStep \/ Record \/ SayFailed \/ StopSpin \/ Join

Service == ServiceToggles \/ Reply \/ ReplyFails

Operator == Gate \/ Leave \/ Toggle \/ RunRaw \/ BeginTurn \/ Interrupt

Display == pc \notin {"bash", "ended"} /\ Spinner /\ UNCHANGED sessionVars

Over == pc \in {"bash", "ended"} /\ UNCHANGED vars

Next == \/ Startup \/ Working \/ Operator \/ Display \/ LineFails
        \/ RawEnds \/ Service \/ StartFails \/ RecordFails \/ JoinGivesUp \/ Over

Spec == Init /\ [][Next]_vars

(* The probe has a timeout, operations end, each spinner is a thread of    *)
(* its own that the system schedules. Nothing is assumed of the operator,  *)
(* of raw commands or of the service.                                      *)
FairSpec ==
    /\ Spec
    /\ WF_vars(Startup) /\ WF_vars(Working)
    /\ \A i \in 1..MaxSteps :
          WF_vars(pc \notin {"bash", "ended"} /\ (WaitEnds(i) \/ Paint(i))
                      /\ UNCHANGED sessionVars)

-----------------------------------------------------------------------------
(* What shell.py:30-31 says: "Never leave the user shell-less." With a     *)
(* bash to fall back on, the shell ends only when the operator leaves it.  *)
NeverShellLess == pc = "ended" /\ bash => why = "left"

(* A green tick is shown only for an operation the operator confirmed, and *)
(* a confirmed write never looks like a read. One mark is excepted: the    *)
(* first one after a turn that was abandoned between a step and its result *)
(* may go by the confirmation that turn left; every later one is true      *)
(* again (tool_step, tool_step_result).                                    *)
MarkIsTrue ==
    pc \in {"turn", "reply", "gate"} /\ kind # "none" /\ cut # "closing" =>
        /\ mark = "tick" => kind = "write"
        /\ mark = "block" => kind = "read"

(* Only the spinner of the open step writes on its line: a frame falls     *)
(* elsewhere only after a join that gave up or an abandoned turn, whose    *)
(* spinner nobody stops any more (_start_spinner, _stop_spinner).          *)
StrayFrameHasCause == stray => cut # "no" \/ slow

(* At the prompt nothing of a finished turn is left: no open line and no   *)
(* granted confirmation, unless the turn was abandoned within a step and   *)
(* no result was shown since, and no spinner that still draws, unless one  *)
(* was ever abandoned or a join gave up (begin_turn resets none of them).  *)
PromptIsQuiet ==
    pc = "prompt" =>
        /\ cut # "open" => ~header /\ ~confirmed /\ spin = 0
        /\ cut = "no" /\ ~slow =>
               \A i \in 1..steps : thread[i] \in {"none", "done"}

(* Neither the start nor a turn hangs, whatever the spinners do: it comes  *)
(* to a prompt, to bash or to the end, unless it waits for ever for a      *)
(* service that neither answers nor fails (the request has no timeout).    *)
LineIsHandled ==
    \/ []<>(pc \in {"prompt", "gate", "command", "bash", "ended"})
    \/ <>[](pc = "reply")

(* A service that goes away within a turn, and stays away, ends that turn  *)
(* in bash, if there is one, whatever step it was at: unless the           *)
(* decomposed understanding takes the failure for a question without an    *)
(* answer, the step was one of the last round, a record fails, or the      *)
(* operator does not answer.                                               *)
FallsBack ==
    [](/\ pc \in Turn \ {"reply", "gate"}
       /\ bash /\ ~decomposed /\ rounds < MaxRounds /\ []~up
       => <>(pc \in {"bash", "ended", "failed"}) \/ <>[](pc = "gate"))

=============================================================================
