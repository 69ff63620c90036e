--------------------------- MODULE ConsoleDisplay ---------------------------
(***************************************************************************)
(* What the operator sees of the steps of a turn: ConsoleIO of             *)
(* core/agent/repl.py. A step either opens a block, whose title line stays *)
(* open under a spinner thread, or, when the operator has just confirmed   *)
(* it, waits for its mark; the result of the step stops the spinner and    *)
(* closes the line. The threads and the session share the terminal.        *)
(*                                                                         *)
(* The operators here are the methods. The session that calls them in the  *)
(* order of a turn is ShellSession.                                        *)
(***************************************************************************)
EXTENDS Integers

CONSTANTS
    Tty,      \* what isatty may say
    MaxSteps  \* bound: steps of a session, each with its own thread

ASSUME TtyAssumption == Tty \subseteq BOOLEAN
ASSUME StepsAssumption == MaxSteps \in Nat

VARIABLES
    tty,        \* the output is a terminal
    steps,      \* steps so far; the last of them is the current one
    confirmed,  \* _pending_confirmed
    header,     \* _header_open
    spin,       \* _spin_stop and _spin_thread: the step they belong to, or 0
    thread,     \* thread[i]: where the spinner of step i is
    stopped,    \* the steps whose stop event is set
    mark,       \* the mark the last result left
    stray       \* a frame was painted when the line of its step was not open

displayVars == <<tty, steps, confirmed, header, spin, thread, stopped, mark,
                 stray>>

DisplayTypeOK ==
    /\ tty \in Tty
    /\ steps \in 0..MaxSteps
    /\ confirmed \in BOOLEAN
    /\ header \in BOOLEAN
    /\ spin \in 0..steps
    /\ thread \in [1..MaxSteps -> {"none", "wait", "paint", "done"}]
    /\ stopped \subseteq 1..steps
    /\ mark \in {"none", "block", "tick", "cross"}
    /\ stray \in BOOLEAN

DisplayInit ==
    /\ tty \in Tty
    /\ steps = 0
    /\ confirmed = FALSE
    /\ header = FALSE
    /\ spin = 0
    /\ thread = [i \in 1..MaxSteps |-> "none"]
    /\ stopped = {}
    /\ mark = "none"
    /\ stray = FALSE

(* The operators named ...Slip are variants of the definition that follows *)
(* them, each with a plausible slip; the properties notice every one.      *)

(* confirm and confirm_typed.                                              *)
ConfirmSlip(ok) ==
    /\ confirmed' = TRUE
    /\ UNCHANGED <<tty, steps, header, spin, thread, stopped, mark, stray>>
Confirm(ok) ==
    /\ confirmed' = (confirmed \/ ok)
    /\ UNCHANGED <<tty, steps, header, spin, thread, stopped, mark, stray>>

(* tool_step: a confirmed step opens no block.                             *)
ToolStep ==
    /\ steps < MaxSteps
    /\ steps' = steps + 1
    /\ mark' = "none"
    /\ IF tty /\ ~confirmed
          THEN /\ header' = TRUE /\ spin' = steps + 1
               /\ thread' = [thread EXCEPT ![steps + 1] = "wait"]
          ELSE UNCHANGED <<header, spin, thread>>
    /\ UNCHANGED <<tty, confirmed, stopped, stray>>

(* _stop_spinner: the event, and then the join that waits for the thread.  *)
StopSpinnerSlip == UNCHANGED displayVars
StopSpinner ==
    /\ stopped' = stopped \union ({spin} \ {0})
    /\ UNCHANGED <<tty, steps, confirmed, header, spin, thread, mark, stray>>

JoinedSlip == TRUE
Joined == \A i \in {spin} \ {0} : thread[i] = "done"

(* The rest of tool_step_result. Nothing is said of a step that did not    *)
(* run; a failure is a cross, inside the block of a step that has one.     *)
ToolStepResultSlip(status) ==
    /\ spin' = 0 /\ header' = FALSE
    /\ mark' = IF status = "skipped" THEN "none"
               ELSE IF status = "ok"
                       THEN (IF confirmed THEN "tick" ELSE "block")
                       ELSE "cross"
    /\ UNCHANGED <<tty, steps, confirmed, thread, stopped, stray>>
ToolStepResult(status) ==
    /\ spin' = 0 /\ header' = FALSE /\ confirmed' = FALSE
    /\ mark' = IF status = "skipped" THEN "none"
               ELSE IF status = "ok"
                       THEN (IF confirmed THEN "tick" ELSE "block")
                       ELSE "cross"
    /\ UNCHANGED <<tty, steps, thread, stopped, stray>>

-----------------------------------------------------------------------------
(* The spinner of step i: it waits on its event, and after each wait that  *)
(* ends without it paints a frame over the last line.                      *)

WaitEnds(i) ==
    /\ thread[i] = "wait"
    /\ thread' = [thread EXCEPT ![i] = IF i \in stopped THEN "done" ELSE "paint"]
    /\ UNCHANGED <<tty, steps, confirmed, header, spin, stopped, mark, stray>>

Paint(i) ==
    /\ thread[i] = "paint"
    /\ thread' = [thread EXCEPT ![i] = "wait"]
    /\ stray' = (stray \/ ~header \/ i # spin)
    /\ UNCHANGED <<tty, steps, confirmed, header, spin, stopped, mark>>

Spinner == \E i \in 1..steps : WaitEnds(i) \/ Paint(i)

=============================================================================
