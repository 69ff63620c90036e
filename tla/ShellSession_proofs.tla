-------------------------- MODULE ShellSession_proofs --------------------------
(***************************************************************************)
(* Theorems about the product shell and its display, for every number of   *)
(* lines, steps and faults.                                                *)
(***************************************************************************)
EXTENDS ShellSession, TLAPS

LEMMA ShellBounds ==
    /\ MaxSteps \in Nat /\ MaxRounds \in Nat
    /\ MaxLines \in Nat /\ MaxFaults \in Nat
BY StepsAssumption, RoundsAssumption, BoundsAssumption
   DEF StepsAssumption, RoundsAssumption, BoundsAssumption

-----------------------------------------------------------------------------
(* Types. The Boolean variables are one invariant and the others another:  *)
(* no prover handles Boolean values and arithmetic together.               *)

Flags ==
    /\ tty \in Tty
    /\ confirmed \in BOOLEAN /\ header \in BOOLEAN /\ stray \in BOOLEAN
    /\ up \in BOOLEAN /\ bash \in BOOLEAN
    /\ decomposed \in BOOLEAN /\ slow \in BOOLEAN

LEMMA InitFlags == Init => Flags
BY Zenon DEF Init, DisplayInit, Flags

LEMMA StepFlags == Flags /\ [Next]_vars => Flags'
<1> SUFFICES ASSUME Flags, [Next]_vars PROVE Flags'
  OBVIOUS
<1>0. Flags
  OBVIOUS
<1>1. CASE ServiceToggles
  BY <1>0, <1>1, Zenon DEF ServiceToggles, displayVars, Flags
<1>2. CASE Probe
  BY <1>0, <1>2, Zenon DEF Probe, ExecBash, Goto, End, displayVars, Flags
<1>3. CASE Build
  BY <1>0, <1>3, Zenon DEF Build, Goto, displayVars, Flags
<1>4. CASE StartFails
  BY <1>0, <1>4, Zenon DEF StartFails, Fault, ExecBash, Goto, End,
     displayVars, Flags
<1>5. CASE Leave
  BY <1>0, <1>5, Zenon DEF Leave, End, displayVars, Flags
<1>6. CASE Toggle
  BY <1>0, <1>6, Zenon DEF Toggle, Typed, displayVars, Flags
<1>7. CASE RunRaw
  BY <1>0, <1>7, Zenon DEF RunRaw, Typed, Goto, displayVars, Flags
<1>8. CASE RawEnds
  BY <1>0, <1>8, Zenon DEF RawEnds, Goto, End, displayVars, Flags
<1>9. CASE BeginTurn
  BY <1>0, <1>9, Zenon DEF BeginTurn, Typed, Goto, displayVars, Flags
<1>10. CASE AskService
  BY <1>0, <1>10, Zenon DEF AskService, ExecBash, Goto, displayVars, Flags
<1>11. CASE Reply
  BY <1>0, <1>11, Zenon DEF Reply, Goto, displayVars, Flags
<1>12. CASE ReplyFails
  BY <1>0, <1>12, Zenon DEF ReplyFails, ExecBash, Goto, displayVars, Flags
<1>13. CASE Gate
  BY <1>0, <1>13, Zenon DEF Gate, Goto, Confirm, Flags
<1>14. CASE OpenStep
  BY <1>0, <1>14, Zenon DEF OpenStep, Goto, ToolStep, Flags
<1>15. CASE Record
  BY <1>0, <1>15, Zenon DEF Record, Goto, displayVars, Flags
<1>16. CASE RecordFails
  BY <1>0, <1>16, Zenon DEF RecordFails, Fault, Goto, displayVars, Flags
<1>17. CASE StopSpin
  BY <1>0, <1>17, Zenon DEF StopSpin, Goto, StopSpinner, Flags
<1>18. CASE Join
  BY <1>0, <1>18, Zenon DEF Join, Joined, ShowResult, Goto, ToolStepResult,
     Flags
<1>19. CASE JoinGivesUp
  BY <1>0, <1>19, Zenon DEF JoinGivesUp, Joined, Fault, ShowResult, Goto,
     ToolStepResult, Flags
<1>20. CASE Interrupt
  BY <1>0, <1>20, Zenon DEF Interrupt, End, Turn, displayVars, Flags
<1>21. CASE Display
  BY <1>0, <1>21, Zenon DEF Display, Spinner, WaitEnds, Paint, sessionVars,
     Flags
<1>22. CASE UNCHANGED vars
  BY <1>0, <1>22, Zenon DEF vars, sessionVars, displayVars, Flags
<1>23. CASE Over
  BY <1>22, <1>23 DEF Over
<1>24. CASE LineFails
  BY <1>0, <1>24, Zenon DEF LineFails, End, displayVars, Flags
<1>25. CASE SayFailed
  BY <1>0, <1>25, Zenon DEF SayFailed, Goto, displayVars, Flags
<1>26. QED
  BY <1>1, <1>2, <1>3, <1>4, <1>5, <1>6, <1>7, <1>8, <1>9, <1>10, <1>11,
     <1>12, <1>13, <1>14, <1>15, <1>16, <1>17, <1>18, <1>19, <1>20, <1>21,
     <1>22, <1>23, <1>24, <1>25 DEF Next, Startup, Working,
     Operator, Service

(* What takes one of a few values.                                         *)
Words ==
    /\ mark \in {"none", "block", "tick", "cross"}
    /\ pc \in {"start", "build", "prompt", "command", "failed", "bash", "ended"}
             \union Turn
    /\ mode \in {"NL", "BASH"}
    /\ why \in {"none", "left", "bashless", "interrupt", "error"}
    /\ cut \in {"no", "open", "closing", "closed"}
    /\ kind \in {"none", "read", "write"}

LEMMA InitWords == Init => Words
BY DEF Init, DisplayInit, Words

LEMMA StepWords == Words /\ [Next]_vars => Words'
<1> SUFFICES ASSUME Words, [Next]_vars PROVE Words'
  OBVIOUS
<1>0. Words
  OBVIOUS
<1>1. CASE ServiceToggles
  BY <1>0, <1>1 DEF ServiceToggles, displayVars, Words, Turn
<1>2. CASE Probe
  BY <1>0, <1>2 DEF Probe, ExecBash, Goto, End, displayVars, Words, Turn
<1>3. CASE Build
  BY <1>0, <1>3 DEF Build, Goto, displayVars, Words, Turn
<1>4. CASE StartFails
  BY <1>0, <1>4 DEF StartFails, Fault, ExecBash, Goto, End, displayVars,
     Words, Turn
<1>5. CASE Leave
  BY <1>0, <1>5 DEF Leave, End, displayVars, Words, Turn
<1>6. CASE Toggle
  BY <1>0, <1>6 DEF Toggle, Typed, displayVars, Words, Turn
<1>7. CASE RunRaw
  BY <1>0, <1>7 DEF RunRaw, Typed, Goto, displayVars, Words, Turn
<1>8. CASE RawEnds
  BY <1>0, <1>8 DEF RawEnds, Goto, End, displayVars, Words, Turn
<1>9. CASE BeginTurn
  BY <1>0, <1>9 DEF BeginTurn, Typed, Goto, displayVars, Words, Turn
<1>10. CASE AskService
  BY <1>0, <1>10 DEF AskService, ExecBash, Goto, displayVars, Words, Turn
<1>11. CASE Reply
  BY <1>0, <1>11 DEF Reply, Goto, displayVars, Words, Turn
<1>12. CASE ReplyFails
  BY <1>0, <1>12 DEF ReplyFails, ExecBash, Goto, displayVars, Words, Turn
<1>13. CASE Gate
  BY <1>0, <1>13 DEF Gate, Goto, Confirm, Words, Turn
<1>14. CASE OpenStep
  BY <1>0, <1>14 DEF OpenStep, Goto, ToolStep, Words, Turn
<1>15. CASE Record
  BY <1>0, <1>15 DEF Record, Goto, displayVars, Words, Turn
<1>16. CASE RecordFails
  BY <1>0, <1>16 DEF RecordFails, Fault, Goto, displayVars, Words, Turn
<1>17. CASE StopSpin
  BY <1>0, <1>17 DEF StopSpin, Goto, StopSpinner, Words, Turn
<1>18. CASE Join
  BY <1>0, <1>18 DEF Join, Joined, ShowResult, Goto, ToolStepResult, Words,
     Turn
<1>19. CASE JoinGivesUp
  BY <1>0, <1>19 DEF JoinGivesUp, Joined, Fault, ShowResult, Goto,
     ToolStepResult, Words, Turn
<1>20. CASE Interrupt
  BY <1>0, <1>20 DEF Interrupt, End, Turn, displayVars, Words, Turn
<1>21. CASE Display
  BY <1>0, <1>21 DEF Display, Spinner, WaitEnds, Paint, sessionVars, Words,
     Turn
<1>22. CASE UNCHANGED vars
  BY <1>0, <1>22 DEF vars, sessionVars, displayVars, Words, Turn
<1>23. CASE Over
  BY <1>22, <1>23 DEF Over
<1>24. CASE LineFails
  BY <1>0, <1>24 DEF LineFails, End, displayVars, Words, Turn
<1>25. CASE SayFailed
  BY <1>0, <1>25 DEF SayFailed, Goto, displayVars, Words, Turn
<1>26. QED
  BY <1>1, <1>2, <1>3, <1>4, <1>5, <1>6, <1>7, <1>8, <1>9, <1>10, <1>11,
     <1>12, <1>13, <1>14, <1>15, <1>16, <1>17, <1>18, <1>19, <1>20, <1>21,
     <1>22, <1>23, <1>24, <1>25 DEF Next, Startup, Working,
     Operator, Service

(* A step has been proposed before it is opened.                           *)
Counters ==
    /\ steps \in Nat /\ calls \in Nat /\ lines \in Nat /\ faults \in Nat
    /\ steps <= calls /\ calls <= MaxSteps
    /\ lines <= MaxLines /\ faults <= MaxFaults
    /\ rounds \in Nat /\ rounds <= MaxRounds
    /\ pc = "gate" => calls < MaxSteps
    /\ pc = "step" => steps < calls

LEMMA InitCounters == Init => Counters
BY ShellBounds DEF Init, DisplayInit, Counters

LEMMA StepCounters == Counters /\ [Next]_vars => Counters'
<1> SUFFICES ASSUME Counters, [Next]_vars PROVE Counters'
  OBVIOUS
<1>0. /\ Counters /\ MaxSteps \in Nat /\ MaxRounds \in Nat
      /\ MaxLines \in Nat /\ MaxFaults \in Nat
  BY ShellBounds
<1>1. CASE ServiceToggles
  BY <1>0, <1>1 DEF ServiceToggles, displayVars, Counters
<1>2. CASE Probe
  BY <1>0, <1>2 DEF Probe, ExecBash, Goto, End, displayVars, Counters
<1>3. CASE Build
  BY <1>0, <1>3 DEF Build, Goto, displayVars, Counters
<1>4. CASE StartFails
  <2>1. /\ pc' \in {"bash", "ended"} /\ Fault
        /\ UNCHANGED <<rounds, steps, calls, lines>>
    BY <1>4 DEF StartFails, ExecBash, Goto, End, displayVars
  <2>2. QED
    BY <1>0, <2>1 DEF Fault, Counters
<1>5. CASE Leave
  BY <1>0, <1>5 DEF Leave, End, displayVars, Counters
<1>6. CASE Toggle
  BY <1>0, <1>6 DEF Toggle, Typed, displayVars, Counters
<1>7. CASE RunRaw
  BY <1>0, <1>7 DEF RunRaw, Typed, Goto, displayVars, Counters
<1>8. CASE RawEnds
  BY <1>0, <1>8 DEF RawEnds, Goto, End, displayVars, Counters
<1>9. CASE BeginTurn
  BY <1>0, <1>9 DEF BeginTurn, Typed, Goto, displayVars, Counters
<1>10. CASE AskService
  BY <1>0, <1>10 DEF AskService, ExecBash, Goto, displayVars, Counters
<1>11. CASE Reply
  BY <1>0, <1>11 DEF Reply, Goto, displayVars, Counters
<1>12. CASE ReplyFails
  BY <1>0, <1>12 DEF ReplyFails, ExecBash, Goto, displayVars, Counters
<1>13. CASE Gate
  BY <1>0, <1>13 DEF Gate, Goto, Confirm, Counters
<1>14. CASE OpenStep
  BY <1>0, <1>14 DEF OpenStep, Goto, ToolStep, Counters
<1>15. CASE Record
  BY <1>0, <1>15 DEF Record, Goto, displayVars, Counters
<1>16. CASE RecordFails
  BY <1>0, <1>16 DEF RecordFails, Fault, Goto, displayVars, Counters
<1>17. CASE StopSpin
  BY <1>0, <1>17 DEF StopSpin, Goto, StopSpinner, Counters
<1>18. CASE Join
  BY <1>0, <1>18 DEF Join, Joined, ShowResult, Goto, ToolStepResult,
     Counters
<1>19. CASE JoinGivesUp
  <2>1. /\ pc' = "turn" \/ (pc' = "gate" /\ calls < MaxSteps)
        /\ Fault /\ UNCHANGED <<rounds, steps, calls, lines>>
    BY <1>19 DEF JoinGivesUp, ShowResult, Goto, ToolStepResult
  <2>2. QED
    BY <1>0, <2>1 DEF Fault, Counters
<1>20. CASE Interrupt
  BY <1>0, <1>20 DEF Interrupt, End, Turn, displayVars, Counters
<1>21. CASE Display
  BY <1>0, <1>21 DEF Display, Spinner, WaitEnds, Paint, sessionVars,
     Counters
<1>22. CASE UNCHANGED vars
  BY <1>0, <1>22 DEF vars, sessionVars, displayVars, Counters
<1>23. CASE Over
  BY <1>22, <1>23 DEF Over
<1>24. CASE LineFails
  BY <1>0, <1>24 DEF LineFails, End, displayVars, Counters
<1>25. CASE SayFailed
  BY <1>0, <1>25 DEF SayFailed, Goto, displayVars, Counters
<1>26. QED
  BY <1>1, <1>2, <1>3, <1>4, <1>5, <1>6, <1>7, <1>8, <1>9, <1>10, <1>11,
     <1>12, <1>13, <1>14, <1>15, <1>16, <1>17, <1>18, <1>19, <1>20, <1>21,
     <1>22, <1>23, <1>24, <1>25 DEF Next, Startup, Working,
     Operator, Service

(* The spinners.                                                           *)
Threads ==
    /\ spin \in 0..steps
    /\ thread \in [1..MaxSteps -> {"none", "wait", "paint", "done"}]
    /\ stopped \subseteq 1..steps

LEMMA InitThreads == Init => Threads
BY ShellBounds DEF Init, DisplayInit, Threads

LEMMA StepThreads == Counters /\ Threads /\ [Next]_vars => Threads'
<1> SUFFICES ASSUME Counters, Threads, [Next]_vars PROVE Threads'
  OBVIOUS
<1>0. Threads /\ steps \in Nat /\ MaxSteps \in Nat
  BY ShellBounds DEF Counters
<1>1. CASE ServiceToggles
  BY <1>0, <1>1 DEF ServiceToggles, displayVars, Threads
<1>2. CASE Probe
  BY <1>0, <1>2 DEF Probe, ExecBash, Goto, End, displayVars, Threads
<1>3. CASE Build
  BY <1>0, <1>3 DEF Build, Goto, displayVars, Threads
<1>4. CASE StartFails
  BY <1>0, <1>4 DEF StartFails, Fault, ExecBash, Goto, End, displayVars,
     Threads
<1>5. CASE Leave
  BY <1>0, <1>5 DEF Leave, End, displayVars, Threads
<1>6. CASE Toggle
  BY <1>0, <1>6 DEF Toggle, Typed, displayVars, Threads
<1>7. CASE RunRaw
  BY <1>0, <1>7 DEF RunRaw, Typed, Goto, displayVars, Threads
<1>8. CASE RawEnds
  BY <1>0, <1>8 DEF RawEnds, Goto, End, displayVars, Threads
<1>9. CASE BeginTurn
  BY <1>0, <1>9 DEF BeginTurn, Typed, Goto, displayVars, Threads
<1>10. CASE AskService
  BY <1>0, <1>10 DEF AskService, ExecBash, Goto, displayVars, Threads
<1>11. CASE Reply
  BY <1>0, <1>11 DEF Reply, Goto, displayVars, Threads
<1>12. CASE ReplyFails
  BY <1>0, <1>12 DEF ReplyFails, ExecBash, Goto, displayVars, Threads
<1>13. CASE Gate
  BY <1>0, <1>13 DEF Gate, Goto, Confirm, Threads
<1>14. CASE OpenStep
  BY <1>0, <1>14 DEF OpenStep, Goto, ToolStep, Threads
<1>15. CASE Record
  BY <1>0, <1>15 DEF Record, Goto, displayVars, Threads
<1>16. CASE RecordFails
  BY <1>0, <1>16 DEF RecordFails, Fault, Goto, displayVars, Threads
<1>17. CASE StopSpin
  BY <1>0, <1>17 DEF StopSpin, Goto, StopSpinner, Threads
<1>18. CASE Join
  <2>1. spin' = 0 /\ UNCHANGED <<steps, thread, stopped>>
    BY <1>18 DEF Join, ShowResult, ToolStepResult
  <2>2. QED
    BY <1>0, <2>1 DEF Threads
<1>19. CASE JoinGivesUp
  <2>1. spin' = 0 /\ UNCHANGED <<steps, thread, stopped>>
    BY <1>19 DEF JoinGivesUp, ShowResult, ToolStepResult
  <2>2. QED
    BY <1>0, <2>1 DEF Threads
<1>20. CASE Interrupt
  BY <1>0, <1>20 DEF Interrupt, End, Turn, displayVars, Threads
<1>21. CASE Display
  BY <1>0, <1>21 DEF Display, Spinner, WaitEnds, Paint, sessionVars,
     Threads
<1>22. CASE UNCHANGED vars
  BY <1>0, <1>22 DEF vars, sessionVars, displayVars, Threads
<1>23. CASE Over
  BY <1>22, <1>23 DEF Over
<1>24. CASE LineFails
  BY <1>0, <1>24 DEF LineFails, End, displayVars, Threads
<1>25. CASE SayFailed
  BY <1>0, <1>25 DEF SayFailed, Goto, displayVars, Threads
<1>26. QED
  BY <1>1, <1>2, <1>3, <1>4, <1>5, <1>6, <1>7, <1>8, <1>9, <1>10, <1>11,
     <1>12, <1>13, <1>14, <1>15, <1>16, <1>17, <1>18, <1>19, <1>20, <1>21,
     <1>22, <1>23, <1>24, <1>25 DEF Next, Startup, Working,
     Operator, Service

TypeInv == Flags /\ Words /\ Counters /\ Threads

LEMMA ShellTypes == Spec => []TypeInv
<1>1. Init => TypeInv
  BY InitFlags, InitWords, InitCounters, InitThreads DEF TypeInv
<1>2. TypeInv /\ [Next]_vars => TypeInv'
  BY StepFlags, StepWords, StepCounters, StepThreads DEF TypeInv
<1>3. QED
  BY <1>1, <1>2, PTL DEF Spec

(* Shell and display keep the types of their variables: ProductShell,      *)
(* ConsoleIO.                                                              *)
THEOREM ShellTypeCorrect == Spec => []TypeOK
<1>1. TypeInv => TypeOK
  <2> SUFFICES ASSUME TypeInv PROVE TypeOK
    OBVIOUS
  <2>1. steps \in 0..MaxSteps /\ calls \in steps..MaxSteps
        /\ lines \in 0..MaxLines /\ faults \in 0..MaxFaults
        /\ rounds \in 0..MaxRounds
    BY ShellBounds DEF TypeInv, Counters
  <2>2. QED
    BY <2>1, Zenon DEF TypeInv, Flags, Words, Threads, TypeOK, DisplayTypeOK
<1>2. QED
  BY <1>1, ShellTypes, PTL

-----------------------------------------------------------------------------
(* The line of a step. Unless a turn was abandoned between a step and its  *)
(* result and no result was shown since, the line is open and the          *)
(* confirmation granted only from the step that needs them to its result.  *)

Between == {"start", "build", "prompt", "command", "turn", "reply", "gate",
            "declined", "failed"}

Line ==
    cut # "open" =>
            /\ pc \in Between => ~confirmed /\ spin = 0
            /\ pc = "declined" => kind = "none"
            /\ pc = "step" => spin = 0
            /\ pc \in {"step", "audit", "result", "join"} =>
                  (confirmed <=> kind = "write")
            /\ header <=> spin # 0

LEMMA InitLine == Init => Line
BY DEF Init, DisplayInit, Line, Between

LEMMA StepLine == Counters /\ Line /\ [Next]_vars => Line'
<1> SUFFICES ASSUME Counters, Line, [Next]_vars PROVE Line'
  OBVIOUS
<1>0. Line /\ steps \in Nat
  BY DEF Counters
<1>1. CASE ServiceToggles
  BY <1>0, <1>1 DEF ServiceToggles, displayVars, Line, Between
<1>2. CASE Probe
  BY <1>0, <1>2 DEF Probe, ExecBash, Goto, End, displayVars, Line, Between
<1>3. CASE Build
  BY <1>0, <1>3 DEF Build, Goto, displayVars, Line, Between
<1>4. CASE StartFails
  BY <1>0, <1>4 DEF StartFails, Fault, ExecBash, Goto, End, displayVars,
     Line, Between
<1>5. CASE Leave
  BY <1>0, <1>5 DEF Leave, End, displayVars, Line, Between
<1>6. CASE Toggle
  BY <1>0, <1>6 DEF Toggle, Typed, displayVars, Line, Between
<1>7. CASE RunRaw
  BY <1>0, <1>7 DEF RunRaw, Typed, Goto, displayVars, Line, Between
<1>8. CASE RawEnds
  BY <1>0, <1>8 DEF RawEnds, Goto, End, displayVars, Line, Between
<1>9. CASE BeginTurn
  BY <1>0, <1>9 DEF BeginTurn, Typed, Goto, displayVars, Line, Between
<1>10. CASE AskService
  BY <1>0, <1>10 DEF AskService, ExecBash, Goto, displayVars, Line, Between
<1>11. CASE Reply
  BY <1>0, <1>11 DEF Reply, Goto, displayVars, Line, Between
<1>12. CASE ReplyFails
  BY <1>0, <1>12 DEF ReplyFails, ExecBash, Goto, displayVars, Line, Between
<1>13. CASE Gate
  BY <1>0, <1>13 DEF Gate, Goto, Confirm, Line, Between
<1>14. CASE OpenStep
  BY <1>0, <1>14 DEF OpenStep, Goto, ToolStep, Line, Between
<1>15. CASE Record
  BY <1>0, <1>15 DEF Record, Goto, displayVars, Line, Between
<1>16. CASE RecordFails
  BY <1>0, <1>16 DEF RecordFails, Fault, Goto, displayVars, Line, Between
<1>17. CASE StopSpin
  BY <1>0, <1>17 DEF StopSpin, Goto, StopSpinner, Line, Between
<1>18. CASE Join
  BY <1>0, <1>18 DEF Join, Joined, ShowResult, Goto, ToolStepResult, Line,
     Between
<1>19. CASE JoinGivesUp
  BY <1>0, <1>19 DEF JoinGivesUp, Joined, Fault, ShowResult, Goto,
     ToolStepResult, Line, Between
<1>20. CASE Interrupt
  BY <1>0, <1>20 DEF Interrupt, End, Turn, displayVars, Line, Between
<1>21. CASE Display
  BY <1>0, <1>21 DEF Display, Spinner, WaitEnds, Paint, sessionVars, Line,
     Between
<1>22. CASE UNCHANGED vars
  BY <1>0, <1>22 DEF vars, sessionVars, displayVars, Line, Between
<1>23. CASE Over
  BY <1>22, <1>23 DEF Over
<1>24. CASE LineFails
  BY <1>0, <1>24 DEF LineFails, End, displayVars, Line, Between
<1>25. CASE SayFailed
  BY <1>0, <1>25 DEF SayFailed, Goto, displayVars, Line, Between
<1>26. QED
  BY <1>1, <1>2, <1>3, <1>4, <1>5, <1>6, <1>7, <1>8, <1>9, <1>10, <1>11,
     <1>12, <1>13, <1>14, <1>15, <1>16, <1>17, <1>18, <1>19, <1>20, <1>21,
     <1>22, <1>23, <1>24, <1>25 DEF Next, Startup, Working,
     Operator, Service

LEMMA Lines == Spec => []Line
<1>1. Counters /\ Line /\ [Next]_vars => Line'
  BY StepLine
<1>2. TypeInv => Counters
  BY DEF TypeInv
<1>3. QED
  BY <1>1, <1>2, InitLine, ShellTypes, PTL DEF Spec

LEMMA StepMark == TypeInv /\ Line /\ MarkIsTrue /\ [Next]_vars => MarkIsTrue'
<1> SUFFICES ASSUME TypeInv, Line, MarkIsTrue, [Next]_vars PROVE MarkIsTrue'
  OBVIOUS
<1>0. MarkIsTrue
  OBVIOUS
<1>t. kind \in {"none", "read", "write"}
  BY DEF TypeInv, Words
<1>1. CASE ServiceToggles
  BY <1>0, <1>1 DEF ServiceToggles, displayVars, MarkIsTrue
<1>2. CASE Probe
  BY <1>0, <1>2 DEF Probe, ExecBash, Goto, End, displayVars, MarkIsTrue
<1>3. CASE Build
  BY <1>0, <1>3 DEF Build, Goto, displayVars, MarkIsTrue
<1>4. CASE StartFails
  BY <1>0, <1>4 DEF StartFails, Fault, ExecBash, Goto, End, displayVars,
     MarkIsTrue
<1>5. CASE Leave
  BY <1>0, <1>5 DEF Leave, End, displayVars, MarkIsTrue
<1>6. CASE Toggle
  BY <1>0, <1>6 DEF Toggle, Typed, displayVars, MarkIsTrue
<1>7. CASE RunRaw
  BY <1>0, <1>7 DEF RunRaw, Typed, Goto, displayVars, MarkIsTrue
<1>8. CASE RawEnds
  BY <1>0, <1>8 DEF RawEnds, Goto, End, displayVars, MarkIsTrue
<1>9. CASE BeginTurn
  BY <1>0, <1>9 DEF BeginTurn, Typed, Goto, displayVars, MarkIsTrue
<1>10. CASE AskService
  BY <1>0, <1>10 DEF AskService, ExecBash, Goto, displayVars, MarkIsTrue
<1>11. CASE Reply
  BY <1>0, <1>11 DEF Reply, Goto, displayVars, MarkIsTrue
<1>12. CASE ReplyFails
  BY <1>0, <1>12 DEF ReplyFails, ExecBash, Goto, displayVars, MarkIsTrue
<1>13. CASE Gate
  BY <1>0, <1>13 DEF Gate, Goto, Confirm, MarkIsTrue
<1>14. CASE OpenStep
  BY <1>0, <1>14 DEF OpenStep, Goto, ToolStep, MarkIsTrue
<1>15. CASE Record
  BY <1>0, <1>15 DEF Record, Goto, displayVars, MarkIsTrue
<1>16. CASE RecordFails
  BY <1>0, <1>16 DEF RecordFails, Fault, Goto, displayVars, MarkIsTrue
<1>17. CASE StopSpin
  BY <1>0, <1>17 DEF StopSpin, Goto, StopSpinner, MarkIsTrue
<1>18. CASE Join
  <2>1. cut # "open" => (confirmed <=> kind = "write")
    BY <1>18 DEF Join, Line
  <2>2. /\ kind' = kind
        /\ cut' # "closing" => cut # "open"
        /\ mark' = "tick" => confirmed /\ kind # "none"
        /\ mark' = "block" => ~confirmed /\ kind # "none"
    BY <1>18 DEF Join, ShowResult, ToolStepResult
  <2>3. QED
    BY <1>t, <2>1, <2>2 DEF MarkIsTrue
<1>19. CASE JoinGivesUp
  <2>1. cut # "open" => (confirmed <=> kind = "write")
    BY <1>19 DEF JoinGivesUp, Line
  <2>2. /\ kind' = kind
        /\ cut' # "closing" => cut # "open"
        /\ mark' = "tick" => confirmed /\ kind # "none"
        /\ mark' = "block" => ~confirmed /\ kind # "none"
    BY <1>19 DEF JoinGivesUp, ShowResult, ToolStepResult
  <2>3. QED
    BY <1>t, <2>1, <2>2 DEF MarkIsTrue
<1>20. CASE Interrupt
  BY <1>0, <1>20 DEF Interrupt, End, Turn, displayVars, MarkIsTrue
<1>21. CASE Display
  BY <1>0, <1>21 DEF Display, Spinner, WaitEnds, Paint, sessionVars,
     MarkIsTrue
<1>22. CASE UNCHANGED vars
  BY <1>0, <1>22 DEF vars, sessionVars, displayVars, MarkIsTrue
<1>23. CASE Over
  BY <1>22, <1>23 DEF Over
<1>24. CASE LineFails
  BY <1>0, <1>24 DEF LineFails, End, displayVars, MarkIsTrue
<1>25. CASE SayFailed
  BY <1>0, <1>25 DEF SayFailed, Goto, displayVars, MarkIsTrue
<1>26. QED
  BY <1>1, <1>2, <1>3, <1>4, <1>5, <1>6, <1>7, <1>8, <1>9, <1>10, <1>11,
     <1>12, <1>13, <1>14, <1>15, <1>16, <1>17, <1>18, <1>19, <1>20, <1>21,
     <1>22, <1>23, <1>24, <1>25 DEF Next, Startup, Working,
     Operator, Service

(* A green tick stands for a confirmed operation and a block for one that  *)
(* needed no confirmation, at every result but the first one after a turn  *)
(* that was abandoned within a step: tool_step, tool_step_result.          *)
THEOREM MarksAreTrue == Spec => []MarkIsTrue
<1>1. Init => MarkIsTrue
  BY DEF Init, MarkIsTrue
<1>2. QED
  BY <1>1, StepMark, ShellTypes, Lines, PTL DEF Spec

-----------------------------------------------------------------------------
(* The threads. While no join gave up either, only the spinner of the open *)
(* line is alive.                                                          *)

Alone ==
    cut = "no" /\ ~slow =>
        /\ ~stray
        /\ \A i \in 1..MaxSteps : i # spin => thread[i] \in {"none", "done"}

LEMMA InitAlone == Init => Alone
BY DEF Init, DisplayInit, Alone

LEMMA StepAlone == TypeInv /\ Line /\ Alone /\ [Next]_vars => Alone'
<1> SUFFICES ASSUME TypeInv, Line, Alone, [Next]_vars PROVE Alone'
  OBVIOUS
<1>0. Alone
  OBVIOUS
<1>t. /\ MaxSteps \in Nat /\ steps \in Nat /\ steps <= MaxSteps
      /\ spin \in 0..steps
      /\ thread \in [1..MaxSteps -> {"none", "wait", "paint", "done"}]
  BY ShellBounds DEF TypeInv, Counters, Threads
<1>1. CASE ServiceToggles
  BY <1>0, <1>1 DEF ServiceToggles, displayVars, Alone
<1>2. CASE Probe
  BY <1>0, <1>2 DEF Probe, ExecBash, Goto, End, displayVars, Alone
<1>3. CASE Build
  BY <1>0, <1>3 DEF Build, Goto, displayVars, Alone
<1>4. CASE StartFails
  BY <1>0, <1>4 DEF StartFails, Fault, ExecBash, Goto, End, displayVars,
     Alone
<1>5. CASE Leave
  BY <1>0, <1>5 DEF Leave, End, displayVars, Alone
<1>6. CASE Toggle
  BY <1>0, <1>6 DEF Toggle, Typed, displayVars, Alone
<1>7. CASE RunRaw
  BY <1>0, <1>7 DEF RunRaw, Typed, Goto, displayVars, Alone
<1>8. CASE RawEnds
  BY <1>0, <1>8 DEF RawEnds, Goto, End, displayVars, Alone
<1>9. CASE BeginTurn
  BY <1>0, <1>9 DEF BeginTurn, Typed, Goto, displayVars, Alone
<1>10. CASE AskService
  BY <1>0, <1>10 DEF AskService, ExecBash, Goto, displayVars, Alone
<1>11. CASE Reply
  BY <1>0, <1>11 DEF Reply, Goto, displayVars, Alone
<1>12. CASE ReplyFails
  BY <1>0, <1>12 DEF ReplyFails, ExecBash, Goto, displayVars, Alone
<1>13. CASE Gate
  BY <1>0, <1>13 DEF Gate, Goto, Confirm, Alone
<1>14. CASE OpenStep
  <2>1. cut = "no" => spin = 0
    BY <1>14 DEF OpenStep, Line
  <2>2. /\ UNCHANGED <<cut, slow, stray>>
        /\ \/ spin' = spin /\ thread' = thread
           \/ /\ spin' = steps + 1
              /\ thread' = [thread EXCEPT ![steps + 1] = "wait"]
    BY <1>14 DEF OpenStep, ToolStep
  <2>3. QED
    BY <1>0, <1>t, <2>1, <2>2 DEF Alone
<1>15. CASE Record
  BY <1>0, <1>15 DEF Record, Goto, displayVars, Alone
<1>16. CASE RecordFails
  BY <1>0, <1>16 DEF RecordFails, Fault, Goto, displayVars, Alone
<1>17. CASE StopSpin
  BY <1>0, <1>17 DEF StopSpin, Goto, StopSpinner, Alone
<1>18. CASE Join
  <2>1. /\ UNCHANGED <<slow, stray, thread>>
        /\ cut' = "no" => cut = "no"
        /\ spin' = 0
    BY <1>18 DEF Join, ShowResult, ToolStepResult
  <2>2. spin # 0 => thread[spin] = "done"
    BY <1>18, <1>t DEF Join, Joined
  <2>3. QED
    BY <1>0, <1>t, <2>1, <2>2 DEF Alone
<1>19. CASE JoinGivesUp
  BY <1>0, <1>19 DEF JoinGivesUp, Joined, Fault, ShowResult, Goto,
     ToolStepResult, Alone
<1>20. CASE Interrupt
  BY <1>0, <1>20 DEF Interrupt, End, Turn, displayVars, Alone
<1>21. CASE Display
  <2>1. PICK i \in 1..steps : WaitEnds(i) \/ Paint(i)
    BY <1>21 DEF Display, Spinner
  <2>2. UNCHANGED <<cut, slow>>
    BY <1>21 DEF Display, sessionVars
  <2>3. i \in 1..MaxSteps /\ i # 0
    BY <1>t
  <2>4. CASE WaitEnds(i)
    <3>1. thread[i] = "wait" /\ UNCHANGED <<spin, stray>>
      BY <2>4 DEF WaitEnds
    <3>2. \A j \in 1..MaxSteps : j # i => thread'[j] = thread[j]
      BY <1>t, <2>4 DEF WaitEnds
    <3>3. QED
      BY <1>0, <2>2, <2>3, <3>1, <3>2 DEF Alone
  <2>5. CASE Paint(i)
    <3>1. thread[i] = "paint" /\ spin' = spin
      BY <2>5 DEF Paint
    <3>2. \A j \in 1..MaxSteps : j # i => thread'[j] = thread[j]
      BY <1>t, <2>5 DEF Paint
    <3>3. cut = "no" /\ ~slow => i = spin
      BY <1>0, <2>3, <3>1 DEF Alone
    <3>4. cut = "no" /\ ~slow => header /\ ~stray
      BY <1>0, <2>3, <3>3 DEF Alone, Line
    <3>5. cut = "no" /\ ~slow => ~stray'
      BY <2>5, <3>3, <3>4 DEF Paint
    <3>6. QED
      BY <1>0, <2>2, <3>1, <3>2, <3>3, <3>5 DEF Alone
  <2>6. QED
    BY <2>1, <2>4, <2>5
<1>22. CASE UNCHANGED vars
  BY <1>0, <1>22 DEF vars, sessionVars, displayVars, Alone
<1>23. CASE Over
  BY <1>22, <1>23 DEF Over
<1>24. CASE LineFails
  BY <1>0, <1>24 DEF LineFails, End, displayVars, Alone
<1>25. CASE SayFailed
  BY <1>0, <1>25 DEF SayFailed, Goto, displayVars, Alone
<1>26. QED
  BY <1>1, <1>2, <1>3, <1>4, <1>5, <1>6, <1>7, <1>8, <1>9, <1>10, <1>11,
     <1>12, <1>13, <1>14, <1>15, <1>16, <1>17, <1>18, <1>19, <1>20, <1>21,
     <1>22, <1>23, <1>24, <1>25 DEF Next, Startup, Working,
     Operator, Service

LEMMA SpinnersAlone == Spec => []Alone
<1>1. TypeInv /\ Line /\ Alone /\ [Next]_vars => Alone'
  BY StepAlone
<1>2. QED
  BY <1>1, InitAlone, Lines, ShellTypes, PTL DEF Spec

(* No frame is painted outside the open line of its step, unless a turn    *)
(* was abandoned within a step or a join gave up: _start_spinner,          *)
(* _stop_spinner.                                                          *)
THEOREM FramesStayOnTheirLine == Spec => []StrayFrameHasCause
<1>1. Alone => StrayFrameHasCause
  BY DEF Alone, StrayFrameHasCause
<1>2. QED
  BY <1>1, SpinnersAlone, PTL

(* At the prompt no line is open and nothing is confirmed in advance, but  *)
(* from a turn abandoned within a step until the next result, and no       *)
(* spinner is alive, but after such a turn or a join that gave up:         *)
(* begin_turn, tool_step_result.                                           *)
THEOREM NothingIsLeftAtThePrompt == Spec => []PromptIsQuiet
<1>1. TypeInv /\ Line /\ Alone => PromptIsQuiet
  <2> SUFFICES ASSUME TypeInv, Line, Alone, pc = "prompt"
               PROVE  PromptIsQuiet
    BY DEF PromptIsQuiet
  <2>1. cut # "open" => ~header /\ ~confirmed /\ spin = 0
    BY DEF Line, Between
  <2>2. ASSUME cut = "no", ~slow, NEW i \in 1..steps
        PROVE  thread[i] \in {"none", "done"}
    <3>1. i \in 1..MaxSteps /\ i # 0
      BY ShellBounds DEF TypeInv, Counters
    <3>2. spin = 0
      BY <2>1, <2>2
    <3>3. QED
      BY <2>2, <3>1, <3>2 DEF Alone
  <2>3. QED
    BY <2>1, <2>2 DEF PromptIsQuiet
<1>2. QED
  BY <1>1, ShellTypes, Lines, SpinnersAlone, PTL
=============================================================================
