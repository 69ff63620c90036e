--------------------------- MODULE GatedExecution ---------------------------
(***************************************************************************)
(* What the executing parts of the system promise together, without a      *)
(* loop, a model, a display or a file: operations run one at a time, each  *)
(* one under a clearance given for that very operation, a clearance is     *)
(* used at most once and does not survive anything but the operation it    *)
(* was given for, and a log receives one entry for an operation that has   *)
(* just run, or none.                                                      *)
(***************************************************************************)
EXTENDS Permissions, Sequences

CONSTANTS
    Calls,      \* the operations
    NoCall      \* no clearance is outstanding

VARIABLES
    present,    \* a person can answer a gate
    clearance,  \* the operation cleared to run next, with the consent for it
    history,    \* the operations that ran, with the consent each ran under
    entries     \* the positions in history that are in the log

gatedVars == <<present, clearance, history, entries>>

Cleared == [call : Calls, consent : Consent]

GInit ==
    /\ present \in BOOLEAN
    /\ clearance = NoCall
    /\ history = <<>>
    /\ entries = {}

(* A gate is cleared: only for an operation that needs no more consent     *)
(* than was given, and no consent is given where there is no person.       *)
Clear(call, consent) ==
    /\ clearance = NoCall
    /\ Sufficient(consent, StrictestClass(call))
    /\ consent # "none" => present
    /\ clearance' = [call |-> call, consent |-> consent]
    /\ UNCHANGED <<present, history, entries>>

Run ==
    /\ clearance # NoCall
    /\ history' = Append(history, clearance)
    /\ clearance' = NoCall
    /\ UNCHANGED <<present, entries>>

(* The clearance is lost before the operation runs.                        *)
Lapse ==
    /\ clearance' = NoCall
    /\ UNCHANGED <<present, history, entries>>

(* The last operation gets its log entry, if it has none yet.              *)
Enter ==
    /\ history # <<>>
    /\ Len(history) \notin entries
    /\ entries' = entries \union {Len(history)}
    /\ UNCHANGED <<present, clearance, history>>

GNext ==
    \/ \E call \in Calls, consent \in Consent : Clear(call, consent)
    \/ Run
    \/ Lapse
    \/ Enter

GSpec == GInit /\ [][GNext]_gatedVars
=============================================================================
