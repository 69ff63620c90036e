---------------------------- MODULE Permissions ----------------------------
(***************************************************************************)
(* The permission seam of core/agent/permissions.py: how a proposed        *)
(* operation is classified, which gate the class demands in the current    *)
(* execution context, and how the class declared by the tool registry      *)
(* overrides a laxer classification.                                       *)
(*                                                                         *)
(* The regular expressions that classify one fragment of a command line    *)
(* are abstracted: a command line is the set of the classes its fragments  *)
(* get (the literal line, the parts of a pipeline or chain, the bodies of  *)
(* its substitutions).                                                     *)
(*                                                                         *)
(* An operator named ...Slip is a variant of the definition that follows   *)
(* it, with a plausible slip that the properties of the loop notice.       *)
(***************************************************************************)
EXTENDS Naturals

OpClass == {"read", "write", "destructive"}

Gate == {"allow", "confirm", "confirm_typed", "refuse"}

Decision == [op_class : OpClass, gate : Gate]

(* What a person did before an operation ran: nothing at all, or one of the *)
(* two answers that mean consent.                                          *)
Consent == {"none", "yes", "word"}

(* What the classifier finds in a command line: the classes of its         *)
(* fragments, at least one.                                                *)
Fragments == (SUBSET OpClass) \ {{}}

(* A call as the router hands it to the loop: what the classifier finds in *)
(* the command line synthesized for it, and what the registry declares.    *)
Call == [fragments : Fragments, declared : OpClass]

Severity(c) ==
    CASE c = "read"        -> 0
      [] c = "write"       -> 1
      [] c = "destructive" -> 2

(* The most severe fragment governs the whole line.                        *)
WorstFragment(fragments) ==
    CASE "destructive" \in fragments -> "destructive"
      [] "destructive" \notin fragments /\ "write" \in fragments -> "write"
      [] OTHER -> "read"

(* A change needs a person; without one it is refused, never assumed.      *)
GateFor(class, interactive) ==
    CASE class = "read" -> "allow"
      [] class # "read" /\ ~interactive -> "refuse"
      [] class = "write" /\ interactive -> "confirm"
      [] class = "destructive" /\ interactive -> "confirm_typed"

classify(call, interactive) ==
    LET class == WorstFragment(call.fragments)
    IN  [op_class |-> class, gate |-> GateFor(class, interactive)]

(* Never a downgrade: the declared class only replaces a milder one.       *)
escalateSlip(decision, declared, interactive) == decision
escalate(decision, declared, interactive) ==
    IF Severity(declared) <= Severity(decision.op_class)
    THEN decision
    ELSE [op_class |-> declared, gate |-> GateFor(declared, interactive)]

(* The gate of the agent loop: classified, then escalated.                 *)
LoopDecision(call, interactive) ==
    escalate(classify(call, interactive), call.declared, interactive)

(* What the person enters at a prompt, and whether it clears the gate: a   *)
(* "y" never clears the typed gate, and nothing clears a refusal.          *)
Answer == {"yes", "word", "other"}

ClearsSlip(gate, answer) ==
    gate \in {"confirm", "confirm_typed"} /\ answer \in {"yes", "word"}
Clears(gate, answer) ==
    \/ gate = "confirm" /\ answer = "yes"
    \/ gate = "confirm_typed" /\ answer = "word"

-----------------------------------------------------------------------------
(* Reference definitions, from the contract and not from the code path.    *)

(* The strictest class anyone assigns to the operation.                    *)
StrictestClass(call) ==
    LET classes == call.fragments \union {call.declared}
    IN  CASE "destructive" \in classes -> "destructive"
          [] "destructive" \notin classes /\ "write" \in classes -> "write"
          [] OTHER -> "read"

(* Consent that is enough to run an operation of a class.                  *)
Sufficient(consent, class) ==
    CASE class = "read"        -> TRUE
      [] class = "write"       -> consent \in {"yes", "word"}
      [] class = "destructive" -> consent = "word"
=============================================================================
