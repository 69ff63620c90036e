----------------------------- MODULE MCPlanRun ------------------------------
(* Instances of PlanRun for TLC. *)
EXTENDS PlanRun

Plain(class, tool, check) ==
    [fragments |-> {class}, declared |-> class, tool |-> tool, check |-> check]

(* sysctl set: declared a change, taken for a read by the classifier.      *)
DisputedCalls ==
    {[fragments |-> {"read"}, declared |-> "write",
      tool |-> "other", check |-> "none"]}

(* sysctl set, which may change the machine or leave it, a package to      *)
(* install, a file to write at a path whose stat is gated, a package to    *)
(* remove, an interface to bring up.                                       *)
PlannedCalls ==
    DisputedCalls \union
    {Plain("write", "idempotent", "allowed"),
     Plain("write", "idempotent", "refused"),
     Plain("destructive", "idempotent", "allowed"),
     Plain("write", "network", "allowed")}
=============================================================================
