---------------------------- MODULE MCAgentTurn ----------------------------
(* Instances of AgentTurn for TLC. *)
EXTENDS AgentTurn

Plain(class) == [fragments |-> {class}, declared |-> class]

(* A read, a change the classifier takes for a read, a chain with a        *)
(* destructive part that is declared a change.                             *)
DisputedCalls ==
    {Plain("read"),
     [fragments |-> {"read"}, declared |-> "write"],
     [fragments |-> {"read", "destructive"}, declared |-> "write"]}

(* One call whose class the registry raises from read to destructive.      *)
TwoCalls == {Plain("read"), [fragments |-> {"write"}, declared |-> "destructive"]}
=============================================================================
