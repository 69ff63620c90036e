--------------------------- MODULE MCUnderstanding ---------------------------
(* Instances of Understanding for TLC. *)
EXTENDS Understanding

(* A read without arguments, and two operations that share one of theirs.  *)
ShownRequired == [list |-> <<>>, stop |-> <<"unit">>,
                  copy |-> <<"source", "target", "unit">>]
=============================================================================
