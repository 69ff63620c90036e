--------------------------- MODULE MCStreamAssembly ---------------------------
(* Instances of StreamAssembly for TLC. *)
EXTENDS StreamAssembly
=============================================================================
