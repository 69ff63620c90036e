--------------------------- MODULE MCEpisodicIndex ---------------------------
(* Instances of EpisodicIndex for TLC. *)
EXTENDS EpisodicIndex, TLC

Symmetry == Permutations(Sessions)
=============================================================================
