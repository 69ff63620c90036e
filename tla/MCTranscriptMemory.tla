------------------------- MODULE MCTranscriptMemory -------------------------
(* Instances of TranscriptMemory for TLC. *)
EXTENDS TranscriptMemory
=============================================================================
