--------------------------- MODULE MCSourceReader ---------------------------
(* SourceReader for TLC: the threads of the API are interchangeable. *)
EXTENDS SourceReader, TLC
Threads == Permutations(Thread)
=============================================================================
