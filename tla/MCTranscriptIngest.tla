------------------------- MODULE MCTranscriptIngest --------------------------
(* TranscriptIngest on small instances.                                    *)
EXTENDS TranscriptIngest

\* The processes that ingest are interchangeable.
Symmetry == Permutations(Ingester)
=============================================================================
