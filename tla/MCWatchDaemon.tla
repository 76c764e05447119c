--------------------------- MODULE MCWatchDaemon ----------------------------
(* WatchDaemon for TLC: threads of one kind are interchangeable, and so are  *)
(* the artifacts of a harness.                                               *)
EXTENDS WatchDaemon, TLC

Symmetry == Permutations(Worker) \cup Permutations(Deriver)
            \cup Permutations(File) \cup Permutations(Harness)
            \cup Permutations(Noter)
=============================================================================
