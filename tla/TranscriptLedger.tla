-------------------------- MODULE TranscriptLedger ---------------------------
(***************************************************************************)
(* What the ledger promises about the transcript of one session, whatever  *)
(* happens to the file it comes from and whoever ingests it: what was      *)
(* stored is only ever extended.  It is replaced in one case, a parser     *)
(* upgrade, and never while something in the ledger cites it.              *)
(* TranscriptIngest implements it (TranscriptIngest!KeepsItsWord).         *)
(***************************************************************************)
EXTENDS SequencesExt

VARIABLES stored,   \* the messages of the session, <<>> before it exists
          cited,    \* claims, owner insights or task clusters refer to it
          upgrading \* an ingester is moving it to its own parser version

vars == <<stored, cited, upgrading>>

Init == cited = FALSE

\* The first messages of a session.
Open == stored = <<>> /\ UNCHANGED cited

\* A transcript that went on: the stored messages stay where they are.
Extend == IsPrefix(stored, stored') /\ UNCHANGED cited

\* Another parser version reads the same transcript differently.
Reread == upgrading /\ ~cited /\ UNCHANGED cited

\* Something starts or stops citing the session.
Cite == UNCHANGED stored

Next == Open \/ Extend \/ Reread \/ Cite

Spec == Init /\ [][Next]_vars
=============================================================================
