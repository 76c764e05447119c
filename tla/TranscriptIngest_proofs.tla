----------------------- MODULE TranscriptIngest_proofs -----------------------
(***************************************************************************)
(* Proofs about TranscriptIngest, for any number of ingesters, any records *)
(* and any bounds: what is stored is what the checkpoint covers, windows   *)
(* are those of the messages, and the ledger keeps its promise             *)
(* (TranscriptLedger).  Parse is never expanded: the proofs hold of any    *)
(* parser that is a function of the adapter, the version and the lines.    *)
(***************************************************************************)
EXTENDS TranscriptIngest, TLAPS

USE DEF Resting, Ready, HasHash, HasRead, Decided

\* The initial ledger is empty, or an older release's and complete.
LEMMA InitIInv == Init => IInv
<1> SUFFICES ASSUME Init PROVE IInv
  OBVIOUS
<1>1. file.lines \in Seq(Line) /\ file.rev = 0 /\ ver = 1 /\ Msg \subseteq Line
  <2>1. PICK n \in 0 .. 2 : file.lines \in [1 .. n -> Msg]
    BY DEF Init
  <2>2. file.lines \in Seq(Line)
    BY <2>1 DEF Line
  <2> QED
    BY <2>2 DEF Init, Line
<1>2. /\ DOMAIN ses = DOMAIN NoSession /\ ses.storage \in Storage \cup {None}
      /\ Exists \/ ses.msgs = <<>>
      /\ ses.storage = Old => art # None
      /\ art # None => art.ver = 1
      /\ art \in Artifact \cup {None}
      /\ NothingSkipped /\ WindowsFollow /\ CheckpointCovers
  <2>1. CASE Nothing
    BY <2>1, NoneAssumption DEF Nothing, NoSession, Exists, NothingSkipped, WindowsFollow,
       CheckpointCovers, Storage, Source, Old
  <2>2. CASE Inherited
    <3>1. /\ art.ver = 1 /\ art.hash = file.lines /\ art.rev = 0
          /\ art = [rev |-> 0, hash |-> file.lines, ver |-> 1, storage |-> Old]
      BY <2>2 DEF Inherited
    <3>2. ses = [storage |-> Old, msgs |-> Parse(1, file.lines),
                 windows |-> Parse(1, file.lines), status |-> "current"]
      BY <2>2 DEF Inherited
    <3>3. /\ ses.storage = Old /\ ses.msgs = Parse(1, file.lines)
          /\ ses.windows = ses.msgs
          /\ DOMAIN ses = {"storage", "msgs", "windows", "status"}
      BY <3>2
    <3>4. DOMAIN NoSession = {"storage", "msgs", "windows", "status"}
      BY DEF NoSession
    <3>5. Old # None
      BY NoneAssumption DEF Storage
    <3>6. art \in Artifact /\ art # None
      BY <1>1, <3>1, NoneAssumption DEF Artifact, Storage, Version
    <3> QED
      BY <1>1, <3>1, <3>3, <3>4, <3>5, <3>6
         DEF Exists, NothingSkipped, WindowsFollow, CheckpointCovers, Storage
  <2> QED
    BY <2>1, <2>2 DEF Init
<1>3. \A i \in Ingester : /\ pc[i] = "idle" /\ job[i] = NoJob
                          /\ job[i].art = None
  BY DEF Init, NoJob
<1>4. Shapes
  BY <1>1, <1>2, <1>3 DEF Shapes, Init, Version
<1>5. OneVersion
  BY <1>1, <1>2, <1>3 DEF OneVersion
<1>6. \A i \in Ingester : KnowsFile(pc[i], job[i]) /\ KnowsLedger(pc[i], job[i])
  BY <1>3 DEF KnowsFile, KnowsLedger
<1>7. FreezeStands
  BY DEF Init, FreezeStands
<1> QED
  BY <1>2, <1>4, <1>5, <1>6, <1>7 DEF IInv

Pc == Decided \cup Resting \cup {"again"}
Fields == {"act", "attempt", "rev", "art", "lines", "hash", "existed", "storage",
           "full", "promote", "exact", "why"}

LEMMA JobFields == DOMAIN NoJob = Fields
  BY DEF NoJob, Fields

\* Any step of an ingester that leaves the ledger alone, given what the new
\* place and the new locals have to satisfy.
LEMMA ContinueIInv ==
  ASSUME IInv, NEW i \in Ingester, NEW where \in Pc, NEW j,
         DOMAIN j = Fields, j.art \in Artifact \cup {None},
         Continue(i, where, j),
         UNCHANGED <<file, ledger, evidence, cursor, ver, overtaken>>,
         KnowsFile(where, j), KnowsLedger(where, j)
  PROVE  IInv'
<1>0. UNCHANGED <<file, art, ses, freeze, cursor, ver, overtaken>>
  BY DEF ledger
<1>1. /\ pc' = [pc EXCEPT ![i] = where] /\ job' = [job EXCEPT ![i] = j]
      /\ pc \in [Ingester -> Pc] /\ DOMAIN job = Ingester
  BY DEF Continue, IInv, Shapes, Pc
<1>2. /\ pc'[i] = where /\ job'[i] = j
      /\ \A k \in Ingester \ {i} : pc'[k] = pc[k] /\ job'[k] = job[k]
      /\ pc' \in [Ingester -> Pc] /\ DOMAIN job' = Ingester
  BY <1>1
<1>3. Shapes'
  BY <1>0, <1>2, JobFields DEF IInv, Shapes, Pc, Version
<1>4. OneVersion'
  BY <1>0, <1>2 DEF IInv, OneVersion
<1>5. ASSUME NEW k \in Ingester
      PROVE  KnowsFile(pc[k], job[k])' /\ KnowsLedger(pc[k], job[k])'
  <2>1. CASE k = i
    BY <1>0, <1>2, <2>1 DEF KnowsFile, KnowsLedger, Parse, Exists
  <2>2. CASE k # i
    BY <1>0, <1>2, <2>2 DEF IInv, KnowsFile, KnowsLedger, Parse, Exists
  <2> QED
    BY <2>1, <2>2
<1> QED
  BY <1>0, <1>3, <1>4, <1>5 DEF IInv, NothingSkipped, WindowsFollow, CheckpointCovers,
       FreezeStands, Exists, Parse, IsFrozen

\* What the invariant says of one ingester.
LEMMA Local ==
  ASSUME IInv, NEW i \in Ingester
  PROVE  /\ pc[i] \in Pc /\ DOMAIN job[i] = Fields
         /\ job[i].art \in Artifact \cup {None}
         /\ KnowsFile(pc[i], job[i]) /\ KnowsLedger(pc[i], job[i])
  BY JobFields DEF IInv, Shapes, Pc

\* A job that starts over knows nothing.
LEMMA NoJobKnows ==
  /\ DOMAIN NoJob = Fields /\ NoJob.art = None
  /\ \A p \in Resting \cup {"again"} : \A j : KnowsFile(p, j) /\ KnowsLedger(p, j)
<1>1. NoJob.art = None
  BY DEF NoJob
<1> QED
  BY <1>1, JobFields DEF KnowsFile, KnowsLedger

\* Giving up, in any way, before the transaction.
LEMMA RestIInv ==
  ASSUME IInv, NEW i \in Ingester, Rest(i),
         UNCHANGED <<file, ledger, evidence, cursor, ver, overtaken>>
  PROVE  IInv'
<1>1. Continue(i, "idle", NoJob)
  BY DEF Rest, Continue
<1> QED
  BY <1>1, NoJobKnows, ContinueIInv DEF Pc

\* The decision is made from a row of artifacts as it is now.
LEMMA DecideIInv ==
  ASSUME IInv, NEW i \in Ingester, Decide(i)
  PROVE  IInv'
<1> DEFINE j == [NoJob EXCEPT !.act = Decision(art, ver), !.attempt = job[i].attempt,
                              !.rev = file.rev, !.art = art]
<1>1. Continue(i, "decided", j) /\ UNCHANGED <<file, ledger, evidence, cursor, ver, overtaken>>
  BY DEF Decide, Outside
<1>2. DOMAIN j = Fields /\ j.rev = file.rev /\ j.art = art
  BY JobFields DEF Fields
<1>3. KnowsFile("decided", j) /\ KnowsLedger("decided", j)
  BY <1>2 DEF KnowsFile, KnowsLedger, IInv, Shapes, OneVersion
<1> HIDE DEF j
<1> QED
  BY <1>1, <1>2, <1>3, ContinueIInv DEF Pc, IInv, Shapes

\* Reading, fingerprinting and looking extend what the ingester knows.
LEMMA ReadIInv ==
  ASSUME IInv, NEW i \in Ingester, Read(i)
  PROVE  IInv'
<1> DEFINE j == [job[i] EXCEPT !.lines = file.lines]
<1>1. UNCHANGED <<file, ledger, evidence, cursor, ver, overtaken>> /\ pc[i] = "decided"
  BY DEF Read, Outside
<1>2. CASE Rest(i)
  BY <1>1, <1>2, RestIInv
<1>3. CASE Continue(i, "parsed", j)
  <2>1. /\ DOMAIN j = Fields /\ j.rev = job[i].rev /\ j.art = job[i].art
        /\ j.lines = file.lines
    BY Local DEF Fields
  <2>2. KnowsFile("parsed", j) /\ KnowsLedger("parsed", j)
    BY <1>1, <2>1, Local DEF KnowsFile, KnowsLedger, IInv, Shapes
  <2> HIDE DEF j
  <2> QED
    BY <1>1, <1>3, <2>1, <2>2, Local, ContinueIInv DEF Pc
<1> QED
  BY <1>2, <1>3 DEF Read

LEMMA FingerprintIInv ==
  ASSUME IInv, NEW i \in Ingester, Fingerprint(i)
  PROVE  IInv'
<1> DEFINE j == [job[i] EXCEPT !.attempt = 0, !.hash = Prefix(Len(job[i].lines))]
           again == [NoJob EXCEPT !.attempt = job[i].attempt + 1]
<1>1. UNCHANGED <<file, ledger, evidence, cursor, ver, overtaken>> /\ pc[i] = "parsed"
  BY DEF Fingerprint, Outside
<1>2. CASE Rest(i)
  BY <1>1, <1>2, RestIInv
<1>3. CASE Continue(i, "again", again)
  <2>1. DOMAIN again = Fields /\ again.art = None
    BY NoJobKnows DEF Fields
  <2> HIDE DEF again
  <2> QED
    BY <1>1, <1>3, <2>1, NoJobKnows, ContinueIInv DEF Pc
<1>4. CASE file.rev = job[i].rev /\ Continue(i, "stable", j)
  <2>1. /\ DOMAIN j = Fields /\ j.rev = job[i].rev /\ j.art = job[i].art
        /\ j.lines = job[i].lines /\ j.hash = Prefix(Len(job[i].lines))
    BY Local DEF Fields
  <2>2. job[i].lines = file.lines /\ file.lines \in Seq(Line)
    BY <1>1, <1>4, Local DEF KnowsFile, IInv, Shapes
  <2>3. Prefix(Len(job[i].lines)) = file.lines
    BY <2>2 DEF Prefix
  <2>4. KnowsFile("stable", j) /\ KnowsLedger("stable", j)
    BY <1>1, <2>1, <2>2, <2>3, Local DEF KnowsFile, KnowsLedger
  <2> HIDE DEF j
  <2> QED
    BY <1>1, <1>4, <2>1, <2>4, Local, ContinueIInv DEF Pc
<1> QED
  BY <1>2, <1>3, <1>4 DEF Fingerprint

LEMMA LookIInv ==
  ASSUME IInv, NEW i \in Ingester, Look(i)
  PROVE  IInv'
<1> DEFINE j == [job[i] EXCEPT !.existed = Exists,
                               !.storage = IF Exists THEN ses.storage ELSE Source]
<1>1. /\ UNCHANGED <<file, ledger, evidence, cursor, ver, overtaken>> /\ pc[i] = "stable"
      /\ Continue(i, "looked", j)
  BY DEF Look, Outside
<1>2. /\ DOMAIN j = Fields /\ j.rev = job[i].rev /\ j.art = job[i].art
      /\ j.lines = job[i].lines /\ j.hash = job[i].hash /\ j.existed = Exists
      /\ j.storage = IF Exists THEN ses.storage ELSE Source
  BY Local DEF Fields
<1> HIDE DEF j
<1>3. /\ j.storage \in Storage /\ (j.storage = Old => j.existed) /\ (j.existed => Exists)
      /\ j.existed /\ j.storage = Source => ses.storage = Source
  <2>1. CASE Exists
    BY <1>2, <2>1 DEF IInv, Shapes, Storage, Exists
  <2>2. CASE ~Exists
    BY <1>2, <2>2 DEF Storage, Source, Old, Exists
  <2> QED
    BY <2>1, <2>2
<1>4. KnowsFile("looked", j) /\ KnowsLedger("looked", j)
  BY <1>1, <1>2, <1>3, Local DEF KnowsFile, KnowsLedger
<1> QED
  BY <1>1, <1>2, <1>4, Local, ContinueIInv DEF Pc

\* The preparation is where what the file says meets what is stored.
LEMMA PrepareIInv ==
  ASSUME IInv, NEW i \in Ingester, Prepare(i)
  PROVE  IInv'
<1> DEFINE j      == job[i]
           full   == Parse(ver, file.lines)
           backed == j.storage = Source /\ (cursor \/ ~j.existed \/ j.art # None)
           legacy == j.art # None /\ ses.storage = Old
           status == IF legacy THEN Continuation(ses.msgs, full) ELSE "none"
           unsafe == Blocked(file.lines) \/ Unreadable(file.lines) \/ file.rev # j.rev
           own    == Upgrading(i) /\ backed /\ j.existed
           exact  == own /\ ses.msgs = full /\ ses.windows = full
           ready  == [j EXCEPT !.full = IF backed \/ legacy THEN full ELSE None,
                               !.promote = (status = "extension"),
                               !.exact = exact]
           frozen == [j EXCEPT !.why = status, !.storage = Old]
           upgrade == [j EXCEPT !.why = "upgrade"]
<1>1. UNCHANGED <<file, ledger, evidence, cursor, ver, overtaken>> /\ pc[i] = "looked"
  BY DEF Prepare, Outside
<1>2. /\ pc[i] \in Pc /\ DOMAIN j = Fields /\ j.art \in Artifact \cup {None}
      /\ KnowsFile("looked", j) /\ KnowsLedger("looked", j)
  BY <1>1, Local
<1>3. CASE Rest(i)
  BY <1>1, <1>3, RestIInv
<1>4. CASE status \in {"diverged", "shrunk"} /\ Continue(i, "freezing", frozen)
  <2>1. /\ DOMAIN frozen = Fields /\ frozen.rev = j.rev /\ frozen.art = j.art
        /\ frozen.lines = j.lines /\ frozen.hash = j.hash
        /\ frozen.why = status /\ frozen.storage = Old
    BY <1>2 DEF Fields
  <2>2. legacy
    BY <1>4
  <2>3. KnowsFile("freezing", frozen) /\ KnowsLedger("freezing", frozen)
    BY <1>2, <1>4, <2>1, <2>2, NoneAssumption DEF KnowsFile, KnowsLedger, Storage, Exists
  <2> HIDE DEF frozen
  <2> QED
    BY <1>1, <1>2, <1>4, <2>1, <2>3, ContinueIInv DEF Pc
<1>5. CASE own /\ Continue(i, "freezing", upgrade)
  <2>1. /\ DOMAIN upgrade = Fields /\ upgrade.rev = j.rev /\ upgrade.art = j.art
        /\ upgrade.lines = j.lines /\ upgrade.hash = j.hash
        /\ upgrade.why = "upgrade" /\ upgrade.storage = j.storage
        /\ upgrade.existed = j.existed
    BY <1>2 DEF Fields
  <2>2. KnowsFile("freezing", upgrade) /\ KnowsLedger("freezing", upgrade)
    BY <1>2, <1>5, <2>1 DEF KnowsFile, KnowsLedger
  <2> HIDE DEF upgrade
  <2> QED
    BY <1>1, <1>2, <1>5, <2>1, <2>2, ContinueIInv DEF Pc
<1>6. CASE /\ (backed \/ legacy) => ~unsafe
           /\ status \notin {"diverged", "shrunk"}
           /\ Continue(i, "prepared", ready)
  <2>1. /\ DOMAIN ready = Fields /\ ready.rev = j.rev /\ ready.art = j.art
        /\ ready.lines = j.lines /\ ready.hash = j.hash
        /\ ready.storage = j.storage /\ ready.existed = j.existed
        /\ ready.act = j.act
        /\ ready.full = IF backed \/ legacy THEN full ELSE None
        /\ ready.promote = (status = "extension")
        /\ ready.exact = exact
    BY <1>2 DEF Fields
  <2>2. backed \/ legacy => file.lines = j.lines
    BY <1>2, <1>6 DEF KnowsFile
  <2>3. status = "extension" => legacy
    OBVIOUS
  <2>4. legacy /\ status # "extension" => ses.msgs = full
    BY <1>6 DEF Continuation
  <2>5. exact => j.act = "reparse" /\ j.art # None /\ j.art.ver # ver
    BY DEF Upgrading
  <2>6. KnowsFile("prepared", ready)
    BY <1>2, <2>1 DEF KnowsFile
  <2>7. KnowsLedger("prepared", ready)
    <3> HIDE DEF ready, full, status
    <3>1. ready.full # None => ready.full = Parse(ver, ready.lines)
      BY <2>1, <2>2 DEF full
    <3>2. ready.promote \/ (ready.art # None /\ ready.storage = Source)
            => ready.full = Parse(ver, ready.lines)
      BY <2>1, <2>2, <2>3 DEF full
    <3>3. ready.storage = Old /\ ~ready.promote /\ ses.storage = Old
            => ses.msgs = Parse(ver, ready.lines)
      BY <1>2, <2>1, <2>2, <2>4 DEF full, KnowsLedger
    <3>4. ready.exact => /\ ready.act = "reparse" /\ ready.art # None
                         /\ ready.art.ver # ver /\ Exists
                         /\ (art = ready.art => ses.msgs = Parse(ver, ready.lines))
      BY <1>2, <2>1, <2>2, <2>5 DEF full, KnowsLedger
    <3> QED
      BY <1>2, <2>1, <3>1, <3>2, <3>3, <3>4 DEF KnowsLedger
  <2> HIDE DEF ready
  <2> QED
    BY <1>1, <1>2, <1>6, <2>1, <2>6, <2>7, ContinueIInv DEF Pc
<1> HIDE DEF j, full, frozen, upgrade, ready
<1> QED
  BY <1>3, <1>4, <1>5, <1>6 DEF Prepare, j, full, frozen, upgrade, ready

LEMMA LastLookIInv ==
  ASSUME IInv, NEW i \in Ingester, LastLook(i)
  PROVE  IInv'
<1>1. UNCHANGED <<file, ledger, evidence, cursor, ver, overtaken>> /\ pc[i] = "prepared"
  BY DEF LastLook, Outside
<1>2. CASE Rest(i)
  BY <1>1, <1>2, RestIInv
<1>3. CASE Continue(i, "checked", job[i])
  <2>1. KnowsFile("checked", job[i]) /\ KnowsLedger("checked", job[i])
    BY <1>1, Local DEF KnowsFile, KnowsLedger
  <2> QED
    BY <1>1, <1>3, <2>1, Local, ContinueIInv DEF Pc
<1> QED
  BY <1>2, <1>3 DEF LastLook

\* A refused save is rolled back; what freezes afterwards is an existing session.
LEMMA SaveRefusedIInv ==
  ASSUME IInv, NEW i \in Ingester, SaveRefused(i)
  PROVE  IInv'
<1> DEFINE j == [job[i] EXCEPT !.why = "diverged"]
<1>1. UNCHANGED <<file, ledger, evidence, cursor, ver, overtaken>> /\ pc[i] = "checked"
  BY DEF SaveRefused, Outside
<1>2. CASE Rest(i)
  BY <1>1, <1>2, RestIInv
<1>3. CASE ~SamePrefix(i) /\ Continue(i, "freezing", j)
  <2>1. /\ DOMAIN j = Fields /\ j.rev = job[i].rev /\ j.art = job[i].art
        /\ j.lines = job[i].lines /\ j.hash = job[i].hash /\ j.why = "diverged"
        /\ j.storage = job[i].storage
    BY Local DEF Fields
  <2>2. Exists
    BY <1>3, NoneAssumption DEF SamePrefix, Exists, Storage
  <2>3. KnowsFile("freezing", j) /\ KnowsLedger("freezing", j)
    BY <1>1, <2>1, <2>2, Local DEF KnowsFile, KnowsLedger
  <2> HIDE DEF j
  <2> QED
    BY <1>1, <1>3, <2>1, <2>3, Local, ContinueIInv DEF Pc
<1> QED
  BY <1>2, <1>3 DEF SaveRefused

LEMMA FreezeRaisesIInv ==
  ASSUME IInv, NEW i \in Ingester, FreezeRaises(i)
  PROVE  IInv'
<1>1. UNCHANGED <<file, ledger, evidence, cursor, ver, overtaken>> /\ Continue(i, "aborted", NoJob)
  BY DEF FreezeRaises, Outside
<1> QED
  BY <1>1, NoJobKnows, ContinueIInv DEF Pc

\* A checkpoint is a row of artifacts.
LEMMA CheckpointType ==
  ASSUME IInv, NEW i \in Ingester, pc[i] \in HasHash
  PROVE  Checkpoint(i) \in Artifact
<1>1. /\ job[i].rev \in Nat /\ job[i].hash \in Seq(Line) /\ ver \in Version
      /\ job[i].art # None => job[i].art.storage \in Storage
  BY Local DEF KnowsFile, IInv, Shapes, Artifact
<1> QED
  BY <1>1 DEF Checkpoint, Artifact, Storage

\* What all the ways of saving have in common: the transaction stores what the
\* job read as the content of the new checkpoint, or has been overtaken.
LEMMA CommitIInv ==
  ASSUME IInv, NEW i \in Ingester, pc[i] = "checked", NEW s, Commit(i, s),
         DOMAIN s = DOMAIN NoSession, s.storage \in Storage,
         overtaken' \/ s.msgs = Parse(ver, job[i].lines), s.windows = s.msgs,
         s.storage = Old => ses.storage = Old /\ ses.msgs = s.msgs,
         ses.storage = Source => s.storage = Source /\ s.status = ses.status
  PROVE  IInv'
<1>1. /\ UNCHANGED <<file, cursor, ver>>
      /\ art' = Checkpoint(i) /\ ses' = Cleared(i, s)
      /\ pc' = [pc EXCEPT ![i] = "idle"] /\ job' = [job EXCEPT ![i] = NoJob]
  BY DEF Commit, Rest
<1>2. /\ DOMAIN ses' = DOMAIN NoSession /\ ses'.storage = s.storage
      /\ ses'.msgs = s.msgs /\ ses'.windows = s.msgs
      /\ ~Upgrading(i) => ses'.status = s.status
  BY <1>1 DEF Cleared, NoSession
<1>3. /\ art' \in Artifact /\ art' # None
      /\ art'.ver = ver /\ art'.hash = job[i].lines /\ art'.rev = job[i].rev
  BY <1>1, Local, CheckpointType, NoneAssumption DEF Checkpoint, KnowsFile
<1>4. /\ pc \in [Ingester -> Pc] /\ DOMAIN job = Ingester
  BY DEF IInv, Shapes, Pc
<1>5. /\ pc'[i] = "idle" /\ job'[i] = NoJob
      /\ \A k \in Ingester \ {i} : pc'[k] = pc[k] /\ job'[k] = job[k]
      /\ pc' \in [Ingester -> Pc] /\ DOMAIN job' = Ingester
  BY <1>1, <1>4 DEF Pc
<1>6. Exists'
  BY <1>2, NoneAssumption DEF Exists
<1>7. Shapes'
  BY <1>1, <1>2, <1>3, <1>5, NoJobKnows, JobFields DEF IInv, Shapes, Pc, Version
<1>8. OneVersion'
  BY <1>1, <1>3, <1>5 DEF IInv, OneVersion
<1>9. ASSUME NEW k \in Ingester
      PROVE  KnowsFile(pc[k], job[k])' /\ KnowsLedger(pc[k], job[k])'
  <2>1. CASE k = i
    BY <1>5, <2>1 DEF KnowsFile, KnowsLedger
  <2>2. CASE k # i
    <3>1. KnowsFile(pc[k], job[k])'
      BY <1>1, <1>5, <2>2, Local DEF KnowsFile
    <3>2. pc[k] \in Ready /\ job[k].exact => art' # job[k].art
      BY <1>3, Local DEF KnowsLedger
    <3>3. KnowsLedger(pc[k], job[k])'
      BY <1>1, <1>2, <1>5, <1>6, <2>2, <3>2, Local DEF KnowsLedger, Parse
    <3> QED
      BY <3>1, <3>3
  <2> QED
    BY <2>1, <2>2
<1>10. NothingSkipped' /\ WindowsFollow'
  BY <1>1, <1>2, <1>3, <1>6 DEF NothingSkipped, WindowsFollow, Parse
<1>11. CheckpointCovers'
  BY <1>1, <1>3, Local DEF CheckpointCovers, KnowsFile
<1>12. FreezeStands'
  <2>1. CASE Upgrading(i)
    BY <2>1 DEF Commit, FreezeStands
  <2>2. CASE ~Upgrading(i)
    BY <1>2, <2>2 DEF Commit, FreezeStands, IsFrozen, IInv
  <2> QED
    BY <2>1, <2>2
<1> QED
  BY <1>3, <1>6, <1>7, <1>8, <1>9, <1>10, <1>11, <1>12 DEF IInv

\* The four ways of saving.
LEMMA SaveIInv ==
  ASSUME IInv, NEW i \in Ingester,
         SaveExact(i) \/ Promote(i) \/ RewriteForUpgrade(i) \/ Save(i)
  PROVE  IInv'
<1> DEFINE parsed == Parse(ver, job[i].lines)
<1>1. pc[i] = "checked" /\ KnowsFile("checked", job[i]) /\ KnowsLedger("checked", job[i])
  BY Local DEF SaveExact, Promote, RewriteForUpgrade, Save
<1>2. /\ DOMAIN ses = DOMAIN NoSession /\ ses.windows = ses.msgs
      /\ ses.storage \in Storage \cup {None}
  BY DEF IInv, Shapes, WindowsFollow
<1>3. DOMAIN NoSession = {"storage", "msgs", "windows", "status"}
  BY DEF NoSession
<1>4. CASE SaveExact(i)
  <2>1. job[i].exact /\ Commit(i, ses)
    BY <1>4 DEF SaveExact, Way
  <2>2. Exists /\ (art = job[i].art => ses.msgs = parsed)
    BY <1>1, <2>1 DEF KnowsLedger
  <2>3. overtaken' \/ ses.msgs = parsed
    BY <1>4, <2>2 DEF SaveExact, Commit
  <2> QED
    BY <1>1, <1>2, <2>1, <2>2, <2>3, CommitIInv DEF Exists
<1>5. CASE Promote(i)
  <2> DEFINE s == [storage |-> Source, msgs |-> job[i].full,
                   windows |-> job[i].full, status |-> "current"]
  <2>1. job[i].promote /\ Commit(i, s)
    BY <1>5 DEF Promote, Way
  <2>2. job[i].full = parsed
    BY <1>1, <2>1 DEF KnowsLedger
  <2>3. /\ DOMAIN s = DOMAIN NoSession /\ s.storage \in Storage /\ s.storage # Old
        /\ s.msgs = parsed /\ s.windows = s.msgs
        /\ ses.storage # Source
    BY <1>3, <1>5, <2>2 DEF Promote, CanPromote, Storage, Source, Old
  <2> HIDE DEF s
  <2> QED
    BY <1>1, <2>1, <2>3, CommitIInv
<1>6. CASE RewriteForUpgrade(i)
  <2> DEFINE s == [ses EXCEPT !.msgs = job[i].full, !.windows = job[i].full]
  <2>1. /\ Way(i) = "rewrite" /\ ses.storage = Source /\ Commit(i, s)
    BY <1>6 DEF RewriteForUpgrade, CanRewrite
  <2>2. job[i].art # None /\ job[i].storage = Source
    BY <2>1 DEF Way, Upgrading
  <2>3. job[i].full = parsed
    BY <1>1, <2>2 DEF KnowsLedger
  <2>4. /\ DOMAIN s = DOMAIN NoSession /\ s.storage \in Storage /\ s.storage # Old
        /\ s.msgs = parsed /\ s.windows = s.msgs
        /\ s.storage = Source /\ s.status = ses.status
    BY <1>2, <1>3, <2>1, <2>3 DEF Storage, Source, Old
  <2> HIDE DEF s
  <2> QED
    BY <1>1, <2>1, <2>4, CommitIInv
<1>7. CASE Save(i) /\ job[i].storage = Old /\ Commit(i, ses)
  <2>1. ses.storage = Old
    BY <1>1, <1>7 DEF Save, SamePrefix, KnowsLedger
  <2>2. Way(i) = "save"
    BY <1>7 DEF Save
  <2>3. ~job[i].promote
    BY <1>1, <1>7, <2>1, <2>2 DEF Way, KnowsLedger
  <2>4. ses.msgs = parsed
    BY <1>1, <1>7, <2>1, <2>3 DEF KnowsLedger
  <2> QED
    BY <1>1, <1>2, <1>7, <2>1, <2>4, CommitIInv DEF Storage
<1>8. CASE Save(i) /\ job[i].storage = Source
  <2> DEFINE s == [storage |-> Source, msgs |-> parsed, windows |-> job[i].full,
                   status |-> ses.status]
  <2>1. job[i].full # None /\ Commit(i, s)
    BY <1>8 DEF Save, Source, Old
  <2>2. job[i].full = parsed
    BY <1>1, <2>1 DEF KnowsLedger
  <2>3. /\ DOMAIN s = DOMAIN NoSession /\ s.storage \in Storage /\ s.storage # Old
        /\ s.msgs = parsed /\ s.windows = s.msgs
        /\ s.storage = Source /\ s.status = ses.status
    BY <1>3, <2>2 DEF Storage, Source, Old
  <2> HIDE DEF s
  <2> QED
    BY <1>1, <2>1, <2>3, CommitIInv
<1> QED
  BY <1>4, <1>5, <1>6, <1>7, <1>8 DEF Save

\* Freezing keeps the text, and says of the session that it is frozen.
LEMMA PersistFreezeIInv ==
  ASSUME IInv, NEW i \in Ingester, PersistFreeze(i)
  PROVE  IInv'
<1> DEFINE row == [Checkpoint(i) EXCEPT !.storage = job[i].storage]
<1>1. /\ pc[i] = "freezing" /\ UNCHANGED <<file, cursor, ver, overtaken>>
      /\ pc' = [pc EXCEPT ![i] = "idle"] /\ job' = [job EXCEPT ![i] = NoJob]
      /\ ses' = [ses EXCEPT !.status = Frozen(job[i].why)]
      /\ art' = art \/ art' = row
  BY DEF PersistFreeze, Rest
<1>2. KnowsLedger("freezing", job[i]) /\ Exists
  BY <1>1, Local DEF KnowsLedger
<1>3. /\ DOMAIN ses' = DOMAIN NoSession /\ ses'.storage = ses.storage
      /\ ses'.msgs = ses.msgs /\ ses'.windows = ses.windows
      /\ ses'.status = Frozen(job[i].why)
  BY <1>1 DEF IInv, Shapes, NoSession
<1>4. Frozen(job[i].why) # "current"
  BY <1>2 DEF Frozen, KnowsLedger
<1>5. /\ row \in Artifact /\ row # None /\ row.ver = ver
      /\ row.rev = job[i].rev /\ row.hash = job[i].hash
  <2>1. /\ Checkpoint(i) \in Artifact /\ Checkpoint(i).ver = ver
        /\ Checkpoint(i).rev = job[i].rev /\ Checkpoint(i).hash = job[i].hash
    BY <1>1, CheckpointType DEF Checkpoint
  <2>2. job[i].storage \in Storage
    BY <1>2 DEF KnowsLedger
  <2> HIDE DEF Checkpoint
  <2> QED
    BY <2>1, <2>2, NoneAssumption DEF Artifact
<1>6. /\ art' \in Artifact \cup {None} /\ (art # None => art' # None)
      /\ ver = 1 /\ art' # None => art'.ver = 1
  BY <1>1, <1>5 DEF IInv, Shapes, OneVersion
<1> HIDE DEF row
<1>7. /\ pc \in [Ingester -> Pc] /\ DOMAIN job = Ingester
  BY DEF IInv, Shapes, Pc
<1>8. /\ pc'[i] = "idle" /\ job'[i] = NoJob
      /\ \A k \in Ingester \ {i} : pc'[k] = pc[k] /\ job'[k] = job[k]
      /\ pc' \in [Ingester -> Pc] /\ DOMAIN job' = Ingester
  BY <1>1, <1>7 DEF Pc
<1>9. Exists'
  BY <1>2, <1>3 DEF Exists
<1>10. Shapes'
  BY <1>1, <1>3, <1>6, <1>8, NoJobKnows, JobFields DEF IInv, Shapes, Pc, Version
<1>11. OneVersion'
  BY <1>1, <1>6, <1>8 DEF IInv, OneVersion
<1>12. ASSUME NEW k \in Ingester
       PROVE  KnowsFile(pc[k], job[k])' /\ KnowsLedger(pc[k], job[k])'
  <2>1. CASE k = i
    BY <1>8, <2>1 DEF KnowsFile, KnowsLedger
  <2>2. CASE k # i
    <3>1. pc[k] \in Ready /\ job[k].exact /\ art' = job[k].art => art' = art
      BY <1>1, <1>5, Local DEF KnowsLedger
    <3> QED
      BY <1>1, <1>2, <1>3, <1>8, <1>9, <2>2, <3>1, Local DEF KnowsFile, KnowsLedger, Parse
  <2> QED
    BY <2>1, <2>2
<1>13. NothingSkipped' /\ WindowsFollow'
  BY <1>3, <1>4, <1>9 DEF NothingSkipped, WindowsFollow, IsFrozen, IInv
<1>15. CheckpointCovers'
  BY <1>1, <1>5, Local DEF CheckpointCovers, KnowsFile, IInv
<1>16. FreezeStands'
  <2>1. CASE job[i].why = "upgrade"
    BY <1>2, <1>3, <1>4, <2>1 DEF FreezeStands, IsFrozen, KnowsLedger
  <2>2. CASE job[i].why # "upgrade"
    BY <1>3, <1>4, <2>2 DEF PersistFreeze, FreezeStands, IsFrozen, IInv
  <2> QED
    BY <2>1, <2>2
<1>14. ses'.storage = Old => art' # None
  BY <1>3, <1>6 DEF IInv
<1> QED
  BY <1>9, <1>10, <1>11, <1>12, <1>13, <1>14, <1>15, <1>16 DEF IInv

\* The world around the ingesters.  A write moves the revision beyond that of
\* every job, a citation is not part of the ledger's transcript, and a release
\* waits for the ingesters.
LEMMA WriteIInv ==
  ASSUME IInv, NEW lines \in Seq(Line), NEW torn, Write(lines, torn)
  PROVE  IInv'
<1>1. /\ file'.lines = lines /\ file'.rev = file.rev + 1
      /\ UNCHANGED <<art, ses, freeze, cursor, ver, pc, job, overtaken>>
  BY DEF Write, ledger
<1>2. Shapes'
  BY <1>1 DEF IInv, Shapes
<1>3. ASSUME NEW i \in Ingester
      PROVE  KnowsFile(pc[i], job[i])' /\ KnowsLedger(pc[i], job[i])'
  <2>1. file.rev \in Nat
    BY DEF IInv, Shapes
  <2> QED
    BY <1>1, <2>1, Local DEF KnowsFile, KnowsLedger, Parse, Exists
<1> QED
  BY <1>1, <1>2, <1>3
     DEF IInv, Shapes, OneVersion, NothingSkipped, WindowsFollow, CheckpointCovers,
         FreezeStands, Artifact, Exists, Parse, IsFrozen

LEMMA WorldIInv ==
  ASSUME IInv,
         \/ AppendLine \/ AppendPart \/ Rewrite \/ Release
         \/ \E k \in Kind : Cite(k) \/ Retract(k)
  PROVE  IInv'
<1>0. file.lines \in Seq(Line) /\ Msg \subseteq Line
  BY DEF IInv, Shapes, Line
<1>1. CASE AppendLine
  <2>1. PICK l \in Line : Write(Append(file.lines, l), FALSE)
    BY <1>1 DEF AppendLine
  <2>2. Append(file.lines, l) \in Seq(Line)
    BY <1>0
  <2> QED
    BY <2>1, <2>2, WriteIInv
<1>2. CASE AppendPart
  BY <1>0, <1>2, WriteIInv DEF AppendPart
<1>3. CASE \E n \in 0 .. Len(file.lines) - 1 : Write(SubSeq(file.lines, 1, n), FALSE)
  <2>1. PICK n \in 0 .. Len(file.lines) - 1 : Write(SubSeq(file.lines, 1, n), FALSE)
    BY <1>3
  <2>2. SubSeq(file.lines, 1, n) \in Seq(Line)
    BY <1>0
  <2> QED
    BY <2>1, <2>2, WriteIInv
<1>4. CASE \E k \in DOMAIN file.lines : \E l \in Msg \ {file.lines[k]} :
             Write([file.lines EXCEPT ![k] = l], FALSE)
  <2>1. PICK k \in DOMAIN file.lines, l \in Msg : Write([file.lines EXCEPT ![k] = l], FALSE)
    BY <1>4
  <2>2. [file.lines EXCEPT ![k] = l] \in Seq(Line)
    BY <1>0
  <2> QED
    BY <2>1, <2>2, WriteIInv
<1>5. CASE \E k \in Kind : Cite(k) \/ Retract(k)
  <2>1. UNCHANGED <<file, art, ses, freeze, cursor, ver, pc, job, overtaken>>
    BY <1>5 DEF Cite, Retract, ledger
  <2> QED
    BY <2>1 DEF IInv, Shapes, OneVersion, KnowsFile, KnowsLedger, NothingSkipped,
                WindowsFollow, CheckpointCovers, FreezeStands, Exists, Parse, IsFrozen
<1>6. CASE Release
  <2>1. /\ UNCHANGED <<file, art, ses, freeze, cursor, pc, job, overtaken>>
        /\ ver' = 2 /\ \A i \in Ingester : pc[i] \in Resting
    BY <1>6 DEF Release, ledger
  <2>2. \A i \in Ingester : KnowsFile(pc[i], job[i])' /\ KnowsLedger(pc[i], job[i])'
    BY <2>1 DEF KnowsFile, KnowsLedger
  <2>3. Shapes' /\ OneVersion'
    BY <2>1 DEF IInv, Shapes, OneVersion, Version
  <2> QED
    BY <2>1, <2>2, <2>3 DEF IInv, NothingSkipped, WindowsFollow, CheckpointCovers,
                            FreezeStands, Exists, Parse, IsFrozen
<1> QED
  BY <1>1, <1>2, <1>3, <1>4, <1>5, <1>6 DEF Rewrite

\* Every step keeps the invariant.
LEMMA NextIInv == IInv /\ [Next]_vars => IInv'
<1> SUFFICES ASSUME IInv, [Next]_vars PROVE IInv'
  OBVIOUS
<1>1. CASE UNCHANGED vars
  <2>1. UNCHANGED <<file, art, ses, freeze, cursor, ver, pc, job, overtaken>>
    BY <1>1 DEF vars, ledger
  <2> QED
    BY <2>1 DEF IInv, Shapes, OneVersion, KnowsFile, KnowsLedger, NothingSkipped,
                WindowsFollow, CheckpointCovers, FreezeStands, Exists, Parse, IsFrozen
<1>2. ASSUME NEW i \in Ingester, Step(i) PROVE IInv'
  <2>1. CASE Skip(i)
    BY <2>1, RestIInv DEF Skip, Outside
  <2> QED
    BY <1>2, <2>1, DecideIInv, ReadIInv, FingerprintIInv, LookIInv, PrepareIInv, LastLookIInv,
       SaveIInv, SaveRefusedIInv, PersistFreezeIInv, FreezeRaisesIInv DEF Step
<1>3. ASSUME NEW i \in Ingester, Fail(i) PROVE IInv'
  BY <1>3, RestIInv DEF Fail
<1> QED
  BY <1>1, <1>2, <1>3, WorldIInv DEF Next

\* The invariant, for any ingesters, records and bounds.
THEOREM Invariance == Spec => []IInv
<1> QED
  BY InitIInv, NextIInv, PTL DEF Spec

\* What is stored is what the checkpoint covers, or the session says that it is
\* frozen: whatever the ingesters and the file do in between, no message before
\* the recorded offset is skipped and none is stored twice.  The exception is the
\* race of two upgrades, of which the second only moves the checkpoint (SaveExact).
THEOREM NothingIsSkipped == Spec => []NothingSkipped
<1>1. IInv => NothingSkipped
  BY DEF IInv
<1> QED
  BY <1>1, Invariance, PTL

\* The windows of a session are those of its messages, although they are built
\* from another reading of the file.
THEOREM WindowsAlwaysFollow == Spec => []WindowsFollow
<1>1. IInv => WindowsFollow
  BY DEF IInv
<1> QED
  BY <1>1, Invariance, PTL

\* An ingest that skips the file as unchanged has all of it in the ledger, or the
\* session says that it is frozen: neither a write between two looks at the file
\* nor another ingester leaves a checkpoint that hides what was not read, except by
\* the race of two upgrades.
THEOREM SkippingIsHonest == Spec => []SkipIsHonest
<1>1. IInv => SkipIsHonest
  <2> SUFFICES ASSUME IInv, Skips, ~IsFrozen, ~overtaken
               PROVE  ses.msgs = Parse(ver, file.lines)
    BY DEF SkipIsHonest
  <2>1. ~FrozenHere
    BY DEF FrozenHere, IInv, FreezeStands
  <2>2. art # None /\ art.ver = ver /\ art.rev = file.rev
    <3>1. None # "append" /\ None # "reparse"
      BY NoneAssumption
    <3>2. Decision(art, ver) = None
      BY <2>1 DEF Skips
    <3> QED
      BY <3>1, <3>2 DEF Decision
  <2> QED
    BY <2>2 DEF IInv, NothingSkipped, CheckpointCovers
<1> QED
  BY <1>1, Invariance, PTL

\* Only four actions change what is stored: the three below and SaveExact, which
\* does not touch the messages.
LEMMA CommitMessages ==
  ASSUME IInv, NEW i \in Ingester, NEW s, Commit(i, s), DOMAIN s = DOMAIN NoSession
  PROVE  ses'.msgs = s.msgs /\ UNCHANGED evidence
  BY DEF Commit, Cleared, NoSession

LEMMA SourceSaveExtends ==
  ASSUME IInv, NEW i \in Ingester, Save(i)
  PROVE  Ledger!Next \/ UNCHANGED Ledger!vars
<1> DEFINE parsed == Parse(ver, job[i].lines)
           s == [storage |-> Source, msgs |-> parsed, windows |-> job[i].full,
                 status |-> ses.status]
<1>1. CASE Commit(i, ses)
  <2>1. ses'.msgs = ses.msgs
    BY <1>1, CommitMessages DEF IInv, Shapes
  <2> QED
    BY <2>1 DEF Ledger!Next, Ledger!Cite
<1>2. CASE job[i].storage = Source /\ Commit(i, s)
  <2>1. DOMAIN s = DOMAIN NoSession /\ s.msgs = parsed
    BY DEF NoSession
  <2>2. ses'.msgs = parsed /\ UNCHANGED evidence
    BY <1>2, <2>1, CommitMessages
  <2>3. CASE Exists
    <3>1. IsPrefix(ses.msgs, parsed)
      BY <1>2, <2>3 DEF Save, SamePrefix
    <3> QED
      BY <2>2, <3>1 DEF Ledger!Next, Ledger!Extend, Ledger!IsPrefix, IsPrefix
  <2>4. CASE ~Exists
    BY <2>2, <2>4 DEF IInv, Ledger!Next, Ledger!Open
  <2> QED
    BY <2>3, <2>4
<1> QED
  BY <1>1, <1>2 DEF Save

LEMMA StepKeepsItsWord ==
  ASSUME IInv, [Next]_vars
  PROVE  Ledger!Next \/ UNCHANGED Ledger!vars
<1> SUFFICES ASSUME ses'.msgs # ses.msgs
             PROVE  Ledger!Next \/ UNCHANGED Ledger!vars
  BY DEF Ledger!Next, Ledger!Cite
<1>1. PICK i \in Ingester : \/ SaveExact(i) \/ Promote(i) \/ RewriteForUpgrade(i)
                           \/ Save(i) \/ PersistFreeze(i)
  BY DEF Next, vars, AppendLine, AppendPart, Rewrite, Write, Release, Cite, Retract,
         Step, Decide, Skip, Read, Fingerprint, Look, Prepare, LastLook, SaveRefused,
         FreezeRaises, Fail, Outside, ledger
<1>2. /\ DOMAIN ses = DOMAIN NoSession
      /\ DOMAIN NoSession = {"storage", "msgs", "windows", "status"}
  BY DEF IInv, Shapes, NoSession
<1>3. ~SaveExact(i)
  BY <1>2, CommitMessages DEF SaveExact
<1>4. ~PersistFreeze(i)
  BY <1>2 DEF PersistFreeze
<1>5. CASE Promote(i)
  <2> DEFINE s == [storage |-> Source, msgs |-> job[i].full,
                   windows |-> job[i].full, status |-> "current"]
  <2>1. DOMAIN s = DOMAIN NoSession /\ s.msgs = job[i].full /\ Commit(i, s)
    BY <1>2, <1>5 DEF Promote
  <2>2. ses'.msgs = job[i].full /\ UNCHANGED evidence
    BY <2>1, CommitMessages
  <2>3. IsPrefix(ses.msgs, job[i].full)
    BY <1>5 DEF Promote, CanPromote, Continuation, IsStrictPrefix
  <2> QED
    BY <2>2, <2>3 DEF Ledger!Next, Ledger!Extend, Ledger!IsPrefix, IsPrefix
<1>6. CASE RewriteForUpgrade(i)
  <2> DEFINE s == [ses EXCEPT !.msgs = job[i].full, !.windows = job[i].full]
  <2>1. DOMAIN s = DOMAIN NoSession /\ s.msgs = job[i].full /\ Commit(i, s)
    BY <1>2, <1>6 DEF RewriteForUpgrade
  <2>2. UNCHANGED evidence
    BY <2>1, CommitMessages
  <2>3. evidence = {} /\ pc[i] = "checked" /\ Upgrading(i)
    BY <1>6 DEF RewriteForUpgrade, CanRewrite, Way
  <2> QED
    BY <2>2, <2>3 DEF Ledger!Next, Ledger!Reread
<1> QED
  BY <1>1, <1>3, <1>4, <1>5, <1>6, SourceSaveExtends

\* The ingest implements the ledger's promise: what was stored of a session is
\* only extended, and replaced only by a parser upgrade while nothing cites it.
THEOREM Refinement == Spec => KeepsItsWord
<1>1. Init => Ledger!Init
  BY DEF Init, Ledger!Init
<1>2. IInv /\ [Next]_vars => [Ledger!Next]_(Ledger!vars)
  BY StepKeepsItsWord
<1> QED
  BY <1>1, <1>2, Invariance, PTL DEF Spec, KeepsItsWord, Ledger!Spec
=============================================================================
