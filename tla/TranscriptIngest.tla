-------------------------- MODULE TranscriptIngest ---------------------------
(***************************************************************************)
(* How one transcript file gets into the ledger (ingest/pipeline.py,       *)
(* ingest/checkpoint.py, db/repository.py).  The harness appends to the    *)
(* file, or rewrites it, while ingesters read it: the daemon's worker and  *)
(* `agentlog ingest` in another process.  An ingester reads the file and   *)
(* the ledger in several steps outside any transaction and then saves in   *)
(* one write transaction, under SQLite's write lock: an action is what it  *)
(* does between two points where the file or the ledger may change.        *)
(*                                                                         *)
(* One byte-append artifact (a .jsonl file) holding one session.  A line   *)
(* stands for a record of the file, a message for the (seq, role,          *)
(* content_hash) row it becomes; a hash of a prefix is the prefix.  Every  *)
(* write of the file moves its (size, mtime_ns), called its revision here. *)
(***************************************************************************)
EXTENDS Naturals, FiniteSets, SequencesExt

CONSTANTS
  Ingester,   \* processes that ingest: the daemon, the command line
  Msg,        \* records that are messages of the session
  Late,       \* those of Msg that only the newer parser recognises
  Fork,       \* a record that opens an inherited history of unknown length
  Boundary,   \* the record that ends it: what came before is not the session's
  Adapter,    \* SUBSET BOOLEAN: TRUE is Cursor's adapter, FALSE Codex's
  Legacy,     \* may the ledger hold the session in the old, materialised form?
  Kind,       \* what may cite a session: SUBSET {"claim", "insight", "cluster"}
  MayRetract, \* may a citation be withdrawn (owner reset, clusters rederived)?
  Attempts,   \* _STABLE_SOURCE_ATTEMPTS (3 in the code)
  None,
  MaxLen,     \* bound: lines of the file
  MaxWrites,  \* bound: writes of the file
  MaxFaults   \* bound: ingests that are killed or fail for an outside reason

Line == Msg \cup {Fork, Boundary}
Version == 1 .. 2
CiteKind == {"claim", "insight", "cluster"}

ASSUME LineAssumption == Fork \notin Msg /\ Boundary \notin Msg /\ Fork # Boundary
                         /\ Late \subseteq Msg
ASSUME SwitchAssumption == Adapter \cup {Legacy, MayRetract} \subseteq BOOLEAN
ASSUME KindAssumption == Kind \subseteq CiteKind
ASSUME BoundAssumption == Attempts \in Nat \ {0} /\ MaxLen \in Nat
                          /\ MaxWrites \in Nat /\ MaxFaults \in Nat

VARIABLES
  \* the source
  cursor,    \* the adapter is Cursor's, which notices a boundary in an append
  file,      \* [lines, torn, rev]: complete lines, an unfinished last one
  \* the ledger
  art,       \* the row of artifacts: [rev, hash, ver, storage], or None
  ses,       \* the row of sessions: [storage, msgs, windows, status]
  freeze,    \* the row of parser_upgrade_freezes, or None
  evidence,  \* SUBSET Kind: what cites the session
  \* the ingesters
  ver,       \* Version: PARSER_VERSION of the installed release
  pc,        \* [Ingester -> ...]
  job,       \* [Ingester -> ...]: the locals of _ingest_one
  faults,
  \* history
  overtaken  \* the checkpoint is of an upgrade that only moved it, over another one
             \*   than it was decided on

ledger == <<art, ses, freeze>>
vars == <<file, art, ses, freeze, evidence, cursor, ver, pc, job, faults, overtaken>>

Source  == "source_backed"
Old     == "legacy_materialized"
Storage == {Source, Old}

\* A row of artifacts.
Artifact == [rev : Nat, hash : Seq(Line), ver : Version, storage : Storage]

ASSUME NoneAssumption == None \notin Storage \cup {"append", "reparse"}
                         /\ None \notin Artifact

------------------------------------------------------------------------------
(* What the parsers make of a file.                                        *)

\* Where the session's own records begin: after the first boundary of a file
\* that says in its first record that it is a fork (Codex, c = FALSE), or after
\* the one a side chat may have (Cursor).
OwnFrom(c, lines) ==
  IF c \/ (lines # <<>> /\ lines[1] = Fork)
  THEN 1 + SelectInSeq(lines, LAMBDA l : l = Boundary)
  ELSE 1

\* "ambiguous" fork: inherited history whose end is not in the file yet.
Ambiguous(c, lines) == /\ ~c
                       /\ lines # <<>> /\ lines[1] = Fork
                       /\ Boundary \notin ToSet(lines)

\* Cursor's parser raises when it finds a second boundary.
Doubled(c, lines) == c /\ \E j, k \in DOMAIN lines :
                            j # k /\ lines[j] = Boundary /\ lines[k] = Boundary

\* A record that this version of the parser turns into a message.
Known(v, l) == l \in Msg /\ (v = 1 => l \notin Late)

\* The adapter drops the history a forked session inherited and turns the
\* records its version knows into messages.
ParseBy(c, v, lines) ==
  IF Ambiguous(c, lines) THEN <<>>
  ELSE SelectSeq(SubSeq(lines, OwnFrom(c, lines), Len(lines)),
                 LAMBDA l : Known(v, l))

Parse(v, lines)   == ParseBy(cursor, v, lines)
Blocked(lines)    == Ambiguous(cursor, lines)
Unreadable(lines) == Doubled(cursor, lines)

\* The first n lines of the file; an unfinished last line is not one of them.
Prefix(n) == IF n <= Len(file.lines) THEN SubSeq(file.lines, 1, n)
                                     ELSE file.lines
Size == Len(file.lines) + (IF file.torn THEN 1 ELSE 0)

Offset(a) == Len(a.hash)

------------------------------------------------------------------------------
(* Initial states: an empty ledger, or one an older release left, with the *)
(* text of the messages in the database.                                   *)

NoJob == [act |-> None, attempt |-> 0, rev |-> 0, art |-> None,
          lines |-> <<>>, hash |-> <<>>, existed |-> FALSE, storage |-> None,
          full |-> None, promote |-> FALSE, exact |-> FALSE, why |-> None]

\* No row of sessions.
NoSession == [storage |-> None, msgs |-> <<>>, windows |-> <<>>, status |-> "current"]
Exists == ses.storage # None

Nothing == art = None /\ ses = NoSession /\ file.lines = <<>>

Inherited ==
  /\ Legacy
  /\ file.lines \in {<<m>> : m \in Msg} \cup {<<m, n>> : m, n \in Msg}
  /\ art = [rev |-> 0, hash |-> file.lines, ver |-> 1, storage |-> Old]
  /\ ses = LET parsed == Parse(1, file.lines)
           IN  [storage |-> Old, msgs |-> parsed, windows |-> parsed,
                status |-> "current"]

Init == /\ file \in [lines : UNION {[1 .. n -> Msg] : n \in 0 .. 2},
                     torn : {FALSE}, rev : {0}]
        /\ cursor \in Adapter
        /\ Nothing \/ Inherited
        /\ freeze = None
        /\ evidence = {}
        /\ ver = 1
        /\ pc = [i \in Ingester |-> "idle"]
        /\ job = [i \in Ingester |-> NoJob]
        /\ faults = 0
        /\ overtaken = FALSE

------------------------------------------------------------------------------
(* The world: the harness that writes the file, the rest of agentlog that  *)
(* cites sessions, releases.                                               *)

Write(lines, torn) == /\ file.rev < MaxWrites
                      /\ file' = [lines |-> lines, torn |-> torn, rev |-> file.rev + 1]
                      /\ UNCHANGED <<ledger, evidence, cursor, ver, pc, job, faults, overtaken>>

\* Only a first record can say that the file is a fork.
AppendLine == \E l \in Line : /\ Len(file.lines) < MaxLen
                              /\ l = Fork => file.lines = <<>>
                              /\ Write(Append(file.lines, l), FALSE)

AppendPart == ~file.torn /\ Write(file.lines, TRUE)

\* A compaction, a restored copy, an edit: any other content.
Rewrite == \/ \E n \in 0 .. Len(file.lines) - 1 : Write(SubSeq(file.lines, 1, n), FALSE)
           \/ \E k \in DOMAIN file.lines : \E l \in Msg \ {file.lines[k]} :
                Write([file.lines EXCEPT ![k] = l], FALSE)

Cite(k) == /\ Exists
           /\ k \notin evidence
           /\ evidence' = evidence \cup {k}
           /\ UNCHANGED <<file, ledger, cursor, ver, pc, job, faults, overtaken>>

Retract(k) == /\ MayRetract
              /\ k \in evidence
              /\ evidence' = evidence \ {k}
              /\ UNCHANGED <<file, ledger, cursor, ver, pc, job, faults, overtaken>>

\* The next release is installed, and the daemon restarted with it.  From then on
\* any number of processes may move a transcript to the new parser.
Release == /\ ver = 1
           /\ \A i \in Ingester : pc[i] \in {"idle", "aborted"}
           /\ ver' = 2
           /\ UNCHANGED <<file, ledger, evidence, cursor, pc, job, faults, overtaken>>

------------------------------------------------------------------------------
(* An ingest up to its transaction.  Whatever it raises before the         *)
(* transaction leaves no trace: ingest_harness rolls back and counts a     *)
(* failure, and the next change or retry starts over.                      *)

Rest(i) == /\ pc' = [pc EXCEPT ![i] = "idle"]
           /\ job' = [job EXCEPT ![i] = NoJob]

Continue(i, where, j) == /\ pc' = [pc EXCEPT ![i] = where]
                         /\ job' = [job EXCEPT ![i] = j]

Outside == <<file, ledger, evidence, cursor, ver, faults, overtaken>>

\* Faulty: unchanged only when the checkpoint reaches the end of the file.
DecisionWantsWhole(a, v) ==
  CASE a = None \/ a.ver # v -> "reparse"
    [] a # None /\ a.ver = v /\ a.rev = file.rev /\ Offset(a) = Size -> None
    [] OTHER -> IF Size > Offset(a) /\ Offset(a) > 0 /\ Prefix(Offset(a)) = a.hash
                THEN "append"
                ELSE "reparse"

\* decide(): None is SKIP.  The checkpoint fits the content it covers exactly
\* when the prefix of that length still has the recorded hash.
Decision(a, v) ==
  CASE a = None \/ a.ver # v -> "reparse"
    [] a # None /\ a.ver = v /\ a.rev = file.rev -> None
    [] OTHER -> IF /\ Size > Offset(a)
                   /\ Offset(a) > 0
                   /\ Prefix(Offset(a)) = a.hash
                THEN "append"
                ELSE "reparse"

\* An upgrade that was frozen at exactly this content is not tried again.
FrozenHere ==
  /\ art # None /\ art.storage = Source /\ art.ver # ver
  /\ freeze # None /\ freeze.from = art.ver /\ freeze.to = ver
  /\ freeze.rev = file.rev /\ freeze.hash = Prefix(Len(freeze.hash))

Skips == Decision(art, ver) = None \/ FrozenHere

Decide(i) == /\ pc[i] \in {"idle", "again", "aborted"}
             /\ ~Skips
             /\ Continue(i, "decided",
                         [NoJob EXCEPT !.act = Decision(art, ver),
                                       !.attempt = job[i].attempt,
                                       !.rev = file.rev,
                                       !.art = art])
             /\ UNCHANGED Outside

\* From "idle" a skip changes nothing at all.
Skip(i) == /\ pc[i] = "again"
           /\ Skips
           /\ Rest(i)
           /\ UNCHANGED Outside

\* An append parses what follows the checkpoint; only Cursor's parser looks
\* there for a boundary, and then refuses: it needs the whole file.
Read(i) ==
  LET slice == SubSeq(file.lines, Offset(job[i].art) + 1, Len(file.lines))
      refused == \/ job[i].act = "reparse" /\ Unreadable(file.lines)
                 \/ job[i].act = "append" /\ cursor /\ Boundary \in ToSet(slice)
  IN  /\ pc[i] = "decided"
      /\ IF refused THEN Rest(i)
                    ELSE Continue(i, "parsed", [job[i] EXCEPT !.lines = file.lines])
      /\ UNCHANGED Outside

\* The fingerprint of what was parsed, the revision once more: if the file
\* moved, start again, a limited number of times.
Fingerprint(i) ==
  LET stable == file.rev = job[i].rev
      tries  == job[i].attempt + 1
      unsafe == job[i].act = "reparse" /\ Blocked(job[i].lines)
  IN  /\ pc[i] = "parsed"
      /\ \/ /\ stable /\ ~unsafe
            /\ Continue(i, "stable",
                        [job[i] EXCEPT !.attempt = 0,
                                       !.hash = Prefix(Len(job[i].lines))])
         \/ /\ ~stable /\ tries < Attempts
            /\ Continue(i, "again", [NoJob EXCEPT !.attempt = tries])
         \/ /\ (stable /\ unsafe) \/ (~stable /\ tries >= Attempts)
            /\ Rest(i)
      /\ UNCHANGED Outside

\* What the ledger holds of the session, read outside any transaction.
Look(i) ==
  /\ pc[i] = "stable"
  /\ Continue(i, "looked",
              [job[i] EXCEPT !.existed = Exists,
                             !.storage = IF Exists THEN ses.storage ELSE Source])
  /\ UNCHANGED Outside

\* legacy_continuation_status
Continuation(stored, parsed) ==
  CASE Len(parsed) < Len(stored)  -> "shrunk"
    [] stored = parsed            -> "unchanged"
    [] IsStrictPrefix(stored, parsed) -> "extension"
    [] OTHER                      -> "diverged"

Upgrading(i) == /\ job[i].act = "reparse"
                /\ job[i].art # None
                /\ job[i].art.ver # ver

\* The session's windows are built from a second, whole read of the file.
Prepare(i) ==
  LET j      == job[i]
      full   == Parse(ver, file.lines)
      backed == j.storage = Source /\ (cursor \/ ~j.existed \/ j.art # None)
      legacy == j.art # None /\ ses.storage = Old
      status == IF legacy THEN Continuation(ses.msgs, full) ELSE "none"
      unsafe == Blocked(file.lines) \/ Unreadable(file.lines) \/ file.rev # j.rev
      own    == Upgrading(i) /\ backed /\ j.existed
      exact  == own /\ ses.msgs = full /\ ses.windows = full
      ready  == [j EXCEPT !.full = IF backed \/ legacy THEN full ELSE None,
                          !.promote = (status = "extension"),
                          !.exact = exact]
  IN  /\ pc[i] = "looked"
      /\ \/ /\ backed \/ legacy
            /\ unsafe
            /\ Rest(i)
         \/ /\ ~unsafe
            /\ status \in {"diverged", "shrunk"}
            /\ Continue(i, "freezing", [j EXCEPT !.why = status, !.storage = Old])
         \/ /\ ~unsafe
            /\ status \notin {"diverged", "shrunk"}
            /\ own /\ ~exact /\ evidence # {}
            /\ Continue(i, "freezing", [j EXCEPT !.why = "upgrade"])
         \/ /\ (backed \/ legacy) => ~unsafe
            /\ status \notin {"diverged", "shrunk"}
            /\ ~(own /\ ~exact /\ evidence # {})
            /\ Continue(i, "prepared", ready)
      /\ UNCHANGED Outside

\* _source_matches_snapshot, the last look at the file before the write.
LastLook(i) ==
  /\ pc[i] = "prepared"
  /\ IF file.rev = job[i].rev THEN Continue(i, "checked", job[i]) ELSE Rest(i)
  /\ UNCHANGED Outside

------------------------------------------------------------------------------
(* The transaction: checkpoint and session are written together, under the *)
(* write lock, from what the ingester read before it had the lock.  What   *)
(* the ledger holds now is checked again where it matters.                 *)

\* Faulty: the checkpoint covers the file as it is now.
CheckpointAtEnd(i) == [rev |-> job[i].rev, hash |-> file.lines, ver |-> ver,
                       storage |-> IF job[i].art = None THEN Source
                                                        ELSE job[i].art.storage]

\* Faulty: the size and mtime recorded are those of a new stat().
CheckpointRestats(i) == [rev |-> file.rev, hash |-> job[i].hash, ver |-> ver,
                         storage |-> IF job[i].art = None THEN Source
                                                          ELSE job[i].art.storage]

Checkpoint(i) == [rev |-> job[i].rev, hash |-> job[i].hash, ver |-> ver,
                  storage |-> IF job[i].art = None THEN Source
                                                   ELSE job[i].art.storage]

\* upsert_artifact refuses to change the storage of an artifact.
StorageKept(storage) == art # None => art.storage = storage

\* The diagnostics of a frozen upgrade end with the upgrade, and only those.
Cleared(i, s) == IF Upgrading(i) /\ s.status = "frozen_upgrade"
                 THEN [s EXCEPT !.status = "current"]
                 ELSE s

\* Which of the ways of saving applies was settled before the transaction.
Way(i) ==
  CASE Upgrading(i) /\ job[i].exact -> "exact"
    [] job[i].existed /\ job[i].promote /\ job[i].storage = Old -> "promote"
    [] Upgrading(i) /\ job[i].existed /\ job[i].storage = Source -> "rewrite"
    [] OTHER -> "save"

Commit(i, s) == /\ StorageKept(Checkpoint(i).storage)
                /\ art' = Checkpoint(i)
                /\ ses' = Cleared(i, s)
                /\ freeze' = IF Upgrading(i) THEN None ELSE freeze
                /\ overtaken' = (Way(i) = "exact" /\ art # job[i].art)
                /\ Rest(i)
                /\ UNCHANGED <<file, evidence, cursor, ver, faults>>

\* Same content under the new parser: only the checkpoint moves, and nothing looks
\* again at what is stored.
SaveExact(i) == /\ pc[i] = "checked"
                /\ Way(i) = "exact"
                /\ Commit(i, ses)

CanPromote(i) ==
  /\ file.rev = job[i].rev
  /\ ses.storage = Old
  /\ Continuation(ses.msgs, job[i].full) = "extension"
  /\ evidence \cap {"claim", "cluster"} = {}

\* promote_legacy_continuation: the session becomes source-backed.
Promote(i) == /\ pc[i] = "checked"
              /\ Way(i) = "promote"
              /\ CanPromote(i)
              /\ Commit(i, [storage |-> Source, msgs |-> job[i].full,
                            windows |-> job[i].full, status |-> "current"])

\* Faulty: relies on the check made before the transaction.
CanRewriteUnchecked(i) == ses.storage = Source

CanRewrite(i) == /\ ses.storage = Source
                 /\ evidence = {}

\* rewrite_source_backed_parse_result: delete and save again.
RewriteForUpgrade(i) ==
  /\ pc[i] = "checked"
  /\ Way(i) = "rewrite"
  /\ CanRewrite(i)
  /\ Commit(i, [ses EXCEPT !.msgs = job[i].full, !.windows = job[i].full])

SourceAppend(i) == job[i].storage = Source /\ job[i].act = "append"

\* save_parse_result: the stored messages must be the beginning of the new.
SamePrefix(i) == LET result == Parse(ver, job[i].lines)
                 IN  /\ Exists => ses.storage = job[i].storage
                     /\ ses.storage = Source => IsPrefix(ses.msgs, result)

\* Faulty: replace_exchange_windows is not called for a session that existed.
SaveKeepsWindows(i) ==
  LET result == Parse(ver, job[i].lines)
  IN  /\ pc[i] = "checked"
      /\ Way(i) = "save"
      /\ SamePrefix(i)
      /\ IF job[i].storage = Old
         THEN Commit(i, ses)
         ELSE /\ job[i].full # None
              /\ Commit(i, [storage |-> Source, msgs |-> result,
                            windows |-> IF Exists THEN ses.windows ELSE result,
                            status |-> "current"])

\* A legacy session keeps its messages; a source-backed one takes the result
\* of the whole file and its windows.
Save(i) ==
  LET result == Parse(ver, job[i].lines)
  IN  /\ pc[i] = "checked"
      /\ Way(i) = "save"
      /\ SamePrefix(i)
      /\ \/ /\ job[i].storage = Old
            /\ Commit(i, ses)
         \/ /\ job[i].storage = Source
            /\ job[i].full # None
            /\ Commit(i, [storage |-> Source, msgs |-> result,
                          windows |-> job[i].full,
                          status |-> ses.status])

\* Everything is rolled back; only an append that no longer fits what is
\* stored is then frozen instead of failing again at every change.
SaveRefused(i) ==
  LET diverged == Way(i) = "save" /\ SourceAppend(i) /\ job[i].full # None
                  /\ ~SamePrefix(i)
  IN  /\ pc[i] = "checked"
      /\ ~ CASE Way(i) = "exact"   -> TRUE
             [] Way(i) = "promote" -> CanPromote(i)
             [] Way(i) = "rewrite" -> CanRewrite(i)
             [] OTHER -> SamePrefix(i) /\ (job[i].storage = Source => job[i].full # None)
      /\ IF diverged THEN Continue(i, "freezing", [job[i] EXCEPT !.why = "diverged"])
                     ELSE Rest(i)
      /\ UNCHANGED Outside

Frozen(why) == CASE why = "diverged" -> "frozen_diverged"
                 [] why = "shrunk"   -> "frozen_shrunk"
                 [] why = "upgrade"  -> "frozen_upgrade"

\* _persist_frozen_legacy and _persist_frozen_parser_upgrade: a transaction of
\* its own after the rollback.  A frozen transcript moves the checkpoint, a
\* frozen upgrade records the content it refused.
PersistFreeze(i) ==
  LET j == job[i]
      row == [Checkpoint(i) EXCEPT !.storage = j.storage]
  IN  /\ pc[i] = "freezing"
      /\ \/ /\ j.why = "upgrade"
            /\ freeze' = [from |-> j.art.ver, to |-> ver, rev |-> j.rev, hash |-> j.hash]
            /\ UNCHANGED art
         \/ /\ j.why # "upgrade"
            /\ StorageKept(row.storage)
            /\ art' = row
            /\ UNCHANGED freeze
      /\ ses' = [ses EXCEPT !.status = Frozen(j.why)]
      /\ Rest(i)
      /\ UNCHANGED <<file, evidence, cursor, ver, faults, overtaken>>

\* The handler's own upsert raises: the exception leaves ingest_harness.
FreezeRaises(i) == /\ pc[i] = "freezing"
                   /\ job[i].why # "upgrade"
                   /\ ~StorageKept(job[i].storage)
                   /\ Continue(i, "aborted", NoJob)
                   /\ UNCHANGED Outside

\* Killed, out of disk, unreadable file: SQLite rolls the transaction back.
Fail(i) == /\ pc[i] \notin {"idle", "aborted"}
           /\ faults < MaxFaults
           /\ faults' = faults + 1
           /\ Rest(i)
           /\ UNCHANGED <<file, ledger, evidence, cursor, ver, overtaken>>

Step(i) == \/ Decide(i) \/ Skip(i) \/ Read(i) \/ Fingerprint(i) \/ Look(i)
           \/ Prepare(i) \/ LastLook(i)
           \/ SaveExact(i) \/ Promote(i) \/ RewriteForUpgrade(i) \/ Save(i)
           \/ SaveRefused(i) \/ PersistFreeze(i) \/ FreezeRaises(i)

Next == \/ AppendLine \/ AppendPart \/ Rewrite \/ Release
        \/ \E k \in Kind : Cite(k) \/ Retract(k)
        \/ \E i \in Ingester : Step(i) \/ Fail(i)

Spec == Init /\ [][Next]_vars

\* Every change of the file asks for an ingest, and a failed one is asked for
\* again (WatchDaemon); a thread that ingests goes on.
FairSpec == Spec /\ \A i \in Ingester : WF_vars(Step(i))

------------------------------------------------------------------------------
\* The state keeps its shape, and no checkpoint is from the future of its file:
\* decide() compares the revision recorded with the one stat() gives.
TypeOK ==
  /\ file \in [lines : BoundedSeq(Line, MaxLen), torn : BOOLEAN, rev : 0 .. MaxWrites]
  /\ art # None => art \in Artifact /\ art.rev <= file.rev
  /\ ses.storage \in Storage \cup {None}
  /\ ses.msgs \in Seq(Msg) /\ ses.windows \in Seq(Msg)
  /\ ses.status \in {"current", "frozen_diverged", "frozen_shrunk", "frozen_upgrade"}
  /\ evidence \subseteq Kind
  /\ cursor \in Adapter /\ overtaken \in BOOLEAN
  /\ ver \in Version
  /\ faults \in 0 .. MaxFaults

IsFrozen == ses.status # "current"

\* What is stored is what the checkpoint covers: no message before the recorded
\* offset is skipped by the appends that start from it, none after it is doubled.
\* One race breaks it, until the next commit: an upgrade that found nothing to change
\* moves the checkpoint (_ingest_one) after another process moved it, and with it what
\* is stored, in between.
NothingSkipped ==
  art # None => Exists /\ (IsFrozen \/ overtaken \/ ses.msgs = Parse(art.ver, art.hash))

\* When an ingest would skip the file as unchanged, the ledger holds what the
\* file says, or says itself that it does not (decide); not after that race.
SkipIsHonest ==
  Skips => IsFrozen \/ overtaken \/ ses.msgs = Parse(ver, file.lines)

\* The windows of a session are those of its messages.
WindowsFollow == ses.windows = ses.msgs

\* The invariant of the proofs (IInv) needs besides: the shapes of the state, what an ingester knows
\* of the file and of the ledger at each point, and why it is still so when it
\* writes.
Decided  == {"decided", "parsed", "stable", "looked", "prepared", "checked", "freezing"}
HasRead  == Decided \ {"decided"}
HasHash  == HasRead \ {"parsed"}
Ready    == {"prepared", "checked"}
Resting  == {"idle", "aborted"}

Shapes ==
  /\ file.lines \in Seq(Line) /\ file.rev \in Nat
  /\ ver \in Version
  /\ DOMAIN ses = DOMAIN NoSession /\ ses.storage \in Storage \cup {None}
  /\ art \in Artifact \cup {None}
  /\ pc \in [Ingester -> Decided \cup Resting \cup {"again"}]
  /\ DOMAIN job = Ingester
  /\ \A i \in Ingester : /\ DOMAIN job[i] = DOMAIN NoJob
                         /\ job[i].art \in Artifact \cup {None}

\* No checkpoint is of a version that is not installed yet.
OneVersion == ver = 1 /\ art # None => art.ver = 1

\* What an ingester at p, with the locals j, knows of the file: one whose
\* revision is still that of the job is the one the job read.
KnowsFile(p, j) ==
  /\ p \in Decided => j.rev \in Nat /\ j.rev <= file.rev
  /\ p \in HasRead => /\ j.lines \in Seq(Line)
                      /\ j.rev = file.rev => j.lines = file.lines
  /\ p \in HasHash => j.hash = j.lines

\* What it found in the ledger and is entitled to rely on.
KnowsLedger(p, j) ==
  LET parsed == Parse(ver, j.lines)
  IN  /\ p \in Decided => /\ ver = 1 /\ j.art # None => j.art.ver = 1
                          /\ ses.storage = Old => j.art # None
      /\ p \in {"looked", "freezing"} \cup Ready => j.storage \in Storage
      /\ p \in {"looked"} \cup Ready =>
           /\ (j.storage = Old => j.existed) /\ (j.existed => Exists)
           /\ j.existed /\ j.storage = Source => ses.storage = Source
      /\ p \in Ready =>
           /\ j.full # None => j.full = parsed
           /\ j.promote \/ (j.art # None /\ j.storage = Source) => j.full = parsed
           /\ j.storage = Old /\ ~j.promote /\ ses.storage = Old => ses.msgs = parsed
           /\ j.exact => /\ j.act = "reparse" /\ j.art # None /\ j.art.ver # ver
                        /\ Exists
                        /\ (art = j.art => ses.msgs = parsed)
      /\ p = "freezing" => /\ Exists /\ j.why \in {"diverged", "shrunk", "upgrade"}
                           /\ j.why = "upgrade" => ses.storage = Source

\* A checkpoint at the revision the file has covers all of it: two contents of
\* the file do not have one revision, and the hash is of what was read.
CheckpointCovers ==
  art # None => /\ art.rev <= file.rev
                /\ art.rev = file.rev => art.hash = file.lines

\* The record of a refused upgrade goes before its session stops being frozen.
FreezeStands == freeze # None => IsFrozen /\ ses.storage = Source

\* NothingSkipped, SkipIsHonest and WindowsFollow, made inductive: the ledger is
\* what the file said because each ingester writes only what it knows to be still
\* so (_ingest_one from decide() to save_parse_result).
IInv ==
  /\ Shapes
  /\ OneVersion
  /\ Exists \/ ses.msgs = <<>>
  /\ ses.storage = Old => art # None
  /\ \A i \in Ingester : KnowsFile(pc[i], job[i]) /\ KnowsLedger(pc[i], job[i])
  /\ NothingSkipped
  /\ WindowsFollow
  /\ CheckpointCovers
  /\ FreezeStands

\* The mapping: the abstract ledger sees the messages, whether anything cites
\* them, and whether some ingester is about to write for another parser version.
Ledger == INSTANCE TranscriptLedger WITH
            stored <- ses.msgs,
            cited <- evidence # {},
            upgrading <- \E i \in Ingester : pc[i] = "checked" /\ Upgrading(i)

\* TranscriptLedger is implemented: a stored transcript is only extended, or
\* reread by another parser version while nothing cites it (save_parse_result,
\* promote_legacy_continuation, rewrite_source_backed_parse_result).
KeepsItsWord == Ledger!Spec

\* Why an ingest refuses the file until the file changes, or what cites the session:
\* its parser cannot place the session, an append runs into a boundary, a session
\* already of this version does not go on, or an old one may not be promoted.
Refused ==
  \/ Blocked(file.lines) \/ Unreadable(file.lines)
  \/ /\ cursor /\ art # None
     /\ Boundary \in ToSet(SubSeq(file.lines, Offset(art) + 1, Len(file.lines)))
  \/ /\ ses.storage = Source /\ art.ver = ver
     /\ ~IsPrefix(ses.msgs, Parse(ver, file.lines))
  \/ /\ ses.storage = Old /\ evidence \cap {"claim", "cluster"} # {}
     /\ IsStrictPrefix(ses.msgs, Parse(ver, file.lines))
CaughtUp == Exists /\ Skips /\ ses.msgs = Parse(ver, file.lines)

\* A file that rests is ingested, frozen or refused in the end, whatever it went
\* through and whichever ingests were killed on the way (decide, _ingest_one):
\* no loop of retries, no checkpoint that makes every later ingest give up.
Converges == <>[](IsFrozen \/ Refused \/ CaughtUp)

=============================================================================
