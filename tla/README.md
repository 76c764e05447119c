# agentlog: models and proofs

agentlog is a local-first observability program. Coding agents (Claude Code, Codex, Cursor,
Grok, Hermes, Warp, T3) leave transcripts on disk; adapters read them, an ingest pipeline
writes them into one SQLite ledger, analyses derive further layers from it (labels, claims,
proposals, experiments), and an API, a CLI, an MCP server and a web client read the result.
A watch daemon keeps the ledger current.

This directory holds TLA+ modules of the parts of that program that are concurrent, stateful
or hard to test, the TLC configurations that check them on small instances, and TLAPS proofs
of the most important facts for every instance. `PROJECT.json` lists components, runs,
mutants (a plausible bug per property, which the run must find), hazards by source line,
theorems, and for every definition the lines of the source it stands for. Paths below are
relative to the repository; `pipeline.py` and the like are under `src/agentlog/`.

To use it: `tlc -config WatchSafety.cfg MCWatchDaemon.tla` (module and configuration of every
run are in the table under "Runs"), `tlapm TranscriptIngest_proofs.tla`.

Contents: 1 inventory, 2 modules and code, 3 runs, 4 bounds, 5 fairness, 6 proofs,
7 disagreements found, 8 what is not modelled, 9 plan.

## 1. Inventory

### Watch (watch/)

| part | state | operations | what is hard | what makes it right |
|---|---|---|---|---|
| Debouncer (debounce.py) | a deadline and a first ping per harness | ping, drain_ready, loop | clock read before the lock; steady pings | a key fires after a quiet period, and never later than the maximum wait |
| Daemon (daemon.py) | pending paths, retry counts, worker per harness, reschedule flags, windows to derive, stop flag | events and polls note changes; the debouncer, catch-up and retries schedule; a worker ingests; a derive thread derives; stop | six kinds of threads over four locks; a worker leaving while one is registered; failures at every step; shutdown | no change and no window is lost or forgotten; one ingest per harness; stop ends, and ends everything |
| Write lock (daemon.py, `_WriteSerializedConnection`) | one lock, one flag per connection | execute, executescript, commit, rollback, close | a transaction opened by one statement and ended, or broken, by another | no transaction without the lock, no lock without a transaction |
| Presence (presence.py) | sessions seen alive, an epoch and a generation, presence.json | observe, heartbeat, expire, snapshot, write, stop | three threads write a file outside the lock; a restart begins a new epoch | a number means one content; the file settles on the truth; readers do not go back to an earlier daemon and come to show the file |
| Scanner, sources, events (scan.py, sources.py, events.py) | none | scan live files, list sources, insert an event row | none | (stateless) |

The daemon calls the ingest pipeline (`ingest_harness`) and the deterministic extractor through
connections of its own, wrapped with the write lock; the debouncer calls it back.

### Ingest (ingest/, db/repository.py, source_reader.py)

| part | state | operations | what is hard | what makes it right |
|---|---|---|---|---|
| Pipeline and checkpoints (pipeline.py, checkpoint.py, repository.py) | rows of artifacts, sessions, messages, windows, freezes | discover, decide, parse, fingerprint, prepare, save, promote, upgrade, freeze | the file moves while it is read; two processes ingest it; everything is decided outside the transaction; parser upgrades under citations; legacy rows | nothing before a checkpoint is skipped; stored text is only extended, and replaced only while nothing cites it; a file at rest is caught up with or said to be frozen |
| Adapters for JSONL (codex.py, claude.py, cursor.py, grok.py) | none | parse a slice or a whole file | forks, side-chat boundaries, an unfinished last line | appends give what a reparse gives, or refuse |
| Adapters for SQLite sources (hermes.py, warp.py, t3code.py) | none | read another program's database | a writer at the same time | one consistent snapshot per ingest |
| Session identity and merges (session_identity.py, cursor_merge.py, grok_launch.py) | parent and owner columns | propagate owners, merge duplicates | links arrive in any order | owners agree with reachability |
| Source reader (source_reader.py) | a bounded cache, flights, monitors of revisions, a bounded set of invalid sources, bounded evidence | read text through the cache, verify | eviction while in use, single flight, a forgotten invalid source | an answer was the text at some moment of the call; a positive verification is right; nobody waits for a flight nobody flies |
| Schema and migrations (db/schema.py, db/migrations/) | schema version | open, migrate | two processes open; killed between commits | every prefix of commits is a state from which opening completes |

### Analysis (analysis/)

| part | state | operations | what is hard | what makes it right |
|---|---|---|---|---|
| Derive (derive.py, extractors/deterministic.py, windows.py) | derived rows, a watermark fingerprint | scoped or full run | any commit invalidates; the watermark is global, the run scoped, and the two are committed apart | what looks fresh is fresh; what changed is derived |
| Durable labels (label_survival.py, extractors/storage.py, api/adjudication.py) | labels, orphans | orphan, relink, adjudicate | windows of the same content; a label written while its window goes | a verdict survives every rewrite and is linked where its text is |
| Owner insight review (owner_notes.py, owner_corpus.py) | generations, seen messages, batches | prepare, resume, import, block, reset | a session is rewritten, reset or hidden between prepare and import | no message is passed over; no insight rests on text that is no longer there |
| Claims and proposals (claims/store.py, claims/proposals.py) | claims, proposals with a status | refresh, decide, supersede, revive | an owner decides during a refresh; busy retries roll back | a decision is never undone by a refresh |
| Experiments (performance/experiments.py) | experiment status, assignments | register, enrol, supersede | assignment is once | a root keeps its arm |
| Coach, extraction of labels, claim extraction, attribution, briefs, skills, config ledger | rows rebuilt in one transaction, or none | batch text processing | none beyond their stores | (text heuristics) |

### Readers (api/, mcp_server/, web/, cli.py, service/)

The API answers each query from one connection and keeps two pieces of state: the overview
cache (overview_cache.py: a revision-aware single-flight cache, whose waiters may take a result
begun before they asked) and the cursor of the event stream (events.py). The web client keeps a
presence scheduler (web/src/lib/useLivePresence.ts) that merges stream frames and polled
answers. Security, redaction and egress are stateless predicates. The MCP server is read-only.
The CLI runs the functions above, `agentlog ingest` among them: a second ingesting process,
which no lock separates from the daemon's. launchd wrappers start and stop the daemon.

## 2. Modules and how they correspond to the code

    Debouncer            watch/debounce.py with a clock
    WriteLock            watch/daemon.py: _WriteSerializedConnection
    WatchParts_proofs      the invariants and the safety of these two, for any instance
    SingleFlight         abstract: one run at a time, every request followed by a start
    WatchDaemon          watch/daemon.py: the scheduling; implements SingleFlight
    MCWatchDaemon          symmetry for TLC
    WatchDaemon_proofs     its invariant, and the steps of SingleFlight, for any instance
    TranscriptLedger     abstract: a transcript is only extended, or reread uncited
    TranscriptIngest     ingest/pipeline.py, checkpoint.py, db/repository.py;
                         implements TranscriptLedger
    MCTranscriptIngest     symmetry for TLC
    TranscriptIngest_proofs its invariant and the refinement, for any instance
    PresenceLog          abstract: daemons number what they know and write copies of it
    PresenceFile         watch/presence.py; implements PresenceLog
    PresenceFile_proofs    its invariant and the refinement, for any instance
    PresenceView         EXTENDS PresenceLog: api/events.py, api/live.py and the web
                         client's merge and pull scheduler over such a file
    PresenceView_proofs    the scheduler, and that no daemon of the past returns, for any
                           number of daemons
    SourceReader         source_reader.py: cache, flights, monitors, verification
    MCSourceReader         symmetry for TLC
    SourceReader_proofs    that nobody waits in vain, answers are fresh and verification is
                           right, for any instance
    OwnerReview          analysis/owner_notes.py, owner_corpus.py, insights.py
    OwnerReview_proofs     its invariant, and that no message is skipped, for any instance
    WindowLayers         analysis/derive.py, windows.py, label_survival.py and the two
                         writers of labels, over the windows ingest writes
    MCWindowLayers         symmetry for TLC
    WindowLayers_proofs    that labels stay, are linked where their text is, and that what
                           is called fresh is

**Debouncer.** `deadlines` and `first_seen` are the two dictionaries. `ping` and `drain_ready`
read the clock before they take the lock, so each is two actions (`PingReads`/`PingWrites`,
`DrainReads`/`DrainWrites`) with `Tick` between. The loop is owed a drain every `Period`, and
a thread with a reading gets the lock within `Lag`; the bound of `BoundedWait` is stated in
these terms and is tight.

**WriteLock.** Each connection is used by one thread. `Issue` is `execute`, `executemany` and
`executescript` up to `_acquire_for`; `Acquire` waits for the lock; `Run` is SQLite, which may
open a transaction, leave it, or roll it back on an error, as it likes; `Settle` and `Release`
are the `finally` clauses; `EndTransaction` is `commit` and `rollback`, either of which may fail
(`broken`); `Close` is the end of a run. The definitions a specification has in any case are
called `LockInit`, `LockNext`, `LockInv` and so on here, for the module to be extended beside
Debouncer by the proofs of both.

**WatchDaemon.** An action is what a thread does between two points where another can get in:
a critical section of `_changed_lock`, `_worker_lock` or `_derive_lock`, or a commit.

| code | action |
|---|---|
| `_note_change`, then its ping | `NoteChange`, `NotePing` |
| `Debouncer._loop`, `drain_ready` | `Drain`, `Fire` |
| `_catchup_ingest` | `CatchUp` |
| `_schedule_ingest` | `ScheduleIngest`, part of `Fire` and `CatchUp` |
| `_ingest_worker`: loop test, end of cycle, finally | `WorkerSeesStop`, `Check`, `FinishWorker` |
| `_run_ingest`: taking paths | `Take`, `TakeRaises` |
| `ingest_harness`, one artifact | `CommitArtifact`, `FreezeArtifact`, `FailArtifact` |
| the ways a run ends, `_requeue_changed` | `RunCompleted`, `RunFailed`, `RunRaises`, `RecordEventRaises`, `RetryPing` |
| `_schedule_derive`, `_queue_derive` | `ScheduleDerive` |
| `_derive_worker` | `DeriveTake`, `DeriveDone`, `DeriveInputChanged`, `DeriveFails`, `FinishDeriver` |
| `request_stop`, `stop` | `RequestStop`, `StopReturns` |

`behind` and `underived` are the truth about the ledger that no part of the daemon knows: which
artifacts have content not ingested, which committed windows are not derived. An artifact's
windows are represented by the artifact. The debounce delay is abstracted here (a pinged key may
be drained at any time); a process kill is not an action: nothing of this state survives one,
and `Init` starts over a ledger that misses anything. Three history variables name what the code
gives up, so that the properties can say that nothing else is: `lost`, changes that a worker had
taken when it died canonicalising them; `stranded`, harnesses whose request went with it;
`dropped`, windows of a run that failed half way or of a derive out of retries (disagreements 4,
5 and 17).

**TranscriptIngest.** One `.jsonl` artifact with one session, read by any number of ingesters
while its harness appends to it, leaves a last line unfinished, or rewrites it, while the rest
of agentlog starts and stops citing the session, and while a release brings a new
PARSER_VERSION.

| code | action |
|---|---|
| `decide`, and the skip of a frozen upgrade | `Decide`, `Skip` |
| the adapter's parse, bounded by size at the read | `Read` |
| the fingerprint of what was parsed and the second revision, up to `_STABLE_SOURCE_ATTEMPTS` times | `Fingerprint` |
| the session row as it is before the transaction | `Look` |
| the whole reread for windows, `legacy_continuation_status`, whether an upgrade changes anything | `Prepare` |
| `_source_matches_snapshot` before the write | `LastLook` |
| an upgrade that leaves the content as it is | `SaveExact` |
| `promote_legacy_continuation` | `Promote` |
| `rewrite_source_backed_parse_result` | `RewriteForUpgrade` |
| `save_parse_result` with `_assert_source_prefix`, `replace_exchange_windows`, `upsert_artifact` | `Save` |
| any refusal inside the transaction, and its rollback | `SaveRefused` |
| `_persist_frozen_legacy`, `_persist_frozen_parser_upgrade` | `PersistFreeze`, `FreezeRaises` |
| a kill, or any outside error | `Fail` |

A record of the file is a `Line`; a hash of a prefix is the prefix; the (size, mtime_ns) pair is
`rev`. A parser is reduced to what checkpoints depend on: the record that says a Codex file is a
fork, the record that ends inherited history or opens a side chat, records only the newer
version recognises, and what makes a parser raise. `Parse` is a function of the adapter, its
version and the lines.

Assumptions of this module, all visible in it: every write of the file moves (size, mtime_ns);
a hash identifies its content; a release is installed while no ingest is under way (from then on
any number of processes upgrade at the same time, as nothing in the code keeps them apart).
`overtaken` is history: the checkpoint is of a `SaveExact` that moved it over another row than the
one it was decided on, and no other commit followed yet. Nothing in that way to save looks at what
is stored by then, and `NothingSkipped` and `SkipIsHonest` name it as their exception (disagreement
18).

**PresenceFile.** `generation` and `entries` are the map under its lock. `write_state_file` is
three critical sections and a replacement outside of them (`SnapshotExpires`, `SnapshotLists`,
`SnapshotLabels`, `ReplaceFile`, which may fail), and two threads are in it: the observer, after
noting an activity, and the heartbeat. `Start` begins an epoch, `Die` ends one anywhere. An entry
is the generation of the activity it was noted with. `PresenceLog` is what the readers may rely
on, and nothing else of the writers reaches them: copies of numbered states, overwriting each
other in any order, each at most as new as its label.

**PresenceView** takes `PresenceLog` for the file, so that it and PresenceFile together are the
whole way from the map to the dashboard. `ReadClock` and `ReadFile` are the two reads of
`live_payload`, for a pull and for the stream; `StreamOpens`, `StreamSeeds`, `StreamRaises`,
`StreamDrops` are the generator of `iter_event_sse`, whose first fingerprint comes after the
connection and whose fingerprint is recorded before the payload is built; `Accepts` is
`acceptsPresenceVersion`; the record `sched` is the scheduler in `useLivePresence.ts`, with one
operator per method.

**SourceReader.** Two kinds of keys: an artifact that is read as a whole (`Plain`, a JSONL file,
or a SQLite file if it is among `Databases`), and one thread of the T3 database, which is read on
its own under a revision monitor. A read is `Begin` (cache, flight, or a flight of its own), then
`Stat`, `Hash`, `ParseRead`, `ParseCheck`, `Restat` or `Watch`, `Before`, `Scan`, `After`,
`Confirm`, then `Recheck` and `Publish`; `Raise` is an error in any of them; `Verify...` is
`verify_current`. What is compared by hash is a version number. A parse has both the version of
its text and that of its hash, which is taken later: `Stable` holds one against the other for a
JSONL file and not for a SQLite file, as the code does. `slipped` is history: SQLite files that
were changed, without moving their stamp, between a parse and its hash (disagreement 20).
`lastRead` is history: the text last answered for a key, the source's text at that call, and
`kept`, that the evidence on record is still of this answer. Left out: the byte budget of the
cache (entries are evicted by number), `close` at shutdown, and the checkpoint of a session moving
(which makes a new key). Assumed: a database that takes the place of another is a file of its own
(inode).

**OwnerReview.** An `insights-extract` reads its corpus (`Collect`) before the transaction that
compares and records it (`Prepare`); an `insights-import` checks quotes (`CheckImport`) before
its SAVEPOINT (`CommitImport`); `Reset` is `insights-reset-session`; `Upgrade` is the rewrite of
a session by a parser upgrade, with its guard. A batch identifier is a hash of the batch and is
the batch here, a message is its session, position and text. The command rolls back a
preparation that finds a blocked session, so `blocked_rewrite` is never committed and not a
state. How an export is cut into batches is left open (`Cuts`), which covers every size limit.
Which sessions a selection shows is left open too (`Collect(S, full)`).

**WindowLayers.** `turns` are the exchanges of one session; the identifier of a window is
`<<content, n>>`, as `window_id_for_content_hash` makes it. An ingest is one step (`AppendTurn`,
`Extend`, `Upgrade`, each with the whole of `replace_exchange_windows` and `refresh_label_links`):
a transaction. `run_derive` is five: `Look`, `Load`, `Check`, `Classify`, `Mark`, with `Dirtied`
for PRAGMA data_version, and `GiveUp` anywhere, between the two commits too. `extra` is the rest
of what the digest covers (the session's model, outcomes of tools, skills): every ingest leaves or
replaces it by any of `Extras`, so it may return to what it was while the windows and their
classifications stay. A classification remembers the digest written with it and, as history, the
session it was made from (`of`); `watermark.all`, also history, says that no run since left stale
windows out, and `unmarked` which windows runs have classified since the watermark from another
session than the watermark's. A label is looked up (`Answer`) before the transaction that stores
it (`Insert`). `SELECT ... LIMIT 1` among windows of one text is a choice (`Picks`).

## 3. Runs

| run | module, configuration | asks |
|---|---|---|
| debouncer | Debouncer, Debouncer.cfg | does a key wait no longer than the maximum wait (`BoundedWait`), and never fire before its quiet period (`NoEarlyFire`)? |
| write_lock | WriteLock, WriteLock.cfg | is an open transaction always under the lock (`TransactionHoldsLock`), is the lock never kept outside one (`NoLeak`), and always let go (`HolderLetsGo`)? is `LockInv`, which the proofs use, an invariant? |
| watch_safety | MCWatchDaemon, WatchSafety.cfg | do runs of one harness never overlap; is no pending path left without somebody who will look at it, no noted change forgotten but with a worker that dies (disagreement 17), no request, no committed window; is all quiet after stop()? is `IInv`, which the proofs use, an invariant? |
| watch_live | MCWatchDaemon, WatchLive.cfg | is what reached the daemon ingested, what was committed derived or knowingly given up, does stop() end, and do the threads implement `SingleFlight`? |
| ingest_safety | MCTranscriptIngest, IngestSafety.cfg | with two processes ingesting one file: is nothing before the checkpoint skipped or doubled (`NothingSkipped`), is a file that is skipped as unchanged what is stored (`SkipIsHonest`), both but for disagreement 18, are windows those of the messages (`WindowsFollow`), is stored text only extended or reread uncited (`KeepsItsWord`)? is `IInv` an invariant? |
| ingest_live | MCTranscriptIngest, IngestLive.cfg | does a file that rests end up ingested, frozen, or refused by the installed parser for a reason only a change of the file or of its citations can lift (`Converges`)? |
| presence_file | PresenceFile, PresenceFile.cfg | does a number mean one content (`NumberMeansContent`), is no copy newer than its label whatever overwrites what (`LabelsAreRight`, the refinement), and does the file settle on what the daemon knows (`FileSettles`)? |
| presence_view | PresenceView, PresenceView.cfg | is the pull timer armed exactly while it must be (`TimerArmed`), does no late answer bring an earlier daemon back (`EpochsDoNotReturn`), does the dashboard come to show the file (`Converges`)? |
| source_reader | MCSourceReader, SourceReader.cfg | is every answer a text the source had during the call (`FreshRead`), is a positive verification right (`VerifiedIsCurrent`), both but for disagreements 15, 16 and 20, is everybody who waits woken (`WaitersHaveAFlight`)? |
| owner_review | OwnerReview, OwnerReview.cfg | does a seal cover exactly its batch (`SealedWithItsBatch`), does quoted text stay (`EvidenceStands`), is no message passed over (`NothingIsSkipped`)? is `IInv`, which the proofs use, an invariant? |
| owner_lost | OwnerReview, OwnerReviewLost.cfg | disagreement 1, section 7: the last question without its exception |
| window_layers | MCWindowLayers, WindowLayers.cfg | is what the health endpoint calls fresh made from the session as it is, but for disagreements 10 and 19 (`FreshIsFresh`), are labels linked exactly where their text is after every ingest (`LinksSettle`), and does none get lost (`LabelsSurvive`)? |

All but owner_lost finish without error. Every property of theirs is found violated when the
definition named with it in `PROJECT.json` ("mutants") is replaced by its faulty variant; the
faulty variants stand before the definitions they distort, under a comment that begins with
"Faulty", and are used by nothing else.

`CHECK_DEADLOCK FALSE` stands where the system may really stop: the daemon after stop(), a
transcript nobody writes any more, a dashboard that was closed, an owner who asks for nothing,
the clock at its bound. `WriteLock` is checked for deadlock:
there every thread can always go on in the end.

## 4. Bounds

- Debouncer: two keys and two pinging threads (a key pinged by both, or one key pinged while the
  other is due), a clock up to 12 with delay 2 and maximum wait 3: four rounds of a burst.
- WriteLock: two connections. What one can do to another goes through the lock alone, and the
  proofs cover any number.
- WatchSafety: one harness (harnesses share only the derive thread and its data_version, disagreement
  5 of section 7), two artifacts so that a run can half fail, a path no adapter accepts,
  two workers and two derivers so that a thread can be on its way out while its successor runs,
  `MaxRetries` 1 so that retries are exhausted, one source change, two failures of any kind of
  which one may kill a worker, and a stop at any moment. All initial ledgers.
- WatchLive: the same with one artifact, one worker pair, one deriver; as many failures as
  retries. With more the code gives up by design.
- IngestSafety: two ingesters, two messages of which one is known to the newer version only,
  fork and boundary records, Codex's adapter, files of up to two lines written twice (719
  thousand states with symmetry), two attempts (a third starts over knowing no more than the
  second), one kind of citation that comes and goes, ledgers empty or inherited. Two writes let a
  file be read, changed and put back while one ingest is under way, and the other ingester complete
  several ingests in between, each before or after the upgrade; they suffice for disagreement 18.
  Kills are left to IngestLive: before its transaction an
  ingester has changed nothing, so being killed takes the ledger nowhere new.
- IngestLive: one ingester, both adapters, one kill. Two processes add the freezes of section 7,
  which end in `IsFrozen`, and disagreement 18, after which a file at rest may be skipped for good.
- PresenceFile: two sessions, three activities, two starts: a late writer of either thread, over
  a restart, with a session that expired and came back. PresenceView: two daemons with one change
  each, a clock of two readings (what matters is which of two came first), one tick or one change
  of the running daemon in all.
- SourceReader: two threads, a JSONL file, a SQLite file and one thread of the T3 database, a
  cache and an evidence of one entry (so that each evicts the other), two attempts, three calls,
  one change, one eviction of the monitor. Two calls and a verification are the least for one to
  be told another's text, and one change is enough for disagreement 20. The three properties are
  proved for any bounds (section 6).
- OwnerReview: two sessions (a batch may hold both) of two positions, one text or none at each,
  one message of context, one change, one reset, two batches, two different results of the
  review. With two changes (5.4 million states) and with two resets (2.1 million) the properties
  hold as well; those take longer than a regular run should. OwnerReviewLost has two changes and
  one result.
- WindowLayers: two texts, two values of the rest of the digest, a session of at most two
  exchanges (a repetition, or two texts), one derive at a time, one extraction run and the owner,
  two ingests and two labels (4.9 million states with symmetry). Two ingests take the digest away
  and back. With two derives that overlap (the daemon's and the command line's) `FreshIsFresh`
  fails at these bounds, see disagreement 10.

Symmetry (threads of a kind, artifacts, the two ingesters, texts of windows, values of the
rest of the digest) is used only in runs that check
invariants and action properties, never with liveness.

## 5. Fairness

`WatchDaemon!Fairness` is weak fairness of each thread's next step: the observer's and poll
loop's, the debouncer's, each worker's and deriver's, and stop()'s. All are operating system
threads that block only on locks held for a few statements, or on the write lock, which its holder
lets go (`WriteLock!HolderLetsGo`). Changes of the sources, failures and the stop request are owed
to nobody. `WriteLock!LockFairSpec` adds that a run reaches its `finally` clause
(`SF_vars(Close(c))`: the run may issue any number of statements before, but not for ever); a
connection that waits for the lock owes nothing. `TranscriptIngest!FairSpec` is weak fairness of
each ingester: every change of a file asks for an ingest and a failed one is retried, which is
what `WatchDaemon!NotedIsIngested` and `NotedAccounted` are about; writes, releases, citations and
kills are not fair, so a file may rest at any point. `PresenceFile!Fairness`: the threads that
write go on, the heartbeat comes again, and its replacement of the file does not fail for ever
(strong: it fails between). `PresenceView!Fairness`: a daemon that runs writes again and again,
the generator and the timers go on, a lost connection is noticed; building a payload, a frame and
an answer succeed now and then (strong, since each may fail any number of times before); nothing
else, in particular no connection and no daemon. SourceReader, OwnerReview and WindowLayers are
about safety only: a caller, an owner and a derive owe nothing. `Debouncer` has no liveness: its
clock turns "eventually" into `BoundedWait`.

## 6. Proofs

**WatchParts_proofs** holds the proofs of two small modules.

- Debouncer, for any keys, pinging threads, delays, periods and lags, from `TimeAssumption` (they
  are numbers) and `NoneAssumption`. Neither property is inductive. `WaitIsBounded` needs to know
  when the loop last looked: `LoopOnTime` says that its last drain is at most a period and a lag
  old, `Waited` that a key still waiting had not reached the end of its wait at that drain.
  `NothingFiresEarly` needs `Postponed`, a deadline is a quiet period after the latest ping: up to
  the lag, since a ping that was read earlier may be written later (`PingOnTime` bounds by how
  much), or the end of the wait. `SameKeys`: the two dictionaries have the same keys.
- WriteLock, for any set of connections, from `Nobody \notin Conn` only. `TransactionHoldsLock` is
  not inductive: nothing in it says that a connection about to run a write owns the lock, or that
  the flag `_owns_write_lock` and the lock agree. `LockInv` adds, per connection (`Consistent`):
  the flag says who holds the lock; an open transaction has the flag; the flag without a
  transaction only inside a call; a statement that may open a transaction runs with the flag.
  Each action disturbs one connection, and the lock only when it is free or its own. Theorems:
  `LockInvariance`, `OwnerSafety`, `TransactionSafety`, `LeakFreedom`.

**WatchDaemon_proofs**, for any harnesses, artifacts, threads and bounds, from the assumptions
named in the module (`None` is no harness and no thread, a path is accepted or not,
`MaxRetries` is positive). The safety properties of watch_safety are all theorems. Some are
inductive together (`RequestHasWorker`, `OneIngestPerHarness`), others not at all, and `IInv`
says why they hold:

- who is registered: a worker that is not idle knows its harness (`HasHarness`); the registry
  names only such workers (`Registered`), and every worker up to its last look at the reschedule
  set is named (`OneIngestPerHarness`). With the first two, a thread that leaves cannot take the
  registration, or the reschedule flag, of its successor with it.
- who holds windows: a worker only while it ingests or reports (`HoldsWindows`), the derive
  thread only between taking and finishing (`BatchTaken`, `OneDeriver`); so every action that
  lets go of windows has them in hand, and `WindowsAccounted` follows each.
- who looks at waiting paths: `NoLostWakeup` allows paths whose retries are spent to wait for the
  next event, but a retry count above the bound is lowered when a run completes. `PathsWaited`
  is the stronger fact: paths are parked (`Parked`) only while no run of their harness is under
  way; what is noted during a run has a signal of its own (`Signalled`).
- what a run owes: `NotedAccounted` says a noted change is in some worker's scope, which a run
  that completes leaves; `NotedHeld` says that worker has still to ingest it, or has failed and
  will put it back (`Owes`). Both except the paths in `lost`: a change stays `noted` when the worker
  that took it dies canonicalising, and only an ingest of its artifact, which nobody owes it any
  more, settles it (disagreement 17).
- `Quiet`: after stop() the registries are empty and stay so, since `_schedule_ingest` refuses.

One lemma per group of conjuncts (`WorkersInv`, `DeriversInv`, `QuietInv`, `RequestsInv`,
`WindowsInv`, `PathsInv`, `NotedInv`), each by actions; `StartShape` and `RequeueShape` say once
what asking for a run and failing one do. `SingleFlightSteps`: the steps of the threads are steps
of `SingleFlight` for every harness, provided canonicalising does not raise (`~ResolveRaises`): a
worker that dies there has withdrawn the request without a run. watch_live checks `Coalesces`, its
liveness included, under the same condition.

**TranscriptIngest_proofs**, for any set of ingesters, any records, any citations, any bounds,
and any parser: `Parse` is never expanded, so what is proved depends only on its being a
function of the adapter, the version and the lines. Assumptions: those named in the module
(distinct records, `None` not a row and not a mode, the bounds are numbers).

- `Invariance` (`Spec => []IInv`). `NothingSkipped` is about rows, and what an ingester writes
  into them it read several steps earlier. `IInv` says what it may rely on at each point:
  `KnowsFile` (if the file's revision is still that of the job, the file's lines are those read;
  from the fingerprint on, the recorded hash is what was parsed, not what the file is by now) and
  `KnowsLedger` (which storage it saw, what it may conclude from it: a legacy session that is not
  being promoted holds what was parsed; an upgrade that is said to change nothing changes
  nothing). The second speaks of the ledger as it is NOW, which another ingester may have moved:
  it survives because the other one could only have extended a source-backed session, promoted a
  legacy one, frozen it, or upgraded it. Of an upgrade that found nothing to change, `KnowsLedger`
  says only that what is stored is what it parsed WHILE the checkpoint is the one it decided on
  (`art = j.art`); when it is not, `SaveExact` sets `overtaken`. Checkpoints are not mistaken for
  each other because every commit leaves a row of the installed version, and an upgrade was decided
  on one of an older version (`OneVersion`: before the release no row is of the newer). One lemma
  per action; `ContinueIInv` serves all those that leave the ledger alone, `CommitIInv` the four
  ways to save.
- `NothingIsSkipped`, `WindowsAlwaysFollow`: consequences of `IInv`; the first has the exception
  `overtaken`, the second none.
- `SkippingIsHonest`. A file is skipped because its size and time are those recorded, and that
  says something only through `CheckpointCovers`: a recorded revision is not of the future, and at
  that revision the file is what the recorded hash is of. Every way to save keeps this, since
  `KnowsFile` says the same of what is about to be recorded; what is stored is then
  `NothingSkipped`, with its exception. A frozen upgrade is skipped by the record of the freeze,
  of which `FreezeStands` says that its session is frozen as long as the record is there.
- `Refinement` (`Spec => TranscriptLedger!Spec`, under the mapping of `Ledger`): only `Promote`,
  `RewriteForUpgrade` and `Save` change the stored messages. The first needs the continuation
  status taken again inside the transaction, the second the citations looked at again there, the
  third the prefix comparison; a legacy `Save` changes nothing.

**PresenceFile_proofs**, for any sessions, activities and starts of the daemon, from `FileBounds`
(the bounds are numbers).

- `NumbersMeanContents`. `CopyOK` is the relation of a copy of the map to the map: no newer,
  and equal when its number is the map's. It holds of every list a thread has in hand
  (`WriterOK`) and of the file (`FileOK`), and every change keeps it because a change of the
  map moves the number in the same critical section (`ExpireMoves`, `NoteMoves`, `CopyKept`).
- `Refinement` (`Spec => PresenceLog!LogSpec`, under the mapping of `Log`): listing, labelling and
  failing to write are stutters, a replacement is `LogWrite`, of a heartbeat that expires something
  `LogWriteAndChange`. The bound on generations of `PresenceLog` is met because a session expires
  once per activity noted of it (`GenerationsBounded`, which counts the sessions still listed).

**PresenceView_proofs**, for any number of daemons, changes and readings of the clock, from
`ClockBound` (the bounds are numbers) and `NoVersion`.

- `TimerIsArmed`. One lemma per operation of the scheduler (`SetConnectedArms`, `SetRecoveryArms`,
  `TimerFiresArms`, `PullSettlesKeeps`), stated of a scheduler in any state and without the rest of
  the system: each leaves the timer armed exactly if the fallback is active, and the lemmas
  about `RequestPull`, `ClearTimer` and `ScheduleFallback` say what each touches.
- `DaemonsDoNotReturn`. The client compares clock readings of the API, not of daemons, so what must
  be shown is that a payload of an earlier epoch cannot carry a late reading. `Ordered`: once an
  epoch is to be seen anywhere (`Sighted`: in the file, on its way, on the dashboard), every
  payload built from an earlier one has read the clock before the later epoch first wrote; this
  survives because `live_payload` is built after the clock is read, and needs `Timed` (no reading
  is of the future) when a new daemon writes. The property then follows from `Accepts` alone.
- `OnlyObserves` (`Spec => LogSpec`): with PresenceFile's `Refinement`, the way from the map to
  the dashboard is one specification. `TypeCorrectness` takes `SchedOK` along.

**OwnerReview_proofs**, for any sessions, texts, results and bounds, from the assumptions named in
the module (sessions and lengths are numbers). What the run owner_review checks is proved in full:

- `EvidenceAlwaysStands`. An import checks its quotes before its SAVEPOINT, and a parser upgrade
  may come in between; `EvidenceStands` alone is not inductive. `QuotesStand` adds that a quote of
  an import under way stands until one of its batches is blocked: while none is, the batch it
  comes from is prepared or imported, which is what the guard of upgrades looks at, and
  once one is, the second look inside the SAVEPOINT refuses the import.
- `NoMessageIsSkipped`. `BatchOK` says what batches have to do with rows: one generation per
  session, a row for every new message, blocked only after a reset of a session in it.
  `RowsInBatches` is the way back. A new message is in some group of the export (`GroupsCover`,
  which needs a greatest start before it, lemma `Greatest`); a batch on record cannot be that
  group, or the message would have a row and not be new. A message with a row is compared with
  it, and if its batch is blocked, then because another session was reset.
- `SealsCoverTheirBatch`, inductive given the types.

**SourceReader_proofs**, for any threads, keys, capacities and bounds, from `CapacityAssumption`
(the capacities and the number of attempts are positive) and `KeyAssumption` (a key is read as a
whole or is a thread of the database, not both).

- `NobodyWaitsInVain`. A thread that waits has no timeout: the event of its flight must be set.
  `FlightOwned`: a flight is owned by a thread that is reading its key (`Reading` lists the steps
  before its answer). `Awaited`: who waits, waits for a flight. A read ends by `FinishFlight` in
  six actions, one lemma for all (`FinishFlightIInv`); every other step of a read
  keeps the owner and its key (`GoesOn`); a woken waiter and a verification own nothing. `Calls`
  says only that a call is a record.

- `ReadsAreSound` (`Spec => []RInv`), from which `AnswersAreFresh`, `VerificationIsHonest` and
  `TypeCorrectness` follow. A whole artifact is hashed again by every call. A thread of the
  database is not: a cached parse is answered with if the monitor observes what it observed then.
  Why that is right: while the monitor has not been closed, an observation that somebody holds is
  `Known` to it (of this file or an earlier one, and not ahead of it); it `Matches` only if the
  monitor would observe the same now; and a step that commits, or replaces the file, makes every
  known observation stop matching for good. `Was` is what a parse is worth by that: if its
  observation matches, its text is the text of now. `Sound` adds that its revision is its text's
  and not of the future, and of a whole artifact that its hash is its text's unless the key has
  `slipped`: of a JSONL file because `Stable` compares them, of a SQLite file because only a
  commit that left the stamp can come between the parse and its hash (`HeldStays`). `Onward` puts
  this in one formula about a step: texts get newer, known observations stay known, one that
  matches afterwards matched before and no text changed. It is proved once per way to move the
  source or the monitor (`HarnessOnward`, `EvictOnward`, `GetMonitorOnward`, `ObserveOnward`), and
  `CallStays`, `SoundStays` carry all that calls and the cache rely on over any such step. What
  remains for an action is what it does to its own call.
- `JobOK` says per step what a call relies on: a revision read before the text bounds it from one
  side, the one read after from the other (`"scan"`, `"after"`), and only their equality makes
  the parse `Sound`. Of a verification: every key is `Settled`, its answer was not older than the
  beginning, or the evidence copied of it is still to be looked at and has that text. `StoreOK`
  says that there is such evidence, unless something was forgotten and `overflow` is set; this is
  where `Record` must not lose anything silently, and where `kept` is needed (disagreement 16).
- `Reopened` is the way out for the keys of a database whose monitor was evicted: nothing in the
  code relates the data versions of two connections (disagreement 15). `Misled` is this and
  `slipped` (disagreement 20), the two exceptions of the properties about answers. TLC checked
  `RInv` as an invariant before it was proved, with two changes of the sources.

**WindowLayers_proofs**, for any texts, sessions, derivers, runs and bounds, from
`OwnerAssumption` (the owner is neither an extraction run nor a deriver).

- `VerdictsStay`, `LinksFollowTexts`. Refreshing is three statements over the whole table;
  `OneByOne` makes them one function of one label, `Refreshed` says what it does. Neither
  property is provable of labels as such: a label may carry the window it was asked about, another
  one with the same text, or, when it arrived for a window that was gone, an identifier in place
  of a hash. `SameText` says all of these name one text, and `AnswerNames` the same of an answer
  looked up before its transaction.
- `FreshnessIsHonest`, under `OneDeriver`: there are no two derives at a time, which is true of
  the daemon (`WatchDaemon!OneDeriver`, a part of the `Invariance` proved there) and false as soon
  as the command line derives beside it; the property is then false (disagreement 10). The health
  endpoint compares digests, and a digest may come back, so the invariant does not speak of the
  session as it is: `MarkedIsCurrent` says that while the watermark is of everything, each
  classification has the watermark's digest or is among `unmarked`, and `DeriveTypes` that
  what it was made from has the digest recorded with it. `KnowsSession`: once it has loaded, a
  derive that was not dirtied has the session as it is in hand, and once it has checked, as it was
  at its first look. `Outstanding`: what is not among the targets of a full run has the expected
  digest already, and after its transaction everything has. None of this is disturbed by an ingest,
  which only takes classifications away, wherever it takes the session; fresh is then what has the
  digest of the watermark, and so of the session, whatever it was in between.

Only model-checked: all liveness (both `Converges`, `NotedIsIngested`, `CommittedIsDerived`,
`StopCompletes`, `HolderLetsGo`, the liveness in `Coalesces`, `FileSettles`), and what `ParseBy`
computes. All safety properties that the passing runs check are theorems, `FreshIsFresh` for one
deriver and `Coalesces` as far as single steps go. The type invariant of TranscriptIngest is not
proved: its messages are sequences because `Parse`, which filters sequences, returns some, and of
`SelectSeq` the provers know nothing; that of Debouncer is proved with wider ranges (`Types`). The
type invariants that no run lists hold too, and so do the invariants of the proof modules that no
run lists (`Calls` of SourceReader quantifies over every set and is left to the prover); TLC
checked them beside the regular runs.

## 7. Disagreements found

The first is the counterexample of the run owner_lost and is quoted in `PROJECT.json`
("findings"). Numbers 2 to 7, 16 and 18 to 20, and the second half of 10, were counterexamples of
TLC too, of a property without its exception or under bounds a little different from those of
section 4; the others come from reading the code for the model. No regular run checks 2 to 20.

1. **A reset hides another session's messages.** A prepared batch holds new messages of two
   sessions. Resetting one blocks the batch (`owner_notes.py:425`); the other's messages keep
   their rows, are never new again, and their batch can be neither resumed nor imported. The
   extract then says that every selected message is already imported (`cli.py:585`).
   `NothingIsSkipped` makes this its one exception (`Collateral`).
2. **Catch-up.** `docs/operations.md:74` promises that catch-up fills the gap of a downtime
   without waiting for a new event. A catch-up request is one more call of `_schedule_ingest`;
   whoever starts takes the pending paths as its scope (`daemon.py:475`). Two events around the
   start turn both the run and its rerun into scoped ones, and what was missed stays missing
   until its file changes.
3. **Empty scope.** `daemon.py:516` reserves the empty scope for catch-up and retries. A path
   noted while a worker runs is taken by the rerun; the debounced signal of the same path then
   starts a run that finds nothing pending and discovers everything. Costly, not harmful.
4. **Half a failure.** One artifact of a run fails after another was committed
   (`daemon.py:558`). The windows of the committed one are not reported; the retry skips it as
   unchanged; no derive is ever asked for them ("Watchers pass the exact windows changed by an
   ingest", `derive.py:243`).
5. **Starved derive.** Any commit of another connection makes a derive start over; four in a
   row, one per attempt, and the windows are dropped (`daemon.py:653`), without any failure.
6. **Aborted ingest.** The daemon and a command line ingest a legacy session that went on. The
   slower one finds it promoted, its append does not fit, and the handler that marks it frozen
   (`pipeline.py:452`) tries to change the artifact's storage, which raises out of
   `ingest_harness`: the artifacts after it are not ingested ("keep ingest going",
   `pipeline.py:456`).
7. **Stale freeze.** The same race over a source-backed session marks it `frozen_diverged`
   (`pipeline.py:1144`). The next ingest reads it normally and leaves the mark. 6 and 7 need two
   ingesting processes. Nothing in the code excludes them: the write lock is the daemon's own,
   and `agentlog ingest` opens its own connection.
8. **A session that left the selection.** `_detect_missing_messages` (`owner_notes.py:379`)
   takes a reviewed session that the visible projection no longer shows (merged, shadowed) for a
   rewritten one, and every extract without a selection fails until it is reset.
9. **Late facts.** The outcome of a tool call, or a new prompt, changes the digest of a prepared
   batch; every later extract then ends with "prepared owner insight batch provenance changed"
   (`owner_notes.py:645`), for all sessions of its selection. A batch of context only that was
   already imported is offered again, and an import with other results is refused. After a reset
   of one session, the other's rows of the blocked batch still refuse parser upgrades.
   `upsert_claims` keeps `approved` while it replaces a claim's content and evidence
   (`claims/store.py`).
10. **Fresh but not.** A derive restricted to some windows writes the fingerprint of the whole
   corpus (`derive.py:256`): windows it left stale pass for fresh (`derived_freshness`), while
   `tests/test_derive.py:112` expects the opposite of a corpus whose other windows have no
   classification at all. `FreshIsFresh` excepts such runs. Two derives that overlap are another
   way: one classifies at one digest, a reread sets `sessions.model`, the other classifies at the
   second digest, the model is set back, and the first writes its watermark over classifications
   it has not made.
11. **Nothing to derive after an upgrade.** A parser upgrade deletes all windows of a session
   first, and with them their classifications (CASCADE); the windows it writes have the same
   identifiers where texts are the same, so `changed_window_ids` (`pipeline.py:1174`, a symmetric
   difference) does not name them and the daemon never asks for them.
12. **Labels that refuse an ingest.** Two labels of one run (or two adjudications) on two
   occurrences of the same text, of which an upgrade leaves one: relinking gives both the same
   window, the UNIQUE constraint refuses, and the artifact is not ingested, at every retry.
   `Replace` has this refusal as its guard (`Clash`). The text at `adjudication.py:1040` says
   "re-ingest upserts windows and re-links labels instead of CASCADE-deleting them".
13. **A label for a window that is gone** keeps the window's identifier for a content hash
   (`storage.py:220`); when that was a second occurrence, no window has such a content hash and
   the label is relinked only if that very window returns.
14. **One unreadable transcript** makes an unrestricted derive raise for every session
   (`window_context.py:85`).
15. **Targeted reads.** `source_reader.py:622` says "Reuse a target cache until the shared SQLite
   artifact commits again". A monitor that was evicted (more databases than `max_entries`) is
   opened again with a connection whose data versions start anew, and an old observation may equal
   a new one. `FreshRead` and `VerifiedIsCurrent` except the database's keys after an eviction
   (`Reopened`).
16. **Evidence of an older read.** The evidence kept for a key is that of the last read of it, by
   any thread, and `_refresh_verification` (`source_reader.py:275`) writes what a verification
   copied earlier over what a read recorded since. A reader that waited for a flight publishes
   the older text it was handed while a verification goes through the newer one's evidence; the
   next verification says yes, though the last answer was the older text. `verify_current`
   promises "every source used by this operation" (`source_reader.py:322`). `VerifiedIsCurrent`
   excepts an answer whose evidence was overwritten with another text (`kept`); without the
   exception TLC finds this with five calls and two commits of the database. Where the code
   calls `verify_current`, the reader belongs to one operation and one thread; the reader the API
   shares (`api/app.py:118`) is never asked.
17. **Changes lost with a worker.** `_run_ingest` takes the pending paths and canonicalises them
   before its `try` (`daemon.py:478`). When that raises, the thread ends with the paths it took,
   without a retry or a requeue, and with the reschedule flag: the changes were delivered and are
   forgotten until the file changes once more or a catch-up finds it. `NotedAccounted` and
   `NotedHeld` except exactly these paths (`lost`), the properties about requests their harness
   (`stranded`).
18. **An upgrade without changes, beside another process.** Whether an upgrade leaves the content
   as it is is decided outside the transaction (`pipeline.py:940`), and the branch that then moves
   the checkpoint (`pipeline.py:1024`) does not look at what is stored. A file of two records, the
   second known to the newer parser only; one message is stored. The release is installed. The
   daemon has read the file, decided to rewrite the session and looked at the file a last time; the
   harness cuts the second record off; the command line decides on the same old row, reads one
   record, finds that it parses to what is stored; the daemon commits two messages; the command
   line moves the checkpoint to the file of one record. The next ingest skips the file as unchanged,
   with a message in the ledger that is not in it; or an append starts from a checkpoint that does
   not cover what is stored.
   `NothingSkipped` and `SkipIsHonest` except exactly such a checkpoint (`overtaken`); without the
   exception TLC finds both violated at the bounds of ingest_safety.
19. **Fresh after a crash.** `run_derive` commits classifications and the watermark apart
   (`derive.py:247`, `derive.py:270`). Derived and marked at one value of `sessions.model`; a
   reread sets another (`repository.py:798`), which is part of the digest and keeps the windows; a
   derive classifies at it and stops before its watermark; a reread sets the model back. The digest
   is the watermark's, every window has a classification, and `derived_freshness` says fresh of
   classifications made from the other value. `FreshIsFresh` excepts the windows that were
   classified so (`unmarked`).
20. **A hash that is not of the text.** `_parse_current` hashes the file after the parse and
   holds that against what it parsed, except for SQLite files (`source_reader.py:512`), of which
   only two stamps say that nothing came between. The stamp is the size and modification time of the
   file and its log (`ingest/base.py:60`); a commit that overwrites frames of the log within one
   tick of the clock leaves it. The parse is then cached under the hash of the later text, and every
   later call takes it for current. `FreshRead` and `VerifiedIsCurrent` except the keys of such
   files (`slipped`); without the exception TLC finds both violated at the bounds of source_reader.

## 8. What is not modelled

- The contents of transcripts beyond what section 2 names: token and tool rows, model names,
  redaction, session links, titles. None of them decides whether a checkpoint moves.
- In TranscriptIngest: SQLite and composite sources (whole rereads without an offset), several
  artifacts of one session (Cursor), the attention backfill. Planned.
- In WatchDaemon: how a path is mapped to an artifact (a path is accepted or not), the polling
  snapshots that notice a change (noticing one is `NoteChange`), logging, the bounded
  joins of stop() (which raises when they run out; `StopReturns` is the return without raising).
- In the presence modules: how the tail of a transcript is classified, the merge of the file with
  the scan of the disk, the ingest events that share the stream, the one-shot cues of the client.
- In SourceReader: the cache's budget in bytes, `close`, a checkpoint that moves (section 2).
- In OwnerReview: redaction, the proposals an import may add and the files they target, the
  written export (when it cannot be written the command rolls its preparation back).
- In WindowLayers: the skill inventory that is part of the fingerprint, the rules of the
  classification, restoring labels from a backup, the publication of extraction runs and the
  metrics computed from labels; more than one session; two derives at a time (section 4, and
  disagreement 10).
- SQLite itself: transactions are atomic, isolated and serialized among writers; busy timeouts
  appear as failures.
- Parts with status `not_modelled` in `PROJECT.json`, each with its reason: either planned below,
  or stateless text processing, arithmetic, or I/O wrappers. Most of the code is of this kind
  (the coach, the packets and prompts of the extractions, the queries of the API, the CLI, the
  views of the client), which bounds what share of it a model can stand for.

## 9. Plan

Done: the ways to lose or falsify stored data, what readers see of the daemon and of the
sources, the owner's review and the layers derived from windows (sections 2 to 7), and the
proofs of section 6. To prove: what the abstract specifications (SingleFlight, TranscriptLedger,
PresenceLog) promise by themselves, so that it holds of every implementation; that a label's
window is one of its text also between ingests.

To model:

1. OverviewCache (overview_cache.py): the revision is read before a build and after it; waiters
   take the result of a build begun before they asked. Promise: no entry is served under a
   revision it was not built for.
2. TranscriptIngest extended: sources without byte append, several artifacts of one session;
   composition with WatchDaemon (its `CommitArtifact` is one ingest here).
3. Proposals (claims/store.py, proposals.py): refresh against the owner's decisions. All of it
   is under BEGIN IMMEDIATE or a lock with the checks repeated inside; what is left to ask is
   about long sequences, such as a pending proposal whose claim was superseded by a rewording.
4. SessionIdentity (session_identity.py, cursor_merge.py): owners propagated along parent links
   in any order against reachability; merges.
5. Migrations (db/migrations/): a kill between any two commits, two processes opening.
6. Experiments (performance/experiments.py): assignment once.

Bounds will follow section 4: two of everything that interferes, one fault more than the code
retries where the giving up is of interest.
