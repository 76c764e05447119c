---------------------------- MODULE WatchDaemon -----------------------------
(***************************************************************************)
(* The scheduling core of the watch daemon (watch/daemon.py): filesystem   *)
(* events become pending paths, a debounced signal per harness starts or   *)
(* coalesces into one ingest worker, a worker takes the pending paths,     *)
(* commits what it ingested artifact by artifact, retries on failure, and  *)
(* hands the changed windows to a single derive worker.  The observer, the *)
(* poll loop, the debouncer, the start-up catch-up, the ingest workers and *)
(* the derive workers are threads; an action is what one of them does      *)
(* between two points where another can interleave.                        *)
(*                                                                         *)
(* The debounce delay is abstracted: a signal may fire at any moment after *)
(* its ping.  Debouncer has the clock.                                     *)
(***************************************************************************)
EXTENDS Naturals, FiniteSets

CONSTANTS
  Harness,     \* the configured harnesses (one WatchSource each)
  File,        \* the artifacts of a harness that its adapter accepts
  Noise,       \* paths under a root that the adapter does not accept
  Noter,       \* threads that deliver changes: the observer, the poll loop
  Worker,      \* ingest threads
  Deriver,     \* derive threads
  None,
  MaxRetries,  \* _MAX_INGEST_RETRIES (3 in the code)
  MaxChanges,  \* bound: how often the sources change
  MaxFaults,   \* bound: how many ingest or derive steps fail
  ResolveRaises, \* may canonicalising the paths raise (an unresolvable path)?
  MayStop      \* is the daemon ever asked to stop?

Path == File \cup Noise

ASSUME HarnessAssumption == Harness # {} /\ None \notin Harness
ASSUME PathAssumption == File \cap Noise = {}
ASSUME ThreadAssumption == None \notin Worker \cup Deriver
ASSUME RetryAssumption == MaxRetries \in Nat \ {0}
ASSUME BoundAssumption == MaxChanges \in Nat /\ MaxFaults \in Nat
ASSUME SwitchAssumption == ResolveRaises \in BOOLEAN /\ MayStop \in BOOLEAN

VARIABLES
  \* the world
  behind,      \* [Harness -> SUBSET File]: the ledger neither has the content of
               \*   these nor says that it refused it
  underived,   \* [Harness -> SUBSET File]: their committed windows not derived
  events,      \* [Harness -> SUBSET Path]: changes seen, not yet delivered
  moved,       \* another connection committed since the derive's baseline
  changes,     \* number of source changes so far
  faults,      \* number of failures so far
  \* the daemon
  stop,              \* self._stop
  stopped,           \* stop() has returned without raising
  noting,            \* [Noter -> Harness \cup {None}]: path added, ping owed
  changed_paths,     \* [Harness -> SUBSET Path]: self._changed_paths
  retry_counts,      \* [Harness -> 0 .. MaxRetries + 1]: self._retry_counts
  pinged,            \* SUBSET Harness: keys of the debouncer's _deadlines
  firing,            \* SUBSET Harness: drained, on_fire not yet called
  catchup,           \* SUBSET Harness: start-up catch-up still to schedule
  ingest_threads,    \* [Harness -> Worker \cup {None}]
  ingest_reschedule, \* SUBSET Harness
  pc,                \* [Worker -> ...]: where an ingest thread is
  job,               \* [Worker -> ...]: its local variables
  derive_thread,     \* Deriver \cup {None}: self._derive_thread
  derive_pending,    \* [Harness -> SUBSET File]: _derive_pending_window_ids
  derive_retry_count,
  dpc,               \* [Deriver -> ...]: where a derive thread is
  batch,             \* [Harness -> SUBSET File]: what the derive thread took
  \* history
  noted,       \* [Harness -> SUBSET File]: delivered and not ingested since
  lost,        \* [Harness -> SUBSET File]: those of noted a dying worker took
  unserved,    \* SUBSET Harness: a run was asked for and none started since
  catching,    \* SUBSET Harness: its catch-up was asked for and has not started
  stranded,    \* SUBSET Harness: a dying worker took the reschedule with it
  dropped      \* [Harness -> SUBSET File]: windows given up, by design

world  == <<behind, underived, moved, events, changes, faults>>
queue  == <<changed_paths, retry_counts>>
signal == <<noting, pinged, firing, catchup>>
ingest == <<ingest_threads, ingest_reschedule, pc, job>>
derive == <<derive_thread, derive_pending, derive_retry_count, dpc, batch>>
life   == <<stop, stopped>>
ghosts == <<noted, lost, unserved, catching, stranded, dropped>>

vars == <<world, queue, signal, ingest, derive, life, ghosts>>

Nothing == [h \in Harness |-> {}]
Empty(s) == s = Nothing
Merge(s, t) == [h \in Harness |-> s[h] \cup t[h]]
Minus(s, t) == [h \in Harness |-> s[h] \ t[h]]

Job == [harness: Harness \cup {None}, scope: SUBSET File, full: BOOLEAN,
        todo: SUBSET File, failed: BOOLEAN, windows: SUBSET File]

NoJob == [harness |-> None, scope |-> {}, full |-> FALSE, todo |-> {},
          failed |-> FALSE, windows |-> {}]

WorkerPc == {"idle", "begin", "ingest", "ping", "outcome", "check", "exit"}
Active   == WorkerPc \ {"idle", "exit"}
Running  == Active \ {"begin"}

\* The daemon's tables hold harnesses, paths and threads of their kinds, and the
\* retry counters stay within what _requeue_changed and _derive_worker allow.
TypeOK ==
  /\ behind \in [Harness -> SUBSET File]
  /\ underived \in [Harness -> SUBSET File]
  /\ events \in [Harness -> SUBSET Path]
  /\ moved \in BOOLEAN
  /\ changes \in 0 .. MaxChanges
  /\ faults \in 0 .. MaxFaults
  /\ stop \in BOOLEAN /\ stopped \in BOOLEAN
  /\ noting \in [Noter -> Harness \cup {None}]
  /\ changed_paths \in [Harness -> SUBSET Path]
  /\ retry_counts \in [Harness -> 0 .. MaxRetries + 1]
  /\ pinged \subseteq Harness /\ firing \subseteq Harness
  /\ catchup \subseteq Harness
  /\ ingest_threads \in [Harness -> Worker \cup {None}]
  /\ ingest_reschedule \subseteq Harness
  /\ pc \in [Worker -> WorkerPc] /\ job \in [Worker -> Job]
  /\ derive_thread \in Deriver \cup {None}
  /\ derive_pending \in [Harness -> SUBSET File]
  /\ derive_retry_count \in 0 .. MaxRetries
  /\ dpc \in [Deriver -> {"idle", "take", "run", "exit"}]
  /\ batch \in [Harness -> SUBSET File]
  /\ noted \in [Harness -> SUBSET File] /\ lost \in [Harness -> SUBSET File]
  /\ unserved \subseteq Harness /\ catching \subseteq Harness
  /\ stranded \subseteq Harness
  /\ dropped \in [Harness -> SUBSET File]

\* The daemon starts over a ledger that may miss anything the sources gained
\* while it was down, and whose last windows may not have been derived.
Init ==
  /\ behind \in [Harness -> SUBSET File]
  /\ underived = Nothing /\ moved = FALSE
  /\ events = Nothing /\ changes = 0 /\ faults = 0
  /\ stop = FALSE /\ stopped = FALSE
  /\ noting = [n \in Noter |-> None]
  /\ changed_paths = Nothing
  /\ retry_counts = [h \in Harness |-> 0]
  /\ pinged = {} /\ firing = {} /\ catchup = Harness
  /\ ingest_threads = [h \in Harness |-> None]
  /\ ingest_reschedule = {}
  /\ pc = [t \in Worker |-> "idle"] /\ job = [t \in Worker |-> NoJob]
  /\ derive_thread = None /\ derive_pending = Nothing
  /\ derive_retry_count = 0
  /\ dpc = [d \in Deriver |-> "idle"] /\ batch = Nothing
  /\ noted = Nothing /\ lost = Nothing /\ dropped = Nothing
  /\ unserved = {} /\ catching = {} /\ stranded = {}

-----------------------------------------------------------------------------
(* The world: a harness writes one of its artifacts, or a file the adapter *)
(* ignores changes under a watched root.                                   *)

SourceChange(h, p) ==
  /\ changes < MaxChanges
  /\ changes' = changes + 1
  /\ behind' = IF p \in File THEN [behind EXCEPT ![h] = @ \cup {p}] ELSE behind
  /\ events' = [events EXCEPT ![h] = @ \cup {p}]
  /\ UNCHANGED <<underived, moved, faults, queue, signal, ingest, derive, life,
                 ghosts>>

-----------------------------------------------------------------------------
(* The observer and the poll loop: _note_change.                           *)

\* The presence update changes nothing here; then, under _changed_lock, the
\* path joins the pending set and an exhausted retry budget is given back.
NoteChange(n, h, p) ==
  /\ ~stopped
  /\ noting[n] = None
  /\ p \in events[h]
  /\ events' = [events EXCEPT ![h] = @ \ {p}]
  /\ changed_paths' = [changed_paths EXCEPT ![h] = @ \cup {p}]
  /\ retry_counts' = [retry_counts EXCEPT ![h] = IF @ > MaxRetries THEN 0 ELSE @]
  /\ noting' = [noting EXCEPT ![n] = h]
  /\ noted' = [noted EXCEPT ![h] = @ \cup ({p} \cap File)]
  /\ lost' = [lost EXCEPT ![h] = @ \ {p}]
  /\ UNCHANGED <<behind, underived, moved, changes, faults, pinged, firing,
                 catchup, ingest, derive, life, unserved, catching, stranded,
                 dropped>>

\* ... and only after the lock is released does the same thread ping.
NotePing(n) ==
  /\ noting[n] # None
  /\ pinged' = pinged \cup {noting[n]}
  /\ noting' = [noting EXCEPT ![n] = None]
  /\ UNCHANGED <<world, queue, firing, catchup, ingest, derive, life, ghosts>>

-----------------------------------------------------------------------------
(* The debouncer's loop: drain_ready removes the keys that are due, then   *)
(* on_fire is called for each of them.                                     *)

Drain ==
  /\ ~stop /\ firing = {}
  /\ \E ready \in SUBSET pinged :
       /\ ready # {}
       /\ firing' = ready
       /\ pinged' = pinged \ ready
  /\ UNCHANGED <<world, queue, noting, catchup, ingest, derive, life, ghosts>>

StartWorker(h) ==
  \E t \in Worker :
    /\ pc[t] = "idle"
    /\ ingest_threads' = [ingest_threads EXCEPT ![h] = t]
    /\ pc' = [pc EXCEPT ![t] = "begin"]
    /\ job' = [job EXCEPT ![t] = [NoJob EXCEPT !.harness = h]]
    /\ UNCHANGED ingest_reschedule

\* Faulty: a second worker for a busy harness.
ScheduleIngestTwice(h) ==
  IF stop THEN UNCHANGED <<ingest, unserved>>
          ELSE unserved' = unserved \cup {h} /\ StartWorker(h)

\* Faulty: _stop is not looked at.
ScheduleIngestAfterStop(h) ==
  /\ unserved' = unserved \cup {h}
  /\ IF ingest_threads[h] # None
     THEN /\ ingest_reschedule' = ingest_reschedule \cup {h}
          /\ UNCHANGED <<ingest_threads, pc, job>>
     ELSE StartWorker(h)

\* _schedule_ingest(h): refuse after stop, coalesce into the registered
\* worker, or register and start a new one.
ScheduleIngest(h) ==
  IF stop
  THEN UNCHANGED <<ingest, unserved>>
  ELSE /\ unserved' = unserved \cup {h}
       /\ IF ingest_threads[h] # None
          THEN /\ ingest_reschedule' = ingest_reschedule \cup {h}
               /\ UNCHANGED <<ingest_threads, pc, job>>
          ELSE StartWorker(h)

Fire(h) ==
  /\ h \in firing
  /\ firing' = firing \ {h}
  /\ ScheduleIngest(h)
  /\ UNCHANGED <<world, queue, noting, pinged, catchup, derive, life, noted, lost,
                 catching, stranded, dropped>>

\* _catchup_ingest: one request per harness, none once stop is seen.
CatchUp(h) ==
  /\ h \in catchup
  /\ catchup' = IF stop THEN {} ELSE catchup \ {h}
  /\ catching' = IF stop THEN catching ELSE catching \cup {h}
  /\ ScheduleIngest(h)
  /\ UNCHANGED <<world, queue, noting, pinged, firing, derive, life, noted, lost,
                 stranded, dropped>>

-----------------------------------------------------------------------------
(* An ingest thread: _ingest_worker and _run_ingest.                       *)

\* The loop's own test of _stop: leave without touching the registry.
WorkerSeesStop(t) ==
  /\ pc[t] = "begin" /\ stop
  /\ pc' = [pc EXCEPT ![t] = "exit"]
  /\ UNCHANGED <<world, queue, signal, ingest_threads, ingest_reschedule, job,
                 derive, life, ghosts>>

\* _take_changed, then _canonical_changed_paths.  Paths of which none is
\* accepted end the run; no path at all means a discovery of everything.
Take(t) ==
  LET h   == job[t].harness
      raw == changed_paths[h]
      ok  == raw \cap File
  IN /\ pc[t] = "begin" /\ ~stop
     /\ changed_paths' = [changed_paths EXCEPT ![h] = {}]
     /\ unserved' = unserved \ {h}
     /\ catching' = catching \ {h}
     /\ IF raw # {} /\ ok = {}
        THEN /\ retry_counts' = [retry_counts EXCEPT ![h] = 0]
             /\ pc' = [pc EXCEPT ![t] = "check"]
             /\ UNCHANGED job
        ELSE /\ pc' = [pc EXCEPT ![t] = "ingest"]
             /\ job' = [job EXCEPT ![t] =
                  [harness |-> h, scope |-> ok, full |-> raw = {},
                   todo |-> IF raw = {} THEN File ELSE ok,
                   failed |-> FALSE, windows |-> {}]]
             /\ UNCHANGED retry_counts
     /\ UNCHANGED <<world, signal, ingest_threads, ingest_reschedule, derive,
                    life, noted, lost, stranded, dropped>>

\* An exception while canonicalising is outside the try: the thread dies with
\* the paths it took, which nobody puts back.
TakeRaises(t) ==
  /\ ResolveRaises /\ faults < MaxFaults
  /\ pc[t] = "begin" /\ ~stop
  /\ changed_paths[job[t].harness] # {}
  /\ faults' = faults + 1
  /\ lost' = [lost EXCEPT ![job[t].harness] =
                 @ \cup (noted[job[t].harness] \cap changed_paths[job[t].harness])]
  /\ changed_paths' = [changed_paths EXCEPT ![job[t].harness] = {}]
  /\ unserved' = unserved \ {job[t].harness}
  /\ catching' = catching \ {job[t].harness}
  /\ pc' = [pc EXCEPT ![t] = "exit"]
  /\ UNCHANGED <<behind, underived, moved, events, changes, retry_counts, signal,
                 ingest_threads, ingest_reschedule, job, derive, life, noted,
                 stranded, dropped>>

\* A commit moves PRAGMA data_version for a derive run that read it before.
LedgerWritten == moved' = (moved \/ \E d \in Deriver : dpc[d] = "run")

\* ingest_harness commits artifact by artifact; an artifact that did not change
\* is skipped.
CommitArtifact(t, f) ==
  LET h == job[t].harness
  IN /\ pc[t] = "ingest" /\ f \in job[t].todo
     /\ noted' = [noted EXCEPT ![h] = @ \ {f}]
     /\ lost' = [lost EXCEPT ![h] = @ \ {f}]
     /\ behind' = [behind EXCEPT ![h] = @ \ {f}]
     /\ IF f \in behind[h]
        THEN /\ underived' = [underived EXCEPT ![h] = @ \cup {f}]
             /\ job' = [job EXCEPT ![t].todo = @ \ {f}, ![t].windows = @ \cup {f}]
             /\ dropped' = [dropped EXCEPT ![h] = @ \ {f}]
             /\ LedgerWritten
        ELSE /\ job' = [job EXCEPT ![t].todo = @ \ {f}]
             /\ UNCHANGED <<underived, moved, dropped>>
     /\ UNCHANGED <<events, changes, faults, queue, signal, ingest_threads,
                    ingest_reschedule, pc, derive, life, unserved, catching,
                    stranded>>

\* A transcript that no longer continues what is stored, or a parser upgrade that
\* would change what is cited: the ledger records the refusal in a transaction of
\* its own, the artifact counts as skipped and reports no window.
FreezeArtifact(t, f) ==
  LET h == job[t].harness
  IN /\ pc[t] = "ingest" /\ f \in job[t].todo
     /\ noted' = [noted EXCEPT ![h] = @ \ {f}]
     /\ lost' = [lost EXCEPT ![h] = @ \ {f}]
     /\ behind' = [behind EXCEPT ![h] = @ \ {f}]
     /\ job' = [job EXCEPT ![t].todo = @ \ {f}]
     /\ LedgerWritten
     /\ UNCHANGED <<underived, events, changes, faults, queue, signal,
                    ingest_threads, ingest_reschedule, pc, derive, life,
                    unserved, catching, stranded, dropped>>

\* One artifact fails, is rolled back and counted in stats.failed; the rest go on.
FailArtifact(t, f) ==
  /\ pc[t] = "ingest" /\ f \in job[t].todo
  /\ faults < MaxFaults
  /\ faults' = faults + 1
  /\ job' = [job EXCEPT ![t].todo = @ \ {f}, ![t].failed = TRUE]
  /\ UNCHANGED <<behind, underived, moved, events, changes, queue, signal,
                 ingest_threads, ingest_reschedule, pc, derive, life, ghosts>>

\* What _requeue_changed puts back, how it counts, and whether it pings.
PutBack(t, attempts) ==
  LET h == job[t].harness
  IN /\ changed_paths' = [changed_paths EXCEPT ![h] = @ \cup job[t].scope]
     /\ retry_counts' = [retry_counts EXCEPT
                           ![h] = IF attempts > MaxRetries THEN MaxRetries + 1
                                                           ELSE attempts]

GiveUpWindows(t) ==
  /\ dropped' = [dropped EXCEPT ![job[t].harness] = @ \cup job[t].windows]
  /\ job' = [job EXCEPT ![t].windows = {}, ![t].todo = {}]

\* Faulty: the last retry is counted but not asked for.
RequeueOffByOne(t, attempts) ==
  /\ PutBack(t, attempts) /\ GiveUpWindows(t)
  /\ pc' = [pc EXCEPT ![t] = IF attempts < MaxRetries THEN "ping" ELSE "check"]

\* Faulty: the paths of the failed run are not put back.
RequeueForgets(t, attempts) ==
  /\ GiveUpWindows(t)
  /\ retry_counts' = [retry_counts EXCEPT ![job[t].harness] = 1]
  /\ pc' = [pc EXCEPT ![t] = "ping"]
  /\ UNCHANGED changed_paths

\* Faulty: a failed run waits for the next event.
RequeueSilently(t, attempts) ==
  /\ PutBack(t, attempts) /\ GiveUpWindows(t)
  /\ pc' = [pc EXCEPT ![t] = "check"]

\* _requeue_changed for the paths of a failed run: the windows that its other
\* artifacts committed are not reported to anyone.
Requeue(t, attempts) ==
  /\ PutBack(t, attempts) /\ GiveUpWindows(t)
  /\ pc' = [pc EXCEPT ![t] = IF attempts <= MaxRetries THEN "ping" ELSE "check"]

RunFailed(t) ==
  /\ pc[t] = "ingest" /\ job[t].todo = {} /\ job[t].failed
  /\ Requeue(t, retry_counts[job[t].harness] + 1)
  /\ UNCHANGED <<world, signal, ingest_threads, ingest_reschedule, derive, life,
                 noted, lost, unserved, catching,
                 stranded>>

\* The whole run raises: opening the ledger, a commit, the discovery.
RunRaises(t) ==
  /\ pc[t] = "ingest" /\ job[t].todo # {} /\ faults < MaxFaults
  /\ faults' = faults + 1
  /\ Requeue(t, retry_counts[job[t].harness] + 1)
  /\ UNCHANGED <<behind, underived, moved, events, changes, signal, ingest_threads,
                 ingest_reschedule, derive, life, noted, lost, unserved, catching,
                 stranded>>

\* All artifacts succeeded, the retries were cleared, and recording the event
\* raises: the except clause requeues the scope all the same.
RecordEventRaises(t) ==
  /\ pc[t] = "ingest" /\ job[t].todo = {} /\ ~job[t].failed
  /\ faults < MaxFaults
  /\ faults' = faults + 1
  /\ Requeue(t, 1)
  /\ UNCHANGED <<behind, underived, moved, events, changes, signal, ingest_threads,
                 ingest_reschedule, derive, life, noted, lost, unserved, catching,
                 stranded>>

RetryPing(t) ==
  /\ pc[t] = "ping"
  /\ pinged' = pinged \cup {job[t].harness}
  /\ pc' = [pc EXCEPT ![t] = "check"]
  /\ UNCHANGED <<world, queue, noting, firing, catchup, ingest_threads,
                 ingest_reschedule, job, derive, life, ghosts>>

\* Faulty: a completed run does not report its windows.
RunCompletedSilently(t) ==
  /\ pc[t] = "ingest" /\ job[t].todo = {} /\ ~job[t].failed
  /\ LedgerWritten
  /\ retry_counts' = [retry_counts EXCEPT ![job[t].harness] = 0]
  /\ pc' = [pc EXCEPT ![t] = "check"]
  /\ job' = [job EXCEPT ![t].windows = {}]
  /\ UNCHANGED <<behind, underived, events, changes, faults, changed_paths,
                 signal, ingest_threads, ingest_reschedule, derive, life,
                 ghosts>>

\* clear_retry, then record_ingest_event: a commit, whatever the run found.
RunCompleted(t) ==
  /\ pc[t] = "ingest" /\ job[t].todo = {} /\ ~job[t].failed
  /\ LedgerWritten
  /\ retry_counts' = [retry_counts EXCEPT ![job[t].harness] = 0]
  /\ pc' = [pc EXCEPT ![t] = IF job[t].windows = {} THEN "check" ELSE "outcome"]
  /\ UNCHANGED <<behind, underived, events, changes, faults, changed_paths,
                 signal, ingest_threads, ingest_reschedule, job, derive, life,
                 ghosts>>

\* Faulty: the pending windows are replaced instead of merged.
QueueDeriveOverwrites(h, w) == derive_pending' = [Nothing EXCEPT ![h] = w]

\* _queue_derive (the daemon never asks for a full derive, window_ids=None).
QueueDerive(h, w) == derive_pending' = [derive_pending EXCEPT ![h] = @ \cup w]

\* _schedule_derive with the changed windows, under _derive_lock.
ScheduleDerive(t) ==
  LET h == job[t].harness
  IN /\ pc[t] = "outcome"
     /\ pc' = [pc EXCEPT ![t] = "check"]
     /\ job' = [job EXCEPT ![t].windows = {}]
     /\ IF stop
        THEN /\ dropped' = [dropped EXCEPT ![h] = @ \cup job[t].windows]
             /\ UNCHANGED <<derive_pending, derive_thread, dpc>>
        ELSE /\ QueueDerive(h, job[t].windows)
             /\ UNCHANGED dropped
             /\ IF derive_thread # None
                THEN UNCHANGED <<derive_thread, dpc>>
                ELSE \E d \in Deriver :
                       /\ dpc[d] = "idle"
                       /\ derive_thread' = d
                       /\ dpc' = [dpc EXCEPT ![d] = "take"]
     /\ UNCHANGED <<world, queue, signal, ingest_threads, ingest_reschedule,
                    derive_retry_count, batch, life, noted, lost, unserved, catching,
                 stranded>>

\* Faulty: the worker leaves although it was asked to run again.
CheckForgets(t) ==
  LET h == job[t].harness
  IN /\ pc[t] = "check"
     /\ ingest_reschedule' = ingest_reschedule \ {h}
     /\ pc' = [pc EXCEPT ![t] = "exit"]
     /\ ingest_threads' = [ingest_threads EXCEPT ![h] = None]
     /\ UNCHANGED <<world, queue, signal, job, derive, life, ghosts>>

\* The end of a cycle, under _worker_lock: go on for a reschedule, else leave.
Check(t) ==
  LET h == job[t].harness
  IN /\ pc[t] = "check"
     /\ ingest_reschedule' = ingest_reschedule \ {h}
     /\ IF h \in ingest_reschedule /\ ~stop
        THEN /\ pc' = [pc EXCEPT ![t] = "begin"]
             /\ job' = [job EXCEPT ![t] = [NoJob EXCEPT !.harness = h]]
             /\ UNCHANGED ingest_threads
        ELSE /\ pc' = [pc EXCEPT ![t] = "exit"]
             /\ ingest_threads' = [ingest_threads EXCEPT ![h] = None]
             /\ UNCHANGED job
     /\ UNCHANGED <<world, queue, signal, derive, life, ghosts>>

Retire(t) ==
  /\ pc' = [pc EXCEPT ![t] = "idle"]
  /\ job' = [job EXCEPT ![t] = NoJob]

\* Faulty: whoever is registered is removed.
FinishWorkerUnchecked(t) ==
  LET h == job[t].harness
  IN /\ pc[t] = "exit" /\ Retire(t)
     /\ ingest_threads' = [ingest_threads EXCEPT ![h] = None]
     /\ ingest_reschedule' = ingest_reschedule \ {h}
     /\ UNCHANGED <<world, queue, signal, derive, life, ghosts>>

\* Faulty: the finally clause is missing.
FinishWorkerKeeps(t) ==
  /\ pc[t] = "exit" /\ Retire(t)
  /\ UNCHANGED <<world, queue, signal, ingest_threads, ingest_reschedule, derive,
                 life, ghosts>>

\* _finish_ingest_worker: by then another thread may be registered.
FinishWorker(t) ==
  LET h == job[t].harness
  IN /\ pc[t] = "exit" /\ Retire(t)
     /\ IF ingest_threads[h] = t
        THEN /\ ingest_threads' = [ingest_threads EXCEPT ![h] = None]
             /\ ingest_reschedule' = ingest_reschedule \ {h}
             /\ stranded' = IF h \in ingest_reschedule THEN stranded \cup {h}
                                                       ELSE stranded
        ELSE UNCHANGED <<ingest_threads, ingest_reschedule, stranded>>
     /\ UNCHANGED <<world, queue, signal, derive, life, noted, lost, unserved,
                    catching, dropped>>

-----------------------------------------------------------------------------
(* The derive thread: _derive_worker.                                      *)

\* Under _derive_lock: stop, nothing to do, or take everything pending.
DeriveTake(d) ==
  /\ dpc[d] = "take"
  /\ derive_pending' = Nothing
  /\ IF stop \/ Empty(derive_pending)
     THEN /\ derive_thread' = None
          /\ dpc' = [dpc EXCEPT ![d] = "exit"]
          /\ dropped' = Merge(dropped, derive_pending)
          /\ UNCHANGED <<batch, moved>>
     ELSE /\ batch' = derive_pending
          /\ moved' = FALSE
          /\ dpc' = [dpc EXCEPT ![d] = "run"]
          /\ UNCHANGED <<derive_thread, dropped>>
  /\ UNCHANGED <<behind, underived, events, changes, faults, queue, signal,
                 ingest, derive_retry_count, life, noted, lost, unserved, catching,
                 stranded>>

\* run_deterministic writes only if nothing was committed since its baseline.
DeriveDone(d) ==
  /\ dpc[d] = "run" /\ ~moved
  /\ underived' = Minus(underived, batch)
  /\ batch' = Nothing
  /\ derive_retry_count' = 0
  /\ dpc' = [dpc EXCEPT ![d] = "take"]
  /\ UNCHANGED <<behind, moved, events, changes, faults, queue, signal, ingest,
                 derive_thread, derive_pending, life, ghosts>>

\* A failed run goes back to the pending set a bounded number of times.
RetryDerive(d) ==
  /\ dpc[d] = "run"
  /\ IF derive_retry_count + 1 <= MaxRetries
     THEN /\ derive_retry_count' = derive_retry_count + 1
          /\ derive_pending' = Merge(derive_pending, batch)
          /\ UNCHANGED dropped
     ELSE /\ derive_retry_count' = 0
          /\ dropped' = Merge(dropped, batch)
          /\ UNCHANGED derive_pending
  /\ batch' = Nothing
  /\ dpc' = [dpc EXCEPT ![d] = "take"]
  /\ UNCHANGED <<behind, underived, moved, events, changes, queue, signal,
                 ingest, derive_thread, life, noted, lost, unserved, catching,
                 stranded>>

\* DeterministicInputChanged: some other connection committed meanwhile.
DeriveInputChanged(d) == moved /\ RetryDerive(d) /\ UNCHANGED faults

\* Any other exception.
DeriveFails(d) == faults < MaxFaults /\ faults' = faults + 1 /\ RetryDerive(d)

\* Faulty: the thread clears a registration that is not its own.
FinishDeriverUnchecked(d) ==
  /\ dpc[d] = "exit"
  /\ dpc' = [dpc EXCEPT ![d] = "idle"]
  /\ derive_thread' = None
  /\ UNCHANGED <<world, queue, signal, ingest, derive_pending,
                 derive_retry_count, batch, life, ghosts>>

\* The finally clause of the thread.
FinishDeriver(d) ==
  /\ dpc[d] = "exit"
  /\ dpc' = [dpc EXCEPT ![d] = "idle"]
  /\ derive_thread' = IF derive_thread = d THEN None ELSE derive_thread
  /\ derive_pending' = IF stop THEN Nothing ELSE derive_pending
  /\ dropped' = IF stop THEN Merge(dropped, derive_pending) ELSE dropped
  /\ UNCHANGED <<world, queue, signal, ingest, derive_retry_count, batch, life,
                 noted, lost, unserved, catching,
                 stranded>>

-----------------------------------------------------------------------------
(* Shutdown.                                                               *)

RequestStop ==
  /\ MayStop /\ ~stop
  /\ stop' = TRUE
  /\ UNCHANGED <<world, queue, signal, ingest, derive, stopped, ghosts>>

\* stop() returns only when no registered thread is left; otherwise it raises.
StopReturns ==
  /\ stop /\ ~stopped
  /\ catchup = {}
  /\ \A h \in Harness : ingest_threads[h] = None
  /\ derive_thread = None
  /\ stopped' = TRUE
  /\ UNCHANGED <<world, queue, signal, ingest, derive, stop, ghosts>>

-----------------------------------------------------------------------------
WorkerStep(t) ==
  \/ WorkerSeesStop(t) \/ Take(t) \/ RunFailed(t) \/ RetryPing(t)
  \/ RunCompleted(t) \/ ScheduleDerive(t) \/ Check(t) \/ FinishWorker(t)
  \/ \E f \in File : CommitArtifact(t, f) \/ FreezeArtifact(t, f)

WorkerFault(t) ==
  \/ TakeRaises(t) \/ RunRaises(t) \/ RecordEventRaises(t)
  \/ \E f \in File : FailArtifact(t, f)

DeriverStep(d) ==
  DeriveTake(d) \/ DeriveDone(d) \/ DeriveInputChanged(d) \/ FinishDeriver(d)

NoterStep(n) == NotePing(n) \/ \E h \in Harness, p \in Path : NoteChange(n, h, p)

Next ==
  \/ \E h \in Harness, p \in Path : SourceChange(h, p)
  \/ \E n \in Noter : NoterStep(n)
  \/ Drain
  \/ \E h \in Harness : Fire(h) \/ CatchUp(h)
  \/ \E t \in Worker : WorkerStep(t) \/ WorkerFault(t)
  \/ \E d \in Deriver : DeriverStep(d) \/ DeriveFails(d)
  \/ RequestStop \/ StopReturns

Spec == Init /\ [][Next]_vars

\* Every thread is scheduled; sources, failures and the stop request are not
\* owed to anyone.
Fairness ==
  /\ \A n \in Noter : WF_vars(NoterStep(n))
  /\ WF_vars(Drain)
  /\ \A h \in Harness : WF_vars(Fire(h)) /\ WF_vars(CatchUp(h))
  /\ \A t \in Worker : WF_vars(WorkerStep(t))
  /\ \A d \in Deriver : WF_vars(DeriverStep(d))
  /\ WF_vars(StopReturns)

FairSpec == Spec /\ Fairness

-----------------------------------------------------------------------------
(* Safety.                                                                 *)

\* One ingest run per harness: a thread that is neither idle nor on its way out
\* is the registered one (_schedule_ingest, _finish_ingest_worker).
OneIngestPerHarness ==
  \A t \in Worker : pc[t] \in Active => ingest_threads[job[t].harness] = t

\* No lost wake-up: while the daemon is up, paths waiting to be ingested have a
\* thread that is about to ping, a pending or firing signal, a worker that has not
\* taken yet or will run again, or the retries are spent (_requeue_changed) or the
\* worker that owed the run died.
NoLostWakeup ==
  \A h \in Harness :
    changed_paths[h] # {} /\ ~stop =>
      \/ \E n \in Noter : noting[n] = h
      \/ h \in pinged \/ h \in firing
      \/ \E t \in Worker : job[t].harness = h /\ pc[t] \in {"begin", "ping"}
      \/ h \in ingest_reschedule /\ ingest_threads[h] # None
      \/ retry_counts[h] > MaxRetries
      \/ h \in stranded

\* A request is never forgotten: until a run starts after it, the registered
\* worker is about to start one or is marked to run again.
RequestHasWorker ==
  \A h \in unserved :
    \/ stop \/ h \in stranded
    \/ \E t \in Worker : ingest_threads[h] = t /\ pc[t] = "begin"
    \/ h \in ingest_reschedule /\ ingest_threads[h] # None

\* Committed windows that nobody derived yet are on their way: reported by the
\* worker that committed them, pending, in the derive thread's batch, or given up
\* on in one of the ways the code has for it.
WindowsAccounted ==
  \A h \in Harness : \A f \in underived[h] :
    \/ \E t \in Worker : job[t].harness = h /\ f \in job[t].windows
    \/ f \in derive_pending[h] \/ f \in batch[h] \/ f \in dropped[h]

\* Pending windows have a derive thread that will look at them again.
DeriveAttended ==
  ~Empty(derive_pending) /\ ~stop =>
    \E d \in Deriver : derive_thread = d /\ dpc[d] \in {"take", "run"}

\* Once stop() has returned, no thread of the daemon reads or writes the ledger.
QuietAfterStop ==
  stopped => /\ \A t \in Worker : pc[t] \in {"idle", "exit"}
             /\ \A d \in Deriver : dpc[d] \in {"idle", "exit"}

\* A change that was delivered is forgotten in one way only, with the worker that
\* dies between taking it and its try block (_run_ingest): every other one is
\* pending, or in the scope of the run in progress, until an ingest commits, skips
\* or refuses it (_take_changed, _requeue_changed); spent retries only park it.
NotedAccounted ==
  \A h \in Harness : \A f \in noted[h] :
    \/ f \in changed_paths[h]
    \/ \E t \in Worker : job[t].harness = h /\ f \in job[t].scope
    \/ f \in lost[h]

\* Somebody is about to start a run for h, or owes one.
Signalled(h) ==
  \/ \E n \in Noter : noting[n] = h
  \/ h \in pinged \/ h \in firing
  \/ \E t \in Worker : job[t].harness = h /\ pc[t] \in {"begin", "ping"}
  \/ h \in ingest_reschedule /\ ingest_threads[h] # None
  \/ h \in stranded

\* Spent retries park paths only once the run is over: what is noted during a run
\* has a signal of its own.
Parked(h) == /\ retry_counts[h] > MaxRetries
             /\ \A t \in Worker : job[t].harness = h => pc[t] # "ingest"

\* The parts of the inductive invariant that the ones above lack: what a thread
\* holds at each point, who is registered, and what is left when all is over.
HasHarness  == \A t \in Worker : pc[t] # "idle" => job[t].harness \in Harness
HoldsWindows == \A t \in Worker : pc[t] \notin {"ingest", "outcome"} => job[t].windows = {}
Registered  == \A h \in Harness, t \in Worker :
                 ingest_threads[h] = t => pc[t] # "idle" /\ job[t].harness = h
OneDeriver  == \A d \in Deriver : derive_thread = d <=> dpc[d] \in {"take", "run"}
BatchTaken  == batch # Nothing => \E d \in Deriver : dpc[d] = "run"
Quiet       == stopped => /\ stop /\ derive_thread = None
                          /\ \A h \in Harness : ingest_threads[h] = None
PathsWaited == \A h \in Harness :
                 changed_paths[h] # {} /\ ~stop => Signalled(h) \/ Parked(h)

\* Worker t still has to ingest f, or to put it back.
Owes(t, h, f) == /\ pc[t] = "ingest" /\ job[t].harness = h
                 /\ f \in job[t].scope
                 /\ f \in job[t].todo \/ job[t].failed
NotedHeld == \A h \in Harness : \A f \in noted[h] :
               \/ f \in changed_paths[h] \/ f \in lost[h]
               \/ \E t \in Worker : Owes(t, h, f)

\* The invariants of the scheduler made inductive: what the threads know of their
\* own registration (_worker_lock, _derive_lock), which windows and paths they
\* still hold, and who will look at what they left pending.
IInv ==
  /\ TypeOK
  /\ HasHarness /\ HoldsWindows /\ Registered /\ OneIngestPerHarness
  /\ OneDeriver /\ BatchTaken /\ Quiet
  /\ RequestHasWorker
  /\ WindowsAccounted
  /\ DeriveAttended
  /\ PathsWaited
  /\ NotedHeld

-----------------------------------------------------------------------------
(* Liveness.                                                               *)

\* A change that reached the daemon is ingested, or refused on record (unless the
\* daemon is stopped).
NotedIsIngested ==
  \A h \in Harness, f \in File :
    f \in changed_paths[h] ~> (f \notin behind[h] \/ stop)

\* Committed windows are derived, given up on, or the daemon is stopped.
CommittedIsDerived ==
  \A h \in Harness, f \in File :
    f \in underived[h] ~> (f \notin underived[h] \/ f \in dropped[h] \/ stop)

\* stop() comes to its end: request_stop is followed by a state in which no thread
\* of the daemon is registered.
StopCompletes == stop ~> stopped

\* The single-flight promise, per harness.
SF(h) == INSTANCE SingleFlight WITH
           wanted   <- h \in unserved,
           running  <- \E t \in Worker : job[t].harness = h /\ pc[t] \in Running,
           stopping <- stop

\* The steps of SF(h) for every harness: runs do not overlap, and a request is
\* withdrawn only by a run that starts after it (_schedule_ingest, _ingest_worker).
StepsCoalesce ==
  /\ \A h \in Harness : SF(h)!Init
  /\ [][\A h \in Harness : [SF(h)!Next]_(SF(h)!vars)]_vars

\* SF(h)!Spec for every harness: ... and every request is served, every run ends.
Coalesces == StepsCoalesce /\ \A h \in Harness : SF(h)!Served /\ SF(h)!Ends
=============================================================================
