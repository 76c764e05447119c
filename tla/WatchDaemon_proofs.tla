------------------------- MODULE WatchDaemon_proofs -------------------------
(***************************************************************************)
(* Proofs about WatchDaemon, for any harnesses, artifacts, threads and     *)
(* bounds: nothing noted, asked for or committed is forgotten, runs of one *)
(* harness do not overlap, and stop() leaves nothing behind.               *)
(***************************************************************************)
EXTENDS WatchDaemon, TLAPS

USE HarnessAssumption, PathAssumption, ThreadAssumption, RetryAssumption,
    BoundAssumption

\* The daemon starts with nothing pending and no thread of its own.
LEMMA InitIInv == Init => IInv
<1> SUFFICES ASSUME Init PROVE IInv
  OBVIOUS
<1>1. NoJob \in Job /\ NoJob.windows = {}
  BY DEF NoJob, Job
<1>2. TypeOK
  <2>1. /\ Nothing \in [Harness -> SUBSET File] /\ Nothing \in [Harness -> SUBSET Path]
    BY DEF Nothing
  <2>2. job \in [Worker -> Job] /\ pc \in [Worker -> WorkerPc]
    BY <1>1 DEF Init, WorkerPc
  <2>3. /\ noting \in [Noter -> Harness \cup {None}]
        /\ retry_counts \in [Harness -> 0 .. MaxRetries + 1]
        /\ ingest_threads \in [Harness -> Worker \cup {None}]
        /\ dpc \in [Deriver -> {"idle", "take", "run", "exit"}]
    BY DEF Init
  <2>4. changes \in 0 .. MaxChanges /\ faults \in 0 .. MaxFaults
        /\ derive_retry_count \in 0 .. MaxRetries
    BY DEF Init
  <2>5. /\ behind \in [Harness -> SUBSET File] /\ underived \in [Harness -> SUBSET File]
        /\ events \in [Harness -> SUBSET Path] /\ changed_paths \in [Harness -> SUBSET Path]
        /\ derive_pending \in [Harness -> SUBSET File] /\ batch \in [Harness -> SUBSET File]
        /\ noted \in [Harness -> SUBSET File] /\ dropped \in [Harness -> SUBSET File]
        /\ lost \in [Harness -> SUBSET File]
    BY <2>1 DEF Init
  <2>6. /\ moved \in BOOLEAN /\ stop \in BOOLEAN /\ stopped \in BOOLEAN
        /\ pinged \subseteq Harness /\ firing \subseteq Harness /\ catchup \subseteq Harness
        /\ ingest_reschedule \subseteq Harness /\ derive_thread \in Deriver \cup {None}
        /\ unserved \subseteq Harness /\ catching \subseteq Harness
        /\ stranded \subseteq Harness
    BY DEF Init
  <2> QED
    BY <2>2, <2>3, <2>4, <2>5, <2>6 DEF TypeOK
<1>3. \A t \in Worker : pc[t] = "idle" /\ job[t].windows = {}
  BY <1>1 DEF Init
<1>4. OneIngestPerHarness
  BY <1>3 DEF OneIngestPerHarness, Active
<1>5. RequestHasWorker /\ WindowsAccounted /\ DeriveAttended
  BY DEF Init, RequestHasWorker, WindowsAccounted, DeriveAttended, Nothing, Empty
<1>6. /\ HasHarness /\ HoldsWindows /\ Registered
      /\ PathsWaited /\ NotedHeld
  BY <1>3 DEF Init, Nothing, HasHarness, HoldsWindows, Registered, PathsWaited, NotedHeld
<1>7. OneDeriver /\ BatchTaken /\ Quiet
  BY DEF Init, OneDeriver, BatchTaken, Quiet
<1> QED
  BY <1>2, <1>4, <1>5, <1>6, <1>7 DEF IInv

\* Asking for a run: the tables keep their types.
LEMMA ScheduleType ==
  ASSUME TypeOK, NEW h \in Harness, ScheduleIngest(h)
  PROVE  /\ ingest_threads' \in [Harness -> Worker \cup {None}]
         /\ ingest_reschedule' \subseteq Harness
         /\ pc' \in [Worker -> WorkerPc] /\ job' \in [Worker -> Job]
         /\ unserved' \subseteq Harness
<1>1. NoJob \in Job
  BY DEF NoJob, Job
<1>2. [NoJob EXCEPT !.harness = h] \in Job
  BY DEF NoJob, Job
<1> QED
  BY <1>2 DEF ScheduleIngest, StartWorker, TypeOK, ingest, WorkerPc

\* The run of a worker that fails: the tables keep their types.
LEMMA RequeueType ==
  ASSUME TypeOK, NEW t \in Worker, job[t].harness \in Harness, NEW n \in Nat,
         Requeue(t, n)
  PROVE  /\ changed_paths' \in [Harness -> SUBSET Path]
         /\ retry_counts' \in [Harness -> 0 .. MaxRetries + 1]
         /\ dropped' \in [Harness -> SUBSET File]
         /\ pc' \in [Worker -> WorkerPc] /\ job' \in [Worker -> Job]
<1>1. job[t] \in Job
  BY DEF TypeOK
<1>2. job' \in [Worker -> Job] /\ dropped' \in [Harness -> SUBSET File]
  BY <1>1 DEF Requeue, GiveUpWindows, TypeOK, Job
<1>3. changed_paths' \in [Harness -> SUBSET Path]
  BY <1>1 DEF Requeue, PutBack, TypeOK, Job, Path
<1>4. retry_counts' \in [Harness -> 0 .. MaxRetries + 1]
  BY DEF Requeue, PutBack, TypeOK
<1> QED
  BY <1>2, <1>3, <1>4 DEF Requeue, TypeOK, WorkerPc

\* The observers, the debouncer, the catch-up and stop() keep the types.
LEMMA EnvironmentType ==
  ASSUME TypeOK,
         \/ \E h \in Harness, p \in Path : SourceChange(h, p)
         \/ \E n \in Noter : NoterStep(n)
         \/ Drain
         \/ \E h \in Harness : Fire(h) \/ CatchUp(h)
         \/ RequestStop \/ StopReturns
  PROVE  TypeOK'
<1>1. ASSUME NEW h \in Harness, NEW p \in Path, SourceChange(h, p) PROVE TypeOK'
  BY <1>1 DEF SourceChange, TypeOK, queue, signal, ingest, derive, life, ghosts
<1>2. ASSUME NEW n \in Noter, NEW h \in Harness, NEW p \in Path, NoteChange(n, h, p)
      PROVE  TypeOK'
  BY <1>2 DEF NoteChange, TypeOK, ingest, derive, life
<1>3. ASSUME NEW n \in Noter, NotePing(n) PROVE TypeOK'
  BY <1>3 DEF NotePing, TypeOK, world, queue, ingest, derive, life, ghosts
<1>4. CASE Drain
  BY <1>4 DEF Drain, TypeOK, world, queue, ingest, derive, life, ghosts
<1>5. ASSUME NEW h \in Harness, Fire(h) PROVE TypeOK'
  BY <1>5, ScheduleType DEF Fire, TypeOK, world, queue, derive, life
<1>6. ASSUME NEW h \in Harness, CatchUp(h) PROVE TypeOK'
  BY <1>6, ScheduleType DEF CatchUp, TypeOK, world, queue, derive, life
<1>7. CASE RequestStop
  BY <1>7 DEF RequestStop, TypeOK, world, queue, signal, ingest, derive, ghosts
<1>8. CASE StopReturns
  BY <1>8 DEF StopReturns, TypeOK, world, queue, signal, ingest, derive, ghosts
<1> QED
  BY <1>1, <1>2, <1>3, <1>4, <1>5, <1>6, <1>7, <1>8 DEF NoterStep

\* Giving a worker new local variables.
LEMMA JobAssign ==
  ASSUME NEW j \in [Worker -> Job], NEW t \in Worker, NEW r \in Job
  PROVE  [j EXCEPT ![t] = r] \in [Worker -> Job]
  OBVIOUS

\* Every step of an ingest worker keeps the types, the failing ones included.
LEMMA WorkerType ==
  ASSUME TypeOK, HasHarness, NEW t \in Worker, WorkerStep(t) \/ WorkerFault(t)
  PROVE  TypeOK'
<1>h. /\ job[t] \in Job
      /\ pc[t] # "idle" => job[t].harness \in Harness
  BY DEF TypeOK, HasHarness
<1>1. CASE WorkerSeesStop(t)
  BY <1>1 DEF WorkerSeesStop, TypeOK, WorkerPc, world, queue, signal, derive, life, ghosts
<1>2. CASE Take(t)
  <2>1. job' \in [Worker -> Job]
    <3> DEFINE h   == job[t].harness
               raw == changed_paths[h]
               ok  == raw \cap File
               r   == [harness |-> h, scope |-> ok, full |-> raw = {},
                       todo |-> IF raw = {} THEN File ELSE ok,
                       failed |-> FALSE, windows |-> {}]
    <3>1. h \in Harness
      BY <1>2, <1>h DEF Take
    <3>2. (raw = {}) \in BOOLEAN
      OBVIOUS
    <3>3. r \in Job
      BY <3>1, <3>2 DEF Job
    <3>4. job' = job \/ job' = [job EXCEPT ![t] = r]
      BY <1>2 DEF Take
    <3> HIDE DEF r
    <3> QED
      BY <3>3, <3>4, JobAssign DEF TypeOK
  <2>2. changed_paths' \in [Harness -> SUBSET Path] /\ pc' \in [Worker -> WorkerPc]
    BY <1>2 DEF Take, TypeOK, WorkerPc
  <2>3. retry_counts' \in [Harness -> 0 .. MaxRetries + 1]
    BY <1>2 DEF Take, TypeOK
  <2> QED
    BY <1>2, <2>1, <2>2, <2>3 DEF Take, TypeOK, world, signal, derive, life
<1>3. CASE TakeRaises(t)
  BY <1>3, <1>h DEF TakeRaises, TypeOK, WorkerPc, signal, derive, life
<1>4. ASSUME NEW f \in File, CommitArtifact(t, f) PROVE TypeOK'
  <2>1. job' \in [Worker -> Job]
    <3> DEFINE r == [job[t] EXCEPT !.todo = @ \ {f}]
               s == [r EXCEPT !.windows = @ \cup {f}]
    <3>1. \/ job' = [job EXCEPT ![t].todo = @ \ {f}, ![t].windows = @ \cup {f}]
          \/ job' = [job EXCEPT ![t].todo = @ \ {f}]
      BY <1>4 DEF CommitArtifact
    <3>2. r \in Job /\ s \in Job
      BY <1>h DEF Job
    <3>3. job' = [job EXCEPT ![t] = r] \/ job' = [job EXCEPT ![t] = s]
      BY <3>1 DEF TypeOK
    <3> HIDE DEF r, s
    <3> QED
      BY <3>2, <3>3, JobAssign DEF TypeOK
  <2>2. /\ noted' \in [Harness -> SUBSET File] /\ behind' \in [Harness -> SUBSET File]
        /\ lost' \in [Harness -> SUBSET File]
    BY <1>4 DEF CommitArtifact, TypeOK
  <2>4. underived' \in [Harness -> SUBSET File] /\ dropped' \in [Harness -> SUBSET File]
    <3>1. \/ /\ underived' = [underived EXCEPT ![job[t].harness] = @ \cup {f}]
             /\ dropped' = [dropped EXCEPT ![job[t].harness] = @ \ {f}]
          \/ underived' = underived /\ dropped' = dropped
      BY <1>4 DEF CommitArtifact
    <3> QED
      BY <3>1 DEF TypeOK
  <2>3. moved' \in BOOLEAN
    BY <1>4 DEF CommitArtifact, LedgerWritten, TypeOK
  <2> QED
    BY <1>4, <2>1, <2>2, <2>3, <2>4 DEF CommitArtifact, TypeOK, queue, signal, derive, life
<1>4a. ASSUME NEW f \in File, FreezeArtifact(t, f) PROVE TypeOK'
  <2>1. job' \in [Worker -> Job]
    <3> DEFINE r == [job[t] EXCEPT !.todo = @ \ {f}]
    <3>1. r \in Job
      BY <1>h DEF Job
    <3>2. job' = [job EXCEPT ![t] = r]
      BY <1>4a DEF FreezeArtifact, TypeOK
    <3> HIDE DEF r
    <3> QED
      BY <3>1, <3>2, JobAssign DEF TypeOK
  <2>2. /\ noted' \in [Harness -> SUBSET File] /\ behind' \in [Harness -> SUBSET File]
        /\ lost' \in [Harness -> SUBSET File]
    BY <1>4a DEF FreezeArtifact, TypeOK
  <2>3. moved' \in BOOLEAN
    BY <1>4a DEF FreezeArtifact, LedgerWritten, TypeOK
  <2> QED
    BY <1>4a, <2>1, <2>2, <2>3 DEF FreezeArtifact, TypeOK, queue, signal, derive, life
<1>5. ASSUME NEW f \in File, FailArtifact(t, f) PROVE TypeOK'
  <2>1. job' \in [Worker -> Job]
    BY <1>5, <1>h DEF FailArtifact, TypeOK, Job
  <2> QED
    BY <1>5, <2>1 DEF FailArtifact, TypeOK, queue, signal, derive, life, ghosts
<1>6. CASE RunFailed(t)
  BY <1>6, <1>h, RequeueType DEF RunFailed, TypeOK, world, signal, derive, life
<1>7. CASE RunRaises(t)
  BY <1>7, <1>h, RequeueType DEF RunRaises, TypeOK, signal, derive, life
<1>8. CASE RecordEventRaises(t)
  BY <1>8, <1>h, RequeueType DEF RecordEventRaises, TypeOK, signal, derive, life
<1>9. CASE RetryPing(t)
  BY <1>9, <1>h DEF RetryPing, TypeOK, WorkerPc, world, queue, derive, life, ghosts
<1>10. CASE RunCompleted(t)
  BY <1>10, <1>h DEF RunCompleted, LedgerWritten, TypeOK, WorkerPc, signal, derive, life, ghosts
<1>11. CASE ScheduleDerive(t)
  <2>1. job' \in [Worker -> Job]
    BY <1>11, <1>h DEF ScheduleDerive, TypeOK, Job
  <2>2. /\ derive_pending' \in [Harness -> SUBSET File]
        /\ dropped' \in [Harness -> SUBSET File]
    <3>1. /\ \/ derive_pending' = derive_pending
             \/ derive_pending' =
                  [derive_pending EXCEPT ![job[t].harness] = @ \cup job[t].windows]
          /\ \/ dropped' = dropped
             \/ dropped' = [dropped EXCEPT ![job[t].harness] = @ \cup job[t].windows]
      BY <1>11 DEF ScheduleDerive, QueueDerive
    <3>2. job[t].windows \subseteq File
      BY <1>h DEF Job
    <3> QED
      BY <3>1, <3>2 DEF TypeOK
  <2>3. /\ derive_thread' \in Deriver \cup {None}
        /\ dpc' \in [Deriver -> {"idle", "take", "run", "exit"}]
    BY <1>11 DEF ScheduleDerive, TypeOK
  <2> QED
    BY <1>11, <2>1, <2>2, <2>3 DEF ScheduleDerive, TypeOK, WorkerPc, world, queue, signal, life
<1>12. CASE Check(t)
  <2>1. job' \in [Worker -> Job]
    <3>1. [NoJob EXCEPT !.harness = job[t].harness] \in Job
      BY <1>h DEF NoJob, Job
    <3>2. job' = job \/ job' = [job EXCEPT ![t] = [NoJob EXCEPT !.harness = job[t].harness]]
      BY <1>12 DEF Check
    <3> QED
      BY <3>1, <3>2 DEF TypeOK
  <2> QED
    BY <1>12, <1>h, <2>1 DEF Check, TypeOK, WorkerPc, world, queue, signal, derive, life, ghosts
<1>13. CASE FinishWorker(t)
  <2>1. job' \in [Worker -> Job] /\ pc' \in [Worker -> WorkerPc]
    BY <1>13 DEF FinishWorker, Retire, NoJob, TypeOK, Job, WorkerPc
  <2> QED
    BY <1>13, <1>h, <2>1 DEF FinishWorker, TypeOK, world, queue, signal, derive, life
<1> QED
  BY <1>1, <1>2, <1>3, <1>4, <1>4a, <1>5, <1>6, <1>7, <1>8, <1>9, <1>10, <1>11, <1>12, <1>13
     DEF WorkerStep, WorkerFault

\* Putting a batch back: the retry counter stays within its bound.
LEMMA RetryDeriveType ==
  ASSUME TypeOK, NEW d \in Deriver, RetryDerive(d)
  PROVE  /\ derive_retry_count' \in 0 .. MaxRetries
         /\ derive_pending' \in [Harness -> SUBSET File]
         /\ dropped' \in [Harness -> SUBSET File]
         /\ batch' \in [Harness -> SUBSET File]
         /\ dpc' \in [Deriver -> {"idle", "take", "run", "exit"}]
<1>1. derive_retry_count' \in 0 .. MaxRetries
  BY DEF RetryDerive, TypeOK
<1> QED
  BY <1>1 DEF RetryDerive, TypeOK, Merge, Nothing

\* Every step of a derive worker keeps the types.
LEMMA DeriverType ==
  ASSUME TypeOK, NEW d \in Deriver, DeriverStep(d) \/ DeriveFails(d)
  PROVE  TypeOK'
<1>1. CASE DeriveTake(d)
  <2>1. Nothing \in [Harness -> SUBSET File]
        /\ Merge(dropped, derive_pending) \in [Harness -> SUBSET File]
    BY DEF TypeOK, Merge, Nothing
  <2>2. /\ derive_pending' \in [Harness -> SUBSET File]
        /\ dropped' \in [Harness -> SUBSET File] /\ batch' \in [Harness -> SUBSET File]
    BY <1>1, <2>1 DEF DeriveTake, TypeOK
  <2>3. /\ derive_thread' \in Deriver \cup {None} /\ moved' \in BOOLEAN
        /\ dpc' \in [Deriver -> {"idle", "take", "run", "exit"}]
    BY <1>1 DEF DeriveTake, TypeOK
  <2> QED
    BY <1>1, <2>2, <2>3 DEF DeriveTake, TypeOK, queue, signal, ingest, life
<1>2. CASE DeriveDone(d)
  BY <1>2 DEF DeriveDone, TypeOK, Minus, Nothing, queue, signal, ingest, life, ghosts
<1>3. CASE DeriveInputChanged(d)
  <2> RetryDerive(d) /\ UNCHANGED faults
    BY <1>3 DEF DeriveInputChanged
  <2> QED
    BY RetryDeriveType DEF RetryDerive, TypeOK, queue, signal, ingest, life
<1>4. CASE DeriveFails(d)
  <2> RetryDerive(d) /\ faults < MaxFaults /\ faults' = faults + 1
    BY <1>4 DEF DeriveFails
  <2> QED
    <3>1. faults' \in 0 .. MaxFaults
      BY DEF TypeOK
    <3> QED
      BY <3>1, RetryDeriveType DEF RetryDerive, TypeOK, queue, signal, ingest, life
<1>5. CASE FinishDeriver(d)
  BY <1>5 DEF FinishDeriver, TypeOK, Merge, Nothing, world, queue, signal, ingest, life
<1> QED
  BY <1>1, <1>2, <1>3, <1>4, <1>5 DEF DeriverStep

\* The types are kept as long as a busy worker knows its harness.
LEMMA NextType == TypeOK /\ HasHarness /\ [Next]_vars => TypeOK'
<1>1. CASE UNCHANGED vars
  BY <1>1 DEF vars, TypeOK, world, queue, signal, ingest, derive, life, ghosts
<1> QED
  BY <1>1, EnvironmentType, WorkerType, DeriverType DEF Next

\* Where a failed run leaves its worker.
LEMMA RequeueShape ==
  ASSUME TypeOK, NEW t \in Worker, NEW n, Requeue(t, n)
  PROVE  /\ job'[t].harness = job[t].harness
         /\ job'[t].windows = {}
         /\ \E q \in {"ping", "check"} : pc' = [pc EXCEPT ![t] = q]
         /\ \A u \in Worker \ {t} : job'[u] = job[u]
<1>1. job[t] \in Job
  BY DEF TypeOK
<1>2. job' = [job EXCEPT ![t].windows = {}, ![t].todo = {}]
  BY DEF Requeue, GiveUpWindows
<1> QED
  BY <1>1, <1>2 DEF Requeue, TypeOK, Job

\* t is started for h, which had no worker; the others do not notice.
Starts(t, h) ==
  /\ pc[t] = "idle" /\ pc'[t] = "begin"
  /\ job'[t].harness = h /\ job'[t].windows = {}
  /\ \A u \in Worker \ {t} : job'[u] = job[u] /\ pc'[u] = pc[u]
  /\ ingest_threads' = [ingest_threads EXCEPT ![h] = t]
  /\ UNCHANGED ingest_reschedule

\* What asking for a run does: nothing after stop, else a mark for the worker
\* that is registered, or a new one.
LEMMA StartShape ==
  ASSUME TypeOK, NEW h \in Harness, ScheduleIngest(h)
  PROVE  \/ stop /\ UNCHANGED <<ingest, unserved>>
         \/ /\ ~stop /\ unserved' = unserved \cup {h}
            /\ ingest_threads[h] # None
            /\ ingest_reschedule' = ingest_reschedule \cup {h}
            /\ UNCHANGED <<pc, job, ingest_threads>>
         \/ /\ ~stop /\ unserved' = unserved \cup {h}
            /\ ingest_threads[h] = None
            /\ \E t \in Worker : Starts(t, h)
<1>1. ASSUME StartWorker(h) PROVE \E t \in Worker : Starts(t, h)
  <2>1. PICK t \in Worker : /\ pc[t] = "idle"
                           /\ ingest_threads' = [ingest_threads EXCEPT ![h] = t]
                           /\ pc' = [pc EXCEPT ![t] = "begin"]
                           /\ job' = [job EXCEPT ![t] = [NoJob EXCEPT !.harness = h]]
                           /\ UNCHANGED ingest_reschedule
    BY <1>1 DEF StartWorker
  <2>2. job'[t].harness = h /\ job'[t].windows = {}
    BY <2>1 DEF NoJob, TypeOK
  <2> QED
    BY <2>1, <2>2 DEF Starts, TypeOK
<1> QED
  BY <1>1 DEF ScheduleIngest

\* The workers keep their registration and hold windows only while they run.
LEMMA WorkersInv ==
  ASSUME IInv, [Next]_vars
  PROVE  HasHarness' /\ HoldsWindows' /\ Registered' /\ OneIngestPerHarness'
<1> DEFINE Goal == HasHarness' /\ HoldsWindows' /\ Registered' /\ OneIngestPerHarness'
<1> USE DEF HasHarness, HoldsWindows, Registered, OneIngestPerHarness, Active, WorkerPc
<1>inv. TypeOK /\ HasHarness /\ HoldsWindows /\ Registered /\ OneIngestPerHarness
  BY DEF IInv
<1>1. CASE UNCHANGED <<pc, job, ingest_threads>>
  BY <1>1, <1>inv
<1>2. ASSUME NEW h \in Harness, ScheduleIngest(h) PROVE Goal
  <2>1. CASE UNCHANGED <<pc, job, ingest_threads>>
    BY <2>1, <1>1
  <2>2. ASSUME NEW t \in Worker, ingest_threads[h] = None, Starts(t, h) PROVE Goal
    <3>1. HasHarness' /\ HoldsWindows'
      BY <2>2, <1>inv DEF Starts
    <3>2. \A u \in Worker : pc[u] \in Active => job[u].harness # h
      BY <2>2, <1>inv
    <3>3. OneIngestPerHarness'
      BY <2>2, <3>2, <1>inv DEF Starts, TypeOK
    <3>4. Registered'
      BY <2>2, <1>inv DEF Starts, TypeOK
    <3> QED
      BY <3>1, <3>3, <3>4
  <2> QED
    BY <1>2, <2>1, <2>2, <1>inv, StartShape DEF ingest
\* A worker goes on, and holds windows only where it may.
<1>3. ASSUME NEW t \in Worker, NEW q \in WorkerPc, pc[t] # "idle", q # "idle",
             q \in Active => pc[t] \in Active,
             pc' = [pc EXCEPT ![t] = q], UNCHANGED ingest_threads,
             \A u \in Worker \ {t} : job'[u] = job[u],
             job'[t].harness = job[t].harness,
             q \notin {"ingest", "outcome"} => job'[t].windows = {}
      PROVE  Goal
  BY <1>3, <1>inv DEF TypeOK
<1>4. ASSUME NEW t \in Worker, Check(t) PROVE Goal
  <2>1. CASE UNCHANGED ingest_threads
    <3>1. /\ pc' = [pc EXCEPT ![t] = "begin"]
          /\ job' = [job EXCEPT ![t] = [NoJob EXCEPT !.harness = job[t].harness]]
      BY <1>4, <2>1, <1>inv DEF Check, TypeOK
    <3>2. job'[t].harness = job[t].harness /\ job'[t].windows = {}
      BY <3>1, <1>inv DEF TypeOK, NoJob
    <3> QED
      BY <1>4, <2>1, <3>1, <3>2, <1>3, <1>inv DEF Check, TypeOK
  <2>2. CASE /\ ingest_threads' = [ingest_threads EXCEPT ![job[t].harness] = None]
             /\ pc' = [pc EXCEPT ![t] = "exit"] /\ UNCHANGED job
    BY <1>4, <2>2, <1>inv DEF Check, TypeOK
  <2> QED
    BY <1>4, <2>1, <2>2 DEF Check
<1>5. ASSUME NEW t \in Worker, WorkerSeesStop(t) \/ TakeRaises(t) \/ RetryPing(t)
      PROVE  Goal
  <2>1. /\ UNCHANGED <<job, ingest_threads>> /\ pc[t] \in {"begin", "ping"}
        /\ \E q \in {"exit", "check"} : pc' = [pc EXCEPT ![t] = q]
    BY <1>5 DEF WorkerSeesStop, TakeRaises, RetryPing
  <2> QED
    BY <2>1, <1>3, <1>inv
<1>6. ASSUME NEW t \in Worker, Take(t) PROVE Goal
  <2>1. /\ UNCHANGED ingest_threads /\ pc[t] = "begin"
        /\ \E q \in {"ingest", "check"} : pc' = [pc EXCEPT ![t] = q]
    BY <1>6 DEF Take
  <2>2. /\ \A u \in Worker \ {t} : job'[u] = job[u]
        /\ job'[t].harness = job[t].harness /\ job'[t].windows = {}
    BY <1>6, <1>inv DEF Take, TypeOK
  <2> QED
    BY <2>1, <2>2, <1>3, <1>inv
<1>7. ASSUME NEW t \in Worker, NEW f \in File,
             CommitArtifact(t, f) \/ FreezeArtifact(t, f) \/ FailArtifact(t, f)
      PROVE  Goal
  <2>1. UNCHANGED <<pc, ingest_threads>> /\ pc[t] = "ingest"
    BY <1>7 DEF CommitArtifact, FreezeArtifact, FailArtifact
  <2>2. job[t] \in Job
    BY <1>inv DEF TypeOK
  <2>3. /\ \A u \in Worker \ {t} : job'[u] = job[u]
        /\ job'[t].harness = job[t].harness
    BY <1>7, <1>inv, <2>2 DEF CommitArtifact, FreezeArtifact, FailArtifact, TypeOK, Job
  <2> QED
    BY <2>1, <2>3, <1>inv
<1>8. ASSUME NEW t \in Worker, RunFailed(t) \/ RunRaises(t) \/ RecordEventRaises(t)
      PROVE  Goal
  <2>1. PICK n : Requeue(t, n)
    BY <1>8 DEF RunFailed, RunRaises, RecordEventRaises
  <2>2. UNCHANGED ingest_threads /\ pc[t] = "ingest"
    BY <1>8 DEF RunFailed, RunRaises, RecordEventRaises
  <2> QED
    BY <2>1, <2>2, RequeueShape, <1>3, <1>inv
<1>9. ASSUME NEW t \in Worker, RunCompleted(t) PROVE Goal
  <2>1. /\ UNCHANGED <<job, ingest_threads>> /\ pc[t] = "ingest"
        /\ pc' = [pc EXCEPT ![t] = IF job[t].windows = {} THEN "check" ELSE "outcome"]
    BY <1>9 DEF RunCompleted
  <2> QED
    BY <2>1, <1>3, <1>inv
<1>10. ASSUME NEW t \in Worker, ScheduleDerive(t) PROVE Goal
  <2>1. /\ UNCHANGED ingest_threads /\ pc[t] = "outcome"
        /\ pc' = [pc EXCEPT ![t] = "check"]
        /\ job' = [job EXCEPT ![t].windows = {}]
    BY <1>10 DEF ScheduleDerive
  <2>2. job[t] \in Job
    BY <1>inv DEF TypeOK
  <2>3. /\ \A u \in Worker \ {t} : job'[u] = job[u]
        /\ job'[t].harness = job[t].harness /\ job'[t].windows = {}
    BY <2>1, <2>2, <1>inv DEF TypeOK, Job
  <2> QED
    BY <2>1, <2>3, <1>3, <1>inv
<1>11. ASSUME NEW t \in Worker, FinishWorker(t) PROVE Goal
  <2>1. /\ pc[t] = "exit" /\ pc' = [pc EXCEPT ![t] = "idle"]
        /\ job' = [job EXCEPT ![t] = NoJob]
        /\ \/ /\ ingest_threads[job[t].harness] # t
              /\ UNCHANGED ingest_threads
           \/ /\ ingest_threads[job[t].harness] = t
              /\ ingest_threads' = [ingest_threads EXCEPT ![job[t].harness] = None]
    BY <1>11 DEF FinishWorker, Retire
  <2>2. NoJob.windows = {}
    BY DEF NoJob
  <2>3. \A u \in Worker \ {t} : job'[u] = job[u] /\ pc'[u] = pc[u]
    BY <2>1, <1>inv DEF TypeOK
  <2>4. pc'[t] = "idle" /\ job'[t].windows = {}
    BY <2>1, <2>2, <1>inv DEF TypeOK
  <2>5. job[t].harness \in Harness
    BY <2>1, <1>inv
  <2>6. \A h \in Harness : ingest_threads'[h] # t
    BY <2>1, <2>5, <1>inv DEF TypeOK
  <2> QED
    BY <2>1, <2>3, <2>4, <2>5, <2>6, <1>inv DEF TypeOK
<1>12. ASSUME NEW h \in Harness, Fire(h) \/ CatchUp(h) PROVE Goal
  BY <1>12, <1>2 DEF Fire, CatchUp
<1>13. CASE \/ \E h \in Harness, p \in Path : SourceChange(h, p)
            \/ \E n \in Noter : NoterStep(n)
            \/ Drain
            \/ \E d \in Deriver : DeriverStep(d) \/ DeriveFails(d)
            \/ RequestStop \/ StopReturns
            \/ UNCHANGED vars
  <2>1. UNCHANGED <<pc, job, ingest_threads>>
    BY <1>13 DEF SourceChange, NoterStep, NoteChange, NotePing, Drain, DeriverStep,
         DeriveFails, DeriveTake, DeriveDone, DeriveInputChanged, FinishDeriver,
         RetryDerive, RequestStop, StopReturns, ingest, vars
  <2> QED
    BY <2>1, <1>1
<1> QED
  BY <1>4, <1>5, <1>6, <1>7, <1>8, <1>9, <1>10, <1>11, <1>12, <1>13
     DEF Next, WorkerStep, WorkerFault

\* The one derive thread knows that it is registered, and nobody else has a batch.
LEMMA DeriversInv ==
  ASSUME IInv, [Next]_vars
  PROVE  OneDeriver' /\ BatchTaken' /\ DeriveAttended'
<1> DEFINE Goal == OneDeriver' /\ BatchTaken' /\ DeriveAttended'
<1> USE DEF OneDeriver, BatchTaken, DeriveAttended
<1>inv. TypeOK /\ OneDeriver /\ BatchTaken /\ DeriveAttended
  BY DEF IInv
<1>1. ASSUME NEW t \in Worker, ScheduleDerive(t) PROVE Goal
  <2>1. CASE UNCHANGED <<derive_thread, dpc>>
    BY <1>1, <2>1, <1>inv DEF ScheduleDerive, TypeOK, life
  <2>2. ASSUME derive_thread = None, NEW d \in Deriver, dpc[d] = "idle",
               derive_thread' = d, dpc' = [dpc EXCEPT ![d] = "take"]
        PROVE  Goal
    BY <1>1, <2>2, <1>inv DEF ScheduleDerive, TypeOK
  <2> QED
    BY <1>1, <2>1, <2>2 DEF ScheduleDerive
<1>2. ASSUME NEW d \in Deriver, DeriveTake(d) PROVE Goal
  <2>1. Empty(derive_pending')
    BY <1>2 DEF DeriveTake, Empty
  <2>2. OneDeriver'
    BY <1>2, <1>inv DEF DeriveTake, TypeOK
  <2>3. BatchTaken'
    BY <1>2, <1>inv DEF DeriveTake, TypeOK
  <2> QED
    BY <2>1, <2>2, <2>3 DEF Empty, Nothing
<1>3. ASSUME NEW d \in Deriver, dpc[d] = "run", dpc' = [dpc EXCEPT ![d] = "take"],
             batch' = Nothing, UNCHANGED derive_thread
      PROVE  Goal
  <2>1. derive_thread = d
    BY <1>3, <1>inv
  <2>2. OneDeriver' /\ derive_thread' = d /\ dpc'[d] = "take"
    BY <1>3, <2>1, <1>inv DEF TypeOK
  <2>3. Nothing' = Nothing
    BY DEF Nothing
  <2> QED
    BY <1>3, <2>2, <2>3
<1>4. ASSUME NEW d \in Deriver, FinishDeriver(d) PROVE Goal
  <2>1. dpc[d] = "exit" /\ dpc' = [dpc EXCEPT ![d] = "idle"] /\ UNCHANGED batch
    BY <1>4 DEF FinishDeriver
  <2>2. derive_thread # d /\ derive_thread' = derive_thread
    BY <1>4, <2>1, <1>inv DEF FinishDeriver
  <2>3. OneDeriver' /\ BatchTaken'
    BY <2>1, <2>2, <1>inv DEF TypeOK
  <2>4. DeriveAttended'
    BY <1>4, <2>1, <2>2, <1>inv DEF FinishDeriver, TypeOK, Empty, Nothing, life
  <2> QED
    BY <2>3, <2>4
<1>5. CASE /\ UNCHANGED <<derive_thread, dpc, batch, derive_pending>>
           /\ stop => stop'
  BY <1>5, <1>inv DEF Empty, Nothing
<1>6. ASSUME NEW d \in Deriver, DeriveDone(d) \/ RetryDerive(d) PROVE Goal
  BY <1>6, <1>3 DEF DeriveDone, RetryDerive
<1>7. ASSUME NEW t \in Worker, WorkerStep(t) \/ WorkerFault(t), ~ScheduleDerive(t)
      PROVE  Goal
  <2>1. UNCHANGED <<derive, stop>>
    BY <1>7 DEF WorkerStep, WorkerFault, WorkerSeesStop, Take, TakeRaises, CommitArtifact, FreezeArtifact,
         FailArtifact, RunFailed, RunRaises, RecordEventRaises, RetryPing, RunCompleted,
         Check, FinishWorker, life
  <2> QED
    BY <2>1, <1>5 DEF derive
<1>8. CASE \/ \E h \in Harness, p \in Path : SourceChange(h, p)
           \/ \E n \in Noter : NoterStep(n)
           \/ Drain
           \/ \E h \in Harness : Fire(h) \/ CatchUp(h)
           \/ RequestStop \/ StopReturns
           \/ UNCHANGED vars
  <2>1. UNCHANGED derive /\ (stop => stop')
    BY <1>8 DEF SourceChange, NoterStep, NoteChange, NotePing, Drain, Fire, CatchUp,
         RequestStop, StopReturns, life, vars
  <2> QED
    BY <2>1, <1>5 DEF derive
<1> QED
  BY <1>1, <1>2, <1>4, <1>6, <1>7, <1>8 DEF Next, DeriverStep, DeriveInputChanged, DeriveFails

\* After stop() nobody registers again.
LEMMA QuietInv ==
  ASSUME IInv, [Next]_vars
  PROVE  Quiet'
<1> USE DEF Quiet
<1>inv. TypeOK /\ Quiet /\ OneIngestPerHarness /\ HasHarness
  BY DEF IInv
<1>1. CASE StopReturns
  BY <1>1 DEF StopReturns, ingest, derive
<1>2. ASSUME stopped, stopped', stop' = stop,
             \/ UNCHANGED <<ingest_threads, derive_thread>>
             \/ /\ UNCHANGED ingest_threads
                /\ derive_thread' = None
             \/ /\ UNCHANGED derive_thread
                /\ \E h \in Harness : ingest_threads' = [ingest_threads EXCEPT ![h] = None]
      PROVE  Quiet'
  BY <1>2, <1>inv DEF TypeOK
<1>3. CASE ~stopped'
  BY <1>3
<1>4. ASSUME NEW h \in Harness, Fire(h) \/ CatchUp(h) PROVE Quiet'
  <2>1. ScheduleIngest(h) /\ UNCHANGED <<derive, life>>
    BY <1>4 DEF Fire, CatchUp
  <2>2. ASSUME stop PROVE UNCHANGED ingest
    BY <2>1, <2>2 DEF ScheduleIngest
  <2> QED
    BY <2>1, <2>2, <1>inv DEF ingest, derive, life
<1>5. ASSUME NEW t \in Worker, WorkerStep(t) \/ WorkerFault(t) PROVE Quiet'
  <2>1. stopped' = stopped /\ stop' = stop
    BY <1>5 DEF WorkerStep, WorkerFault, WorkerSeesStop, Take, TakeRaises, CommitArtifact, FreezeArtifact,
         FailArtifact, RunFailed, RunRaises, RecordEventRaises, RetryPing, RunCompleted,
         ScheduleDerive, Check, FinishWorker, life
  <2>2. CASE ScheduleDerive(t)
    <3>1. pc[t] \in Active /\ job[t].harness \in Harness
      BY <2>2, <1>inv DEF ScheduleDerive, Active, WorkerPc, HasHarness
    <3>2. ingest_threads[job[t].harness] = t
      BY <3>1, <1>inv DEF OneIngestPerHarness
    <3>3. ~stopped
      BY <3>1, <3>2, <1>inv
    <3> QED
      BY <3>3, <2>1
  <2>3. CASE Check(t) \/ FinishWorker(t)
    <3>1. job[t].harness \in Harness
      BY <2>3, <1>inv DEF Check, FinishWorker, HasHarness
    <3>2. /\ UNCHANGED derive_thread
          /\ \/ UNCHANGED ingest_threads
             \/ ingest_threads' = [ingest_threads EXCEPT ![job[t].harness] = None]
      BY <2>3 DEF Check, FinishWorker, derive
    <3> QED
      BY <2>1, <3>1, <3>2, <1>2, <1>3
  <2>4. CASE ~ScheduleDerive(t) /\ ~Check(t) /\ ~FinishWorker(t)
    <3>1. UNCHANGED <<ingest_threads, derive_thread>>
      BY <1>5, <2>4 DEF WorkerStep, WorkerFault, WorkerSeesStop, Take, TakeRaises,
           CommitArtifact, FreezeArtifact, FailArtifact, RunFailed, RunRaises, RecordEventRaises,
           RetryPing, RunCompleted, derive
    <3> QED
      BY <2>1, <3>1, <1>2, <1>3
  <2> QED
    BY <2>2, <2>3, <2>4
<1>6. ASSUME NEW d \in Deriver, DeriverStep(d) \/ DeriveFails(d) PROVE Quiet'
  <2>1. /\ UNCHANGED <<ingest_threads, stop, stopped>>
        /\ derive_thread' \in {derive_thread, None}
    BY <1>6 DEF DeriverStep, DeriveFails, DeriveTake, DeriveDone, DeriveInputChanged,
         RetryDerive, FinishDeriver, ingest, life
  <2> QED
    BY <2>1, <1>2, <1>3
<1>7. CASE \/ \E h \in Harness, p \in Path : SourceChange(h, p)
           \/ \E n \in Noter : NoterStep(n)
           \/ Drain \/ RequestStop
           \/ UNCHANGED vars
  <2>1. UNCHANGED <<ingest_threads, derive_thread, stopped>> /\ (stop => stop')
    BY <1>7 DEF SourceChange, NoterStep, NoteChange, NotePing, Drain, RequestStop, ingest,
         derive, life, vars
  <2> QED
    BY <2>1, <1>inv
<1> QED
  BY <1>1, <1>4, <1>5, <1>6, <1>7 DEF Next

\* A request waits for a worker that is about to start a run.
LEMMA RequestsInv ==
  ASSUME IInv, [Next]_vars
  PROVE  RequestHasWorker'
<1> USE DEF RequestHasWorker
<1>inv. TypeOK /\ RequestHasWorker /\ OneIngestPerHarness /\ HasHarness /\ Registered
  BY DEF IInv
<1>1. CASE /\ UNCHANGED <<unserved, pc, ingest_threads, ingest_reschedule, stranded>>
           /\ stop => stop'
  BY <1>1, <1>inv
<1>2. ASSUME NEW h \in Harness, Fire(h) \/ CatchUp(h) PROVE RequestHasWorker'
  <2>1. ScheduleIngest(h) /\ UNCHANGED <<stop, stranded>>
    BY <1>2 DEF Fire, CatchUp, life
  <2>2. CASE stop
    BY <2>1, <2>2
  <2>3. CASE /\ ingest_threads[h] # None /\ unserved' = unserved \cup {h}
             /\ ingest_reschedule' = ingest_reschedule \cup {h}
             /\ UNCHANGED <<pc, job, ingest_threads>>
    BY <2>1, <2>3, <1>inv
  <2>4. ASSUME unserved' = unserved \cup {h}, ingest_threads[h] = None,
               NEW t \in Worker, Starts(t, h)
        PROVE  RequestHasWorker'
    <3> SUFFICES ASSUME NEW k \in unserved'
                 PROVE  \/ stop' \/ k \in stranded'
                        \/ \E u \in Worker : ingest_threads'[k] = u /\ pc'[u] = "begin"
                        \/ k \in ingest_reschedule' /\ ingest_threads'[k] # None
      OBVIOUS
    <3>1. CASE k = h
      BY <3>1, <2>4, <1>inv DEF Starts, TypeOK
    <3>2. CASE k # h
      <4>1. k \in unserved /\ k \in Harness /\ ingest_threads'[k] = ingest_threads[k]
        BY <3>2, <2>4, <1>inv DEF Starts, TypeOK
      <4> QED
        BY <4>1, <2>1, <2>4, <1>inv DEF Starts
    <3> QED
      BY <3>1, <3>2
  <2> QED
    BY <2>1, <2>2, <2>3, <2>4, <1>inv, StartShape
<1>3. ASSUME NEW t \in Worker, Take(t) \/ TakeRaises(t) PROVE RequestHasWorker'
  <2>1. /\ pc[t] = "begin" /\ unserved' = unserved \ {job[t].harness}
        /\ UNCHANGED <<ingest_threads, ingest_reschedule, stop, stranded>>
        /\ \A u \in Worker \ {t} : pc'[u] = pc[u]
    BY <1>3, <1>inv DEF Take, TakeRaises, life, TypeOK
  <2>2. ingest_threads[job[t].harness] = t
    BY <2>1, <1>inv DEF OneIngestPerHarness, Active, WorkerPc
  <2>3. \A h \in unserved' : h \in Harness /\ h # job[t].harness
    BY <2>1, <1>inv DEF TypeOK
  <2>4. \A h \in unserved' : ingest_threads[h] # t
    BY <2>3, <1>inv DEF Registered
  <2> QED
    BY <2>1, <2>4, <1>inv
<1>4. ASSUME NEW t \in Worker, Check(t) PROVE RequestHasWorker'
  <2>1. /\ pc[t] = "check" /\ ingest_threads[job[t].harness] = t
        /\ UNCHANGED <<unserved, stop, stranded>>
        /\ ingest_reschedule' = ingest_reschedule \ {job[t].harness}
        /\ \A u \in Worker \ {t} : pc'[u] = pc[u]
    BY <1>4, <1>inv DEF Check, OneIngestPerHarness, Active, WorkerPc, life, ghosts, TypeOK
  <2>2. \/ pc'[t] = "begin" /\ UNCHANGED ingest_threads
        \/ /\ ingest_threads' = [ingest_threads EXCEPT ![job[t].harness] = None]
           /\ job[t].harness \notin ingest_reschedule \/ stop
    BY <1>4, <1>inv DEF Check, TypeOK
  <2>3. ASSUME NEW h \in unserved, ~stop, h \notin stranded
        PROVE  \/ \E u \in Worker : ingest_threads'[h] = u /\ pc'[u] = "begin"
               \/ h \in ingest_reschedule' /\ ingest_threads'[h] # None
    <3>1. h \in Harness
      BY <1>inv DEF TypeOK
    <3>2. CASE h = job[t].harness
      BY <2>1, <2>2, <2>3, <3>2, <1>inv
    <3>3. CASE h # job[t].harness
      <4>1. ingest_threads'[h] = ingest_threads[h] /\ ingest_threads[h] # t
        BY <2>2, <3>1, <3>3, <1>inv DEF TypeOK, Registered
      <4> QED
        BY <2>1, <2>3, <3>3, <4>1, <1>inv
    <3> QED
      BY <3>2, <3>3
  <2> QED
    BY <2>1, <2>3
<1>5. ASSUME NEW t \in Worker, FinishWorker(t) PROVE RequestHasWorker'
  <2>1. /\ pc[t] = "exit" /\ UNCHANGED <<unserved, stop>>
        /\ \A u \in Worker \ {t} : pc'[u] = pc[u]
        /\ \/ UNCHANGED <<ingest_threads, ingest_reschedule, stranded>>
           \/ /\ ingest_threads[job[t].harness] = t
              /\ ingest_threads' = [ingest_threads EXCEPT ![job[t].harness] = None]
              /\ ingest_reschedule' = ingest_reschedule \ {job[t].harness}
              /\ stranded' = IF job[t].harness \in ingest_reschedule
                             THEN stranded \cup {job[t].harness} ELSE stranded
    BY <1>5, <1>inv DEF FinishWorker, Retire, life, TypeOK
  <2>2. ASSUME NEW h \in unserved, ~stop, h \notin stranded'
        PROVE  \/ \E u \in Worker : ingest_threads'[h] = u /\ pc'[u] = "begin"
               \/ h \in ingest_reschedule' /\ ingest_threads'[h] # None
    <3>1. h \in Harness /\ h \notin stranded
      BY <2>1, <2>2, <1>inv DEF TypeOK
    <3>2. CASE h = job[t].harness /\ ingest_threads[h] = t
      BY <2>1, <2>2, <3>1, <3>2, <1>inv
    <3>3. CASE h # job[t].harness \/ ingest_threads[h] # t
      <4>1. ingest_threads'[h] = ingest_threads[h] /\ ingest_threads[h] # t
        BY <2>1, <3>1, <3>3, <1>inv DEF TypeOK, Registered
      <4>2. h \in ingest_reschedule => h \in ingest_reschedule'
        BY <2>1, <3>3
      <4> QED
        BY <2>1, <2>2, <3>1, <4>1, <4>2, <1>inv
    <3> QED
      BY <3>2, <3>3
  <2> QED
    BY <2>1, <2>2
<1>6. ASSUME NEW t \in Worker, WorkerStep(t) \/ WorkerFault(t), ~Take(t), ~TakeRaises(t),
             ~Check(t), ~FinishWorker(t)
      PROVE  RequestHasWorker'
  <2>1. CASE WorkerSeesStop(t)
    BY <2>1 DEF WorkerSeesStop, life
  <2>2. CASE ~WorkerSeesStop(t)
    <3>1. UNCHANGED <<unserved, ingest_threads, ingest_reschedule, stranded, stop>>
      BY <1>6, <2>2 DEF WorkerStep, WorkerFault, CommitArtifact, FreezeArtifact, FailArtifact, RunFailed,
           RunRaises, RecordEventRaises, RetryPing, RunCompleted, ScheduleDerive, life, ghosts
    <3>2. pc[t] # "begin" /\ \A u \in Worker \ {t} : pc'[u] = pc[u]
      BY <1>6, <2>2, <1>inv, RequeueShape DEF WorkerStep, WorkerFault, CommitArtifact, FreezeArtifact,
           FailArtifact, RunFailed, RunRaises, RecordEventRaises, RetryPing, RunCompleted,
           ScheduleDerive, Requeue, TypeOK
    <3> QED
      BY <3>1, <3>2, <1>inv
  <2> QED
    BY <2>1, <2>2
<1>7. CASE \/ \E h \in Harness, p \in Path : SourceChange(h, p)
           \/ \E n \in Noter : NoterStep(n)
           \/ Drain
           \/ \E d \in Deriver : DeriverStep(d) \/ DeriveFails(d)
           \/ RequestStop \/ StopReturns
           \/ UNCHANGED vars
  <2>1. /\ UNCHANGED <<unserved, pc, ingest_threads, ingest_reschedule, stranded>>
        /\ stop => stop'
    BY <1>7 DEF SourceChange, NoterStep, NoteChange, NotePing, Drain, DeriverStep,
         DeriveFails, DeriveTake, DeriveDone, DeriveInputChanged, FinishDeriver,
         RetryDerive, RequestStop, StopReturns, ingest, life, ghosts, vars
  <2> QED
    BY <2>1, <1>1
<1> QED
  BY <1>2, <1>3, <1>4, <1>5, <1>6, <1>7 DEF Next

\* A committed window is with a worker, pending, in the batch or given up.
LEMMA WindowsInv ==
  ASSUME IInv, [Next]_vars
  PROVE  WindowsAccounted'
<1> USE DEF WindowsAccounted
<1>inv. TypeOK /\ WindowsAccounted /\ HasHarness /\ HoldsWindows /\ OneDeriver /\ BatchTaken
  BY DEF IInv
<1>1. CASE UNCHANGED <<underived, job, derive_pending, batch, dropped>>
  BY <1>1, <1>inv
\* Workers that hold no window of their own before and after.
<1>2. ASSUME NEW t \in Worker, job[t].windows = {}, \A u \in Worker \ {t} : job'[u] = job[u],
             UNCHANGED <<underived, derive_pending, batch, dropped>>
      PROVE  WindowsAccounted'
  BY <1>2, <1>inv
<1>3. ASSUME NEW h \in Harness, Fire(h) \/ CatchUp(h) PROVE WindowsAccounted'
  <2>1. ScheduleIngest(h) /\ UNCHANGED <<underived, derive_pending, batch, dropped>>
    BY <1>3 DEF Fire, CatchUp, world, derive
  <2>2. ASSUME NEW t \in Worker, Starts(t, h) PROVE WindowsAccounted'
    BY <2>1, <2>2, <1>2, <1>inv DEF Starts, HoldsWindows
  <2> QED
    BY <2>1, <2>2, <1>1, <1>inv, StartShape DEF ingest
<1>4. ASSUME NEW t \in Worker, Take(t) \/ Check(t) \/ FinishWorker(t)
      PROVE  WindowsAccounted'
  <2>1. /\ pc[t] \in {"begin", "check", "exit"}
        /\ UNCHANGED <<underived, derive_pending, batch, dropped>>
    BY <1>4 DEF Take, Check, FinishWorker, world, derive, ghosts
  <2>2. \A u \in Worker \ {t} : job'[u] = job[u]
    BY <1>4, <1>inv DEF Take, Check, FinishWorker, Retire, TypeOK
  <2> QED
    BY <2>1, <2>2, <1>2, <1>inv DEF HoldsWindows
<1>5. ASSUME NEW t \in Worker, NEW f \in File, CommitArtifact(t, f) PROVE WindowsAccounted'
  <2> DEFINE h == job[t].harness
  <2>1. job[t] \in Job /\ h \in Harness
    BY <1>5, <1>inv DEF CommitArtifact, TypeOK, HasHarness
  <2>2. UNCHANGED <<derive_pending, batch>>
    BY <1>5 DEF CommitArtifact, derive
  <2>3. CASE /\ underived' = [underived EXCEPT ![h] = @ \cup {f}]
             /\ job' = [job EXCEPT ![t].todo = @ \ {f}, ![t].windows = @ \cup {f}]
             /\ dropped' = [dropped EXCEPT ![h] = @ \ {f}]
    <3>1. /\ job'[t].harness = h /\ job'[t].windows = job[t].windows \cup {f}
          /\ \A u \in Worker \ {t} : job'[u] = job[u]
      BY <2>1, <2>3, <1>inv DEF TypeOK, Job
    <3>2. ASSUME NEW k \in Harness, NEW g \in underived'[k], ~(k = h /\ g = f)
          PROVE  g \in underived[k] /\ (g \in dropped[k] => g \in dropped'[k])
      BY <2>1, <2>3, <3>2, <1>inv DEF TypeOK
    <3>3. ASSUME NEW k \in Harness, NEW g, \E u \in Worker : job[u].harness = k /\ g \in job[u].windows
          PROVE  \E u \in Worker : job'[u].harness = k /\ g \in job'[u].windows
      BY <3>1, <3>3
    <3> QED
      BY <2>2, <3>1, <3>2, <3>3, <1>inv
  <2>4. CASE /\ job' = [job EXCEPT ![t].todo = @ \ {f}]
             /\ UNCHANGED <<underived, dropped>>
    <3>1. \A u \in Worker : job'[u].harness = job[u].harness /\ job'[u].windows = job[u].windows
      BY <2>1, <2>4, <1>inv DEF TypeOK, Job
    <3> QED
      BY <2>2, <2>4, <3>1, <1>inv
  <2> QED
    BY <1>5, <2>3, <2>4 DEF CommitArtifact
<1>6. ASSUME NEW t \in Worker, NEW f \in File, FreezeArtifact(t, f) \/ FailArtifact(t, f)
      PROVE  WindowsAccounted'
  <2>1. UNCHANGED <<underived, derive_pending, batch, dropped>> /\ job[t] \in Job
    <3>1. CASE FreezeArtifact(t, f)
      BY <3>1, <1>inv DEF FreezeArtifact, derive, TypeOK
    <3>2. CASE FailArtifact(t, f)
      BY <3>2, <1>inv DEF FailArtifact, derive, ghosts, TypeOK
    <3> QED
      BY <1>6, <3>1, <3>2
  <2>2. \A u \in Worker : job'[u].harness = job[u].harness /\ job'[u].windows = job[u].windows
    <3>1. CASE FreezeArtifact(t, f)
      BY <3>1, <2>1, <1>inv DEF FreezeArtifact, TypeOK, Job
    <3>2. CASE FailArtifact(t, f)
      BY <3>2, <2>1, <1>inv DEF FailArtifact, TypeOK, Job
    <3> QED
      BY <1>6, <3>1, <3>2
  <2> QED
    BY <2>1, <2>2, <1>inv
\* A failed run gives its windows up: the code reports them to nobody.
<1>7. ASSUME NEW t \in Worker, RunFailed(t) \/ RunRaises(t) \/ RecordEventRaises(t)
      PROVE  WindowsAccounted'
  <2>1. PICK n : Requeue(t, n)
    BY <1>7 DEF RunFailed, RunRaises, RecordEventRaises
  <2>2. UNCHANGED <<underived, derive_pending, batch>> /\ pc[t] = "ingest"
    BY <1>7 DEF RunFailed, RunRaises, RecordEventRaises, world, derive
  <2>3. /\ \A h \in Harness : dropped[h] \subseteq dropped'[h]
        /\ job[t].windows \subseteq dropped'[job[t].harness]
    BY <2>1, <2>2, <1>inv DEF Requeue, GiveUpWindows, TypeOK, HasHarness
  <2>4. \A u \in Worker \ {t} : job'[u] = job[u]
    BY <2>1, <1>inv, RequeueShape
  <2> QED
    BY <2>2, <2>3, <2>4, <1>inv
<1>8. ASSUME NEW t \in Worker, ScheduleDerive(t) PROVE WindowsAccounted'
  <2>1. /\ UNCHANGED <<underived, batch>> /\ pc[t] = "outcome" /\ job[t] \in Job
        /\ job' = [job EXCEPT ![t].windows = {}]
    BY <1>8, <1>inv DEF ScheduleDerive, world, TypeOK
  <2>2. \A u \in Worker \ {t} : job'[u] = job[u]
    BY <2>1, <1>inv DEF TypeOK
  <2>3. job[t].harness \in Harness
    BY <2>1, <1>inv DEF HasHarness
  <2>4. \/ /\ dropped' = [dropped EXCEPT ![job[t].harness] = @ \cup job[t].windows]
           /\ UNCHANGED derive_pending
        \/ /\ derive_pending' =
                 [derive_pending EXCEPT ![job[t].harness] = @ \cup job[t].windows]
           /\ UNCHANGED dropped
    BY <1>8 DEF ScheduleDerive, QueueDerive
  <2>5. /\ \A h \in Harness : /\ dropped[h] \subseteq dropped'[h]
                              /\ derive_pending[h] \subseteq derive_pending'[h]
        /\ job[t].windows \subseteq dropped'[job[t].harness] \cup derive_pending'[job[t].harness]
    BY <2>3, <2>4, <1>inv DEF TypeOK
  <2> QED
    BY <2>1, <2>2, <2>5, <1>inv
<1>9. ASSUME NEW t \in Worker,
             \/ WorkerSeesStop(t) \/ TakeRaises(t) \/ RetryPing(t) \/ RunCompleted(t)
      PROVE  WindowsAccounted'
  BY <1>9, <1>1 DEF WorkerSeesStop, TakeRaises, RetryPing, RunCompleted, world, derive, ghosts
<1>10. ASSUME NEW d \in Deriver, DeriveTake(d) PROVE WindowsAccounted'
  <2>1. UNCHANGED <<underived, job>> /\ dpc[d] = "take"
    BY <1>10 DEF DeriveTake, ingest
  <2>2. batch = Nothing
    BY <2>1, <1>inv DEF OneDeriver, BatchTaken
  <2>3. \A h \in Harness : batch[h] = {} /\ dropped[h] \subseteq dropped'[h]
    BY <1>10, <2>2, <1>inv DEF DeriveTake, Nothing, Merge, TypeOK
  <2>4. \A h \in Harness : derive_pending[h] \subseteq batch'[h] \cup dropped'[h]
    BY <1>10, <1>inv DEF DeriveTake, Nothing, Merge, TypeOK
  <2> QED
    BY <2>1, <2>3, <2>4, <1>inv
<1>11. ASSUME NEW d \in Deriver, DeriveDone(d) PROVE WindowsAccounted'
  <2>1. UNCHANGED <<job, derive_pending, dropped>>
    BY <1>11 DEF DeriveDone, ingest, ghosts
  <2>2. \A h \in Harness : underived'[h] = underived[h] \ batch[h]
    BY <1>11, <1>inv DEF DeriveDone, Minus, TypeOK
  <2> QED
    BY <2>1, <2>2, <1>inv
<1>12. ASSUME NEW d \in Deriver, RetryDerive(d) PROVE WindowsAccounted'
  <2>1. UNCHANGED <<job, underived>>
    BY <1>12 DEF RetryDerive, ingest
  <2>2. \A h \in Harness : /\ dropped[h] \subseteq dropped'[h]
                           /\ derive_pending[h] \subseteq derive_pending'[h]
                           /\ batch[h] \subseteq dropped'[h] \cup derive_pending'[h]
    BY <1>12, <1>inv DEF RetryDerive, Merge, TypeOK
  <2> QED
    BY <2>1, <2>2, <1>inv
<1>13. ASSUME NEW d \in Deriver, FinishDeriver(d) PROVE WindowsAccounted'
  <2>1. UNCHANGED <<job, underived, batch>>
    BY <1>13 DEF FinishDeriver, ingest, world
  <2>2. \A h \in Harness : /\ dropped[h] \subseteq dropped'[h]
                           /\ derive_pending[h] \subseteq derive_pending'[h] \cup dropped'[h]
    BY <1>13, <1>inv DEF FinishDeriver, Merge, Nothing, TypeOK
  <2> QED
    BY <2>1, <2>2, <1>inv
<1>14. CASE \/ \E h \in Harness, p \in Path : SourceChange(h, p)
            \/ \E n \in Noter : NoterStep(n)
            \/ Drain \/ RequestStop \/ StopReturns
            \/ UNCHANGED vars
  BY <1>14, <1>1 DEF SourceChange, NoterStep, NoteChange, NotePing, Drain, RequestStop,
       StopReturns, world, ingest, derive, ghosts, vars
<1> QED
  BY <1>3, <1>4, <1>5, <1>6, <1>7, <1>8, <1>9, <1>10, <1>11, <1>12, <1>13, <1>14
     DEF Next, WorkerStep, WorkerFault, DeriverStep, DeriveInputChanged, DeriveFails

\* A noted change is pending, or the worker that took it still owes it, or died
\* with it.
LEMMA NotedInv ==
  ASSUME IInv, [Next]_vars
  PROVE  NotedHeld'
<1> USE DEF NotedHeld, Owes
<1>inv. TypeOK /\ NotedHeld /\ HasHarness
  BY DEF IInv
<1>1. CASE UNCHANGED <<noted, lost, changed_paths, pc, job>>
  BY <1>1, <1>inv
<1>2. ASSUME NEW t \in Worker, pc[t] # "ingest",
             \A u \in Worker \ {t} : job'[u] = job[u] /\ pc'[u] = pc[u],
             UNCHANGED <<noted, lost, changed_paths>>
      PROVE  NotedHeld'
  BY <1>2, <1>inv
<1>3. ASSUME NEW n \in Noter, NEW h \in Harness, NEW p \in Path, NoteChange(n, h, p)
      PROVE  NotedHeld'
  <2>1. UNCHANGED <<pc, job>>
    BY <1>3 DEF NoteChange, ingest
  <2>2. \A k \in Harness : /\ changed_paths[k] \subseteq changed_paths'[k]
                           /\ noted'[k] \subseteq noted[k] \cup changed_paths'[k]
                           /\ lost[k] \subseteq lost'[k] \cup changed_paths'[k]
    BY <1>3, <1>inv DEF NoteChange, TypeOK
  <2> QED
    BY <2>1, <2>2, <1>inv
<1>4. ASSUME NEW h \in Harness, Fire(h) \/ CatchUp(h) PROVE NotedHeld'
  <2>1. ScheduleIngest(h) /\ UNCHANGED <<noted, lost, changed_paths>>
    BY <1>4 DEF Fire, CatchUp, queue
  <2>2. ASSUME NEW t \in Worker, Starts(t, h) PROVE NotedHeld'
    BY <2>1, <2>2, <1>2 DEF Starts
  <2> QED
    BY <2>1, <2>2, <1>1, <1>inv, StartShape DEF ingest
<1>5. ASSUME NEW t \in Worker, Take(t) PROVE NotedHeld'
  <2> DEFINE h == job[t].harness
  <2>1. /\ pc[t] = "begin" /\ h \in Harness /\ UNCHANGED <<noted, lost>>
        /\ changed_paths' = [changed_paths EXCEPT ![h] = {}]
        /\ \A u \in Worker \ {t} : job'[u] = job[u] /\ pc'[u] = pc[u]
    BY <1>5, <1>inv DEF Take, TypeOK, HasHarness
  <2>2. ASSUME changed_paths[h] \cap File # {}
        PROVE  /\ pc'[t] = "ingest" /\ job'[t].harness = h
               /\ job'[t].scope = changed_paths[h] \cap File
               /\ job'[t].todo = changed_paths[h] \cap File
    BY <1>5, <2>2, <1>inv DEF Take, TypeOK
  <2>3. ASSUME NEW k \in Harness, NEW f \in noted'[k]
        PROVE  \/ f \in changed_paths'[k] \/ f \in lost'[k]
               \/ \E u \in Worker : Owes(u, k, f)'
    <3>1. f \in noted[k] /\ f \in File
      BY <2>1, <2>3, <1>inv DEF TypeOK
    <3>2. CASE \E u \in Worker : Owes(u, k, f)
      BY <2>1, <3>2
    <3>3. CASE f \in changed_paths[k] /\ k = h
      BY <2>2, <3>1, <3>3
    <3>4. CASE f \in changed_paths[k] /\ k # h
      BY <2>1, <3>4, <1>inv DEF TypeOK
    <3>5. CASE f \in lost[k]
      BY <2>1, <3>5
    <3> QED
      BY <3>1, <3>2, <3>3, <3>4, <3>5, <1>inv
  <2> QED
    BY <2>3
<1>6. ASSUME NEW t \in Worker, TakeRaises(t) PROVE NotedHeld'
  <2>1. /\ pc[t] = "begin" /\ job[t].harness \in Harness /\ UNCHANGED <<job, noted>>
        /\ \A u \in Worker \ {t} : pc'[u] = pc[u]
        /\ changed_paths' = [changed_paths EXCEPT ![job[t].harness] = {}]
        /\ lost' = [lost EXCEPT ![job[t].harness] =
                       @ \cup (noted[job[t].harness] \cap changed_paths[job[t].harness])]
    BY <1>6, <1>inv DEF TakeRaises, TypeOK, HasHarness
  <2>2. ASSUME NEW k \in Harness, NEW f \in noted[k], f \in changed_paths[k] \/ f \in lost[k]
        PROVE  f \in changed_paths'[k] \/ f \in lost'[k]
    BY <2>1, <2>2, <1>inv DEF TypeOK
  <2>3. ASSUME NEW k \in Harness, NEW f, \E u \in Worker : Owes(u, k, f)
        PROVE  \E u \in Worker : Owes(u, k, f)'
    BY <2>1, <2>3
  <2> HIDE DEF Owes
  <2> QED
    BY <2>1, <2>2, <2>3, <1>inv
<1>7. ASSUME NEW t \in Worker, NEW f \in File, FreezeArtifact(t, f) \/ CommitArtifact(t, f)
      PROVE  NotedHeld'
  <2>1. /\ UNCHANGED <<pc, changed_paths>> /\ job[t] \in Job /\ job[t].harness \in Harness
        /\ noted' = [noted EXCEPT ![job[t].harness] = @ \ {f}]
        /\ lost' = [lost EXCEPT ![job[t].harness] = @ \ {f}]
    BY <1>7, <1>inv DEF FreezeArtifact, CommitArtifact, queue, TypeOK, HasHarness
  <2>2. /\ \A u \in Worker \ {t} : job'[u] = job[u]
        /\ job'[t].harness = job[t].harness /\ job'[t].scope = job[t].scope
        /\ job'[t].todo = job[t].todo \ {f} /\ job'[t].failed = job[t].failed
    BY <1>7, <2>1, <1>inv DEF FreezeArtifact, CommitArtifact, TypeOK, Job
  <2> QED
    BY <2>1, <2>2, <1>inv DEF TypeOK
<1>8. ASSUME NEW t \in Worker, NEW f \in File, FailArtifact(t, f) PROVE NotedHeld'
  <2>1. UNCHANGED <<pc, changed_paths, noted, lost>> /\ job[t] \in Job
    BY <1>8, <1>inv DEF FailArtifact, queue, ghosts, TypeOK
  <2>2. /\ \A u \in Worker \ {t} : job'[u] = job[u]
        /\ job'[t].harness = job[t].harness /\ job'[t].scope = job[t].scope
        /\ job'[t].failed = TRUE
    BY <1>8, <2>1, <1>inv DEF FailArtifact, TypeOK, Job
  <2> QED
    BY <2>1, <2>2, <1>inv
<1>9. ASSUME NEW t \in Worker, RunFailed(t) \/ RunRaises(t) \/ RecordEventRaises(t)
      PROVE  NotedHeld'
  <2>1. PICK n : Requeue(t, n)
    BY <1>9 DEF RunFailed, RunRaises, RecordEventRaises
  <2>2. UNCHANGED <<noted, lost>> /\ pc[t] = "ingest"
    BY <1>9 DEF RunFailed, RunRaises, RecordEventRaises
  <2>3. /\ \A h \in Harness : changed_paths[h] \subseteq changed_paths'[h]
        /\ job[t].scope \subseteq changed_paths'[job[t].harness]
    BY <2>1, <2>2, <1>inv DEF Requeue, PutBack, TypeOK, HasHarness
  <2>4. \A u \in Worker \ {t} : job'[u] = job[u] /\ pc'[u] = pc[u]
    BY <2>1, <1>inv, RequeueShape DEF TypeOK
  <2> QED
    BY <2>2, <2>3, <2>4, <1>inv
<1>10. ASSUME NEW t \in Worker, RunCompleted(t) PROVE NotedHeld'
  <2>1. /\ UNCHANGED <<job, noted, lost, changed_paths>>
        /\ job[t].todo = {} /\ ~job[t].failed
        /\ \A u \in Worker \ {t} : pc'[u] = pc[u]
    BY <1>10, <1>inv DEF RunCompleted, ghosts, TypeOK
  <2> QED
    BY <2>1, <1>inv
<1>11. ASSUME NEW t \in Worker, \/ ScheduleDerive(t) \/ Check(t) \/ RetryPing(t)
                                \/ WorkerSeesStop(t) \/ FinishWorker(t)
       PROVE  NotedHeld'
  <2>1. pc[t] # "ingest" /\ UNCHANGED <<noted, lost, changed_paths>>
    BY <1>11 DEF ScheduleDerive, Check, RetryPing, WorkerSeesStop, FinishWorker, queue, ghosts
  <2>2. \A u \in Worker \ {t} : job'[u] = job[u] /\ pc'[u] = pc[u]
    BY <1>11, <1>inv DEF ScheduleDerive, Check, RetryPing, WorkerSeesStop, FinishWorker,
         Retire, TypeOK
  <2> QED
    BY <2>1, <2>2, <1>2
<1>12. CASE \/ \E h \in Harness, p \in Path : SourceChange(h, p)
            \/ \E n \in Noter : NotePing(n)
            \/ Drain \/ RequestStop \/ StopReturns
            \/ \E d \in Deriver : DeriverStep(d) \/ DeriveFails(d)
            \/ UNCHANGED vars
  <2>1. UNCHANGED <<noted, lost, changed_paths, pc, job>>
    BY <1>12 DEF SourceChange, NotePing, Drain, RequestStop, StopReturns, DeriverStep,
         DeriveFails, DeriveTake, DeriveDone, DeriveInputChanged, FinishDeriver,
         RetryDerive, queue, ingest, ghosts, vars
  <2> QED
    BY <2>1, <1>1
<1> QED
  BY <1>3, <1>4, <1>5, <1>6, <1>7, <1>8, <1>9, <1>10, <1>11, <1>12
     DEF Next, NoterStep, WorkerStep, WorkerFault

\* Paths that wait have a thread that will see them, or are parked after the last
\* retry.
LEMMA PathsInv ==
  ASSUME IInv, [Next]_vars
  PROVE  PathsWaited'
<1> DEFINE P(k) == changed_paths[k] # {} /\ ~stop => Signalled(k) \/ Parked(k)
<1> USE DEF Signalled, Parked
<1>inv. /\ TypeOK /\ PathsWaited /\ OneIngestPerHarness /\ HasHarness /\ Registered
        /\ \A k \in Harness : P(k)
  BY DEF IInv, PathsWaited
\* The signals and the parking of k stay as they are, and no path is added.
<1>1. ASSUME NEW k \in Harness,
             changed_paths'[k] # {} /\ ~stop' => changed_paths[k] # {} /\ ~stop,
             \A n \in Noter : noting[n] = k => noting'[n] = k,
             k \in pinged \cup firing => k \in pinged' \cup firing',
             \A u \in Worker : job[u].harness = k /\ pc[u] \in {"begin", "ping"}
               => job'[u].harness = k /\ pc'[u] \in {"begin", "ping"},
             k \in ingest_reschedule /\ ingest_threads[k] # None
               => k \in stranded' \/ (k \in ingest_reschedule' /\ ingest_threads'[k] # None),
             k \in stranded => k \in stranded',
             retry_counts[k] > MaxRetries => retry_counts'[k] > MaxRetries,
             \A u \in Worker : job'[u].harness = k /\ pc'[u] = "ingest"
               => job[u].harness = k /\ pc[u] = "ingest"
      PROVE  P(k)'
  <2>1. P(k)
    BY <1>inv
  <2>2. CASE Signalled(k)
    BY <1>1, <2>2
  <2>3. CASE Parked(k)
    BY <1>1, <2>3
  <2> QED
    BY <1>1, <2>1, <2>2, <2>3
\* Worker t alone moves, and only its own harness is touched.
<1>2. ASSUME NEW t \in Worker, NEW h \in Harness, job[t].harness = h,
             \A u \in Worker \ {t} : job'[u] = job[u] /\ pc'[u] = pc[u],
             job'[t].harness = h \/ job'[t].harness = None,
             \A k \in Harness \ {h} :
               /\ changed_paths'[k] = changed_paths[k] /\ retry_counts'[k] = retry_counts[k]
               /\ ingest_threads'[k] = ingest_threads[k]
               /\ k \in ingest_reschedule => k \in ingest_reschedule',
             UNCHANGED <<noting, firing, stop>>, pinged \subseteq pinged',
             stranded \subseteq stranded',
             P(h)'
      PROVE  PathsWaited'
  <2>1. ASSUME NEW k \in Harness, k # h PROVE P(k)'
    BY <1>1, <1>2, <2>1
  <2> QED
    BY <1>2, <2>1 DEF PathsWaited
\* ... and stays short of the run, or in it, with nothing added.
<1>3. ASSUME NEW t \in Worker, job[t].harness \in Harness,
             \A u \in Worker \ {t} : job'[u] = job[u] /\ pc'[u] = pc[u],
             job'[t].harness = job[t].harness,
             pc[t] \notin {"begin", "ping"},
             pc[t] = "ingest" \/ pc'[t] # "ingest",
             UNCHANGED <<changed_paths, retry_counts, ingest_threads, ingest_reschedule>>,
             UNCHANGED <<noting, pinged, firing, stop, stranded>>
      PROVE  PathsWaited'
  <2>1. ASSUME NEW k \in Harness PROVE P(k)'
    BY <1>1, <1>3, <2>1
  <2> QED
    BY <2>1 DEF PathsWaited
<1>4. ASSUME NEW n \in Noter, NEW h \in Harness, NEW p \in Path, NoteChange(n, h, p)
      PROVE  PathsWaited'
  <2>1. /\ UNCHANGED <<pinged, firing, ingest_threads, ingest_reschedule, pc, job, stop,
                       stranded>>
        /\ noting[n] = None /\ noting'[n] = h
        /\ \A m \in Noter : noting[m] # None => noting'[m] = noting[m]
        /\ \A k \in Harness \ {h} : /\ changed_paths'[k] = changed_paths[k]
                                    /\ retry_counts'[k] = retry_counts[k]
    BY <1>4, <1>inv DEF NoteChange, ingest, life, TypeOK
  <2>2. P(h)'
    BY <2>1
  <2>3. ASSUME NEW k \in Harness, k # h PROVE P(k)'
    BY <1>1, <2>1, <2>3
  <2> QED
    BY <2>2, <2>3 DEF PathsWaited
<1>5. ASSUME NEW n \in Noter, NotePing(n) PROVE PathsWaited'
  <2>1. /\ UNCHANGED <<changed_paths, retry_counts, firing, ingest_threads,
                       ingest_reschedule, pc, job, stop, stranded>>
        /\ pinged' = pinged \cup {noting[n]}
        /\ \A m \in Noter \ {n} : noting'[m] = noting[m]
    BY <1>5, <1>inv DEF NotePing, queue, ingest, life, ghosts, TypeOK
  <2>2. ASSUME NEW k \in Harness PROVE P(k)'
    <3>1. CASE noting[n] = k
      BY <2>1, <3>1
    <3>2. CASE noting[n] # k
      BY <1>1, <2>1, <2>2, <3>2
    <3> QED
      BY <3>1, <3>2
  <2> QED
    BY <2>2 DEF PathsWaited
<1>6. ASSUME Drain PROVE PathsWaited'
  <2>1. /\ UNCHANGED <<changed_paths, retry_counts, noting, ingest_threads,
                       ingest_reschedule, pc, job, stop, stranded>>
        /\ pinged \cup firing \subseteq pinged' \cup firing'
    BY <1>6 DEF Drain, queue, ingest, life, ghosts
  <2>2. ASSUME NEW k \in Harness PROVE P(k)'
    BY <1>1, <2>1, <2>2
  <2> QED
    BY <2>2 DEF PathsWaited
<1>7. ASSUME NEW h \in Harness, Fire(h) \/ CatchUp(h) PROVE PathsWaited'
  <2>1. /\ ScheduleIngest(h)
        /\ UNCHANGED <<changed_paths, retry_counts, noting, pinged, stop, stranded>>
        /\ firing \ {h} \subseteq firing'
    BY <1>7 DEF Fire, CatchUp, queue, life
  <2>2. CASE stop
    BY <2>1, <2>2 DEF PathsWaited
  <2>3. CASE /\ ingest_threads[h] # None
             /\ ingest_reschedule' = ingest_reschedule \cup {h}
             /\ UNCHANGED <<pc, job, ingest_threads>>
    <3>1. P(h)'
      BY <2>3
    <3>2. ASSUME NEW k \in Harness, k # h PROVE P(k)'
      BY <1>1, <2>1, <2>3, <3>2
    <3> QED
      BY <3>1, <3>2 DEF PathsWaited
  <2>4. ASSUME ingest_threads[h] = None, NEW t \in Worker, Starts(t, h)
        PROVE  PathsWaited'
    <3>1. P(h)'
      BY <2>4 DEF Starts
    <3>2. ASSUME NEW k \in Harness, k # h PROVE P(k)'
      <4>1. /\ ingest_threads'[k] = ingest_threads[k] /\ UNCHANGED ingest_reschedule
            /\ pc[t] = "idle" /\ pc'[t] = "begin" /\ job'[t].harness = h
            /\ \A u \in Worker \ {t} : job'[u] = job[u] /\ pc'[u] = pc[u]
        BY <2>4, <3>2, <1>inv DEF Starts, TypeOK
      <4> QED
        BY <1>1, <2>1, <3>2, <4>1
    <3> QED
      BY <3>1, <3>2 DEF PathsWaited
  <2> QED
    BY <2>1, <2>2, <2>3, <2>4, <1>inv, StartShape
<1>8. ASSUME NEW t \in Worker, Take(t) \/ TakeRaises(t) PROVE PathsWaited'
  <2>0. PICK h \in Harness : job[t].harness = h
    BY <1>8, <1>inv DEF HasHarness, Take, TakeRaises
  <2>1.
        /\ changed_paths' = [changed_paths EXCEPT ![h] = {}]
        /\ UNCHANGED <<noting, pinged, firing, ingest_threads, ingest_reschedule, stop,
                       stranded>>
        /\ \A u \in Worker \ {t} : job'[u] = job[u] /\ pc'[u] = pc[u]
        /\ job'[t].harness = h
    BY <1>8, <2>0, <1>inv DEF Take, TakeRaises, signal, life, TypeOK
  <2>2. \A k \in Harness \ {h} : retry_counts'[k] = retry_counts[k]
    BY <1>8, <2>0, <2>1, <1>inv DEF Take, TakeRaises, TypeOK
  <2>3. changed_paths'[h] = {} /\ \A k \in Harness \ {h} : changed_paths'[k] = changed_paths[k]
    BY <2>1, <1>inv DEF TypeOK
  <2>4. P(h)'
    BY <2>1, <2>3
  <2> QED
    BY <2>0, <2>1, <2>2, <2>3, <2>4, <1>2
<1>9. ASSUME NEW t \in Worker, NEW f \in File,
             CommitArtifact(t, f) \/ FreezeArtifact(t, f) \/ FailArtifact(t, f)
      PROVE  PathsWaited'
  <2>1. /\ pc[t] = "ingest" /\ job[t].harness \in Harness /\ job[t] \in Job
        /\ UNCHANGED <<changed_paths, retry_counts, ingest_threads, ingest_reschedule>>
        /\ UNCHANGED <<noting, pinged, firing, stop, stranded, pc>>
    BY <1>9, <1>inv DEF CommitArtifact, FreezeArtifact, FailArtifact, queue, signal, life, ghosts,
         HasHarness, TypeOK
  <2>2. /\ \A u \in Worker \ {t} : job'[u] = job[u]
        /\ job'[t].harness = job[t].harness
    BY <1>9, <2>1, <1>inv DEF CommitArtifact, FreezeArtifact, FailArtifact, TypeOK, Job
  <2> QED
    BY <2>1, <2>2, <1>3
\* A run that fails asks for the next one itself, unless that was the last retry:
\* then it is over, and no other worker of the harness runs.
<1>10. ASSUME NEW t \in Worker, RunFailed(t) \/ RunRaises(t) \/ RecordEventRaises(t)
       PROVE  PathsWaited'
  <2>0. PICK h \in Harness : job[t].harness = h
    BY <1>10, <1>inv DEF HasHarness, RunFailed, RunRaises, RecordEventRaises
  <2>1. /\ pc[t] = "ingest"
        /\ UNCHANGED <<noting, pinged, firing, ingest_threads, ingest_reschedule, stop,
                       stranded>>
    BY <1>10, <2>0, <1>inv DEF RunFailed, RunRaises, RecordEventRaises, signal, life
  <2>2. PICK n \in Nat : Requeue(t, n)
    BY <1>10, <2>0, <2>1, <1>inv DEF RunFailed, RunRaises, RecordEventRaises, TypeOK
  <2>3. /\ job'[t].harness = h
        /\ \A u \in Worker \ {t} : job'[u] = job[u] /\ pc'[u] = pc[u]
        /\ pc'[t] = IF n <= MaxRetries THEN "ping" ELSE "check"
    BY <2>0, <2>2, <1>inv, RequeueShape DEF Requeue, TypeOK
  <2>4. /\ \A k \in Harness \ {h} : /\ changed_paths'[k] = changed_paths[k]
                                    /\ retry_counts'[k] = retry_counts[k]
        /\ n > MaxRetries => retry_counts'[h] = MaxRetries + 1
    BY <2>0, <2>1, <2>2, <1>inv DEF Requeue, PutBack, TypeOK
  <2>5. \A u \in Worker \ {t} : job[u].harness = h => pc[u] # "ingest"
    BY <2>0, <2>1, <1>inv DEF OneIngestPerHarness, Active, WorkerPc
  <2>6. P(h)'
    <3>1. CASE n <= MaxRetries
      BY <2>3, <3>1
    <3>2. CASE ~(n <= MaxRetries)
      <4>1. retry_counts'[h] > MaxRetries
        BY <2>4, <3>2
      <4> QED
        BY <2>3, <2>5, <3>2, <4>1
    <3> QED
      BY <3>1, <3>2
  <2> QED
    BY <2>0, <2>1, <2>3, <2>4, <2>6, <1>2
<1>11. ASSUME NEW t \in Worker, RetryPing(t) PROVE PathsWaited'
  <2>0. PICK h \in Harness : job[t].harness = h
    BY <1>11, <1>inv DEF HasHarness, RetryPing
  <2>1. /\ pc[t] = "ping"
        /\ UNCHANGED <<changed_paths, retry_counts, noting, firing, ingest_threads,
                       ingest_reschedule, stop, stranded, job>>
        /\ pinged' = pinged \cup {h}
        /\ \A u \in Worker \ {t} : pc'[u] = pc[u]
    BY <1>11, <2>0, <1>inv DEF RetryPing, queue, life, ghosts, TypeOK
  <2>2. P(h)'
    BY <2>1
  <2> QED
    BY <2>0, <2>1, <2>2, <1>2
\* While t ran, its harness was not parked: what waits has a signal.
<1>12. ASSUME NEW t \in Worker, RunCompleted(t) PROVE PathsWaited'
  <2>0. PICK h \in Harness : job[t].harness = h
    BY <1>12, <1>inv DEF HasHarness, RunCompleted
  <2>1. /\ pc[t] = "ingest"
        /\ UNCHANGED <<changed_paths, noting, pinged, firing, ingest_threads,
                       ingest_reschedule, stop, stranded, job>>
        /\ \A u \in Worker \ {t} : pc'[u] = pc[u]
        /\ \A k \in Harness \ {h} : retry_counts'[k] = retry_counts[k]
    BY <1>12, <2>0, <1>inv DEF RunCompleted, signal, life, ghosts, TypeOK
  <2>2. ~Parked(h)
    BY <2>0, <2>1
  <2>3. changed_paths[h] # {} /\ ~stop => Signalled(h)
    BY <2>1, <2>2, <1>inv
  <2>4. P(h)'
    BY <2>1, <2>3
  <2> QED
    BY <2>0, <2>1, <2>4, <1>2
<1>13. ASSUME NEW t \in Worker, ScheduleDerive(t) PROVE PathsWaited'
  <2>1. /\ pc[t] = "outcome" /\ pc' = [pc EXCEPT ![t] = "check"]
        /\ job' = [job EXCEPT ![t].windows = {}]
        /\ UNCHANGED <<changed_paths, retry_counts, ingest_threads, ingest_reschedule>>
        /\ UNCHANGED <<noting, pinged, firing, stop, stranded>>
    BY <1>13 DEF ScheduleDerive, queue, signal, life
  <2>2. /\ job[t].harness \in Harness /\ job[t] \in Job /\ pc'[t] = "check"
        /\ \A u \in Worker \ {t} : pc'[u] = pc[u]
    BY <2>1, <1>inv DEF HasHarness, TypeOK
  <2>3. /\ \A u \in Worker \ {t} : job'[u] = job[u]
        /\ job'[t].harness = job[t].harness
    BY <2>1, <2>2, <1>inv DEF TypeOK, Job
  <2> QED
    BY <2>1, <2>2, <2>3, <1>3
<1>14. ASSUME NEW t \in Worker, Check(t) PROVE PathsWaited'
  <2>0. PICK h \in Harness : job[t].harness = h
    BY <1>14, <1>inv DEF HasHarness, Check
  <2>1. /\ pc[t] = "check"
        /\ UNCHANGED <<changed_paths, retry_counts, noting, pinged, firing, stop, stranded>>
        /\ ingest_reschedule' = ingest_reschedule \ {h}
        /\ \A u \in Worker \ {t} : job'[u] = job[u] /\ pc'[u] = pc[u]
    BY <1>14, <2>0, <1>inv DEF Check, queue, signal, life, ghosts, TypeOK
  <2>2. \/ pc'[t] = "begin" /\ UNCHANGED ingest_threads
        \/ /\ h \notin ingest_reschedule \/ stop
           /\ ingest_threads' = [ingest_threads EXCEPT ![h] = None]
           /\ pc'[t] = "exit"
    BY <1>14, <2>0, <1>inv DEF Check, TypeOK
  <2>3. job'[t].harness = h
    BY <1>14, <2>0, <1>inv DEF Check, NoJob, TypeOK
  <2>4. \A k \in Harness \ {h} : ingest_threads'[k] = ingest_threads[k]
    BY <2>1, <2>2, <1>inv DEF TypeOK
  <2>5. P(h)'
    <3>1. CASE pc'[t] = "begin"
      BY <2>3, <3>1
    <3>2. CASE stop
      BY <2>1, <3>2
    <3>3. CASE h \notin ingest_reschedule /\ pc'[t] = "exit"
      BY <2>1, <2>3, <3>3, <1>1
    <3> QED
      BY <2>2, <3>1, <3>2, <3>3
  <2> QED
    BY <2>0, <2>1, <2>3, <2>4, <2>5, <1>2
<1>15. ASSUME NEW t \in Worker, FinishWorker(t) PROVE PathsWaited'
  <2>0. PICK h \in Harness : job[t].harness = h
    BY <1>15, <1>inv DEF HasHarness, FinishWorker
  <2>1. /\ pc[t] = "exit" /\ pc'[t] = "idle"
        /\ UNCHANGED <<changed_paths, retry_counts, noting, pinged, firing, stop>>
        /\ \A u \in Worker \ {t} : job'[u] = job[u] /\ pc'[u] = pc[u]
        /\ job'[t].harness = None
    BY <1>15, <2>0, <1>inv DEF FinishWorker, Retire, NoJob, queue, signal, life, TypeOK
  <2>2. \/ UNCHANGED <<ingest_threads, ingest_reschedule, stranded>>
        \/ /\ ingest_threads' = [ingest_threads EXCEPT ![h] = None]
           /\ ingest_reschedule' = ingest_reschedule \ {h}
           /\ stranded' = IF h \in ingest_reschedule THEN stranded \cup {h} ELSE stranded
    BY <1>15, <2>0 DEF FinishWorker
  <2>3. /\ stranded \subseteq stranded'
        /\ h \in ingest_reschedule /\ ingest_threads[h] # None
             => h \in stranded' \/ (h \in ingest_reschedule' /\ ingest_threads'[h] # None)
        /\ \A k \in Harness \ {h} : /\ ingest_threads'[k] = ingest_threads[k]
                                    /\ k \in ingest_reschedule => k \in ingest_reschedule'
    BY <2>2, <1>inv DEF TypeOK
  <2>4. P(h)'
    BY <2>1, <2>3, <1>1
  <2> QED
    BY <2>0, <2>1, <2>3, <2>4, <1>2
<1>16. CASE \/ \E t \in Worker : WorkerSeesStop(t)
            \/ RequestStop
  BY <1>16 DEF WorkerSeesStop, RequestStop, life, PathsWaited
<1>17. CASE \/ \E h \in Harness, p \in Path : SourceChange(h, p)
            \/ StopReturns
            \/ \E d \in Deriver : DeriverStep(d) \/ DeriveFails(d)
            \/ UNCHANGED vars
  <2>1. UNCHANGED <<changed_paths, retry_counts, noting, pinged, firing, ingest_threads,
                    ingest_reschedule, pc, job, stop, stranded>>
    BY <1>17 DEF SourceChange, StopReturns, DeriverStep, DeriveFails, DeriveTake,
         DeriveDone, DeriveInputChanged, FinishDeriver, RetryDerive, queue, signal,
         ingest, life, ghosts, vars
  <2> QED
    BY <2>1, <1>inv DEF PathsWaited
<1> QED
  BY <1>4, <1>5, <1>6, <1>7, <1>8, <1>9, <1>10, <1>11, <1>12, <1>13, <1>14, <1>15,
     <1>16, <1>17
     DEF Next, NoterStep, WorkerStep, WorkerFault

\* Every step of every thread keeps the invariant.
LEMMA NextIInv == IInv /\ [Next]_vars => IInv'
<1> SUFFICES ASSUME IInv, [Next]_vars PROVE IInv'
  OBVIOUS
<1>1. TypeOK'
  BY NextType DEF IInv
<1> QED
  BY <1>1, WorkersInv, DeriversInv, QuietInv, RequestsInv, WindowsInv, PathsInv, NotedInv
     DEF IInv

\* The invariant of the scheduler holds in every reachable state: what the threads
\* hold, who is registered, and who will look at what was left pending.
THEOREM Invariance == Spec => []IInv
  BY InitIInv, NextIInv, PTL DEF Spec

\* The tables keep their types, and the retry counters their bounds.
THEOREM TypeCorrectness == Spec => []TypeOK
<1>1. IInv => TypeOK
  BY DEF IInv
<1> QED
  BY <1>1, Invariance, PTL

\* Ingest runs of one harness do not overlap (_schedule_ingest, _worker_lock).
THEOREM IngestsDoNotOverlap == Spec => []OneIngestPerHarness
<1>1. IInv => OneIngestPerHarness
  BY DEF IInv
<1> QED
  BY <1>1, Invariance, PTL

\* While the daemon is up, paths that wait for an ingest have somebody who will
\* start one, or their retries are spent (_note_change, _requeue_changed).
THEOREM WakeupsAreKept == Spec => []NoLostWakeup
<1>1. IInv => NoLostWakeup
  BY DEF IInv, PathsWaited, NoLostWakeup, Signalled, Parked
<1> QED
  BY <1>1, Invariance, PTL

\* A delivered change is pending or in the scope of a run until it is ingested,
\* skipped or refused (_take_changed, _requeue_changed), unless a worker died with
\* it before its try block (_run_ingest): those are in lost.
THEOREM ChangesAreKept == Spec => []NotedAccounted
<1>1. IInv => NotedAccounted
  BY DEF IInv, NotedHeld, Owes, NotedAccounted
<1> QED
  BY <1>1, Invariance, PTL

\* A request for a run is served by the registered worker, unless the daemon stops
\* or that worker dies (_schedule_ingest, _ingest_worker).
THEOREM RequestsAreKept == Spec => []RequestHasWorker
<1>1. IInv => RequestHasWorker
  BY DEF IInv
<1> QED
  BY <1>1, Invariance, PTL

\* Committed windows are on their way to the derive worker until they are derived
\* or given up in one of the ways the code has for it (_queue_derive).
THEOREM WindowsAreKept == Spec => []WindowsAccounted
<1>1. IInv => WindowsAccounted
  BY DEF IInv
<1> QED
  BY <1>1, Invariance, PTL

\* Pending windows have a derive thread that will look at them (_derive_lock).
THEOREM DerivesAreAttended == Spec => []DeriveAttended
<1>1. IInv => DeriveAttended
  BY DEF IInv
<1> QED
  BY <1>1, Invariance, PTL

\* When stop() has returned, the daemon's threads are done with the ledger.
THEOREM StopIsQuiet == Spec => []QuietAfterStop
<1>1. ASSUME IInv, stopped
      PROVE  /\ \A t \in Worker : pc[t] \in {"idle", "exit"}
             /\ \A d \in Deriver : dpc[d] \in {"idle", "exit"}
  <2>1. /\ derive_thread = None
        /\ \A h \in Harness : ingest_threads[h] = None
    BY <1>1 DEF IInv, Quiet
  <2>2. ASSUME NEW t \in Worker PROVE pc[t] \in {"idle", "exit"}
    BY <1>1, <2>1 DEF IInv, TypeOK, HasHarness, OneIngestPerHarness, Active, WorkerPc
  <2>3. ASSUME NEW d \in Deriver PROVE dpc[d] \in {"idle", "exit"}
    BY <1>1, <2>1 DEF IInv, TypeOK, OneDeriver
  <2> QED
    BY <2>2, <2>3
<1>2. IInv => QuietAfterStop
  BY <1>1 DEF QuietAfterStop
<1> QED
  BY <1>2, Invariance, PTL

\* Every step serves, starts or ends a run as the single-flight promise allows, as
\* long as no worker dies while it canonicalises its paths.
LEMMA StepCoalesces ==
  ASSUME IInv, [Next]_vars, ~ResolveRaises, NEW h \in Harness
  PROVE  [SF(h)!Next]_(SF(h)!vars)
<1> DEFINE Runs == \E t \in Worker : job[t].harness = h /\ pc[t] \in Running
           Goal == [SF(h)!Next]_(SF(h)!vars)
<1>inv. /\ TypeOK /\ OneIngestPerHarness /\ HasHarness
        /\ Running = {"ingest", "ping", "outcome", "check"}
        /\ Running \subseteq Active /\ "begin" \in Active
  BY DEF IInv, Running, Active, WorkerPc
\* The four steps of the promise, and the stutter.
<1>stutter. ASSUME (h \in unserved)' = (h \in unserved), Runs' = Runs, UNCHANGED stop
            PROVE  Goal
  BY <1>stutter DEF SF!vars
<1>request. ASSUME ~stop, h \in unserved', Runs' = Runs, UNCHANGED stop PROVE Goal
  BY <1>request DEF SF!Next, SF!Request
<1>start. ASSUME ~Runs, Runs', h \notin unserved', UNCHANGED stop PROVE Goal
  BY <1>start DEF SF!Next, SF!Start
<1>finish. ASSUME Runs, ~Runs', (h \in unserved)' = (h \in unserved), UNCHANGED stop
           PROVE  Goal
  BY <1>finish DEF SF!Next, SF!Finish
<1>1. ASSUME NEW k \in Harness, Fire(k) \/ CatchUp(k) PROVE Goal
  <2>1. ScheduleIngest(k) /\ UNCHANGED stop
    BY <1>1 DEF Fire, CatchUp, life
  <2>2. Runs' = Runs
    <3>1. CASE UNCHANGED <<pc, job>>
      BY <3>1
    <3>2. ASSUME NEW t \in Worker, Starts(t, k) PROVE Runs' = Runs
      BY <3>2, <1>inv DEF Starts
    <3> QED
      BY <2>1, <3>1, <3>2, <1>inv, StartShape DEF ingest
  <2>3. CASE stop
    BY <2>1, <2>2, <2>3, <1>stutter DEF ScheduleIngest
  <2>4. CASE ~stop /\ unserved' = unserved \cup {k}
    BY <2>1, <2>2, <2>4, <1>request, <1>stutter
  <2> QED
    BY <2>1, <2>3, <2>4 DEF ScheduleIngest
<1>2. ASSUME NEW t \in Worker, Take(t) PROVE Goal
  <2>1. /\ pc[t] = "begin" /\ pc'[t] \in {"ingest", "check"}
        /\ \A u \in Worker \ {t} : job'[u] = job[u] /\ pc'[u] = pc[u]
        /\ job'[t].harness = job[t].harness /\ job[t].harness \in Harness
        /\ unserved' = unserved \ {job[t].harness} /\ UNCHANGED stop
    BY <1>2, <1>inv DEF Take, life, TypeOK, HasHarness
  <2>2. CASE job[t].harness # h
    <3>1. Runs' = Runs
      BY <2>1, <2>2
    <3> QED
      BY <2>1, <2>2, <3>1, <1>stutter
  <2>3. CASE job[t].harness = h
    <3>1. Runs' /\ h \notin unserved'
      BY <2>1, <2>3, <1>inv
    <3>2. ~Runs
      BY <2>1, <2>3, <1>inv DEF OneIngestPerHarness
    <3> QED
      BY <2>1, <3>1, <3>2, <1>start
  <2> QED
    BY <2>2, <2>3
\* A worker that goes on without leaving its run, or was in none.
<1>3. ASSUME NEW t \in Worker, UNCHANGED <<unserved, stop>>,
             \A u \in Worker \ {t} : job'[u] = job[u] /\ pc'[u] = pc[u],
             \/ pc[t] \notin Running /\ pc'[t] \notin Running
             \/ /\ pc[t] \in Running /\ pc'[t] \in Running
                /\ job'[t].harness = job[t].harness
      PROVE  Goal
  <2>1. Runs' = Runs
    BY <1>3
  <2> QED
    BY <1>3, <2>1, <1>stutter
<1>4. ASSUME NEW t \in Worker, Check(t) PROVE Goal
  <2>1. /\ pc[t] = "check" /\ pc'[t] \in {"begin", "exit"}
        /\ \A u \in Worker \ {t} : job'[u] = job[u] /\ pc'[u] = pc[u]
        /\ UNCHANGED <<unserved, stop>>
    BY <1>4, <1>inv DEF Check, life, ghosts, TypeOK
  <2>2. CASE job[t].harness # h
    <3>1. job'[t].harness = job[t].harness
      BY <1>4, <1>inv DEF Check, NoJob, TypeOK
    <3>2. Runs' = Runs
      BY <2>1, <2>2, <3>1
    <3> QED
      BY <2>1, <3>2, <1>stutter
  <2>3. CASE job[t].harness = h
    <3>1. Runs
      BY <2>1, <2>3, <1>inv
    <3>2. \A u \in Worker \ {t} : job[u].harness = h => pc[u] \notin Running
      BY <2>1, <2>3, <1>inv DEF OneIngestPerHarness
    <3>3. ~Runs'
      BY <2>1, <3>2, <1>inv
    <3> QED
      BY <2>1, <3>1, <3>3, <1>finish
  <2> QED
    BY <2>2, <2>3
<1>5. ASSUME NEW t \in Worker, WorkerSeesStop(t) \/ FinishWorker(t) PROVE Goal
  <2>1. /\ UNCHANGED <<unserved, stop>>
        /\ \A u \in Worker \ {t} : job'[u] = job[u] /\ pc'[u] = pc[u]
        /\ pc[t] \notin Running /\ pc'[t] \notin Running
    BY <1>5, <1>inv DEF WorkerSeesStop, FinishWorker, Retire, life, ghosts, TypeOK
  <2> QED
    BY <2>1, <1>3
<1>6. ASSUME NEW t \in Worker, RetryPing(t) \/ RunCompleted(t) PROVE Goal
  <2>1. /\ UNCHANGED <<unserved, stop, job>>
        /\ \A u \in Worker \ {t} : pc'[u] = pc[u]
        /\ pc[t] \in Running /\ pc'[t] \in Running
    BY <1>6, <1>inv DEF RetryPing, RunCompleted, life, ghosts, TypeOK
  <2> QED
    BY <2>1, <1>3
<1>7. ASSUME NEW t \in Worker, NEW f \in File,
             CommitArtifact(t, f) \/ FreezeArtifact(t, f) \/ FailArtifact(t, f)
      PROVE  Goal
  <2>1. UNCHANGED <<unserved, stop, pc>> /\ pc[t] = "ingest" /\ job[t] \in Job
    BY <1>7, <1>inv DEF CommitArtifact, FreezeArtifact, FailArtifact, life, ghosts, TypeOK
  <2>2. /\ \A u \in Worker \ {t} : job'[u] = job[u]
        /\ job'[t].harness = job[t].harness
    BY <1>7, <2>1, <1>inv DEF CommitArtifact, FreezeArtifact, FailArtifact, TypeOK, Job
  <2> QED
    BY <2>1, <2>2, <1>3, <1>inv
<1>8. ASSUME NEW t \in Worker, RunFailed(t) \/ RunRaises(t) \/ RecordEventRaises(t)
      PROVE  Goal
  <2>1. PICK n : Requeue(t, n)
    BY <1>8 DEF RunFailed, RunRaises, RecordEventRaises
  <2>2. UNCHANGED <<unserved, stop>> /\ pc[t] = "ingest"
    BY <1>8 DEF RunFailed, RunRaises, RecordEventRaises, life
  <2>3. /\ job'[t].harness = job[t].harness
        /\ \A u \in Worker \ {t} : job'[u] = job[u] /\ pc'[u] = pc[u]
        /\ pc'[t] \in Running
    BY <2>1, <1>inv, RequeueShape DEF TypeOK
  <2> QED
    BY <2>2, <2>3, <1>3, <1>inv
<1>9. ASSUME NEW t \in Worker, ScheduleDerive(t) PROVE Goal
  <2>1. /\ pc[t] = "outcome" /\ pc' = [pc EXCEPT ![t] = "check"]
        /\ job' = [job EXCEPT ![t].windows = {}] /\ UNCHANGED <<unserved, stop>>
        /\ job[t] \in Job
    BY <1>9, <1>inv DEF ScheduleDerive, life, TypeOK
  <2>2. /\ \A u \in Worker \ {t} : job'[u] = job[u] /\ pc'[u] = pc[u]
        /\ job'[t].harness = job[t].harness /\ pc'[t] = "check"
    BY <2>1, <1>inv DEF TypeOK, Job
  <2> QED
    BY <2>1, <2>2, <1>3, <1>inv
<1>10. CASE RequestStop
  <2>1. stop' = TRUE /\ UNCHANGED <<unserved, pc, job>>
    BY <1>10 DEF RequestStop, ingest, ghosts
  <2> QED
    BY <2>1 DEF SF!Next, SF!Stop
<1>11. CASE \/ \E k \in Harness, p \in Path : SourceChange(k, p)
            \/ \E n \in Noter : NoterStep(n)
            \/ Drain \/ StopReturns
            \/ \E d \in Deriver : DeriverStep(d) \/ DeriveFails(d)
            \/ UNCHANGED vars
  <2>1. UNCHANGED <<unserved, pc, job, stop>>
    BY <1>11 DEF SourceChange, NoterStep, NoteChange, NotePing, Drain, StopReturns,
         DeriverStep, DeriveFails, DeriveTake, DeriveDone, DeriveInputChanged,
         FinishDeriver, RetryDerive, ingest, life, ghosts, vars
  <2> QED
    BY <2>1, <1>stutter
<1>12. ASSUME NEW t \in Worker, TakeRaises(t) PROVE FALSE
  BY <1>12 DEF TakeRaises
<1> QED
  BY <1>1, <1>2, <1>4, <1>5, <1>6, <1>7, <1>8, <1>9, <1>10, <1>11, <1>12
     DEF Next, WorkerStep, WorkerFault

\* The threads implement the single-flight promise of every harness, as far as its
\* steps go: runs do not overlap, a request is withdrawn only by a run that starts
\* after it (_schedule_ingest, _ingest_worker).
THEOREM SingleFlightSteps ==
  ASSUME ~ResolveRaises
  PROVE  Spec => StepsCoalesce
<1>1. Init => \A h \in Harness : SF(h)!Init
  BY DEF SF!Init, Init, Running, Active, WorkerPc
<1>2. IInv /\ [Next]_vars => \A h \in Harness : [SF(h)!Next]_(SF(h)!vars)
  BY StepCoalesces
<1> QED
  BY <1>1, <1>2, Invariance, PTL DEF Spec, StepsCoalesce
=============================================================================
