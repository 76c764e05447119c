------------------------ MODULE PresenceView_proofs -------------------------
(***************************************************************************)
(* Proofs about PresenceView, for any number of daemons, changes and clock *)
(* readings: when the dashboard pulls, that no daemon of the past comes    *)
(* back, and that it only observes the file.                               *)
(***************************************************************************)
EXTENDS PresenceView, TLAPS

Built(r) == build[r].at = "built"

\* The epochs that are somewhere to be seen: in the file, in a payload on its way,
\* on the dashboard.
Sighted == {file.epoch} \cup {build[r].epoch : r \in {q \in Readers : Built(q)}}
             \cup (IF version = None THEN {} ELSE {version.epoch})

\* Payloads carry a reading of the clock.
Timed(r) == build[r].at # "idle" => build[r].ts <= clock

\* One with an epoch that has been followed by another took its reading before the
\* other first wrote: the file is read after the clock.
Ordered(r) == Built(r) => \A e \in Sighted : build[r].epoch < e => build[r].ts <= began[e]

IInv ==
    /\ TypeOK
    /\ TimerArmed
    /\ file.epoch <= epoch
    /\ \A e \in Sighted : e <= file.epoch
    /\ \A r \in Readers : Timed(r) /\ Ordered(r)

(***************************************************************************)
(* The scheduler of the pulls.                                             *)
(***************************************************************************)
Sched == [timer : BOOLEAN, connected : BOOLEAN, recovery : BOOLEAN,
          active : BOOLEAN, queued : BOOLEAN]

Armed(s) == s.timer <=> FallbackActive(s)

LEMMA RequestPullKeeps ==
    ASSUME NEW s \in Sched
    PROVE  /\ RequestPull(s) \in Sched
           /\ RequestPull(s).timer = s.timer
           /\ RequestPull(s).connected = s.connected
           /\ RequestPull(s).recovery = s.recovery
BY DEF RequestPull, Sched

LEMMA ClearTimerClears ==
    ASSUME NEW s \in Sched
    PROVE  /\ ClearTimer(s) \in Sched /\ ClearTimer(s).timer = FALSE
           /\ ClearTimer(s).connected = s.connected
           /\ ClearTimer(s).recovery = s.recovery
BY DEF ClearTimer, Sched

LEMMA ScheduleFallbackArms ==
    ASSUME NEW s \in Sched
    PROVE  /\ ScheduleFallback(s) \in Sched
           /\ ScheduleFallback(s).timer <=> s.timer \/ FallbackActive(s)
           /\ FallbackActive(ScheduleFallback(s)) <=> FallbackActive(s)
<1> DEFINE t == s.timer \/ FallbackActive(s)
<1>1. t \in BOOLEAN
  BY DEF Sched, FallbackActive
<1>2. ScheduleFallback(s) = [s EXCEPT !.timer = t]
  BY DEF ScheduleFallback
<1> HIDE DEF t
<1>3. [s EXCEPT !.timer = t] \in Sched /\ [s EXCEPT !.timer = t].timer = t
      /\ [s EXCEPT !.timer = t].connected = s.connected
      /\ [s EXCEPT !.timer = t].recovery = s.recovery
  BY <1>1 DEF Sched
<1> QED
  BY <1>2, <1>3 DEF t, FallbackActive

\* Each operation of the scheduler leaves the timer armed exactly if it is to be.
LEMMA SetConnectedArms ==
    ASSUME NEW s \in Sched, Armed(s), NEW next \in BOOLEAN
    PROVE  SetConnected(s, next) \in Sched /\ Armed(SetConnected(s, next))
<1> SUFFICES ASSUME s.connected # next
             PROVE  SetConnected(s, next) \in Sched /\ Armed(SetConnected(s, next))
  BY DEF SetConnected
<1> DEFINE t == [s EXCEPT !.connected = next]
           u == IF next /\ ~s.recovery THEN ClearTimer(t) ELSE t
           v == RequestPull(u)
<1>1. t \in Sched /\ t.timer = s.timer /\ t.connected = next /\ t.recovery = s.recovery
  BY DEF Sched
<1> HIDE DEF t
<1>2. /\ u \in Sched /\ u.connected = next /\ u.recovery = s.recovery
      /\ u.timer = IF next /\ ~s.recovery THEN FALSE ELSE s.timer
  BY <1>1, ClearTimerClears
<1> HIDE DEF u
<1>3. /\ v \in Sched /\ v.connected = next /\ v.recovery = s.recovery /\ v.timer = u.timer
  BY <1>2, RequestPullKeeps
<1> HIDE DEF v
<1>4. SetConnected(s, next) = ScheduleFallback(v)
  BY DEF SetConnected, t, u, v
<1>5. ScheduleFallback(v) \in Sched /\ Armed(ScheduleFallback(v))
  <2>1. v.timer \/ FallbackActive(v) <=> FallbackActive(v)
    BY <1>2, <1>3 DEF Armed, FallbackActive
  <2> QED
    BY <1>3, <2>1, ScheduleFallbackArms DEF Armed
<1> QED
  BY <1>4, <1>5

LEMMA SetRecoveryArms ==
    ASSUME NEW s \in Sched, Armed(s), NEW next \in BOOLEAN
    PROVE  /\ SetRecoveryRequired(s, next) \in Sched
           /\ Armed(SetRecoveryRequired(s, next))
<1> SUFFICES ASSUME s.recovery # next
             PROVE  /\ SetRecoveryRequired(s, next) \in Sched
                    /\ Armed(SetRecoveryRequired(s, next))
  BY DEF SetRecoveryRequired
<1> DEFINE t == [s EXCEPT !.recovery = next]
           v == RequestPull(t)
<1>1. t \in Sched /\ t.timer = s.timer /\ t.connected = s.connected /\ t.recovery = next
  BY DEF Sched
<1>2. SetRecoveryRequired(s, next) = IF FallbackActive(t) THEN ScheduleFallback(v)
                                                          ELSE ClearTimer(t)
  BY DEF SetRecoveryRequired
<1> HIDE DEF t
<1>3. /\ v \in Sched /\ v.connected = t.connected /\ v.recovery = t.recovery
      /\ v.timer = t.timer
  BY <1>1, RequestPullKeeps
<1> HIDE DEF v
<1>4. CASE FallbackActive(t)
  <2>1. SetRecoveryRequired(s, next) = ScheduleFallback(v) /\ FallbackActive(v)
    BY <1>2, <1>3, <1>4 DEF FallbackActive
  <2>2. ScheduleFallback(v) \in Sched /\ Armed(ScheduleFallback(v))
    BY <1>3, <2>1, ScheduleFallbackArms DEF Armed
  <2> QED
    BY <2>1, <2>2
<1>5. CASE ~FallbackActive(t)
  BY <1>1, <1>2, <1>5, ClearTimerClears DEF Armed, FallbackActive
<1> QED
  BY <1>4, <1>5

LEMMA TimerFiresArms ==
    ASSUME NEW s \in Sched
    PROVE  TimerFires(s) \in Sched /\ Armed(TimerFires(s))
<1> DEFINE t == ClearTimer(s)
           v == RequestPull(t)
<1>1. t \in Sched /\ t.timer = FALSE
  BY ClearTimerClears
<1>2. TimerFires(s) = IF FallbackActive(t) THEN ScheduleFallback(v) ELSE t
  BY DEF TimerFires
<1> HIDE DEF t
<1>3. /\ v \in Sched /\ v.connected = t.connected /\ v.recovery = t.recovery
      /\ v.timer = t.timer
  BY <1>1, RequestPullKeeps
<1> HIDE DEF v
<1>4. CASE FallbackActive(t)
  <2>1. TimerFires(s) = ScheduleFallback(v) /\ FallbackActive(v)
    BY <1>2, <1>3, <1>4 DEF FallbackActive
  <2>2. ScheduleFallback(v) \in Sched /\ Armed(ScheduleFallback(v))
    BY <1>3, <2>1, ScheduleFallbackArms DEF Armed
  <2> QED
    BY <2>1, <2>2
<1>5. CASE ~FallbackActive(t)
  BY <1>1, <1>2, <1>5 DEF Armed
<1> QED
  BY <1>4, <1>5

LEMMA PullSettlesKeeps ==
    ASSUME NEW s \in Sched
    PROVE  /\ PullSettles(s) \in Sched
           /\ PullSettles(s).timer = s.timer
           /\ PullSettles(s).connected = s.connected
           /\ PullSettles(s).recovery = s.recovery
<1> DEFINE t == [s EXCEPT !.active = FALSE, !.queued = FALSE]
<1>1. t \in Sched /\ t.timer = s.timer /\ t.connected = s.connected /\ t.recovery = s.recovery
  BY DEF Sched
<1>2. PullSettles(s) = IF s.queued THEN RequestPull(t) ELSE t
  BY DEF PullSettles
<1> HIDE DEF t
<1> QED
  BY <1>1, <1>2, RequestPullKeeps

(***************************************************************************)
(* The scheduler in the system.                                            *)
(***************************************************************************)
SchedOK == sched \in Sched /\ mounted \in BOOLEAN /\ TimerArmed

LEMMA InitSched == Init => SchedOK
BY DEF Init, SchedOK, Sched, TimerArmed, FallbackActive

LEMMA StepSched ==
    ASSUME SchedOK, [Next]_vars
    PROVE  SchedOK'
<1>0. mounted => Armed(sched)
  BY DEF SchedOK, TimerArmed, Armed
<1>1. ASSUME mounted, mounted' = mounted, sched' \in Sched, Armed(sched') PROVE SchedOK'
  BY <1>1 DEF SchedOK, TimerArmed, Armed
<1>2. ASSUME mounted' = mounted, sched' = PullSettles(sched) PROVE SchedOK'
  BY <1>2, PullSettlesKeeps DEF SchedOK, TimerArmed, FallbackActive
<1>3. CASE StreamOpens
  BY <1>0, <1>1, <1>3, SetConnectedArms DEF StreamOpens, SchedOK
<1>4. CASE Lost
  BY <1>0, <1>1, <1>4, SetConnectedArms DEF Lost, ClientOnly, SchedOK
<1>5. ASSUME NEW troubled \in BOOLEAN, CheckHealth(troubled) PROVE SchedOK'
  BY <1>0, <1>1, <1>5, SetRecoveryArms DEF CheckHealth, ClientOnly, SchedOK
<1>6. CASE Fallback
  BY <1>1, <1>6, TimerFiresArms DEF Fallback, ClientOnly, SchedOK
<1>7. CASE PullArrives \/ PullFails
  BY <1>2, <1>7 DEF PullArrives, PullFails, ClientOnly
<1>8. CASE Unmount
  BY <1>8 DEF Unmount, SchedOK, Sched, TimerArmed
<1>9. CASE UNCHANGED <<sched, mounted>>
  BY <1>9 DEF SchedOK, TimerArmed, FallbackActive
<1> QED
  BY <1>3, <1>4, <1>5, <1>6, <1>7, <1>8, <1>9
     DEF Next, vars, client, Tick, DaemonMoves, FileReplaced, ReadClock, ReadFile,
         StreamSeeds, StreamRaises, StreamDrops, FrameArrives

\* The dashboard pulls on a timer exactly while the stream is down or the health
\* check asks for it, whatever order connections, checks, answers and an unmount
\* come in.
THEOREM TimerIsArmed == Spec => []TimerArmed
<1>1. SchedOK => TimerArmed
  BY DEF SchedOK
<1> QED
  BY <1>1, InitSched, StepSched, PTL DEF Spec

(***************************************************************************)
(* The shape of the state.                                                 *)
(***************************************************************************)
Payload == [at : {"idle", "clocked", "built"}, epoch : 0..MaxEpoch,
            generation : Generations, listed : Generations, ts : 0..MaxClock]
Shown == [epoch : 0..MaxEpoch, generation : Generations, ts : 0..MaxClock]
Copy == [epoch : 0..MaxEpoch, generation : Generations, listed : Generations]

LEMMA Bounds ==
    /\ MaxEpoch \in Nat /\ MaxGeneration \in Nat /\ MaxClock \in Nat /\ MaxMoves \in Nat
    /\ NoPayload \in Payload
    /\ None \notin Shown
<1>1. MaxEpoch \in Nat /\ MaxGeneration \in Nat /\ MaxClock \in Nat /\ MaxMoves \in Nat
  BY LogBounds, ClockBound
<1>2. NoPayload \in Payload
  BY <1>1 DEF NoPayload, Payload, Generations, NoEpoch
<1>3. Shown \subseteq [epoch : Nat, generation : Nat, ts : Nat]
  BY <1>1 DEF Shown, Generations
<1> QED
  BY <1>1, <1>2, <1>3, NoVersion

LEMMA InitTypeOK == Init => TypeOK
<1> SUFFICES ASSUME Init PROVE TypeOK
  OBVIOUS
<1>1. build \in [Readers -> Payload]
  BY Bounds DEF Init
<1>2. file \in Copy /\ epoch \in 0..MaxEpoch /\ generation \in Generations
  BY Bounds DEF Init, LogInit, Copy, Generations, NoEpoch
<1>3. clock \in 0..MaxClock /\ shown \in Generations
  BY Bounds DEF Init, Generations
<1>4. began \in [0..MaxEpoch -> 0..MaxClock]
  BY Bounds DEF Init
<1>5. sched \in Sched
  BY InitSched DEF SchedOK
<1> QED
  BY <1>1, <1>2, <1>3, <1>4, <1>5
     DEF Init, LogInit, TypeOK, Payload, Copy, Sched

\* What another daemon, the clock and the file may do keeps the types.
LEMMA WorldTypeOK ==
    ASSUME TypeOK, Tick \/ DaemonMoves \/ FileReplaced
    PROVE  TypeOK'
<1>1. CASE Tick
  BY <1>1, Bounds DEF Tick, log, stream, client, TypeOK
<1>2. CASE DaemonMoves
  <2>1. /\ UNCHANGED <<clock, began, stream, build, client>>
        /\ file' = file /\ alive' \in BOOLEAN /\ epoch' \in 0..MaxEpoch
        /\ generation' \in Generations
    <3>1. /\ epoch \in Nat /\ generation \in Nat /\ epoch <= MaxEpoch
          /\ generation <= MaxGeneration /\ alive \in BOOLEAN
      BY Bounds DEF TypeOK, Generations
    <3>2. CASE LogStart
      BY <1>2, <3>1, <3>2, Bounds DEF DaemonMoves, LogStart, Generations
    <3>3. CASE LogDie
      <4>1. alive' = FALSE /\ epoch' = epoch /\ generation' = generation /\ file' = file
        BY <3>3 DEF LogDie
      <4>2. UNCHANGED <<clock, began, stream, build, client>>
        BY <1>2 DEF DaemonMoves
      <4>3. alive' \in BOOLEAN
        BY <4>1
      <4>4. epoch' \in 0..MaxEpoch /\ generation' \in Generations
        BY <3>1, <4>1, Bounds DEF Generations
      <4> QED
        BY <4>1, <4>2, <4>3, <4>4
    <3>4. CASE LogChange
      BY <1>2, <3>1, <3>4, Bounds DEF DaemonMoves, LogChange, Generations
    <3> QED
      BY <1>2, <3>2, <3>3, <3>4 DEF DaemonMoves
  <2> QED
    BY <2>1 DEF stream, client, TypeOK
<1>3. CASE FileReplaced
  <2>1. /\ UNCHANGED <<clock, up, seeded, build, client>> /\ changed' = seeded
        /\ alive' \in BOOLEAN /\ epoch' = epoch /\ generation' \in Generations
    BY <1>3, Bounds DEF FileReplaced, LogWrite, LogWriteAndChange, TypeOK, Generations
  <2>2. file' \in Copy
    <3>1. PICK g \in 0..generation, l \in 0..generation :
            file' = [epoch |-> epoch, generation |-> g, listed |-> l]
      BY <1>3 DEF FileReplaced, LogWrite, LogWriteAndChange
    <3>2. g \in Generations /\ l \in Generations
      BY Bounds DEF TypeOK, Generations
    <3> QED
      BY <3>1, <3>2 DEF TypeOK, Copy
  <2>3. began' \in [0..MaxEpoch -> 0..MaxClock]
    BY <1>3 DEF FileReplaced, TypeOK
  <2> QED
    BY <2>1, <2>2, <2>3 DEF client, TypeOK, Copy
<1> QED
  BY <1>1, <1>2, <1>3

\* So does what the API makes of the file.
LEMMA ApiTypeOK ==
    ASSUME TypeOK, \/ \E r \in Readers : ReadClock(r) \/ ReadFile(r)
                   \/ StreamRaises \/ StreamDrops
    PROVE  TypeOK'
<1>0. build \in [Readers -> Payload] /\ file \in Copy /\ clock \in 0..MaxClock
      /\ changed \in BOOLEAN
  BY DEF TypeOK, Payload, Copy
<1>1. ASSUME build' \in [Readers -> Payload], changed' \in BOOLEAN,
             up' \in BOOLEAN, seeded' \in BOOLEAN, UNCHANGED <<log, clock, began, client>>
      PROVE  TypeOK'
  BY <1>1 DEF TypeOK, Payload, log, client
<1>2. ASSUME NEW r \in Readers, ReadClock(r) PROVE TypeOK'
  <2> DEFINE v == [build[r] EXCEPT !.at = "clocked", !.ts = clock]
  <2>1. v \in Payload
    BY <1>0 DEF Payload
  <2>2. build' = [build EXCEPT ![r] = v]
    BY <1>0, <1>2 DEF ReadClock
  <2> HIDE DEF v
  <2>3. build' \in [Readers -> Payload]
    BY <1>0, <2>1, <2>2
  <2>4. changed' \in BOOLEAN
    BY <1>2 DEF ReadClock
  <2> QED
    BY <1>1, <1>2, <2>3, <2>4 DEF ReadClock, TypeOK
<1>3. ASSUME NEW r \in Readers, ReadFile(r) PROVE TypeOK'
  <2> DEFINE v == [at |-> "built", epoch |-> file.epoch, generation |-> file.generation,
                   listed |-> file.listed, ts |-> build[r].ts]
  <2>1. v \in Payload
    <3>1. build[r] \in Payload
      BY <1>0
    <3> QED
      BY <1>0, <3>1 DEF Payload, Copy
  <2>2. build' = [build EXCEPT ![r] = v]
    BY <1>3 DEF ReadFile
  <2> HIDE DEF v
  <2>3. build' \in [Readers -> Payload]
    BY <1>0, <2>1, <2>2
  <2> QED
    BY <1>1, <1>3, <2>3 DEF ReadFile, stream, TypeOK
<1>4. ASSUME build' = [build EXCEPT !["stream"] = NoPayload]
      PROVE  build' \in [Readers -> Payload]
  BY <1>0, <1>4, Bounds
<1>5. CASE StreamRaises
  BY <1>1, <1>4, <1>5 DEF StreamRaises, stream, TypeOK
<1>6. CASE StreamDrops
  BY <1>1, <1>4, <1>6 DEF StreamDrops, Disconnect
<1> QED
  BY <1>2, <1>3, <1>5, <1>6

\* And the dashboard.
LEMMA ApplyTypeOK ==
    ASSUME TypeOK, NEW p \in Payload, Apply(p)
    PROVE  version' \in Shown \cup {None} /\ shown' \in Generations
<1> DEFINE incoming == [epoch |-> p.epoch, generation |-> p.generation, ts |-> p.ts]
<1>1. incoming \in Shown /\ p.listed \in Generations
  BY DEF Payload, Shown
<1>2. \/ version' = incoming /\ shown' = p.listed
      \/ version' = version /\ shown' = shown
  BY DEF Apply
<1> HIDE DEF incoming
<1> QED
  BY <1>1, <1>2 DEF TypeOK, Shown

LEMMA StepTypeOK ==
    ASSUME TypeOK, TimerArmed, [Next]_vars
    PROVE  TypeOK'
<1>0. build \in [Readers -> Payload] /\ {"stream", "pull"} \subseteq Readers
  BY DEF TypeOK, Payload, Readers
<1>1. sched' \in Sched /\ mounted' \in BOOLEAN
  BY StepSched DEF SchedOK, Sched, TypeOK
<1>2. CASE UNCHANGED vars
  BY <1>2 DEF vars, log, stream, client, TypeOK
<1>3. CASE FrameArrives \/ PullArrives
  <2>1. PICK r \in Readers : /\ Apply(build[r])
                             /\ build' = [build EXCEPT ![r] = NoPayload]
    BY <1>0, <1>3 DEF FrameArrives, PullArrives
  <2>2. version' \in Shown \cup {None} /\ shown' \in Generations
    BY <1>0, <2>1, ApplyTypeOK
  <2>3. build' \in [Readers -> Payload]
    BY <1>0, <2>1, Bounds
  <2>4. UNCHANGED <<log, clock, began, stream>>
    BY <1>3 DEF FrameArrives, PullArrives
  <2> QED
    BY <1>1, <2>2, <2>3, <2>4 DEF log, stream, TypeOK, Payload, Shown, Sched
<1>4. CASE Unmount
  <2>1. build' \in [Readers -> Payload]
    BY <1>4, Bounds DEF Unmount
  <2>2. /\ version' = None /\ shown' \in Generations /\ up' = FALSE /\ seeded' = FALSE
        /\ changed' = FALSE /\ UNCHANGED <<log, clock, began>>
    BY <1>4, Bounds DEF Unmount, Disconnect, Generations
  <2> QED
    BY <1>1, <2>1, <2>2 DEF log, TypeOK, Payload, Sched
<1>5. CASE StreamOpens \/ StreamSeeds \/ Lost \/ PullFails \/ Fallback
           \/ \E troubled \in BOOLEAN : CheckHealth(troubled)
  <2>1. /\ UNCHANGED <<log, clock, began, changed, build, version, shown>>
        /\ up' \in BOOLEAN /\ seeded' \in BOOLEAN
    BY <1>5 DEF StreamOpens, StreamSeeds, Lost, PullFails, Fallback, CheckHealth,
                ClientOnly, client, stream, TypeOK
  <2> QED
    BY <1>1, <2>1 DEF log, TypeOK, Sched
<1> QED
  BY <1>2, <1>3, <1>4, <1>5, WorldTypeOK, ApiTypeOK DEF Next

\* The state keeps its shape, within the bounds.
THEOREM TypeCorrectness == Spec => []TypeOK
<1>1. TypeOK /\ SchedOK /\ [Next]_vars => TypeOK'
  BY StepTypeOK DEF SchedOK
<1> QED
  BY <1>1, InitTypeOK, InitSched, StepSched, PTL DEF Spec

(***************************************************************************)
(* The order of the daemons.                                               *)
(***************************************************************************)

\* What the types say of epochs and readings.
LEMMA Numbers ==
    ASSUME IInv
    PROVE  /\ clock \in Nat /\ epoch \in 0..MaxEpoch /\ file.epoch \in 0..MaxEpoch
           /\ began \in [0..MaxEpoch -> 0..MaxClock]
           /\ build \in [Readers -> Payload]
           /\ \A r \in Readers : build[r].epoch \in Nat /\ build[r].ts \in Nat
           /\ version # None => version.epoch \in Nat /\ version.ts \in Nat
           /\ Sighted \subseteq 0..MaxEpoch
           /\ MaxEpoch \in Nat
<1>1. build \in [Readers -> Payload] /\ version \in Shown \cup {None} /\ file \in Copy
  BY DEF IInv, TypeOK, Payload, Shown, Copy
<1>2. \A r \in Readers : build[r].epoch \in 0..MaxEpoch /\ build[r].ts \in 0..MaxClock
  BY <1>1 DEF Payload
<1>3. version # None => version.epoch \in 0..MaxEpoch /\ version.ts \in 0..MaxClock
  BY <1>1 DEF Shown
<1>4. file.epoch \in 0..MaxEpoch
  BY <1>1 DEF Copy
<1>5. Sighted \subseteq 0..MaxEpoch
  BY <1>2, <1>3, <1>4 DEF Sighted
<1> QED
  BY <1>1, <1>2, <1>3, <1>4, <1>5, Bounds DEF IInv, TypeOK

\* A payload that goes, or that begins with the clock, and a version that was on its
\* way already, bring no new epoch.
LEMMA NothingNew ==
    ASSUME IInv, (TypeOK /\ TimerArmed)',
           file' = file, began' = began, clock' \in Nat, clock <= clock',
           epoch' \in Nat, epoch <= epoch',
           \A r \in Readers : \/ build'[r] = build[r]
                              \/ build'[r].at = "idle"
                              \/ build'[r].at = "clocked" /\ build'[r].ts = clock,
           \/ version' = version \/ version' = None
           \/ version'.epoch \in Sighted
    PROVE  IInv'
<1>1. Sighted' \subseteq Sighted
  BY DEF Sighted, Built
<1>2. file'.epoch <= epoch'
  BY Numbers DEF IInv
<1>3. \A e \in Sighted' : e <= file'.epoch
  BY <1>1 DEF IInv
<1>4. ASSUME NEW r \in Readers PROVE Timed(r)' /\ Ordered(r)'
  <2>1. Timed(r)'
    BY Numbers DEF IInv, Timed
  <2>2. Ordered(r)'
    BY <1>1 DEF IInv, Ordered, Built
  <2> QED
    BY <2>1, <2>2
<1> QED
  BY <1>2, <1>3, <1>4 DEF IInv

\* The file is the newest epoch there is.
LEMMA ReadFileIInv ==
    ASSUME IInv, (TypeOK /\ TimerArmed)', NEW r \in Readers, ReadFile(r)
    PROVE  IInv'
<1> DEFINE v == [at |-> "built", epoch |-> file.epoch, generation |-> file.generation,
                 listed |-> file.listed, ts |-> build[r].ts]
<1>1. /\ build[r].at = "clocked" /\ build' = [build EXCEPT ![r] = v]
      /\ UNCHANGED <<epoch, file, clock, began, version>>
  BY DEF ReadFile, log, client
<1>2. v.at = "built" /\ v.epoch = file.epoch /\ v.ts = build[r].ts
  OBVIOUS
<1> HIDE DEF v
<1>3. build'[r] = v /\ \A q \in Readers \ {r} : build'[q] = build[q]
  BY <1>1, Numbers
<1>4. Sighted' \subseteq Sighted
  BY <1>1, <1>2, <1>3 DEF Sighted, Built
<1>5. ASSUME NEW q \in Readers PROVE Timed(q)' /\ Ordered(q)'
  <2>1. CASE q = r
    <3>1. \A e \in Sighted : ~(file.epoch < e)
      BY Numbers DEF IInv
    <3> QED
      BY <1>1, <1>2, <1>3, <1>4, <2>1, <3>1 DEF IInv, Timed, Ordered
  <2>2. CASE q # r
    BY <1>1, <1>3, <1>4, <2>2 DEF IInv, Timed, Ordered, Built
  <2> QED
    BY <2>1, <2>2
<1> QED
  BY <1>1, <1>4, <1>5 DEF IInv

\* A daemon that writes for the first time does so after every reading on its way.
LEMMA FileReplacedIInv ==
    ASSUME IInv, (TypeOK /\ TimerArmed)', FileReplaced
    PROVE  IInv'
<1>1. /\ file'.epoch = epoch /\ epoch' = epoch
      /\ UNCHANGED <<clock, build, version>>
      /\ began' = IF file.epoch = epoch THEN began ELSE [began EXCEPT ![epoch] = clock]
  <2>1. PICK g \in 0..generation, l \in 0..generation :
          file' = [epoch |-> epoch, generation |-> g, listed |-> l]
    BY DEF FileReplaced, LogWrite, LogWriteAndChange
  <2> QED
    BY <2>1 DEF FileReplaced, LogWrite, LogWriteAndChange, client
<1>2. Sighted' \subseteq Sighted \cup {epoch} /\ file.epoch \in Sighted
  BY <1>1 DEF Sighted, Built
<1>3. ASSUME NEW e \in Sighted' PROVE e <= file'.epoch
  BY <1>1, <1>2, Numbers DEF IInv
<1>4. ASSUME NEW r \in Readers PROVE Timed(r)' /\ Ordered(r)'
  <2>1. Timed(r)'
    BY <1>1 DEF IInv, Timed
  <2>2. ASSUME Built(r), NEW e \in Sighted', build[r].epoch < e PROVE build[r].ts <= began'[e]
    <3>1. CASE file.epoch = epoch
      BY <1>1, <1>2, <2>2, <3>1 DEF IInv, Ordered
    <3>2. CASE file.epoch # epoch /\ e = epoch
      BY <1>1, <2>2, <3>2, Numbers DEF IInv, Timed, Built
    <3>3. CASE file.epoch # epoch /\ e # epoch
      <4>1. e \in Sighted /\ began'[e] = began[e]
        BY <1>1, <1>2, <3>3, Numbers
      <4> QED
        BY <2>2, <4>1 DEF IInv, Ordered
    <3> QED
      BY <3>1, <3>2, <3>3
  <2>3. Ordered(r)'
    BY <1>1, <2>2 DEF Ordered, Built
  <2> QED
    BY <2>1, <2>3
<1> QED
  BY <1>1, <1>3, <1>4, Numbers DEF IInv

LEMMA StepIInv ==
    ASSUME IInv, [Next]_vars
    PROVE  IInv'
<1>0. TypeOK' /\ TimerArmed'
  BY StepTypeOK, StepSched DEF IInv, SchedOK, TypeOK, Sched
<1>1. clock \in Nat /\ epoch \in Nat /\ build \in [Readers -> Payload]
  BY Numbers
<1>2. CASE /\ UNCHANGED <<file, began, build, version>>
           /\ clock' \in {clock, clock + 1} /\ epoch' \in {epoch, epoch + 1}
  <2>1. clock' \in Nat /\ clock <= clock' /\ epoch' \in Nat /\ epoch <= epoch'
    BY <1>1, <1>2
  <2>2. /\ \A r \in Readers : build'[r] = build[r]
        /\ file' = file /\ began' = began /\ version' = version
    BY <1>2
  <2> QED
    BY ONLY IInv, <1>0, <2>1, <2>2, NothingNew
<1>3. ASSUME NEW r \in Readers, ReadClock(r) PROVE IInv'
  <2> DEFINE v == [build[r] EXCEPT !.at = "clocked", !.ts = clock]
  <2>1. v.at = "clocked" /\ v.ts = clock
    BY <1>1 DEF Payload
  <2>2. build' = [build EXCEPT ![r] = v] /\ UNCHANGED <<file, began, clock, epoch, version>>
    BY <1>1, <1>3 DEF ReadClock, log, client
  <2> HIDE DEF v
  <2>3. \A q \in Readers : build'[q] = build[q] \/ build'[q] = v
    BY <1>1, <2>2
  <2>4. clock' \in Nat /\ clock <= clock' /\ epoch' \in Nat /\ epoch <= epoch'
    BY <1>1, <2>2
  <2>5. \A q \in Readers : \/ build'[q] = build[q]
                           \/ build'[q].at = "clocked" /\ build'[q].ts = clock
    BY <2>1, <2>3
  <2> QED
    BY ONLY IInv, <1>0, <2>2, <2>4, <2>5, NothingNew
<1>4. CASE StreamRaises \/ StreamDrops \/ Unmount
  <2>1. NoPayload.at = "idle"
    BY DEF NoPayload
  <2>2. /\ UNCHANGED <<file, began, clock, epoch>>
        /\ version' = version \/ version' = None
    BY <1>4 DEF StreamRaises, StreamDrops, Unmount, log, client
  <2>3. \A r \in Readers : build'[r] = build[r] \/ build'[r] = NoPayload
    BY <1>1, <1>4 DEF StreamRaises, StreamDrops, Unmount
  <2>4. clock' \in Nat /\ clock <= clock' /\ epoch' \in Nat /\ epoch <= epoch'
    BY <1>1, <2>2
  <2>5. \A r \in Readers : build'[r] = build[r] \/ build'[r].at = "idle"
    BY <2>1, <2>3
  <2> QED
    BY ONLY IInv, <1>0, <2>2, <2>4, <2>5, NothingNew
<1>5. CASE FrameArrives \/ PullArrives
  <2>1. PICK r \in Readers : /\ Built(r) /\ Apply(build[r])
                             /\ build' = [build EXCEPT ![r] = NoPayload]
    BY <1>5 DEF FrameArrives, PullArrives, Built, Readers
  <2>2. UNCHANGED <<file, began, clock, epoch>>
    BY <1>5 DEF FrameArrives, PullArrives, log
  <2>3. version' = version \/ version'.epoch = build[r].epoch
    BY <2>1 DEF Apply
  <2>4. build[r].epoch \in Sighted
    BY <2>1 DEF Sighted
  <2>5. \A q \in Readers : build'[q] = build[q] \/ build'[q].at = "idle"
    BY <1>1, <2>1 DEF NoPayload
  <2>6. clock' \in Nat /\ clock <= clock' /\ epoch' \in Nat /\ epoch <= epoch'
    BY <1>1, <2>2
  <2>7. version' = version \/ version'.epoch \in Sighted
    BY <2>3, <2>4
  <2> QED
    BY ONLY IInv, <1>0, <2>2, <2>5, <2>6, <2>7, NothingNew
<1>6. CASE UNCHANGED vars
  BY <1>2, <1>6 DEF vars, log, client
<1>7. CASE Tick \/ DaemonMoves
  BY <1>2, <1>7 DEF Tick, DaemonMoves, LogStart, LogDie, LogChange, log, client
<1>8. CASE StreamOpens \/ StreamSeeds \/ Lost \/ PullFails \/ Fallback
           \/ \E troubled \in BOOLEAN : CheckHealth(troubled)
  BY <1>2, <1>8 DEF StreamOpens, StreamSeeds, Lost, PullFails, Fallback, CheckHealth,
                    ClientOnly, log, client
<1> QED
  BY <1>0, <1>3, <1>4, <1>5, <1>6, <1>7, <1>8, ReadFileIInv, FileReplacedIInv DEF Next

LEMMA InitIInv == Init => IInv
<1> SUFFICES ASSUME Init PROVE IInv
  OBVIOUS
<1>1. \A r \in Readers : build[r].at = "idle"
  BY DEF Init, NoPayload
<1>2. file.epoch = 0 /\ epoch = 0 /\ version = None
  BY DEF Init, LogInit, NoEpoch
<1>3. Sighted = {0}
  BY <1>1, <1>2 DEF Sighted, Built
<1> QED
  BY <1>1, <1>2, <1>3, InitTypeOK, InitSched DEF IInv, SchedOK, Timed, Ordered, Built

\* What is on its way comes from the order in which daemons wrote.
THEOREM Invariance == Spec => []IInv
  BY InitIInv, StepIInv, PTL DEF Spec

\* No late answer and no late frame brings an earlier daemon back, once the dashboard
\* shows an answer that was asked for after a later daemon had written: not for any
\* number of daemons, whichever of them ever wrote.
THEOREM DaemonsDoNotReturn == Spec => EpochsDoNotReturn
<1>1. ASSUME IInv, [Next]_vars
      PROVE  [version # None /\ version' # None /\ version'.epoch < version.epoch
                => version.ts <= began[version.epoch]]_vars
  <2> SUFFICES ASSUME version # None, version' # None, version'.epoch < version.epoch
               PROVE  version.ts <= began[version.epoch]
    OBVIOUS
  <2>0. version.epoch \in Nat /\ version.ts \in Nat
    BY <1>1, Numbers
  <2>1. version' # version
    BY <2>0
  <2>2. FrameArrives \/ PullArrives
    BY <1>1, <2>1 DEF Next, vars, client, Tick, DaemonMoves, FileReplaced, ReadClock, ReadFile,
         StreamOpens, StreamSeeds, StreamRaises, StreamDrops, Lost, PullFails, Fallback,
         CheckHealth, ClientOnly, Unmount
  <2>3. PICK r \in Readers : Built(r) /\ Apply(build[r])
    BY <2>2 DEF FrameArrives, PullArrives, Built, Readers
  <2> DEFINE p == build[r]
             incoming == [epoch |-> p.epoch, generation |-> p.generation, ts |-> p.ts]
  <2>4. Accepts(version, incoming) /\ version' = incoming
    BY <2>1, <2>3 DEF Apply
  <2>5. p.epoch < version.epoch /\ incoming.epoch = p.epoch /\ incoming.ts = p.ts
    BY <2>4
  <2>6. p.epoch \in Nat /\ p.ts \in Nat
    BY <1>1, Numbers
  <2>7. p.ts >= version.ts
    <3> HIDE DEF incoming, p
    <3>1. version.epoch # incoming.epoch /\ version.epoch # NoEpoch
      BY <2>0, <2>5, <2>6 DEF NoEpoch
    <3> QED
      BY <2>4, <2>5, <3>1 DEF Accepts
  <2>8. p.ts <= began[version.epoch]
    <3>1. version.epoch \in Sighted
      BY DEF Sighted
    <3> QED
      BY <1>1, <2>3, <2>5, <3>1 DEF IInv, Ordered
  <2>9. began[version.epoch] \in Nat
    <3>1. version.epoch \in 0..MaxEpoch /\ began \in [0..MaxEpoch -> 0..MaxClock]
      BY <1>1, Numbers DEF Sighted
    <3> QED
      BY <3>1, Bounds
  <2> QED
    BY <2>0, <2>6, <2>7, <2>8, <2>9
<1> QED
  BY <1>1, Invariance, PTL DEF Spec, EpochsDoNotReturn

\* The API and the dashboard only observe the file: with them there, daemons, file and
\* generations still go as PresenceLog says, which PresenceFile implements.
THEOREM OnlyObserves == Spec => LogSpec
<1>1. Init => LogInit
  BY DEF Init
<1>2. [Next]_vars => [LogNext]_log
  BY DEF Next, vars, log, LogNext, Tick, DaemonMoves, FileReplaced, ReadClock, ReadFile,
         StreamOpens, StreamSeeds, StreamRaises, StreamDrops, Lost, FrameArrives,
         PullArrives, PullFails, Fallback, CheckHealth, ClientOnly, Unmount
<1> QED
  BY <1>1, <1>2, PTL DEF Spec, LogSpec
=============================================================================
