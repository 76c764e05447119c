---------------------------- MODULE PresenceView ----------------------------
(***************************************************************************)
(* Live presence from presence.json to the dashboard.  The API builds the  *)
(* live payload from the file (api/live.py), for a request and for the     *)
(* event stream (api/events.py).  The dashboard (web/src/lib/              *)
(* useLivePresence.ts) merges the frames of the stream with the answers it *)
(* pulls, and pulls only while it believes that the stream does not do.    *)
(* Who writes the file is PresenceLog, which PresenceFile implements.      *)
(***************************************************************************)
EXTENDS PresenceLog

CONSTANTS
    None,        \* the dashboard has shown nothing yet
    MaxClock,    \* bound: the wall clock stands still when it gets here
    MaxMoves     \* bound: changes in the present life, and ticks, together

ASSUME ClockBound == {MaxClock, MaxMoves} \subseteq Nat
ASSUME NoVersion == None \notin [epoch : Nat, generation : Nat, ts : Nat]

Readers == {"pull", "stream"}      \* who builds the live payload

VARIABLES
    clock,       \* wall clock, in what Date.parse distinguishes
    began,       \* history, which no code reads: when each epoch first wrote
    up,          \* the connection of the event stream exists
    seeded,      \* its generator has taken the first fingerprint
    changed,     \* the file was replaced since the generator last looked
    build,       \* Readers -> the payload under way
    version, shown,  \* what the dashboard shows
    sched,           \* the scheduler of its pulls
    mounted

stream == <<up, seeded, changed>>
client == <<version, shown, sched, mounted>>
vars   == <<log, clock, began, stream, build, client>>

NoPayload == [at |-> "idle", epoch |-> NoEpoch, generation |-> 0,
              listed |-> 0, ts |-> 0]

----------------------------------------------------------------------------
(* The scheduler of the pulls: createPresenceSyncScheduler. *)

FallbackActive(s) == ~s.connected \/ s.recovery

RequestPull(s) ==
    IF s.active THEN [s EXCEPT !.queued = TRUE] ELSE [s EXCEPT !.active = TRUE]
ScheduleFallback(s) == [s EXCEPT !.timer = @ \/ FallbackActive(s)]
ClearTimer(s) == [s EXCEPT !.timer = FALSE]

\* Faulty: a timer is cleared even if recovery still needs it.
SetConnectedClears(s, next) ==
    IF s.connected = next THEN s
    ELSE LET t == [s EXCEPT !.connected = next]
         IN  RequestPull(IF next THEN ClearTimer(t) ELSE ScheduleFallback(t))

SetConnected(s, next) ==
    IF s.connected = next THEN s
    ELSE LET t == [s EXCEPT !.connected = next]
             u == IF next /\ ~s.recovery THEN ClearTimer(t) ELSE t
         IN  ScheduleFallback(RequestPull(u))

SetRecoveryRequired(s, next) ==
    IF s.recovery = next THEN s
    ELSE LET t == [s EXCEPT !.recovery = next]
         IN  IF FallbackActive(t) THEN ScheduleFallback(RequestPull(t))
             ELSE ClearTimer(t)

\* Faulty: the timer pulls, and is not armed again.
TimerFiresOnce(s) ==
    LET t == ClearTimer(s)
    IN  IF FallbackActive(t) THEN RequestPull(t) ELSE t

TimerFires(s) ==
    LET t == ClearTimer(s)
    IN  IF FallbackActive(t) THEN ScheduleFallback(RequestPull(t)) ELSE t

PullSettles(s) ==
    LET t == [s EXCEPT !.active = FALSE, !.queued = FALSE]
    IN  IF s.queued THEN RequestPull(t) ELSE t

----------------------------------------------------------------------------
(* acceptsPresenceVersion and applySessions *)

SameEpochAccepts(current, incoming) ==
    \/ incoming.generation > current.generation
    \/ /\ incoming.generation = current.generation
       /\ incoming.ts >= current.ts

\* Faulty: another epoch is always taken for a newer one.
AcceptsAnyEpoch(current, incoming) ==
    \/ current = None
    \/ current.epoch # incoming.epoch /\ incoming.epoch # NoEpoch
    \/ current.epoch = incoming.epoch /\ SameEpochAccepts(current, incoming)

\* Faulty: what is not the epoch shown is refused.
AcceptsOneEpoch(current, incoming) ==
    \/ current = None
    \/ current.epoch = NoEpoch /\ incoming.epoch # NoEpoch
    \/ current.epoch = incoming.epoch /\ SameEpochAccepts(current, incoming)

Accepts(current, incoming) ==
    \/ current = None
    \/ /\ current.epoch # incoming.epoch
       /\ incoming.epoch # NoEpoch
       /\ current.epoch = NoEpoch \/ incoming.ts >= current.ts
    \/ current.epoch = incoming.epoch /\ SameEpochAccepts(current, incoming)

Apply(p) ==
    LET incoming == [epoch |-> p.epoch, generation |-> p.generation,
                     ts |-> p.ts]
    IN  IF Accepts(version, incoming)
        THEN version' = incoming /\ shown' = p.listed
        ELSE UNCHANGED <<version, shown>>

----------------------------------------------------------------------------
Init ==
    /\ LogInit
    /\ clock = 0 /\ began = [e \in 0..MaxEpoch |-> 0]
    /\ up = FALSE /\ seeded = FALSE /\ changed = FALSE
    /\ build = [r \in Readers |-> NoPayload]
    /\ version = None /\ shown = 0 /\ mounted = TRUE
    /\ sched = [timer |-> TRUE, connected |-> FALSE, recovery |-> FALSE,
                active |-> TRUE, queued |-> FALSE]   \* start()

Tick ==
    /\ clock < MaxClock /\ clock + generation < MaxMoves
    /\ clock' = clock + 1
    /\ UNCHANGED <<log, began, stream, build, client>>

\* A daemon starts, ends, or changes what it knows.
DaemonMoves ==
    /\ LogStart \/ LogDie \/ LogChange
    /\ clock + generation' <= MaxMoves
    /\ UNCHANGED <<clock, began, stream, build, client>>

\* It replaces the file: the fingerprint (mtime_ns, size) is another.
FileReplaced ==
    /\ LogWrite \/ LogWriteAndChange
    /\ clock + generation' <= MaxMoves
    /\ changed' = seeded
    /\ began' = IF file.epoch = epoch THEN began
                ELSE [began EXCEPT ![epoch] = clock]
    /\ UNCHANGED <<clock, up, seeded, build, client>>

----------------------------------------------------------------------------
(* The API: live_payload reads the clock, then the file.  For a request it is
   the pull that asks, for the event stream (iter_event_sse) a fingerprint
   that is not the last one, which becomes it before the payload is built. *)

ReadClock(r) ==
    /\ build[r].at = "idle"
    /\ IF r = "pull" THEN sched.active /\ mounted ELSE changed
    /\ build' = [build EXCEPT ![r].at = "clocked", ![r].ts = clock]
    /\ changed' = (changed /\ r = "pull")
    /\ UNCHANGED <<log, clock, began, up, seeded, client>>

ReadFile(r) ==
    /\ build[r].at = "clocked"
    /\ build' = [build EXCEPT ![r] =
         [at |-> "built", epoch |-> file.epoch, generation |-> file.generation,
          listed |-> file.listed, ts |-> build[r].ts]]
    /\ UNCHANGED <<log, clock, began, stream, client>>

\* The generator of the stream.  One frame is under way at a time.
\* The connection exists from onopen on.
StreamOpens ==
    /\ ~up /\ ~sched.connected /\ mounted
    /\ up' = TRUE /\ sched' = SetConnected(sched, TRUE)
    /\ UNCHANGED <<log, clock, began, seeded, changed, build, version, shown,
                   mounted>>

StreamSeeds ==
    /\ up /\ ~seeded /\ seeded' = TRUE
    /\ UNCHANGED <<log, clock, began, up, changed, build, client>>

\* live_payload raises: an error frame, which the dashboard does not read.
StreamRaises ==
    /\ build["stream"].at = "clocked"
    /\ build' = [build EXCEPT !["stream"] = NoPayload]
    /\ UNCHANGED <<log, clock, began, stream, client>>

Disconnect ==
    /\ up' = FALSE /\ seeded' = FALSE /\ changed' = FALSE

StreamDrops ==
    /\ up /\ Disconnect
    /\ build' = [build EXCEPT !["stream"] = NoPayload]
    /\ UNCHANGED <<log, clock, began, client>>

----------------------------------------------------------------------------
(* The dashboard *)

ClientOnly ==
    UNCHANGED <<log, clock, began, stream, build, version, shown,
                mounted>>

\* onerror
Lost == mounted /\ ~up /\ sched' = SetConnected(sched, FALSE) /\ ClientOnly

FrameArrives ==
    /\ build["stream"].at = "built"
    /\ Apply(build["stream"])
    /\ build' = [build EXCEPT !["stream"] = NoPayload]
    /\ UNCHANGED <<log, clock, began, stream, sched, mounted>>

PullArrives ==
    /\ build["pull"].at = "built"
    /\ Apply(build["pull"])
    /\ build' = [build EXCEPT !["pull"] = NoPayload]
    /\ sched' = PullSettles(sched)
    /\ UNCHANGED <<log, clock, began, stream, mounted>>

\* What the API made of a request whose answer is lost does not matter.
PullFails ==
    /\ mounted /\ sched.active /\ build["pull"].at = "idle"
    /\ sched' = PullSettles(sched)
    /\ ClientOnly

Fallback == mounted /\ sched.timer /\ sched' = TimerFires(sched) /\ ClientOnly

\* /api/health finds the file fresh or stale, or is degraded for reasons of
\* its own, or does not answer: what comes of it is left open.
CheckHealth(troubled) ==
    /\ mounted
    /\ sched' = SetRecoveryRequired(sched, troubled)
    /\ ClientOnly

\* stop(), and the state of the component is gone.
Unmount ==
    /\ mounted /\ mounted' = FALSE
    /\ sched' = [timer |-> FALSE, connected |-> FALSE, recovery |-> FALSE,
                 active |-> FALSE, queued |-> FALSE]
    /\ Disconnect
    /\ build' = [r \in Readers |-> NoPayload]
    /\ version' = None /\ shown' = 0
    /\ UNCHANGED <<log, clock, began>>

----------------------------------------------------------------------------
Next ==
    \/ Tick \/ DaemonMoves \/ FileReplaced
    \/ \E r \in Readers : ReadClock(r) \/ ReadFile(r)
    \/ StreamOpens \/ StreamSeeds \/ StreamRaises \/ StreamDrops
    \/ Lost \/ FrameArrives \/ PullArrives \/ PullFails
    \/ Fallback \/ Unmount
    \/ \E troubled \in BOOLEAN : CheckHealth(troubled)

Spec == Init /\ [][Next]_vars

\* A running daemon writes again and again (its heartbeat); the file of one that
\* is gone gets old, and the health check says so; the generator and the timers
\* go on; a connection that is gone is noticed; payloads, frames and answers
\* get through now and then.  Nothing else is owed: not a start, a connection,
\* or a change.
Fairness ==
    /\ WF_vars(FileReplaced) /\ WF_vars(~alive /\ CheckHealth(TRUE))
    /\ \A r \in Readers : SF_vars(ReadClock(r)) /\ SF_vars(ReadFile(r))
    /\ WF_vars(StreamSeeds) /\ WF_vars(Lost)
    /\ SF_vars(FrameArrives) /\ SF_vars(PullArrives)
    /\ WF_vars(Fallback)

FairSpec == Spec /\ Fairness

----------------------------------------------------------------------------
(* Properties *)

Generations == 0..MaxGeneration
TypeOK ==
    /\ alive \in BOOLEAN /\ epoch \in 0..MaxEpoch /\ generation \in Generations
    /\ file \in [epoch : 0..MaxEpoch, generation : Generations,
                 listed : Generations]
    /\ clock \in 0..MaxClock /\ began \in [0..MaxEpoch -> 0..MaxClock]
    /\ up \in BOOLEAN /\ seeded \in BOOLEAN /\ changed \in BOOLEAN
    /\ build \in [Readers ->
         [at : {"idle", "clocked", "built"}, epoch : 0..MaxEpoch,
          generation : Generations, listed : Generations, ts : 0..MaxClock]]
    /\ version \in [epoch : 0..MaxEpoch, generation : Generations,
                    ts : 0..MaxClock] \cup {None}
    /\ shown \in Generations
    /\ sched \in [timer : BOOLEAN, connected : BOOLEAN, recovery : BOOLEAN,
                  active : BOOLEAN, queued : BOOLEAN]
    /\ mounted \in BOOLEAN

\* The pull timer is armed exactly while the stream is down or recovery is
\* required (scheduleFallback, setConnected, setRecoveryRequired, stop): the
\* dashboard neither stops looking nor polls beside a healthy stream.
TimerArmed == sched.timer <=> mounted /\ FallbackActive(sched)

\* Once the dashboard shows an answer that was asked for after a daemon had
\* written for the first time, no late answer or frame brings an earlier
\* daemon back (acceptsPresenceVersion, and live_payload reading the clock
\* before the file).
EpochsDoNotReturn ==
    [][ version # None /\ version' # None /\ version'.epoch < version.epoch
          => version.ts <= began[version.epoch] ]_vars

\* If the file comes to rest, or to be rewritten with the same content, the
\* dashboard comes to show it (the stream's fingerprint, the recovery pulls,
\* and acceptsPresenceVersion, which must not refuse a new daemon for ever);
\* of a daemon that is gone it may show a later generation than its last file
\* has.
ShowsFile ==
    /\ version # None /\ version.epoch = file.epoch
    /\ version.generation >= file.generation
    /\ version.generation = file.generation => shown = file.listed
ShowsDaemon ==
    ShowsFile /\ version.generation = generation /\ shown = generation
Converges ==
    Settles => <>[](mounted => IF alive THEN ShowsDaemon ELSE ShowsFile)

=============================================================================
