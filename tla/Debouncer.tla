----------------------------- MODULE Debouncer ------------------------------
(***************************************************************************)
(* watch/debounce.py: a key fires after a quiet period, bounded by a       *)
(* maximum wait.  Time is the monotonic clock, in ticks.  ping and         *)
(* drain_ready both read the clock BEFORE they take the lock, so either    *)
(* may work with a time that has passed.                                   *)
(***************************************************************************)
EXTENDS Integers, FiniteSets

CONSTANTS
  Key,       \* the harnesses
  Pinger,    \* threads that ping
  Delay,     \* self.delay
  MaxWait,   \* self.max_wait
  Period,    \* the loop drains at least once in so many ticks (0.05 s sleeps)
  Lag,       \* bound: a thread that read the clock takes the lock within Lag
  MaxTime,   \* bound on the clock
  None

ASSUME NoneAssumption == None \notin Nat
ASSUME TimeAssumption ==
  /\ Delay \in Nat /\ MaxWait \in Nat
  /\ Period \in Nat \ {0} /\ Lag \in Nat /\ MaxTime \in Nat

VARIABLES
  now,         \* the clock
  deadlines,   \* [Key -> Nat \cup {None}]: _deadlines
  first_seen,  \* [Key -> Nat \cup {None}]: _first_seen
  pings,       \* [Pinger -> [key, at] or None]: clock read, lock not yet taken
  drain,       \* None, or the clock reading of the drain in progress
  drained,     \* when the loop last finished a drain
  quiet        \* [Key -> Nat \cup {None}]: history, reading of the latest ping

vars == <<now, deadlines, first_seen, pings, drain, drained, quiet>>

Least(a, b) == IF a <= b THEN a ELSE b
Latest(a, b) == IF a >= b THEN a ELSE b
Time == 0 .. MaxTime

\* Readings are of the past, and deadlines at most a delay ahead of the clock.
TypeOK ==
  /\ now \in Time /\ drained \in Time
  /\ deadlines \in [Key -> 0 .. (MaxTime + Least(Delay, MaxWait)) \cup {None}]
  /\ first_seen \in [Key -> Time \cup {None}]
  /\ pings \in [Pinger -> [key: Key, at: Time] \cup {None}]
  /\ drain \in Time \cup {None}
  /\ quiet \in [Key -> Time \cup {None}]

Init ==
  /\ now = 0 /\ drained = 0 /\ drain = None
  /\ deadlines = [k \in Key |-> None]
  /\ first_seen = [k \in Key |-> None]
  /\ pings = [p \in Pinger |-> None]
  /\ quiet = [k \in Key |-> None]

\* Time does not pass a thread that is due: the loop within its period, a thread
\* between its reading and the lock within Lag.
Tick ==
  /\ now < MaxTime
  /\ drain = None => now < drained + Period
  /\ drain # None => now < drain + Lag
  /\ \A p \in Pinger : pings[p] # None => now < pings[p].at + Lag
  /\ now' = now + 1
  /\ UNCHANGED <<deadlines, first_seen, pings, drain, drained, quiet>>

\* ping: now = self._clock() ...
PingReads(p, k) ==
  /\ pings[p] = None
  /\ pings' = [pings EXCEPT ![p] = [key |-> k, at |-> now]]
  /\ UNCHANGED <<now, deadlines, first_seen, drain, drained, quiet>>

\* Faulty: no maximum wait.
DeadlineUnbounded(k, at, first) == at + Delay

\* Faulty: later pings do not postpone the key.
DeadlineKept(k, at, first) ==
  IF deadlines[k] = None THEN Least(at + Delay, first + MaxWait) ELSE deadlines[k]

\* min(now + delay, first_seen + max_wait)
Deadline(k, at, first) == Least(at + Delay, first + MaxWait)

\* ... then, under the lock, setdefault on _first_seen and the new deadline.
PingWrites(p) ==
  LET k == pings[p].key
      at == pings[p].at
      first == IF first_seen[k] = None THEN at ELSE first_seen[k]
  IN /\ pings[p] # None
     /\ first_seen' = [first_seen EXCEPT ![k] = first]
     /\ deadlines' = [deadlines EXCEPT ![k] = Deadline(k, at, first)]
     /\ quiet' = [quiet EXCEPT ![k] = IF @ = None THEN at ELSE Latest(@, at)]
     /\ pings' = [pings EXCEPT ![p] = None]
     /\ UNCHANGED <<now, drain, drained>>

DrainReads ==
  /\ drain = None
  /\ drain' = now
  /\ UNCHANGED <<now, deadlines, first_seen, pings, drained, quiet>>

Due == {k \in Key : deadlines[k] # None /\ drain >= deadlines[k]}

Forget(f, ready) == [k \in Key |-> IF k \in ready THEN None ELSE f[k]]

\* drain_ready under the lock: the keys that are due leave both tables.
DrainWrites ==
  /\ drain # None
  /\ deadlines' = Forget(deadlines, Due)
  /\ first_seen' = Forget(first_seen, Due)
  /\ quiet' = Forget(quiet, Due)
  /\ drain' = None
  /\ drained' = now
  /\ UNCHANGED <<now, pings>>

Next ==
  \/ Tick \/ DrainReads \/ DrainWrites
  \/ \E p \in Pinger : PingWrites(p) \/ \E k \in Key : PingReads(p, k)

Spec == Init /\ [][Next]_vars

-----------------------------------------------------------------------------
\* Steady pinging cannot postpone a key for ever: a key that waits has waited no
\* longer than the maximum wait and the loop's own delays, whatever deadline the
\* later pings asked for.
BoundedWait ==
  \A k \in Key : first_seen[k] # None =>
    now <= first_seen[k] + Latest(MaxWait - 1, 0) + Period + 2 * Lag

\* Bursts are absorbed: a key fires only when the latest ping seen by the table is
\* a quiet period old (up to the lag of a thread whose older reading came last), or
\* its first ping is older than the maximum wait.
NoEarlyFire ==
  [][\A k \in Key :
       deadlines[k] # None /\ deadlines'[k] = None =>
         \/ now >= quiet[k] + Delay - Lag
         \/ now >= first_seen[k] + MaxWait]_vars

=============================================================================
