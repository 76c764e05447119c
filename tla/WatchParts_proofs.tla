-------------------------- MODULE WatchParts_proofs --------------------------
(***************************************************************************)
(* Proofs about the two parts that the threads of the watch daemon share:  *)
(* the Debouncer, for any keys, threads, delays and lags, and the          *)
(* WriteLock, for any set of connections.                                  *)
(***************************************************************************)
EXTENDS Debouncer, WriteLock, TLAPS

(***************************************************************************)
(* The inductive invariant.                                                *)
(***************************************************************************)

Types ==
  /\ now \in Nat /\ drained \in Nat
  /\ deadlines \in [Key -> Nat \cup {None}]
  /\ first_seen \in [Key -> Nat \cup {None}]
  /\ quiet \in [Key -> Nat \cup {None}]
  /\ pings \in [Pinger -> [key: Key, at: Nat] \cup {None}]
  /\ drain \in Nat \cup {None}

\* The loop is on time: the next drain is read within a period of the last one,
\* and gets the lock within the lag.
LoopOnTime ==
  /\ drained <= now
  /\ drain = None => now <= drained + Period
  /\ drain # None => drain <= now /\ now <= drain + Lag /\ drain <= drained + Period

\* So is a thread that has read the clock.
PingOnTime(p) == pings[p] # None => pings[p].at <= now /\ now <= pings[p].at + Lag

\* The two tables hold the same keys.
SameKeys(k) ==
  /\ first_seen[k] = None <=> deadlines[k] = None
  /\ first_seen[k] = None <=> quiet[k] = None

\* A waiting key was not due at the last drain, or came after it.
Waited(k) ==
  first_seen[k] # None =>
    /\ deadlines[k] <= first_seen[k] + MaxWait
    /\ drained <= first_seen[k] + Latest(MaxWait - 1, 0) + Lag

\* Its deadline is a quiet period after the latest ping, up to the lag of a ping
\* that was read earlier and written later, or the end of its wait.
Postponed(k) ==
  first_seen[k] # None =>
    /\ quiet[k] <= now
    /\ \/ deadlines[k] >= quiet[k] + Delay - Lag
       \/ deadlines[k] >= first_seen[k] + MaxWait

IInv ==
  /\ Types /\ LoopOnTime
  /\ \A p \in Pinger : PingOnTime(p)
  /\ \A k \in Key : SameKeys(k) /\ Waited(k) /\ Postponed(k)

(***************************************************************************)
(* One lemma per action.                                                   *)
(***************************************************************************)

LEMMA InitIInv == Init => IInv
  BY NoneAssumption, TimeAssumption DEF Init, IInv, Types, LoopOnTime, PingOnTime, SameKeys, Waited, Postponed

\* Time passes; nothing is overdue.
LEMMA TickIInv ==
  ASSUME IInv, Tick
  PROVE  IInv'
<1>1. now' = now + 1 /\ UNCHANGED <<deadlines, first_seen, pings, drain, drained, quiet>>
  BY DEF Tick
<1>2. Types'
  BY <1>1 DEF IInv, Types
<1>3. LoopOnTime'
  BY <1>1, TimeAssumption, NoneAssumption DEF Tick, IInv, Types, LoopOnTime
<1>4. ASSUME NEW p \in Pinger PROVE PingOnTime(p)'
  <2> SUFFICES ASSUME pings[p] # None PROVE PingOnTime(p)'
    BY <1>1 DEF PingOnTime
  <2>1. pings[p].at \in Nat /\ now \in Nat /\ pings[p].at <= now /\ now < pings[p].at + Lag
    BY DEF IInv, Types, PingOnTime, Tick
  <2> QED
    BY <1>1, <2>1, TimeAssumption DEF PingOnTime
<1>5. ASSUME NEW k \in Key PROVE SameKeys(k)' /\ Waited(k)'
  BY <1>1 DEF IInv, SameKeys, Waited
<1>6. ASSUME NEW k \in Key PROVE Postponed(k)'
  <2> SUFFICES ASSUME first_seen[k] # None PROVE Postponed(k)'
    BY <1>1 DEF Postponed
  <2>1. quiet[k] \in Nat /\ quiet[k] <= now /\ now \in Nat
    BY DEF IInv, Types, SameKeys, Postponed
  <2> QED
    BY <1>1, <2>1 DEF IInv, Postponed
<1> QED
  BY <1>2, <1>3, <1>4, <1>5, <1>6 DEF IInv

LEMMA PingReadsIInv ==
  ASSUME IInv, NEW p \in Pinger, NEW k \in Key, PingReads(p, k)
  PROVE  IInv'
<1>1. /\ pings' = [pings EXCEPT ![p] = [key |-> k, at |-> now]]
      /\ UNCHANGED <<now, deadlines, first_seen, drain, drained, quiet>>
  BY DEF PingReads
<1>2. Types'
  BY <1>1 DEF IInv, Types
<1>3. ASSUME NEW q \in Pinger PROVE PingOnTime(q)'
  <2>1. CASE q = p
    BY <1>1, <2>1, TimeAssumption DEF IInv, Types, PingOnTime
  <2>2. CASE q # p
    BY <1>1, <2>2 DEF IInv, Types, PingOnTime
  <2> QED
    BY <2>1, <2>2
<1>4. LoopOnTime' /\ \A j \in Key : SameKeys(j)' /\ Waited(j)' /\ Postponed(j)'
  BY <1>1 DEF IInv, LoopOnTime, SameKeys, Waited, Postponed
<1> QED
  BY <1>2, <1>3, <1>4 DEF IInv

LEMMA PingWritesIInv ==
  ASSUME IInv, NEW p \in Pinger, PingWrites(p)
  PROVE  IInv'
<1> DEFINE k == pings[p].key
           at == pings[p].at
           first == IF first_seen[k] = None THEN at ELSE first_seen[k]
           last == IF quiet[k] = None THEN at ELSE Latest(quiet[k], at)
<1>1. /\ first_seen' = [first_seen EXCEPT ![k] = first]
      /\ deadlines' = [deadlines EXCEPT ![k] = Deadline(k, at, first)]
      /\ quiet' = [quiet EXCEPT ![k] = last]
      /\ pings' = [pings EXCEPT ![p] = None]
      /\ UNCHANGED <<now, drain, drained>>
  BY DEF PingWrites
<1>2. /\ k \in Key /\ at \in Nat /\ now \in Nat /\ at <= now /\ now <= at + Lag
      /\ drained \in Nat /\ drained <= now
  BY DEF PingWrites, IInv, Types, PingOnTime, LoopOnTime
<1>3. first \in Nat /\ last \in Nat /\ Deadline(k, at, first) \in Nat
  BY <1>2, TimeAssumption DEF IInv, Types, Latest, Least, Deadline
<1>4. at <= last /\ last <= now
  BY <1>2, NoneAssumption DEF IInv, Types, SameKeys, Postponed, Latest
<1>5. drained <= first + Latest(MaxWait - 1, 0) + Lag
  <2>1. CASE first_seen[k] = None
    BY <1>2, <2>1, TimeAssumption DEF Latest
  <2>2. CASE first_seen[k] # None
    BY <1>2, <2>2 DEF IInv, Waited
  <2> QED
    BY <2>1, <2>2
<1> HIDE DEF first, last, k, at
<1>6. Types'
  BY <1>1, <1>2, <1>3 DEF IInv, Types
<1>7. LoopOnTime'
  BY <1>1 DEF IInv, LoopOnTime
<1>8. ASSUME NEW q \in Pinger PROVE PingOnTime(q)'
  BY <1>1 DEF IInv, Types, PingOnTime
<1>9. ASSUME NEW j \in Key PROVE SameKeys(j)' /\ Waited(j)' /\ Postponed(j)'
  <2>1. CASE j # k
    <3>1. first_seen'[j] = first_seen[j] /\ deadlines'[j] = deadlines[j] /\ quiet'[j] = quiet[j]
      BY <1>1, <2>1 DEF IInv, Types
    <3> QED
      BY <1>1, <3>1 DEF IInv, SameKeys, Waited, Postponed
  <2>2. CASE j = k
    <3>1. /\ first_seen'[j] = first /\ deadlines'[j] = Deadline(k, at, first) /\ quiet'[j] = last
          /\ first_seen'[j] # None /\ deadlines'[j] # None /\ quiet'[j] # None
      BY <1>1, <1>3, <2>2, NoneAssumption DEF IInv, Types
    <3>2. /\ Deadline(k, at, first) <= first + MaxWait
          /\ Deadline(k, at, first) >= last + Delay - Lag \/ Deadline(k, at, first) >= first + MaxWait
      BY <1>2, <1>3, <1>4, TimeAssumption DEF Deadline, Least
    <3> QED
      BY <1>1, <1>4, <1>5, <3>1, <3>2 DEF SameKeys, Waited, Postponed
  <2> QED
    BY <2>1, <2>2
<1> QED
  BY <1>6, <1>7, <1>8, <1>9 DEF IInv

LEMMA DrainReadsIInv ==
  ASSUME IInv, DrainReads
  PROVE  IInv'
<1>1. drain' = now /\ drain = None /\ UNCHANGED <<now, deadlines, first_seen, pings, drained, quiet>>
  BY DEF DrainReads
<1>2. Types' /\ LoopOnTime'
  BY <1>1, TimeAssumption, NoneAssumption DEF IInv, Types, LoopOnTime
<1>3. /\ \A p \in Pinger : PingOnTime(p)'
      /\ \A k \in Key : SameKeys(k)' /\ Waited(k)' /\ Postponed(k)'
  BY <1>1 DEF IInv, PingOnTime, SameKeys, Waited, Postponed
<1> QED
  BY <1>2, <1>3 DEF IInv

\* What stays was not due at the reading of the drain.
LEMMA DrainWritesIInv ==
  ASSUME IInv, DrainWrites
  PROVE  IInv'
<1>1. /\ drain # None /\ drain' = None /\ drained' = now /\ UNCHANGED <<now, pings>>
      /\ deadlines' = Forget(deadlines, Due) /\ first_seen' = Forget(first_seen, Due)
      /\ quiet' = Forget(quiet, Due)
  BY DEF DrainWrites
<1>2. /\ drain \in Nat /\ now \in Nat /\ drain <= now /\ now <= drain + Lag
  BY <1>1 DEF IInv, Types, LoopOnTime
<1>3. Types'
  BY <1>1 DEF IInv, Types, Forget
<1>4. LoopOnTime'
  BY <1>1, <1>2, TimeAssumption DEF LoopOnTime
<1>5. ASSUME NEW p \in Pinger PROVE PingOnTime(p)'
  BY <1>1 DEF IInv, PingOnTime
<1>6. ASSUME NEW k \in Key PROVE SameKeys(k)' /\ Waited(k)' /\ Postponed(k)'
  <2>1. CASE k \in Due
    <3>1. first_seen'[k] = None /\ deadlines'[k] = None /\ quiet'[k] = None
      BY <1>1, <2>1 DEF Forget
    <3> QED
      BY <3>1 DEF SameKeys, Waited, Postponed
  <2>2. CASE k \notin Due
    <3>1. first_seen'[k] = first_seen[k] /\ deadlines'[k] = deadlines[k] /\ quiet'[k] = quiet[k]
      BY <1>1, <2>2 DEF Forget
    <3>2. SameKeys(k)' /\ Postponed(k)'
      BY <1>1, <3>1 DEF IInv, SameKeys, Postponed
    <3>3. Waited(k)'
      <4> SUFFICES ASSUME first_seen[k] # None PROVE Waited(k)'
        BY <3>1 DEF Waited
      <4>1. /\ first_seen[k] \in Nat /\ deadlines[k] \in Nat /\ deadlines[k] <= first_seen[k] + MaxWait
            /\ deadlines[k] # None
        BY DEF IInv, Types, SameKeys, Waited
      <4>2. drain < deadlines[k]
        BY <1>1, <1>2, <2>2, <4>1 DEF Due
      <4>3. now <= first_seen[k] + Latest(MaxWait - 1, 0) + Lag
        BY <1>2, <4>1, <4>2, TimeAssumption DEF Latest
      <4> QED
        BY <1>1, <3>1, <4>1, <4>3 DEF Waited
    <3> QED
      BY <3>2, <3>3
  <2> QED
    BY <2>1, <2>2
<1> QED
  BY <1>3, <1>4, <1>5, <1>6 DEF IInv

LEMMA StepIInv ==
  ASSUME IInv, [Next]_vars
  PROVE  IInv'
<1>1. CASE UNCHANGED vars
  BY <1>1 DEF vars, IInv, Types, LoopOnTime, PingOnTime, SameKeys, Waited, Postponed
<1> QED
  BY <1>1, TickIInv, PingReadsIInv, PingWritesIInv, DrainReadsIInv, DrainWritesIInv DEF Next

\* The tables, the loop and the threads keep time.
THEOREM Invariance == Spec => []IInv
  BY InitIInv, StepIInv, PTL DEF Spec

\* Steady pinging cannot postpone a key beyond the maximum wait and the loop's delays.
THEOREM WaitIsBounded == Spec => []BoundedWait
<1>1. ASSUME IInv PROVE BoundedWait
  <2> SUFFICES ASSUME NEW k \in Key, first_seen[k] # None
               PROVE  now <= first_seen[k] + Latest(MaxWait - 1, 0) + Period + 2 * Lag
    BY DEF BoundedWait
  <2>1. first_seen[k] \in Nat /\ now \in Nat /\ drained \in Nat /\ Latest(MaxWait - 1, 0) \in Nat
    BY <1>1, TimeAssumption DEF IInv, Types, Latest
  <2>2. drained <= first_seen[k] + Latest(MaxWait - 1, 0) + Lag
    BY <1>1 DEF IInv, Waited
  <2>3. now <= drained + Period + Lag
    BY <1>1, TimeAssumption DEF IInv, Types, LoopOnTime
  <2> QED
    BY <2>1, <2>2, <2>3, TimeAssumption
<1> QED
  BY <1>1, Invariance, PTL

\* Bursts are absorbed: no key fires before its quiet period.
THEOREM NothingFiresEarly == Spec => NoEarlyFire
<1>1. ASSUME IInv, [Next]_vars
      PROVE  [\A k \in Key : deadlines[k] # None /\ deadlines'[k] = None =>
                 \/ now >= quiet[k] + Delay - Lag
                 \/ now >= first_seen[k] + MaxWait]_vars
  <2> SUFFICES ASSUME NEW k \in Key, deadlines[k] # None, deadlines'[k] = None
               PROVE  now >= quiet[k] + Delay - Lag \/ now >= first_seen[k] + MaxWait
    OBVIOUS
  <2>1. CASE DrainWrites
    <3>1. k \in Due
      BY <2>1 DEF DrainWrites, Forget
    <3>2. drain \in Nat /\ drain <= now /\ now \in Nat /\ deadlines[k] \in Nat /\ deadlines[k] <= drain
      BY <1>1, <2>1, <3>1 DEF DrainWrites, IInv, Types, LoopOnTime, Due
    <3>3. /\ quiet[k] \in Nat /\ first_seen[k] \in Nat
          /\ deadlines[k] >= quiet[k] + Delay - Lag \/ deadlines[k] >= first_seen[k] + MaxWait
      BY <1>1 DEF IInv, Types, SameKeys, Postponed
    <3> QED
      BY <3>2, <3>3, TimeAssumption
  <2>2. ASSUME NEW p \in Pinger, PingWrites(p) PROVE FALSE
    <3>1. pings[p].key \in Key /\ pings[p].at \in Nat
      BY <1>1, <2>2 DEF PingWrites, IInv, Types
    <3>2. deadlines'[k] \in Nat
      BY <1>1, <2>2, <3>1, TimeAssumption DEF PingWrites, IInv, Types, Deadline, Least
    <3> QED
      BY <3>2, NoneAssumption
  <2> QED
    BY <1>1, <2>1, <2>2 DEF Next, Tick, PingReads, DrainReads, vars
<1> QED
  BY <1>1, Invariance, PTL DEF Spec, NoEarlyFire

(***************************************************************************)
(* The write lock.                                                         *)
(***************************************************************************)

\* The invariant holds before any connection is opened.
LEMMA LockInitInv == LockInit => LockInv
  BY NobodyAssumption DEF LockInit, LockInv, LockTypeOK, Consistent, Kind, Pc

\* A step of connection c leaves the others alone: only the lock is shared.
LEMMA LockStepType ==
  ASSUME LockTypeOK, [LockNext]_lockVars
  PROVE  LockTypeOK'
<1>1. CASE UNCHANGED lockVars
  BY <1>1 DEF LockTypeOK, lockVars
<1>2. ASSUME NEW c \in Conn, Open(c) PROVE LockTypeOK'
  BY <1>2 DEF Open, At, LockTypeOK, Pc
<1>3. ASSUME NEW c \in Conn, NEW k \in Kind, Issue(c, k) PROVE LockTypeOK'
  BY <1>3 DEF Issue, NeedsLock, At, LockTypeOK, Pc
<1>4. ASSUME NEW c \in Conn, Acquire(c) PROVE LockTypeOK'
  BY <1>4 DEF Acquire, At, LockTypeOK, Pc
<1>5. ASSUME NEW c \in Conn, Run(c) PROVE LockTypeOK'
  BY <1>5 DEF Run, After, At, LockTypeOK, Pc
<1>6. ASSUME NEW c \in Conn, Settle(c) PROVE LockTypeOK'
  BY <1>6 DEF Settle, At, LockTypeOK, Pc
<1>7. ASSUME NEW c \in Conn, Release(c) PROVE LockTypeOK'
  BY <1>7 DEF Release, GiveBack, At, LockTypeOK, Pc
<1>8. ASSUME NEW c \in Conn, EndTransaction(c) PROVE LockTypeOK'
  BY <1>8 DEF EndTransaction, At, LockTypeOK, Pc
<1>9. ASSUME NEW c \in Conn, Close(c) PROVE LockTypeOK'
  BY <1>9 DEF Close, GiveBack, At, LockTypeOK, Pc
<1> QED
  BY <1>1, <1>2, <1>3, <1>4, <1>5, <1>6, <1>7, <1>8, <1>9 DEF LockNext, Step

\* The invariant is kept by every step of every connection.
LEMMA LockStepInv ==
  ASSUME LockInv, [LockNext]_lockVars
  PROVE  LockInv'
<1>type. LockTypeOK /\ LockTypeOK'
  BY LockStepType DEF LockInv
<1>con. ASSUME NEW d \in Conn PROVE Consistent(d)
  BY DEF LockInv
<1> SUFFICES ASSUME NEW d \in Conn PROVE Consistent(d)'
  BY <1>type DEF LockInv
<1>1. CASE UNCHANGED lockVars
  BY <1>1, <1>con DEF Consistent, lockVars
<1>2. ASSUME NEW c \in Conn, Open(c) PROVE Consistent(d)'
  BY <1>2, <1>con, <1>type DEF Consistent, Open, At, LockTypeOK
<1>3. ASSUME NEW c \in Conn, NEW k \in Kind, Issue(c, k) PROVE Consistent(d)'
  BY <1>3, <1>con, <1>type DEF Consistent, Issue, NeedsLock, At, LockTypeOK
<1>4. ASSUME NEW c \in Conn, Acquire(c) PROVE Consistent(d)'
  BY <1>4, <1>con, <1>type, NobodyAssumption DEF Consistent, Acquire, At, LockTypeOK
<1>5. ASSUME NEW c \in Conn, Run(c) PROVE Consistent(d)'
  <2>1. pc[c] = "execute" /\ pc' = [pc EXCEPT ![c] = "settle"]
    BY <1>5 DEF Run, At
  <2>2. in_tx[c]' => in_tx[c] \/ stmt[c] \in {"write", "script"}
    BY <1>5, <1>type DEF Run, After, LockTypeOK
  <2>3. \A e \in Conn \ {c} : in_tx[e]' = in_tx[e]
    BY <1>5, <1>type DEF Run, LockTypeOK
  <2> QED
    BY <1>5, <1>con, <1>type, <2>1, <2>2, <2>3 DEF Consistent, Run, LockTypeOK
<1>6. ASSUME NEW c \in Conn, Settle(c) PROVE Consistent(d)'
  BY <1>6, <1>con, <1>type DEF Consistent, Settle, At, LockTypeOK
<1>7. ASSUME NEW c \in Conn, Release(c) PROVE Consistent(d)'
  BY <1>7, <1>con, <1>type, NobodyAssumption DEF Consistent, Release, GiveBack, At, LockTypeOK
<1>8. ASSUME NEW c \in Conn, EndTransaction(c) PROVE Consistent(d)'
  BY <1>8, <1>con, <1>type DEF Consistent, EndTransaction, At, LockTypeOK
<1>9. ASSUME NEW c \in Conn, Close(c) PROVE Consistent(d)'
  BY <1>9, <1>con, <1>type, NobodyAssumption DEF Consistent, Close, GiveBack, At, LockTypeOK
<1> QED
  BY <1>1, <1>2, <1>3, <1>4, <1>5, <1>6, <1>7, <1>8, <1>9 DEF LockNext, Step

\* The wrapper's state stays consistent for every connection.
THEOREM LockInvariance == LockSpec => []LockInv
  BY LockInitInv, LockStepInv, PTL DEF LockSpec

\* The lock has one owner, which knows that it holds it.
THEOREM OwnerSafety == LockSpec => []OwnerHoldsLock
<1>1. LockInv => OwnerHoldsLock
  BY DEF LockInv, Consistent, OwnerHoldsLock
<1> QED
  BY <1>1, LockInvariance, PTL

\* An open transaction holds the lock: write transactions are serialized.
THEOREM TransactionSafety == LockSpec => []TransactionHoldsLock
<1>1. LockInv => TransactionHoldsLock
  BY DEF LockInv, Consistent, TransactionHoldsLock
<1> QED
  BY <1>1, LockInvariance, PTL

\* No thread returns from a call, or closes its connection, with the lock and no
\* transaction.
THEOREM LeakFreedom == LockSpec => []NoLeak
<1>1. LockInv => NoLeak
  BY DEF LockInv, Consistent, NoLeak
<1> QED
  BY <1>1, LockInvariance, PTL
=============================================================================
