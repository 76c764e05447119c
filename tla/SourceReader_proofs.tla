------------------------ MODULE SourceReader_proofs ------------------------
(***************************************************************************)
(* Proofs about SourceReader, for any threads, keys, capacities and        *)
(* bounds.  First, nobody waits for a flight that nobody will end.  Then   *)
(* what is read: the parses that are kept and those that a call has in     *)
(* hand tell the truth about the source, so an answer is never older than  *)
(* its call, and a verification that says yes was right.                   *)
(***************************************************************************)
EXTENDS SourceReader, TLAPS

(***************************************************************************)
(* The inductive invariant.                                                *)
(***************************************************************************)

\* A call is a record, whatever its fields hold.
Call(V) == [pc : V, key : V, low : V, owner : BOOLEAN, shared : V, stored : V, tries : V,
            mon : V, got : V, seen : V, todo : V, since : V, used : V]
Calls == \E V : job \in [Thread -> Call(V)]

\* The steps of a read that has not answered yet.
Reading == {"look", "stat", "hash", "parse", "check", "restat", "observe", "before",
            "scan", "after", "confirm", "recheck", "publish"}

\* A flight is owned by a thread that reads its key.
FlightOwned(k) ==
  flight[k] # None =>
    LET w == flight[k] IN
    w \in Thread /\ job[w].owner /\ job[w].key = k /\ job[w].pc \in Reading

\* Who waits, waits for a flight.
Awaited(t) == job[t].pc = "wait" => job[t].key \in Key /\ flight[job[t].key] # None

IInv ==
  /\ flight \in [Key -> Thread \cup {None}]
  /\ Calls
  /\ \A k \in Key : FlightOwned(k)
  /\ \A t \in Thread : Awaited(t)

LEMMA InitIInv == Init => IInv
<1> SUFFICES ASSUME Init PROVE IInv
  OBVIOUS
<1> DEFINE V == {"idle", None, 0, <<>>}
<1>1. Idle \in Call(V)
  BY DEF Idle, Call
<1>2. job \in [Thread -> Call(V)]
  BY <1>1 DEF Init
<1>3. Calls
  BY <1>2 DEF Calls
<1>4. \A t \in Thread : job[t].pc = "idle"
  BY DEF Init, Idle
<1> QED
  BY <1>3, <1>4 DEF Init, IInv, FlightOwned, Awaited

(***************************************************************************)
(* Steps that leave the flights alone.                                     *)
(***************************************************************************)

\* One row of the table of calls changes.
LEMMA OneRow ==
  ASSUME Calls, NEW t \in Thread, NEW W, NEW r \in Call(W), job' = [job EXCEPT ![t] = r]
  PROVE  /\ Calls' /\ job'[t] = r
         /\ \A w \in Thread : w # t => job'[w] = job[w]
<1>1. PICK V : job \in [Thread -> Call(V)]
  BY DEF Calls
<1>2. Call(V) \subseteq Call(V \cup W) /\ Call(W) \subseteq Call(V \cup W)
  BY DEF Call
<1>3. job' \in [Thread -> Call(V \cup W)]
  <2> DEFINE C == Call(V \cup W)
  <2>1. job \in [Thread -> C] /\ r \in C
    BY <1>1, <1>2
  <2> HIDE DEF C
  <2>2. [job EXCEPT ![t] = r] \in [Thread -> C]
    BY <2>1
  <2> QED
    BY <2>2 DEF C
<1> QED
  BY <1>1, <1>3 DEF Calls

\* A thread that goes on, or is not reading, disturbs no flight.
LEMMA GoesOn ==
  ASSUME IInv, NEW t \in Thread, UNCHANGED flight,
         NEW W, NEW r \in Call(W), job' = [job EXCEPT ![t] = r],
         r.pc # "wait",
         job[t].pc \in Reading => r.pc \in Reading /\ r.owner = job[t].owner /\ r.key = job[t].key
  PROVE  IInv'
<1>1. /\ Calls' /\ job'[t] = r
      /\ \A w \in Thread : w # t => job'[w] = job[w]
  BY OneRow DEF IInv
<1>2. ASSUME NEW k \in Key PROVE FlightOwned(k)'
  BY <1>1 DEF IInv, FlightOwned
<1>3. ASSUME NEW w \in Thread PROVE Awaited(w)'
  BY <1>1 DEF IInv, Awaited
<1> QED
  BY <1>1, <1>2, <1>3 DEF IInv

(***************************************************************************)
(* The end of a read: its flight ends, and everybody who waits for it wakes. *)
(***************************************************************************)
LEMMA FinishFlightIInv ==
  ASSUME IInv, NEW t \in Thread, NEW parsed, job[t].pc \in Reading, FinishFlight(t, parsed)
  PROVE  IInv'
<1> DEFINE k == job[t].key
           woken(w) == job[t].owner /\ job[w].pc = "wait" /\ job[w].key = k
<1>1. PICK V : job \in [Thread -> Call(V)]
  BY DEF IInv, Calls
<1>2. /\ flight' = IF job[t].owner THEN [flight EXCEPT ![k] = None] ELSE flight
      /\ job' = [w \in Thread |->
                   IF w = t THEN Idle
                   ELSE IF woken(w) THEN [job[w] EXCEPT !.pc = "woken", !.shared = parsed]
                   ELSE job[w]]
  BY DEF FinishFlight
<1>3. Calls'
  <2> DEFINE W == V \cup {"idle", None, 0, <<>>, "woken", parsed}
  <2>1. Idle \in Call(W)
    BY DEF Idle, Call
  <2>2. ASSUME NEW w \in Thread
        PROVE  job[w] \in Call(W) /\ [job[w] EXCEPT !.pc = "woken", !.shared = parsed] \in Call(W)
    BY <1>1 DEF Call
  <2>3. job' \in [Thread -> Call(W)]
    BY <1>2, <2>1, <2>2
  <2> QED
    BY <2>3 DEF Calls
<1>4. job'[t].pc = "idle"
  BY <1>2 DEF Idle
<1>5. ASSUME NEW w \in Thread, w # t, woken(w) PROVE job'[w].pc = "woken"
  <2>1. job'[w] = [job[w] EXCEPT !.pc = "woken", !.shared = parsed]
    BY <1>2, <1>5
  <2> QED
    BY <1>1, <2>1 DEF Call
<1>6. ASSUME NEW w \in Thread, w # t, ~woken(w) PROVE job'[w] = job[w]
  BY <1>2, <1>6
<1>7. flight' \in [Key -> Thread \cup {None}]
  BY <1>2 DEF IInv
<1>8. ASSUME NEW c \in Key PROVE FlightOwned(c)'
  <2> SUFFICES ASSUME flight'[c] # None
               PROVE  /\ flight'[c] \in Thread /\ job'[flight'[c]].owner
                      /\ job'[flight'[c]].key = c /\ job'[flight'[c]].pc \in Reading
    BY DEF FlightOwned
  <2>1. flight'[c] = flight[c]
    BY <1>2 DEF IInv
  <2>2. /\ flight[c] \in Thread /\ job[flight[c]].owner
        /\ job[flight[c]].key = c /\ job[flight[c]].pc \in Reading
    BY <2>1 DEF IInv, FlightOwned
  <2>3. flight[c] # t
    BY <1>2, <2>1, <2>2 DEF IInv
  <2>4. ~woken(flight[c])
    BY <2>2 DEF Reading
  <2> QED
    BY <1>6, <2>1, <2>2, <2>3, <2>4
<1>9. ASSUME NEW w \in Thread PROVE Awaited(w)'
  <2> SUFFICES ASSUME job'[w].pc = "wait"
               PROVE  job'[w].key \in Key /\ flight'[job'[w].key] # None
    BY DEF Awaited
  <2>1. w # t /\ ~woken(w)
    BY <1>4, <1>5
  <2>2. job'[w] = job[w]
    BY <1>6, <2>1
  <2>3. job[w].key \in Key /\ flight[job[w].key] # None
    BY <2>2 DEF IInv, Awaited
  <2> QED
    BY <1>2, <2>1, <2>2, <2>3 DEF IInv
<1> QED
  BY <1>3, <1>7, <1>8, <1>9 DEF IInv

(***************************************************************************)
(* The actions.                                                            *)
(***************************************************************************)
LEMMA BeginIInv ==
  ASSUME IInv, NEW t \in Thread, NEW k \in Key, Begin(t, k)
  PROVE  IInv'
<1>1. job[t].pc = "idle"
  BY DEF Begin
<1>2. ASSUME NEW c \in Key PROVE flight[c] # t \/ t = None
  BY <1>1 DEF IInv, FlightOwned, Reading
<1>3. CASE flight[k] = None
  <2> DEFINE r == Look0(k, text[k], None, TRUE)
             W == {"look", k, text[k], None, MaxTries, 0, <<>>}
  <2>1. r \in Call(W) /\ r.pc = "look" /\ r.key = k /\ r.owner
    BY DEF Look0, Idle, Call
  <2>2. job' = [job EXCEPT ![t] = r] /\ flight' = [flight EXCEPT ![k] = t]
    BY <1>3 DEF Begin
  <2> HIDE DEF r, W
  <2>3. /\ Calls' /\ job'[t] = r
        /\ \A w \in Thread : w # t => job'[w] = job[w]
    BY <2>1, <2>2, OneRow DEF IInv
  <2>4. ASSUME NEW c \in Key PROVE FlightOwned(c)'
    BY <1>2, <1>3, <2>1, <2>2, <2>3 DEF IInv, FlightOwned, Reading
  <2>5. ASSUME NEW w \in Thread PROVE Awaited(w)'
    BY <1>3, <2>1, <2>2, <2>3 DEF IInv, Awaited
  <2>6. flight' \in [Key -> Thread \cup {None}]
    BY <2>2 DEF IInv
  <2> QED
    BY <2>3, <2>4, <2>5, <2>6 DEF IInv
<1>4. CASE flight[k] # None
  <2> DEFINE r == [Idle EXCEPT !.pc = "wait", !.key = k, !.low = text[k]]
             W == {"wait", k, text[k], None, 0, <<>>}
  <2>1. r \in Call(W) /\ r.pc = "wait" /\ r.key = k
    BY DEF Idle, Call
  <2>2. job' = [job EXCEPT ![t] = r] /\ flight' = flight
    BY <1>4 DEF Begin
  <2> HIDE DEF r, W
  <2>3. /\ Calls' /\ job'[t] = r
        /\ \A w \in Thread : w # t => job'[w] = job[w]
    BY <2>1, <2>2, OneRow DEF IInv
  <2>4. ASSUME NEW c \in Key PROVE FlightOwned(c)'
    BY <1>1, <2>2, <2>3 DEF IInv, FlightOwned, Reading
  <2>5. ASSUME NEW w \in Thread PROVE Awaited(w)'
    BY <1>4, <2>1, <2>2, <2>3 DEF IInv, Awaited
  <2> QED
    BY <2>2, <2>3, <2>4, <2>5 DEF IInv
<1> QED
  BY <1>3, <1>4

LEMMA GotoIInv ==
  ASSUME IInv, NEW t \in Thread, NEW pc, Goto(t, pc), UNCHANGED flight, pc # "wait",
         job[t].pc \in Reading => pc \in Reading
  PROVE  IInv'
<1> DEFINE r == [job[t] EXCEPT !.pc = pc]
<1>1. PICK V : job \in [Thread -> Call(V)]
  BY DEF IInv, Calls
<1>2. /\ r \in Call(V \cup {pc})
      /\ r.pc = pc /\ r.owner = job[t].owner /\ r.key = job[t].key
  BY <1>1 DEF Call
<1>3. job' = [job EXCEPT ![t] = r]
  BY DEF Goto
<1> HIDE DEF r
<1> QED
  BY <1>2, <1>3, GoesOn

LEMMA GotIInv ==
  ASSUME IInv, NEW t \in Thread, NEW e, Got(t, e), UNCHANGED flight
  PROVE  IInv'
<1> DEFINE r == [job[t] EXCEPT !.pc = "recheck", !.got = e, !.shared = None,
                               !.seen = None, !.mon = 0, !.tries = 0]
<1>1. PICK V : job \in [Thread -> Call(V)]
  BY DEF IInv, Calls
<1>2. /\ r \in Call(V \cup {"recheck", e, None, 0})
      /\ r.pc = "recheck" /\ r.owner = job[t].owner /\ r.key = job[t].key
  BY <1>1 DEF Call
<1>3. job' = [job EXCEPT ![t] = r]
  BY DEF Got
<1> HIDE DEF r
<1> QED
  BY <1>2, <1>3, GoesOn DEF Reading

\* A call that is not a read ends.
LEMMA RefusedIInv ==
  ASSUME IInv, NEW t \in Thread, Refused(t), UNCHANGED flight, job[t].pc \notin Reading
  PROVE  IInv'
<1>1. Idle \in Call({"idle", None, 0, <<>>}) /\ Idle.pc = "idle"
  BY DEF Idle, Call
<1>2. job' = [job EXCEPT ![t] = Idle]
  BY DEF Refused
<1> QED
  BY <1>1, <1>2, GoesOn

LEMMA CheckedIInv ==
  ASSUME IInv, NEW t \in Thread, Checked(t), UNCHANGED flight, job[t].pc \notin Reading
  PROVE  IInv'
<1> DEFINE r == [job[t] EXCEPT !.pc = "verify", !.todo = Tail(@), !.got = None,
                               !.seen = None, !.mon = 0]
<1>1. PICK V : job \in [Thread -> Call(V)]
  BY DEF IInv, Calls
<1>2. r \in Call(V \cup {"verify", Tail(job[t].todo), None, 0}) /\ r.pc = "verify"
  BY <1>1 DEF Call
<1>3. job' = [job EXCEPT ![t] = r]
  BY DEF Checked
<1> HIDE DEF r
<1> QED
  BY <1>2, <1>3, GoesOn

LEMMA WokenIInv ==
  ASSUME IInv, NEW t \in Thread, Woken(t)
  PROVE  IInv'
<1> DEFINE l == Look0(job[t].key, job[t].low, job[t].shared, FALSE)
           W == {"look", "idle", job[t].key, job[t].low, job[t].shared, None, MaxTries, 0, <<>>}
           r == IF CheckpointIsCurrent(job[t].key) THEN l ELSE Idle
<1>1. l \in Call(W) /\ l.pc = "look"
  BY DEF Look0, Idle, Call
<1>2. Idle \in Call(W) /\ Idle.pc = "idle"
  BY DEF Idle, Call
<1>3. job' = [job EXCEPT ![t] = r] /\ flight' = flight /\ job[t].pc = "woken"
  BY DEF Woken
<1>4. r \in Call(W) /\ r.pc # "wait"
  BY <1>1, <1>2
<1> HIDE DEF r, W
<1> QED
  BY <1>3, <1>4, GoesOn DEF Reading

LEMMA RaiseIInv ==
  ASSUME IInv, NEW t \in Thread, Raise(t)
  PROVE  IInv'
BY FinishFlightIInv DEF Raise, Reading

LEMMA LookIInv ==
  ASSUME IInv, NEW t \in Thread, Look(t)
  PROVE  IInv'
<1> DEFINE k == job[t].key
           found == IF Holds(invalid, k) THEN None ELSE Entry(artifacts, k)
           pc == IF k \in Targeted THEN "observe" ELSE "stat"
           sh == IF found = None THEN job[t].shared ELSE found
           r == [job[t] EXCEPT !.pc = pc, !.stored = found, !.mon = monitor', !.shared = sh]
<1>1. PICK V : job \in [Thread -> Call(V)]
  BY DEF IInv, Calls
<1>2. pc \in Reading /\ pc # "wait"
  BY DEF Reading
<1> HIDE DEF found
<1>3. /\ job[t].pc = "look" /\ UNCHANGED flight
      /\ job' = [job EXCEPT ![t].pc = pc, ![t].stored = found, ![t].mon = monitor', ![t].shared = sh]
  BY <1>1 DEF Look, found, Call
<1> HIDE DEF pc, sh
<1>4. job' = [job EXCEPT ![t] = r]
  BY <1>1, <1>3 DEF Call
<1>5. /\ r \in Call(V \cup {pc, found, monitor', sh})
      /\ r.pc = pc /\ r.owner = job[t].owner /\ r.key = job[t].key
  BY <1>1 DEF Call
<1> HIDE DEF r
<1> QED
  BY <1>2, <1>3, <1>4, <1>5, GoesOn

\* The steps of a read of a plain artifact.
LEMMA PlainIInv ==
  ASSUME IInv, NEW t \in Thread,
         Stat(t) \/ Hash(t) \/ ParseRead(t) \/ ParseCheck(t) \/ Restat(t)
  PROVE  IInv'
<1>1. PICK V : job \in [Thread -> Call(V)]
  BY DEF IInv, Calls
<1>2. CASE Stat(t)
  BY <1>2, GotoIInv DEF Stat, Local, Reading
<1>3. CASE Hash(t)
  BY <1>3, GotoIInv, GotIInv DEF Hash, Local, Reading
<1>4. CASE ParseRead(t)
  <2> DEFINE k == job[t].key
             g == [Parse(k, stamp[k], text[k], None) EXCEPT !.ok = intact[k]]
             r == [job[t] EXCEPT !.pc = "check", !.got = g]
  <2> HIDE DEF g
  <2>1. job' = [job EXCEPT ![t].pc = "check", ![t].got = g] /\ UNCHANGED flight
    BY <1>4 DEF ParseRead, Local, g
  <2>2. job' = [job EXCEPT ![t] = r]
    BY <1>1, <2>1 DEF Call
  <2>3. /\ r \in Call(V \cup {"check", g})
        /\ r.pc = "check" /\ r.owner = job[t].owner /\ r.key = job[t].key
    BY <1>1 DEF Call
  <2> HIDE DEF r
  <2> QED
    BY <2>1, <2>2, <2>3, GoesOn DEF Reading
<1>5. CASE ParseCheck(t)
  <2>1. job[t].pc = "check"
    BY <1>5 DEF ParseCheck
  <2>2. CASE /\ job' = [job EXCEPT ![t].pc = "restat", ![t].got.hash = text[job[t].key]]
             /\ UNCHANGED flight
    <3> DEFINE g == [job[t].got EXCEPT !.hash = text[job[t].key]]
               r == [job[t] EXCEPT !.pc = "restat", !.got = g]
    <3> HIDE DEF g
    <3>1. job' = [job EXCEPT ![t] = r]
      BY <1>1, <2>2 DEF Call, g
    <3>2. /\ r \in Call(V \cup {"restat", g})
          /\ r.pc = "restat" /\ r.owner = job[t].owner /\ r.key = job[t].key
      BY <1>1 DEF Call
    <3> HIDE DEF r
    <3> QED
      BY <2>1, <2>2, <3>1, <3>2, GoesOn DEF Reading
  <2>3. CASE job' = [job EXCEPT ![t].pc = "parse", ![t].tries = @ - 1] /\ UNCHANGED flight
    <3> DEFINE n == job[t].tries - 1
               r == [job[t] EXCEPT !.pc = "parse", !.tries = n]
    <3>1. job' = [job EXCEPT ![t].pc = "parse", ![t].tries = n]
      BY <2>3
    <3> HIDE DEF n
    <3>2. job' = [job EXCEPT ![t] = r]
      BY <1>1, <3>1 DEF Call
    <3>3. /\ r \in Call(V \cup {"parse", n})
          /\ r.pc = "parse" /\ r.owner = job[t].owner /\ r.key = job[t].key
      BY <1>1 DEF Call
    <3> HIDE DEF r
    <3> QED
      BY <2>3, <3>2, <3>3, GoesOn DEF Reading
  <2>4. CASE FinishFlight(t, None)
    BY <2>1, <2>4, FinishFlightIInv DEF Reading
  <2> QED
    BY <1>5, <2>2, <2>3, <2>4 DEF ParseCheck
<1>6. CASE Restat(t)
  BY <1>6, GotIInv DEF Restat, Local
<1> QED
  BY <1>2, <1>3, <1>4, <1>5, <1>6

\* The steps of a read of one thread of the database.
LEMMA TargetedIInv ==
  ASSUME IInv, NEW t \in Thread,
         Watch(t) \/ Before(t) \/ Scan(t) \/ After(t) \/ Confirm(t)
  PROVE  IInv'
<1>1. PICK V : job \in [Thread -> Call(V)]
  BY DEF IInv, Calls
<1>2. CASE Watch(t)
  <2> DEFINE o == Observation(Opened(job[t].mon))
             r == [job[t] EXCEPT !.pc = "before", !.seen = o]
  <2> HIDE DEF o
  <2>1. UNCHANGED flight
    BY <1>2 DEF Watch, LocalSqlite
  <2>2. \/ Got(t, job[t].shared)
        \/ job' = [job EXCEPT ![t].pc = "before", ![t].seen = o]
    BY <1>2 DEF Watch, o
  <2>3. CASE job' = [job EXCEPT ![t].pc = "before", ![t].seen = o]
    <3>1. job' = [job EXCEPT ![t] = r]
      BY <1>1, <2>3 DEF Call
    <3>2. /\ r \in Call(V \cup {"before", o})
          /\ r.pc = "before" /\ r.owner = job[t].owner /\ r.key = job[t].key
      BY <1>1 DEF Call
    <3> HIDE DEF r
    <3> QED
      BY <2>1, <3>1, <3>2, GoesOn DEF Reading
  <2> QED
    BY <2>1, <2>2, <2>3, GotIInv
<1>3. CASE Before(t)
  <2> DEFINE v == text[job[t].key]
             known == job[t].shared # None /\ job[t].shared.rev = v
             pc == IF known THEN "confirm" ELSE "scan"
             g == IF known THEN [job[t].shared EXCEPT !.obs = job[t].seen]
                  ELSE Parse(job[t].key, v, 0, job[t].seen)
             r == [job[t] EXCEPT !.pc = pc, !.got = g]
  <2>1. pc \in Reading /\ pc # "wait"
    BY DEF Reading
  <2>2. job' = [job EXCEPT ![t].pc = pc, ![t].got = g] /\ UNCHANGED flight
    BY <1>3 DEF Before, Local
  <2> HIDE DEF pc, g
  <2>3. job' = [job EXCEPT ![t] = r]
    BY <1>1, <2>2 DEF Call
  <2>4. /\ r \in Call(V \cup {pc, g})
        /\ r.pc = pc /\ r.owner = job[t].owner /\ r.key = job[t].key
    BY <1>1 DEF Call
  <2> HIDE DEF r
  <2> QED
    BY <2>1, <2>2, <2>3, <2>4, GoesOn
<1>4. CASE Scan(t)
  <2> DEFINE x == text[job[t].key]
             y == intact[job[t].key]
             g == [[job[t].got EXCEPT !.text = x] EXCEPT !.ok = y]
             r == [job[t] EXCEPT !.pc = "after", !.got = g]
  <2>1. /\ job' = [job EXCEPT ![t].pc = "after", ![t].got.text = x, ![t].got.ok = y]
        /\ UNCHANGED flight
    BY <1>4 DEF Scan, Local
  <2> HIDE DEF x, y
  <2>2. job' = [job EXCEPT ![t] = r]
    BY <1>1, <2>1 DEF Call
  <2> HIDE DEF g
  <2>3. /\ r \in Call(V \cup {"after", g})
        /\ r.pc = "after" /\ r.owner = job[t].owner /\ r.key = job[t].key
    BY <1>1 DEF Call
  <2> HIDE DEF r
  <2> QED
    BY <2>1, <2>2, <2>3, GoesOn DEF Reading
<1>5. CASE After(t)
  BY <1>5, GotoIInv, FinishFlightIInv DEF After, Reading
<1>6. CASE Confirm(t)
  <2>1. job[t].pc = "confirm"
    BY <1>6 DEF Confirm
  <2>2. CASE Got(t, job[t].got) /\ UNCHANGED flight
    BY <2>2, GotIInv
  <2>3. CASE job' = [job EXCEPT ![t].pc = "observe", ![t].tries = @ - 1] /\ UNCHANGED flight
    <3> DEFINE n == job[t].tries - 1
               r == [job[t] EXCEPT !.pc = "observe", !.tries = n]
    <3>1. job' = [job EXCEPT ![t].pc = "observe", ![t].tries = n]
      BY <2>3
    <3> HIDE DEF n
    <3>2. job' = [job EXCEPT ![t] = r]
      BY <1>1, <3>1 DEF Call
    <3>3. /\ r \in Call(V \cup {"observe", n})
          /\ r.pc = "observe" /\ r.owner = job[t].owner /\ r.key = job[t].key
      BY <1>1 DEF Call
    <3> HIDE DEF r
    <3> QED
      BY <2>3, <3>2, <3>3, GoesOn DEF Reading
  <2>4. CASE FinishFlight(t, None)
    BY <2>1, <2>4, FinishFlightIInv DEF Reading
  <2> QED
    BY <1>6, <2>2, <2>3, <2>4 DEF Confirm
<1> QED
  BY <1>2, <1>3, <1>4, <1>5, <1>6

\* The answer ends the flight, whatever it is.
LEMMA AnswerIInv ==
  ASSUME IInv, NEW t \in Thread, Recheck(t) \/ Publish(t)
  PROVE  IInv'
<1>1. CASE Recheck(t)
  BY <1>1, GotoIInv, FinishFlightIInv DEF Recheck, Reading
<1>2. CASE Publish(t)
  BY <1>2, FinishFlightIInv DEF Publish, Reading
<1> QED
  BY <1>1, <1>2

\* A verification claims no flight and waits for none.
LEMMA VerifyIInv ==
  ASSUME IInv, NEW t \in Thread,
         \/ VerifyBegin(t) \/ VerifyNext(t) \/ VerifyObserve(t) \/ VerifyRevision(t)
         \/ VerifyConfirm(t) \/ VerifyParse(t) \/ VerifyReconfirm(t) \/ Verified(t)
  PROVE  IInv'
<1>1. PICK V : job \in [Thread -> Call(V)]
  BY DEF IInv, Calls
<1>2. CASE VerifyBegin(t)
  <2> DEFINE u == [k \in Key |-> Vouched(k)]
             r == [Idle EXCEPT !.pc = "verify", !.todo = evidence, !.since = text, !.used = u]
  <2> HIDE DEF u
  <2>1. /\ job' = [job EXCEPT ![t] = r] /\ UNCHANGED flight
        /\ job[t].pc = "idle"
    BY <1>2 DEF VerifyBegin, u
  <2>2. r \in Call({"verify", None, 0, evidence, text, u}) /\ r.pc = "verify"
    BY DEF Idle, Call
  <2> HIDE DEF r
  <2> QED
    BY <2>1, <2>2, GoesOn DEF Reading
<1>3. CASE VerifyNext(t)
  <2> DEFINE m == monitor'
             r == [job[t] EXCEPT !.pc = "v-observe", !.mon = m]
  <2>1. job[t].pc = "verify" /\ UNCHANGED flight
    BY <1>3 DEF VerifyNext, LocalSqlite
  <2>2. \/ Checked(t) \/ Refused(t)
        \/ job' = [job EXCEPT ![t].pc = "v-observe", ![t].mon = m]
    BY <1>3 DEF VerifyNext
  <2>3. CASE job' = [job EXCEPT ![t].pc = "v-observe", ![t].mon = m]
    <3> HIDE DEF m
    <3>1. job' = [job EXCEPT ![t] = r]
      BY <1>1, <2>3 DEF Call
    <3>2. r \in Call(V \cup {"v-observe", m}) /\ r.pc = "v-observe"
      BY <1>1 DEF Call
    <3> HIDE DEF r
    <3> QED
      BY <2>1, <3>1, <3>2, GoesOn DEF Reading
  <2> QED
    BY <2>1, <2>2, <2>3, CheckedIInv, RefusedIInv DEF Reading
<1>4. CASE VerifyObserve(t)
  <2> DEFINE o == Observation(Opened(job[t].mon))
             r == [job[t] EXCEPT !.pc = "v-revision", !.seen = o]
  <2> HIDE DEF o
  <2>1. job[t].pc = "v-observe" /\ UNCHANGED flight
    BY <1>4 DEF VerifyObserve, LocalSqlite
  <2>2. \/ Checked(t)
        \/ job' = [job EXCEPT ![t].pc = "v-revision", ![t].seen = o]
    BY <1>4 DEF VerifyObserve, o
  <2>3. CASE job' = [job EXCEPT ![t].pc = "v-revision", ![t].seen = o]
    <3>1. job' = [job EXCEPT ![t] = r]
      BY <1>1, <2>3 DEF Call
    <3>2. r \in Call(V \cup {"v-revision", o}) /\ r.pc = "v-revision"
      BY <1>1 DEF Call
    <3> HIDE DEF r
    <3> QED
      BY <2>1, <3>1, <3>2, GoesOn DEF Reading
  <2> QED
    BY <2>1, <2>2, <2>3, CheckedIInv DEF Reading
<1>5. CASE VerifyRevision(t)
  <2> DEFINE e == Head(job[t].todo)
             pc == IF text[e.key] = e.rev THEN "v-confirm" ELSE "v-parse"
             g == [e EXCEPT !.rev = text[e.key], !.obs = job[t].seen]
             r == [job[t] EXCEPT !.pc = pc, !.got = g]
  <2>1. pc # "wait"
    OBVIOUS
  <2>2. /\ job' = [job EXCEPT ![t].pc = pc, ![t].got = g] /\ UNCHANGED flight
        /\ job[t].pc = "v-revision"
    BY <1>5 DEF VerifyRevision, Local
  <2> HIDE DEF pc, g
  <2>3. job' = [job EXCEPT ![t] = r]
    BY <1>1, <2>2 DEF Call
  <2>4. r \in Call(V \cup {pc, g}) /\ r.pc = pc
    BY <1>1 DEF Call
  <2> HIDE DEF r
  <2> QED
    BY <2>1, <2>2, <2>3, <2>4, GoesOn DEF Reading
<1>6. CASE VerifyConfirm(t)
  BY <1>6, CheckedIInv, GotoIInv DEF VerifyConfirm, Reading
<1>7. CASE VerifyParse(t)
  BY <1>7, GotoIInv, RefusedIInv DEF VerifyParse, Local, Reading
<1>8. CASE VerifyReconfirm(t)
  BY <1>8, CheckedIInv, RefusedIInv DEF VerifyReconfirm, Reading
<1>9. CASE Verified(t)
  BY <1>9, RefusedIInv DEF Verified, Local, Reading
<1> QED
  BY <1>2, <1>3, <1>4, <1>5, <1>6, <1>7, <1>8, <1>9

LEMMA StepIInv ==
  ASSUME IInv, [Next]_vars
  PROVE  IInv'
<1>1. ASSUME UNCHANGED <<flight, job>> PROVE IInv'
  BY <1>1 DEF IInv, Calls, FlightOwned, Awaited
<1>2. CASE Harness \/ EvictMonitor \/ UNCHANGED vars
  BY <1>1, <1>2 DEF Harness, EvictMonitor, vars
<1>3. ASSUME NEW t \in Thread, Step(t) PROVE IInv'
  BY <1>3, WokenIInv, RaiseIInv, LookIInv, PlainIInv, TargetedIInv, AnswerIInv, VerifyIInv DEF Step
<1>4. ASSUME NEW t \in Thread, VerifyBegin(t) PROVE IInv'
  BY <1>4, VerifyIInv
<1> QED
  BY <1>2, <1>3, <1>4, BeginIInv DEF Next

\* Every flight is owned by a reading thread, and whoever waits waits for one.
THEOREM Invariance == Spec => []IInv
  BY InitIInv, StepIInv, PTL DEF Spec

\* Nobody waits for a flight that nobody will end, however reads end and whichever
\* threads begin them.
THEOREM NobodyWaitsInVain == Spec => []WaitersHaveAFlight
<1>1. IInv => WaitersHaveAFlight
  <2> SUFFICES ASSUME IInv, NEW t \in Thread, job[t].pc = "wait"
               PROVE  \E w \in Thread : /\ flight[job[t].key] = w /\ job[w].owner
                                        /\ job[w].key = job[t].key
    BY DEF WaitersHaveAFlight
  <2> QED
    BY DEF IInv, Awaited, FlightOwned
<1> QED
  BY <1>1, Invariance, PTL

(***************************************************************************)
(* The ordered dictionaries, as sets of their entries.                     *)
(***************************************************************************)
LEMMA AppendRange ==
  ASSUME NEW S, NEW d \in Seq(S), NEW e \in S
  PROVE  Append(d, e) \in Seq(S) /\ Range(Append(d, e)) = Range(d) \cup {e}
<1>1. /\ Append(d, e) \in Seq(S) /\ DOMAIN Append(d, e) = 1..(Len(d) + 1)
      /\ \A i \in 1..Len(d) : Append(d, e)[i] = d[i]
      /\ Append(d, e)[Len(d) + 1] = e
  OBVIOUS
<1>2. DOMAIN d = 1..Len(d) /\ Len(d) \in Nat
  OBVIOUS
<1>3. 1..(Len(d) + 1) = 1..Len(d) \cup {Len(d) + 1}
  BY <1>2
<1> QED
  BY <1>1, <1>2, <1>3 DEF Range

LEMMA RangeMember ==
  ASSUME NEW S, NEW d \in Seq(S), NEW i \in 1..Len(d)
  PROVE  d[i] \in Range(d) /\ d[i] \in S
<1>1. DOMAIN d = 1..Len(d) /\ d[i] \in S
  OBVIOUS
<1> QED
  BY <1>1 DEF Range

LEMMA TailRange ==
  ASSUME NEW S, NEW d \in Seq(S), d # <<>>
  PROVE  Head(d) \in S /\ Tail(d) \in Seq(S) /\ Range(d) = {Head(d)} \cup Range(Tail(d))
<1>1. /\ Head(d) = d[1] /\ Head(d) \in S /\ Tail(d) \in Seq(S) /\ Len(d) \in Nat \ {0}
      /\ DOMAIN d = 1..Len(d) /\ DOMAIN Tail(d) = 1..(Len(d) - 1)
      /\ \A i \in 1..(Len(d) - 1) : Tail(d)[i] = d[i + 1]
  OBVIOUS
<1>2. Range(Tail(d)) \subseteq Range(d)
  BY <1>1 DEF Range
<1>3. ASSUME NEW i \in 1..Len(d) PROVE d[i] \in {Head(d)} \cup Range(Tail(d))
  <2>1. CASE i = 1
    BY <1>1, <2>1
  <2>2. CASE i # 1
    <3>1. i - 1 \in 1..(Len(d) - 1) /\ (i - 1) + 1 = i
      BY <1>1, <2>2
    <3> QED
      BY <1>1, <3>1 DEF Range
  <2> QED
    BY <2>1, <2>2
<1> QED
  BY <1>1, <1>2, <1>3 DEF Range

LEMMA RemoveAtRange ==
  ASSUME NEW S, NEW d \in Seq(S), NEW p \in 1..Len(d)
  PROVE  /\ RemoveAt(d, p) \in Seq(S) /\ Range(RemoveAt(d, p)) \subseteq Range(d)
         /\ \A i \in 1..Len(d) : i # p => d[i] \in Range(RemoveAt(d, p))
<1> DEFINE a == SubSeq(d, 1, p - 1)
           b == SubSeq(d, p + 1, Len(d))
<1>1. Len(d) \in Nat /\ DOMAIN d = 1..Len(d) /\ p \in Nat
  OBVIOUS
<1>2. /\ a \in Seq(S) /\ Len(a) = p - 1
      /\ \A i \in 1..(p - 1) : a[i] = d[i]
  OBVIOUS
<1>3. /\ b \in Seq(S) /\ Len(b) = Len(d) - p
      /\ \A i \in 1..(Len(d) - p) : b[i] = d[p + i]
  OBVIOUS
<1> HIDE DEF a, b
<1>4. /\ RemoveAt(d, p) \in Seq(S) /\ Len(RemoveAt(d, p)) = Len(d) - 1
      /\ DOMAIN RemoveAt(d, p) = 1..(Len(d) - 1)
      /\ \A i \in 1..(p - 1) : RemoveAt(d, p)[i] = d[i]
      /\ \A i \in p..(Len(d) - 1) : RemoveAt(d, p)[i] = d[i + 1]
  <2>1. RemoveAt(d, p) = a \o b
    BY DEF RemoveAt, a, b
  <2>2. a \o b \in Seq(S) /\ Len(a \o b) = Len(d) - 1 /\ DOMAIN (a \o b) = 1..(Len(d) - 1)
    <3>1. a \o b \in Seq(S) /\ Len(a \o b) = Len(a) + Len(b)
      <4>1. a \in Seq(S) /\ b \in Seq(S)
        BY <1>2, <1>3
      <4> QED
        BY ONLY <4>1
    <3>2. Len(a) + Len(b) = Len(d) - 1
      BY <1>1, <1>2, <1>3
    <3>3. DOMAIN (a \o b) = 1..Len(a \o b)
      BY <3>1
    <3> QED
      BY <3>1, <3>2, <3>3
  <2>3. \A i \in 1..(p - 1) : (a \o b)[i] = d[i]
    BY <1>1, <1>2, <1>3
  <2>4. ASSUME NEW i \in p..(Len(d) - 1) PROVE (a \o b)[i] = d[i + 1]
    <3>1. i - (p - 1) \in 1..(Len(d) - p) /\ p + (i - (p - 1)) = i + 1
      BY <1>1
    <3>2. (a \o b)[i] = b[i - (p - 1)]
      BY <1>1, <1>2, <1>3
    <3> QED
      BY <1>3, <3>1, <3>2
  <2> QED
    BY <2>1, <2>2, <2>3, <2>4
<1>5. Range(RemoveAt(d, p)) \subseteq Range(d)
  <2>1. ASSUME NEW i \in 1..(Len(d) - 1) PROVE RemoveAt(d, p)[i] \in Range(d)
    <3>1. CASE i \in 1..(p - 1)
      BY <1>4, <3>1, i \in 1..Len(d), RangeMember
    <3>2. CASE i \in p..(Len(d) - 1)
      BY <1>4, <3>2, i + 1 \in 1..Len(d), RangeMember
    <3> QED
      BY <1>1, <3>1, <3>2
  <2> QED
    BY <1>4, <2>1 DEF Range
<1>6. ASSUME NEW i \in 1..Len(d), i # p PROVE d[i] \in Range(RemoveAt(d, p))
  <2> DEFINE r == RemoveAt(d, p)
  <2>0. \A j \in 1..(Len(d) - 1) : r[j] \in Range(r)
    BY <1>4 DEF Range
  <2>1. CASE i < p
    <3>1. i \in 1..(p - 1) /\ i \in 1..(Len(d) - 1)
      BY <1>1, <2>1
    <3> QED
      BY <1>4, <2>0, <3>1
  <2>2. CASE i > p
    <3>1. i - 1 \in p..(Len(d) - 1) /\ (i - 1) + 1 = i
      BY <1>1, <2>2
    <3> QED
      <4>1. r[i - 1] = d[(i - 1) + 1]
        BY <1>4, <3>1
      <4>2. i - 1 \in 1..(Len(d) - 1)
        BY <1>1, <3>1
      <4> QED
        BY <2>0, <3>1, <4>1, <4>2
  <2> QED
    BY <1>1, <1>6, <2>1, <2>2
<1> QED
  BY <1>4, <1>5, <1>6

LEMMA EntryRange ==
  ASSUME NEW S, NEW d \in Seq(S), NEW k
  PROVE  Entry(d, k) # None => Entry(d, k) \in Range(d) /\ Entry(d, k).key = k
<1>1. Holds(d, k) => Place(d, k) \in DOMAIN d /\ d[Place(d, k)].key = k
  BY DEF Holds, Place
<1> QED
  BY <1>1 DEF Entry, Range

LEMMA WithoutRange ==
  ASSUME NEW S, NEW d \in Seq(S), NEW k
  PROVE  /\ Without(d, k) \in Seq(S) /\ Range(Without(d, k)) \subseteq Range(d)
         /\ \A e \in Range(d) : e.key # k => e \in Range(Without(d, k))
<1>1. CASE ~Holds(d, k)
  BY <1>1 DEF Without
<1>2. CASE Holds(d, k)
  <2>1. DOMAIN d = 1..Len(d)
    OBVIOUS
  <2>2. Place(d, k) \in 1..Len(d) /\ d[Place(d, k)].key = k
    BY <1>2, <2>1 DEF Holds, Place
  <2>3. Without(d, k) = RemoveAt(d, Place(d, k))
    BY <1>2 DEF Without
  <2> DEFINE p == Place(d, k)
             w == RemoveAt(d, p)
  <2> HIDE DEF p
  <2>4. p \in 1..Len(d) /\ d[p].key = k
    BY <2>2 DEF p
  <2>5. w \in Seq(S) /\ Range(w) \subseteq Range(d)
    BY <2>4, RemoveAtRange
  <2>6. ASSUME NEW e \in Range(d), e.key # k PROVE e \in Range(w)
    <3>1. PICK i \in 1..Len(d) : d[i] = e
      BY <2>1 DEF Range
    <3>2. i # p
      BY <2>4, <2>6, <3>1
    <3> QED
      BY <2>4, <3>1, <3>2, RemoveAtRange
  <2> QED
    BY <2>3, <2>5, <2>6 DEF p
<1> QED
  BY <1>1, <1>2

LEMMA NewestRange ==
  ASSUME NEW S, NEW d \in Seq(S), NEW n \in Nat
  PROVE  Newest(d, n) \in Seq(S) /\ Range(Newest(d, n)) \subseteq Range(d)
<1>1. CASE Len(d) > n
  <2> DEFINE a == SubSeq(d, Len(d) - n + 1, Len(d))
  <2>1. Len(d) \in Nat /\ DOMAIN d = 1..Len(d)
    OBVIOUS
  <2>2. a \in Seq(S) /\ DOMAIN a = 1..n /\ \A i \in 1..n : a[i] = d[Len(d) - n + i]
    BY <1>1, <2>1
  <2>3. \A i \in 1..n : Len(d) - n + i \in 1..Len(d)
    BY <1>1, <2>1
  <2>4. Newest(d, n) = a
    BY <1>1 DEF Newest
  <2> HIDE DEF a
  <2> QED
    BY <2>1, <2>2, <2>3, <2>4 DEF Range
<1> QED
  BY <1>1 DEF Newest

(***************************************************************************)
(* What an observation of the database says later.  While the monitor has  *)
(* not been closed, an observation is known to it: it is of this file or   *)
(* an earlier one and not ahead of it.  If the monitor would now observe   *)
(* the same, nothing has been committed since, and a parse made then is of *)
(* the text of now.  "Onward" is what every step keeps of this.            *)
(***************************************************************************)

\* The monitor that has never been closed has made it, on the file that it was.
Known(o) ==
  /\ o \in Obs /\ Len(conn) = 1 /\ conn[1] # None
  /\ o.inode <= conn[1].inode
  /\ o.inode = conn[1].inode => o.version <= commits - conn[1].base + 1

\* The monitor would observe the same now.
Matches(o) ==
  /\ o.inode = inode /\ o.inode = conn[1].inode
  /\ o.version = commits - conn[1].base + 1

Seen(o) == Reopened \/ Known(o)

\* The parse was of the thread's text while the monitor observed what it did.
Was(e) == Reopened \/ (Matches(e.obs) => e.text = text[e.key])

\* What one may rely on in a parse that is kept.
Sound(e) ==
  /\ e.key \in Targeted =>
       /\ e.rev = e.text /\ e.text <= text[e.key]
       /\ Seen(e.obs) /\ Was(e)
  /\ e.key \notin Targeted => e.hash = e.text \/ e.key \in slipped

\* The text that was parsed of a SQLite file is the file's as long as its stamp stays,
\* if commits move it.
Held(e) ==
  e.key \in Databases =>
    /\ e.rev <= stamp[e.key]
    /\ e.rev = stamp[e.key] => e.text = text[e.key] \/ e.key \in slipped

Monitored ==
  /\ \A i \in DOMAIN conn : conn[i] # None => conn[i].inode <= inode
  /\ Reopened \/ (monitor = Len(conn) /\ Len(conn) <= 1)

\* Texts only get newer, and an observation that would be made again proves that nothing
\* was committed since, as does the stamp while a SQLite file is parsed, but for what
\* slipped in.
Onward ==
  /\ \A k \in Key : text[k] <= text'[k]
  /\ Len(conn) <= Len(conn')
  /\ Reopened => Reopened'
  /\ slipped \subseteq slipped'
  /\ \A k \in Databases :
       /\ stamp[k] <= stamp'[k]
       /\ stamp'[k] = stamp[k] => text'[k] = text[k] \/ k \in slipped' \/ ~InParse(k)
  /\ \A o \in Obs : Seen(o) => Seen(o)'
  /\ Reopened' \/ \A o \in Obs : Known(o) /\ Matches(o)' =>
                    Matches(o) /\ \A k \in Targeted : text'[k] = text[k]

LEMMA WasStays ==
  ASSUME Onward, NEW e \in Parsed, e.key \in Targeted, Seen(e.obs), Was(e)
  PROVE  Was(e)'
<1>1. e.obs \in Obs \/ Reopened
  BY DEF Seen, Known
<1> QED
  BY <1>1 DEF Onward, Seen, Was, Known

LEMMA SoundStays ==
  ASSUME SharedOK, SharedOK', Onward, NEW e \in Parsed, Sound(e)
  PROVE  Sound(e)'
<1> SUFFICES ASSUME e.key \in Targeted
             PROVE  e.rev = e.text /\ e.text <= text'[e.key] /\ Seen(e.obs)' /\ Was(e)'
  BY DEF Sound, Onward
<1>1. /\ e.rev = e.text /\ e.text <= text[e.key] /\ Seen(e.obs) /\ Was(e)
      /\ e.text \in Nat /\ e.key \in Key
  BY DEF Sound, Parsed
<1>2. text[e.key] \in Nat /\ text'[e.key] \in Nat /\ text[e.key] <= text'[e.key]
  BY <1>1 DEF SharedOK, Texts, Onward
<1>3. Seen(e.obs)'
  BY <1>1 DEF Onward, Seen, Known
<1>4. Was(e)'
  BY <1>1, WasStays
<1> QED
  BY <1>1, <1>2, <1>3, <1>4

LEMMA HeldStays ==
  ASSUME SharedOK, SharedOK', Onward, NEW e \in Parsed, Held(e),
         InParse(e.key) \/ UNCHANGED <<text, stamp>>
  PROVE  Held(e)'
<1> SUFFICES ASSUME e.key \in Databases
             PROVE  /\ e.rev <= stamp'[e.key]
                    /\ e.rev = stamp'[e.key] => e.text = text'[e.key] \/ e.key \in slipped'
  BY DEF Held
<1>1. e.rev \in Nat /\ stamp[e.key] \in Nat /\ stamp'[e.key] \in Nat
  BY KeyAssumption DEF SharedOK, Parsed
<1>2. /\ e.rev <= stamp[e.key] /\ stamp[e.key] <= stamp'[e.key]
      /\ e.rev = stamp[e.key] => e.text = text[e.key] \/ e.key \in slipped
      /\ stamp'[e.key] = stamp[e.key] =>
           text'[e.key] = text[e.key] \/ e.key \in slipped' \/ ~InParse(e.key)
      /\ slipped \subseteq slipped'
  BY DEF Held, Onward
<1>3. e.rev <= stamp'[e.key] /\ (e.rev = stamp'[e.key] => e.rev = stamp[e.key] /\ stamp'[e.key] = stamp[e.key])
  BY <1>1, <1>2
<1> QED
  BY <1>2, <1>3

\* Nothing happens to the sources or the monitor.
LEMMA StillOnward ==
  ASSUME SharedOK, UNCHANGED <<text, stamp, slipped, inode, commits, conn, evictions>>
  PROVE  Onward
<1>1. \A k \in Databases : stamp[k] \in Nat
  BY KeyAssumption DEF SharedOK
<1> QED
  BY <1>1 DEF SharedOK, Texts, Onward, Seen, Known, Matches, Reopened

LEMMA HarnessOnward ==
  ASSUME SharedOK, Monitored, Harness
  PROVE  Onward /\ Monitored'
<1>1. UNCHANGED <<conn, monitor, evictions>> /\ (Reopened <=> Reopened')
  BY DEF Harness, sqlite, Reopened
<1>2. text \in [Key -> Nat] /\ inode \in Nat /\ commits \in Nat
  BY DEF SharedOK, Texts
<1>3. \A i \in DOMAIN conn : conn[i] # None => conn[i].inode \in Nat /\ conn[i].base \in Nat
  BY DEF SharedOK
<1>4. CASE \E k \in Plain : Write(k)
  <2>1. UNCHANGED <<inode, commits>>
    BY <1>4 DEF Write
  <2>2. \A k \in Key : text[k] <= text'[k]
    BY <1>2, <1>4 DEF Write
  <2>3. \A k \in Targeted : text'[k] = text[k]
    BY <1>2, <1>4, KeyAssumption DEF Write, Key
  <2>4. PICK w \in Plain, moves \in BOOLEAN :
          /\ text' = [text EXCEPT ![w] = @ + 1]
          /\ stamp' = IF moves THEN [stamp EXCEPT ![w] = @ + 1] ELSE stamp
          /\ slipped' = IF ~moves /\ w \in Databases /\ InParse(w)
                        THEN slipped \cup {w} ELSE slipped
    BY <1>4 DEF Write
  <2>5. slipped \subseteq slipped'
    BY <2>4
  <2>6. ASSUME NEW k \in Databases
        PROVE  /\ stamp[k] <= stamp'[k]
               /\ stamp'[k] = stamp[k] => text'[k] = text[k] \/ k \in slipped' \/ ~InParse(k)
    <3>1. k \in Plain /\ stamp[k] \in Nat /\ stamp \in [Plain -> Nat]
      BY KeyAssumption DEF SharedOK
    <3>2. CASE k = w
      BY <2>4, <2>6, <3>1, <3>2
    <3>3. CASE k # w
      BY <1>2, <2>4, <3>1, <3>3
    <3> QED
      BY <3>2, <3>3
  <2> QED
    BY <1>1, <2>1, <2>2, <2>3, <2>5, <2>6 DEF Onward, Monitored, Seen, Known, Matches
<1>5. CASE \E K \in SUBSET Targeted : Commit(K)
  <2>1. commits' = commits + 1 /\ UNCHANGED inode
    BY <1>5 DEF Commit
  <2>2. \A k \in Key : text[k] <= text'[k]
    BY <1>2, <1>5 DEF Commit
  <2>3. ASSUME NEW o \in Obs, Known(o) PROVE Known(o)' /\ ~Matches(o)'
    <3>1. o.inode \in Nat /\ o.version \in Int
      BY DEF Obs
    <3>2. conn[1].base \in Nat /\ conn[1].inode \in Nat
      BY <1>3, <2>3 DEF Known
    <3> QED
      BY <1>1, <1>2, <2>1, <2>3, <3>1, <3>2 DEF Known, Matches
  <2>4. /\ slipped' = slipped
        /\ \A k \in Databases : stamp[k] <= stamp'[k] /\ text'[k] = text[k]
    BY <1>2, <1>5, KeyAssumption DEF Commit, SharedOK, Key
  <2> QED
    BY <1>1, <1>3, <2>1, <2>2, <2>3, <2>4 DEF Onward, Monitored, Seen
<1>6. CASE Replace
  <2>1. inode' = inode + 1 /\ UNCHANGED commits
    BY <1>6 DEF Replace
  <2>2. \A k \in Key : text[k] <= text'[k]
    BY <1>2, <1>6 DEF Replace
  <2>3. ASSUME NEW o \in Obs, Known(o) PROVE Known(o)'
    BY <1>1, <2>1, <2>3 DEF Known
  <2>4. Monitored'
    BY <1>1, <1>2, <1>3, <2>1 DEF Monitored
  <2>5. ASSUME NEW o \in Obs, Known(o) PROVE ~Matches(o)'
    <3>1. 1 \in DOMAIN conn /\ conn[1] # None
      BY <2>5 DEF Known, SharedOK
    <3>2. conn[1].inode <= inode /\ conn[1].inode \in Nat
      BY <1>3, <3>1 DEF Monitored
    <3> QED
      BY <1>1, <1>2, <2>1, <3>2 DEF Matches
  <2>6. /\ slipped' = slipped
        /\ \A k \in Databases : stamp[k] <= stamp'[k] /\ text'[k] = text[k]
    BY <1>2, <1>6, KeyAssumption DEF Replace, SharedOK, Key
  <2> QED
    BY <1>1, <2>2, <2>3, <2>4, <2>5, <2>6 DEF Onward, Seen
<1> QED
  BY <1>4, <1>5, <1>6 DEF Harness

LEMMA Stamps == SharedOK => \A k \in Databases : stamp[k] \in Nat /\ stamp[k] <= stamp[k]
<1> SUFFICES ASSUME SharedOK, NEW k \in Databases PROVE stamp[k] \in Nat /\ stamp[k] <= stamp[k]
  OBVIOUS
<1>1. stamp[k] \in Nat
  BY KeyAssumption DEF SharedOK
<1> QED
  BY <1>1

LEMMA EvictOnward ==
  ASSUME SharedOK, Monitored, EvictMonitor
  PROVE  Onward /\ Monitored'
<1>1. Reopened'
  BY DEF SharedOK, EvictMonitor, Reopened
<1>2. /\ conn' = [conn EXCEPT ![monitor] = None] /\ UNCHANGED <<text, stamp, slipped, inode>>
      /\ monitor \in DOMAIN conn
  BY DEF SharedOK, EvictMonitor, source
<1>3. Len(conn') = Len(conn) /\ \A i \in DOMAIN conn' : conn'[i] = conn[i] \/ conn'[i] = None
  BY <1>2 DEF SharedOK
<1> QED
  BY <1>1, <1>2, <1>3, Stamps DEF SharedOK, Texts, Onward, Monitored, Seen

\* The number of the monitor is that of one that exists.
LEMMA GetMonitorOnward ==
  ASSUME SharedOK, Monitored, GetMonitor, UNCHANGED <<text, stamp, slipped, inode, commits>>
  PROVE  /\ Onward /\ Monitored' /\ monitor' \in 1..Len(conn')
         /\ conn' \in Seq([inode : Nat, base : Nat] \cup {None})
<1>1. Reopened <=> Reopened'
  BY DEF GetMonitor, Reopened
<1>2. CASE monitor # 0
  BY <1>2, StillOnward DEF GetMonitor, SharedOK, Monitored, Reopened
<1>3. CASE monitor = 0
  <2> DEFINE S == [inode : Nat, base : Nat] \cup {None}
  <2>1. conn \in Seq(S) /\ None \in S /\ Len(conn) \in Nat
    BY DEF SharedOK
  <2>2. conn' = Append(conn, None) /\ monitor' = Len(conn) + 1
    BY <1>3 DEF GetMonitor
  <2> HIDE DEF S
  <2>3. /\ conn' \in Seq(S) /\ Len(conn') = Len(conn) + 1 /\ conn'[Len(conn) + 1] = None
        /\ \A i \in 1..Len(conn) : conn'[i] = conn[i]
        /\ DOMAIN conn' = 1..(Len(conn) + 1) /\ DOMAIN conn = 1..Len(conn)
    BY <2>1, <2>2
  <2>4. Reopened \/ Len(conn) = 0
    BY <1>3 DEF Monitored
  <2>5. \A i \in DOMAIN conn' : conn'[i] # None => i \in DOMAIN conn /\ conn'[i] = conn[i]
    BY <2>1, <2>3
  <2>6. Monitored'
    BY <1>1, <2>1, <2>2, <2>3, <2>4, <2>5 DEF Monitored
  <2>7. ~Reopened => \A o \in Obs : ~Known(o)
    BY <2>4 DEF Known
  <2>8. Onward
    BY <1>1, <2>1, <2>3, <2>7, Stamps DEF SharedOK, Texts, Onward, Seen
  <2> QED
    BY <2>1, <2>2, <2>3, <2>6, <2>8 DEF S
<1> QED
  BY <1>2, <1>3

\* Observing opens the connection again if the file is another; what was observed on
\* an earlier file is not observed again.
LEMMA ObserveOnward ==
  ASSUME SharedOK, Monitored, NEW i \in 1..Len(conn), Observe(i),
         UNCHANGED <<text, stamp, slipped, inode, commits, evictions, monitor>>,
         NEW o, o = Observation(Opened(i))
  PROVE  /\ Onward /\ Monitored' /\ conn' \in Seq([inode : Nat, base : Nat] \cup {None})
         /\ Len(conn') = Len(conn) /\ o \in Obs /\ Seen(o)' /\ (Reopened \/ Matches(o)')
<1> DEFINE S == [inode : Nat, base : Nat] \cup {None}
           c == Opened(i)
<1>1. Reopened <=> Reopened'
  BY DEF Reopened
<1>2. conn \in Seq(S) /\ inode \in Nat /\ commits \in Nat /\ DOMAIN conn = 1..Len(conn)
  BY DEF SharedOK
<1>3. c \in [inode : Nat, base : Nat] /\ c.inode = inode /\ c # None
  <2>1. CASE conn[i] = None \/ conn[i].inode # inode
    BY <1>2, <2>1 DEF Opened, None
  <2>2. CASE conn[i] # None /\ conn[i].inode = inode
    BY <1>2, <2>2 DEF Opened
  <2> QED
    BY <2>1, <2>2
<1>4. o \in Obs /\ o.inode = inode /\ o.version = commits - c.base + 1
  BY <1>2, <1>3 DEF Observation, Obs, c
<1>5. conn' = [conn EXCEPT ![i] = c]
  BY DEF Observe
<1>6. c = conn[i] \/ conn[i] = None \/ conn[i].inode # inode
  BY DEF Opened
<1> HIDE DEF S, c
<1>7. /\ conn' \in Seq(S) /\ Len(conn') = Len(conn) /\ DOMAIN conn' = 1..Len(conn)
      /\ conn'[i] = c /\ \A j \in 1..Len(conn) : j # i => conn'[j] = conn[j]
  BY <1>2, <1>3, <1>5 DEF S
<1>8. Monitored'
  BY <1>1, <1>2, <1>3, <1>7 DEF Monitored
<1>9. Onward
  <2>1. CASE Reopened
    BY <1>1, <1>7, <2>1, Stamps DEF Onward, Seen, SharedOK, Texts
  <2>2. CASE ~Reopened
    <3>1. i = 1 /\ Len(conn) = 1
      BY <1>2, <2>2 DEF Monitored
    <3>2. ASSUME NEW p \in Obs, Known(p) PROVE Known(p)' /\ (Matches(p)' => Matches(p))
      <4>1. conn[1] # None /\ conn[1].inode <= inode /\ conn[1] \in S
        <5>1. 1 \in DOMAIN conn /\ conn[1] \in S
          BY <1>2, <3>1
        <5> QED
          BY <3>2, <5>1 DEF Known, Monitored
      <4>2. conn[1].inode \in Nat /\ conn[1].base \in Nat /\ p.inode \in Nat /\ p.version \in Int
        BY <4>1 DEF S, Obs
      <4>3. p.inode <= conn[1].inode
        BY <3>2 DEF Known
      <4>4. CASE c = conn[1]
        BY <1>7, <3>1, <3>2, <4>4 DEF Known, Matches
      <4>5. CASE conn[1].inode < inode
        BY <1>2, <1>3, <1>7, <3>1, <4>2, <4>3, <4>5 DEF Known, Matches
      <4> QED
        BY <1>2, <1>6, <3>1, <4>1, <4>2, <4>4, <4>5
    <3> QED
      BY <1>1, <1>7, <2>2, <3>2, Stamps DEF Onward, Seen, SharedOK, Texts
  <2> QED
    BY <2>1, <2>2
<1>10. Reopened \/ (Known(o)' /\ Matches(o)')
  <2>1. Reopened \/ (i = 1 /\ Len(conn) = 1)
    BY <1>2 DEF Monitored
  <2>2. inode \in Nat /\ commits - c.base + 1 \in Int
    BY <1>2, <1>3
  <2>3. CASE i = 1 /\ Len(conn) = 1
    <3>1. conn'[1] = c /\ Len(conn') = 1 /\ UNCHANGED <<inode, commits>>
      BY <1>7, <2>3
    <3> QED
      BY <1>2, <1>3, <1>4, <2>2, <3>1 DEF Known, Matches
  <2> QED
    BY <2>1, <2>3
<1> QED
  BY <1>1, <1>4, <1>7, <1>8, <1>9, <1>10 DEF S, Seen

(***************************************************************************)
(* The calls: what a read has in hand at each of its steps, and what a     *)
(* verification has still to go through.                                   *)
(***************************************************************************)
Watching == {"observe", "before", "scan", "after", "confirm"}
Verifying == {"verify", "v-observe", "v-revision", "v-confirm", "v-parse", "v-reconfirm"}

\* What a read may rely on.
ReadOK(j) ==
  /\ j.pc \in Reading \cup {"wait", "woken"} => j.key \in Key /\ j.low <= text[j.key]
  /\ j.pc \in {"stat", "hash", "parse", "check", "restat"} => j.key \in Plain
  /\ j.pc \in Watching => j.key \in Targeted
  /\ j.pc \in Watching \cup {"v-observe"} => j.mon \in 1..Len(conn)
  /\ j.shared # None => j.shared.key = j.key /\ Sound(j.shared)
  /\ j.pc = "hash" => j.shared # None

\* What a read that has something to answer with may rely on.
AnswerOK(j) ==
  /\ j.pc \in {"check", "restat", "scan", "after", "confirm", "recheck", "publish"} =>
       j.got # None /\ j.got.key = j.key
  /\ j.pc \in {"check", "restat", "after", "confirm", "recheck", "publish"} =>
       j.low <= j.got.text \/ Misled(j.key)
  /\ j.pc = "check" => Held(j.got)
  /\ j.pc = "before" => j.seen # None /\ Seen(j.seen)
  /\ j.pc = "scan" => j.got.rev <= text[j.key] /\ Seen(j.got.obs)
  /\ j.pc = "after" => /\ j.got.rev <= j.got.text /\ j.got.text <= text[j.key]
                       /\ Seen(j.got.obs) /\ Was(j.got)
  /\ j.pc \in {"restat", "confirm", "recheck", "publish"} => Sound(j.got)

\* A key is done with if the text that was answered was there since the beginning;
\* otherwise it is still to be looked at.
Settled(j, k) ==
  \/ j.used[k] = 0 \/ j.since[k] <= j.used[k] \/ Misled(k)
  \/ \E e \in Range(j.todo) : e.key = k /\ e.text = j.used[k]

\* What a verification may rely on.
VerifyOK(j) ==
  /\ \A e \in Range(j.todo) : Sound(e)
  /\ j.pc \in Verifying =>
       /\ j.since \in Texts /\ j.used \in Texts
       /\ \A k \in Key : j.since[k] <= text[k] /\ Settled(j, k)
  /\ j.pc \in Verifying \ {"verify"} => j.todo # <<>> /\ Head(j.todo).key \in Targeted
  /\ j.pc = "v-revision" => j.seen # None /\ Seen(j.seen)
  /\ j.pc \in {"v-confirm", "v-parse", "v-reconfirm"} =>
       j.got # None /\ j.got.key = Head(j.todo).key /\ j.got.text = Head(j.todo).text
  /\ j.pc = "v-parse" => /\ j.got.text <= j.got.rev /\ j.got.rev <= text[j.got.key]
                         /\ Seen(j.got.obs)
  /\ j.pc \in {"v-confirm", "v-reconfirm"} => Sound(j.got) /\ j.since[j.got.key] <= j.got.text

JobOK(j) == ReadOK(j) /\ AnswerOK(j) /\ VerifyOK(j)

\* What is kept, and that what was answered is vouched for unless it was forgotten.
StoreOK ==
  /\ \A e \in Range(artifacts) \cup Range(evidence) : Sound(e)
  /\ overflow \/ \A k \in Key : \/ Vouched(k) = 0
                               \/ \E e \in Range(evidence) : e.key = k /\ e.text = Vouched(k)

RInv ==
  /\ TypeOK /\ Monitored /\ StoreOK
  /\ \A t \in Thread : JobOK(job[t])
  /\ FreshRead

\* What a call relies on, it may go on relying on.
LEMMA CallStays ==
  ASSUME SharedOK, SharedOK', Onward, NEW j \in Job, JobOK(j),
         j.pc = "check" => InParse(j.key) \/ UNCHANGED <<text, stamp>>
  PROVE  JobOK(j)'
<1>1. ReadOK(j) /\ AnswerOK(j) /\ VerifyOK(j)
  BY DEF JobOK
<1>2. /\ \A k \in Key : text[k] \in Nat /\ text'[k] \in Nat /\ text[k] <= text'[k]
      /\ Len(conn) \in Nat /\ Len(conn') \in Nat /\ Len(conn) <= Len(conn')
      /\ (Reopened => Reopened') /\ slipped \subseteq slipped'
  BY DEF Onward, SharedOK, Texts
<1>3. /\ j.shared \in Parsed \cup {None} /\ j.got \in Parsed \cup {None}
      /\ j.seen \in Obs \cup {None} /\ j.low \in Nat /\ j.mon \in Nat
      /\ j.todo \in Seq(Parsed) /\ j.since \in Texts \cup {None} /\ j.used \in Texts \cup {None}
  BY DEF Job
<1>4. /\ \A e \in Parsed : Sound(e) => Sound(e)'
      /\ \A o \in Obs \cup {None} : Seen(o) => Seen(o)'
  BY SoundStays DEF Onward, Seen, Known
<1>5. ReadOK(j)'
  BY <1>1, <1>2, <1>3, <1>4 DEF ReadOK, Key, Reading
<1>6. AnswerOK(j)'
  <2>1. j.pc \in {"scan", "after"} => j.key \in Targeted /\ j.key \in Key
    BY <1>1 DEF ReadOK, Watching, Key
  <2>2. /\ j.got # None => j.got.rev \in Nat /\ j.got.text \in Nat /\ j.got.obs \in Obs \cup {None}
        /\ \A e \in Parsed : e.key \in Targeted /\ Seen(e.obs) /\ Was(e) => Was(e)'
    BY <1>3, WasStays DEF Parsed
  <2>3. j.pc = "scan" => j.got.rev <= text'[j.key] /\ Seen(j.got.obs)'
    BY <1>1, <1>2, <1>4, <2>1, <2>2 DEF AnswerOK
  <2>4. j.pc = "after" => /\ j.got.rev <= j.got.text /\ j.got.text <= text'[j.key]
                          /\ Seen(j.got.obs)' /\ Was(j.got)'
    BY <1>1, <1>2, <1>3, <1>4, <2>1, <2>2 DEF AnswerOK
  <2>5. j.pc = "check" => Held(j.got)'
    <3> SUFFICES ASSUME j.pc = "check" PROVE Held(j.got)'
      OBVIOUS
    <3>1. j.got \in Parsed /\ j.got.key = j.key /\ Held(j.got)
      BY <1>1, <1>3 DEF AnswerOK
    <3> QED
      BY <3>1, HeldStays
  <2>6. j.pc \in {"check", "restat", "after", "confirm", "recheck", "publish"} => j.key \in Key
    BY <1>1 DEF ReadOK, Reading
  <2> QED
    BY <1>1, <1>2, <1>3, <1>4, <2>3, <2>4, <2>5, <2>6 DEF AnswerOK, Misled
<1>7. VerifyOK(j)'
  <2>1. \A e \in Range(j.todo) : Sound(e)'
    <3>1. Range(j.todo) \subseteq Parsed
      BY <1>3, RangeMember DEF Range
    <3> QED
      BY <1>1, <1>4, <3>1 DEF VerifyOK
  <2>2. j.pc \in Verifying => \A k \in Key : j.since[k] <= text'[k] /\ Settled(j, k)'
    <3>1. j.pc \in Verifying => \A k \in Key : j.since[k] <= text[k] /\ Settled(j, k) /\ j.since[k] \in Nat
      BY <1>1, <1>3 DEF VerifyOK, Texts
    <3> QED
      BY <1>2, <3>1 DEF Settled, Misled
  <2>3. j.pc \in {"v-confirm", "v-parse", "v-reconfirm"} => j.got \in Parsed
    BY <1>1, <1>3 DEF VerifyOK
  <2>4. j.pc = "v-parse" => j.got.rev <= text'[j.got.key] /\ Seen(j.got.obs)'
    BY <1>1, <1>2, <1>4, <2>3 DEF VerifyOK, Parsed
  <2>5. /\ j.pc \in {"v-confirm", "v-reconfirm"} => Sound(j.got)'
        /\ j.pc = "v-revision" => Seen(j.seen)'
    BY <1>1, <1>3, <1>4, <2>3 DEF VerifyOK
  <2> QED
    BY <1>1, <2>1, <2>2, <2>3, <2>4, <2>5 DEF VerifyOK
<1> QED
  BY <1>5, <1>6, <1>7 DEF JobOK

\* What happens, happens to calls that may rely on what they did.
LEMMA Moves ==
  ASSUME RInv, SharedOK', Onward, Monitored', StoreOK', FreshRead',
         job' \in [Thread -> Job], \A t \in Thread : job'[t] = job[t] \/ JobOK(job[t])'
  PROVE  RInv'
<1>1. ASSUME NEW t \in Thread, job'[t] = job[t] PROVE JobOK(job[t])'
  <2>1. PICK j \in Job : j = job[t]
    BY DEF RInv, TypeOK
  <2>2. j.pc = "check" => InParse(j.key)
    BY <2>1 DEF InParse
  <2>3. JobOK(j)'
    BY <2>1, <2>2, CallStays DEF RInv, TypeOK
  <2> QED
    BY <1>1, <2>1, <2>3
<1> QED
  BY <1>1 DEF RInv, TypeOK

LEMMA CallMoves ==
  ASSUME RInv, SharedOK', Onward, Monitored', StoreOK', FreshRead',
         NEW t \in Thread, NEW r \in Job, job' = [job EXCEPT ![t] = r], JobOK(r)'
  PROVE  RInv'
<1>1. job' \in [Thread -> Job] /\ job'[t] = r /\ \A w \in Thread : w # t => job'[w] = job[w]
  BY DEF RInv, TypeOK
<1>2. \A w \in Thread : job'[w] = job[w] \/ JobOK(job[w])'
  BY <1>1
<1> QED
  BY <1>1, <1>2, Moves

\* Nothing else happens.
LEMMA LocalMoves ==
  ASSUME RInv, NEW t \in Thread, Local, NEW r \in Job, job' = [job EXCEPT ![t] = r], JobOK(r)
  PROVE  RInv'
<1>1. UNCHANGED <<text, stamp, slipped, intact, inode, commits, writes, artifacts, invalid, evidence,
                  overflow, flight, monitor, conn, evictions, lastRead, calls>>
  BY DEF Local, source, store, sqlite
<1>2. SharedOK' /\ FreshRead' /\ Monitored'
  BY <1>1 DEF RInv, TypeOK, SharedOK, FreshRead, Misled, Monitored, Reopened
<1>3. Onward
  BY <1>1, StillOnward DEF RInv, TypeOK
<1>4. StoreOK'
  BY <1>1 DEF RInv, StoreOK, Sound, Seen, Known, Was, Matches, Vouched, Reopened
<1>5. JobOK(r)'
  BY <1>1, <1>2, <1>3, CallStays DEF RInv, TypeOK
<1> QED
  BY <1>2, <1>3, <1>4, <1>5, CallMoves

LEMMA IdleOK == Idle \in Job /\ JobOK(Idle)
<1>1. Idle \in Job
  <2>1. <<>> \in Seq(Parsed)
    OBVIOUS
  <2> QED
    BY <2>1 DEF Idle, Job, PCs
<1>2. Idle.pc = "idle" /\ Idle.shared = None /\ Range(Idle.todo) = {}
  BY DEF Idle, Range
<1> HIDE DEF Idle
<1> QED
  BY <1>1, <1>2 DEF JobOK, ReadOK, AnswerOK, VerifyOK, Reading, Watching, Verifying

\* A flight ends, with a parse that may be relied on or with none; what was kept has
\* been put in order before.
LEMMA FlightEnds ==
  ASSUME RInv, NEW t \in Thread, NEW parsed \in Parsed \cup {None},
         parsed # None => parsed.key = job[t].key /\ Sound(parsed),
         FinishFlight(t, parsed), UNCHANGED <<source, sqlite, calls>>,
         artifacts' \in Seq(Parsed), evidence' \in Seq(Parsed),
         invalid' \in Seq([key : Key]), overflow' \in BOOLEAN,
         lastRead' \in [Key -> [text : Nat, low : Nat, kept : BOOLEAN]],
         StoreOK', FreshRead'
  PROVE  RInv'
<1> DEFINE k == job[t].key
           woken(w) == job[t].owner /\ job[w].pc = "wait" /\ job[w].key = k
<1>1. UNCHANGED <<text, stamp, slipped, intact, inode, commits, writes, monitor, conn, evictions, calls>>
  BY DEF source, sqlite
<1>2. /\ flight' = IF job[t].owner THEN [flight EXCEPT ![k] = None] ELSE flight
      /\ job' = [w \in Thread |->
                   IF w = t THEN Idle
                   ELSE IF woken(w) THEN [job[w] EXCEPT !.pc = "woken", !.shared = parsed]
                   ELSE job[w]]
  BY DEF FinishFlight
<1>3. SharedOK'
  <2>1. flight' \in [Key -> Thread \cup {None}]
    BY <1>2 DEF RInv, TypeOK, SharedOK
  <2> QED
    BY <1>1, <2>1 DEF RInv, TypeOK, SharedOK
<1>4. Onward /\ Monitored'
  BY <1>1, StillOnward DEF RInv, TypeOK, Monitored, Reopened
<1>5. JobOK(Idle)' /\ Idle \in Job
  <2>1. PICK i \in Job : i = Idle
    BY IdleOK
  <2> QED
    BY <1>1, <1>3, <1>4, <2>1, IdleOK, CallStays DEF RInv, TypeOK
<1>6. ASSUME NEW w \in Thread, w # t, woken(w) PROVE job'[w] \in Job /\ JobOK(job[w])'
  <2>1. PICK j \in Job : j = job[w]
    BY DEF RInv, TypeOK
  <2> DEFINE r == [j EXCEPT !.pc = "woken", !.shared = parsed]
  <2>2. /\ r \in Job /\ r.pc = "woken" /\ r.key = j.key /\ r.low = j.low /\ r.shared = parsed
        /\ r.todo = j.todo
    BY DEF Job, PCs
  <2>3. job'[w] = r
    BY <1>2, <1>6, <2>1
  <2>4. JobOK(j) /\ j.pc = "wait" /\ j.key = job[t].key
    BY <1>6, <2>1 DEF RInv
  <2> HIDE DEF r
  <2>5. ReadOK(r) /\ AnswerOK(r) /\ VerifyOK(r)
    BY <2>2, <2>4 DEF JobOK, ReadOK, AnswerOK, VerifyOK, Reading, Watching, Verifying
  <2>6. JobOK(r)'
    BY <1>1, <1>3, <1>4, <2>2, <2>5, CallStays DEF RInv, TypeOK, JobOK
  <2> QED
    BY <2>2, <2>3, <2>6
<1>7. ASSUME NEW w \in Thread
      PROVE  job'[w] \in Job /\ (job'[w] = job[w] \/ JobOK(job[w])')
  <2>1. CASE w = t
    BY <1>2, <1>5, <2>1
  <2>2. CASE w # t /\ ~woken(w)
    BY <1>2, <2>2 DEF RInv, TypeOK
  <2> QED
    BY <1>6, <2>1, <2>2
<1>8. job' \in [Thread -> Job]
  <2>1. job' = [w \in Thread |-> job'[w]]
    BY <1>2
  <2> QED
    BY <1>7, <2>1
<1> QED
  BY <1>3, <1>4, <1>7, <1>8, Moves

\* A read that comes to nothing.
LEMMA Abandoned ==
  ASSUME RInv, NEW t \in Thread, FinishFlight(t, None),
         UNCHANGED <<source, store, sqlite, lastRead, calls>>
  PROVE  RInv'
<1>1. UNCHANGED <<text, stamp, slipped, inode, commits, conn, evictions, artifacts, invalid, evidence, overflow,
                  lastRead>>
  BY DEF source, store, sqlite
<1>2. StoreOK' /\ FreshRead'
  BY <1>1 DEF RInv, StoreOK, Sound, Seen, Known, Was, Matches, Vouched, Reopened, FreshRead, Misled
<1> QED
  BY <1>1, <1>2, FlightEnds DEF RInv, TypeOK, SharedOK

(***************************************************************************)
(* A read of a plain artifact.                                             *)
(***************************************************************************)

LEMMA NotNone == (\A e \in Parsed : e # None) /\ (\A o \in Obs : o # None)
BY DEF Parsed, Obs, None

\* A call that goes to its next step, with the rest as it is.
LEMMA Fields ==
  ASSUME NEW j \in Job, NEW pc \in PCs
  PROVE  LET r == [j EXCEPT !.pc = pc] IN
         /\ r \in Job /\ r.pc = pc /\ r.key = j.key /\ r.low = j.low /\ r.shared = j.shared
         /\ r.got = j.got /\ r.seen = j.seen /\ r.mon = j.mon /\ r.todo = j.todo
         /\ r.since = j.since /\ r.used = j.used
BY DEF Job

\* An answer is in hand.
LEMMA AnswerInHand ==
  ASSUME NEW j \in Job, JobOK(j), j.pc \in Reading, NEW e \in Parsed, e.key = j.key, Sound(e),
         j.low <= e.text \/ Misled(j.key)
  PROVE  LET r == [j EXCEPT !.pc = "recheck", !.got = e, !.shared = None, !.seen = None,
                            !.mon = 0, !.tries = 0]
         IN  r \in Job /\ JobOK(r)
<1> DEFINE r == [j EXCEPT !.pc = "recheck", !.got = e, !.shared = None, !.seen = None,
                          !.mon = 0, !.tries = 0]
<1>1. /\ r \in Job /\ r.pc = "recheck" /\ r.got = e /\ r.shared = None /\ r.key = j.key
      /\ r.low = j.low /\ r.todo = j.todo
  BY DEF Job, PCs
<1>2. e # None
  BY DEF Parsed, None
<1> HIDE DEF r
<1>3. ReadOK(r)
  BY <1>1 DEF JobOK, ReadOK, Reading, Watching
<1>4. AnswerOK(r)
  BY <1>1, <1>2 DEF AnswerOK
<1>5. VerifyOK(r)
  BY <1>1 DEF JobOK, VerifyOK, Verifying
<1> QED
  BY <1>1, <1>3, <1>4, <1>5 DEF JobOK, r

LEMMA StatMoves ==
  ASSUME RInv, NEW t \in Thread, Stat(t)
  PROVE  RInv'
<1> DEFINE j == job[t]
           pc == IF j.shared # None /\ j.shared.rev = stamp[j.key] THEN "hash" ELSE "parse"
           r == [j EXCEPT !.pc = pc]
<1>1. j \in Job /\ JobOK(j)
  BY DEF RInv, TypeOK
<1>2. j.pc = "stat" /\ Local /\ job' = [job EXCEPT ![t] = r]
  BY DEF Stat, Goto
<1>3. pc \in {"hash", "parse"} /\ pc \in PCs /\ (pc = "hash" => j.shared # None)
  BY DEF PCs
<1> HIDE DEF j, pc
<1>4. /\ r \in Job /\ r.pc = pc /\ r.key = j.key /\ r.low = j.low /\ r.shared = j.shared
      /\ r.todo = j.todo
  BY <1>1, <1>3, Fields
<1> HIDE DEF r
<1>5. ReadOK(r) /\ AnswerOK(r) /\ VerifyOK(r)
  BY <1>1, <1>2, <1>3, <1>4 DEF JobOK, ReadOK, AnswerOK, VerifyOK, Reading, Watching, Verifying
<1> QED
  BY <1>2, <1>4, <1>5, LocalMoves DEF JobOK

LEMMA HashMoves ==
  ASSUME RInv, NEW t \in Thread, Hash(t)
  PROVE  RInv'
<1> DEFINE j == job[t]
<1>1. j \in Job /\ JobOK(j) /\ j.pc = "hash" /\ Local
  BY DEF RInv, TypeOK, Hash
<1>2. CASE text[j.key] = j.shared.hash /\ Got(t, j.shared)
  <2>0. /\ j.shared \in Parsed /\ j.shared.key = j.key /\ Sound(j.shared)
        /\ j.low <= text[j.key] /\ j.key \in Plain
    BY <1>1, <1>2 DEF JobOK, ReadOK, Job, Reading
  <2>1. /\ j.shared \in Parsed /\ j.shared.key = j.key /\ Sound(j.shared)
        /\ j.low <= j.shared.text \/ Misled(j.key)
    BY <1>2, <2>0, KeyAssumption DEF Sound, Misled
  <2> DEFINE r == [j EXCEPT !.pc = "recheck", !.got = j.shared, !.shared = None, !.seen = None,
                            !.mon = 0, !.tries = 0]
  <2>2. r \in Job /\ JobOK(r)
    BY <1>1, <2>1, AnswerInHand DEF Reading
  <2>3. job' = [job EXCEPT ![t] = r]
    BY <1>2 DEF Got
  <2> HIDE DEF r
  <2> QED
    BY <1>1, <2>2, <2>3, LocalMoves
<1>3. CASE Goto(t, "parse")
  <2> DEFINE r == [j EXCEPT !.pc = "parse"]
  <2>1. job' = [job EXCEPT ![t] = r]
    BY <1>3 DEF Goto
  <2>2. /\ r \in Job /\ r.pc = "parse" /\ r.key = j.key /\ r.low = j.low /\ r.shared = j.shared
        /\ r.todo = j.todo
    BY <1>1 DEF Job, PCs
  <2> HIDE DEF r, j
  <2>3. ReadOK(r) /\ AnswerOK(r) /\ VerifyOK(r)
    BY <1>1, <2>2 DEF JobOK, ReadOK, AnswerOK, VerifyOK, Reading, Watching, Verifying
  <2> QED
    BY <1>1, <2>1, <2>2, <2>3, LocalMoves DEF JobOK
<1> QED
  BY <1>2, <1>3 DEF Hash

LEMMA ParseReadMoves ==
  ASSUME RInv, NEW t \in Thread, ParseRead(t)
  PROVE  RInv'
<1> DEFINE j == job[t]
           k == j.key
           g == [Parse(k, stamp[k], text[k], None) EXCEPT !.ok = intact[k]]
           r == [j EXCEPT !.pc = "check", !.got = g]
<1>1. j \in Job /\ JobOK(j) /\ j.pc = "parse" /\ Local
  BY DEF RInv, TypeOK, ParseRead
<1>2. k \in Key /\ k \in Plain /\ j.low <= text[k]
  BY <1>1 DEF JobOK, ReadOK, Reading
<1>3. g \in Parsed /\ g.key = k /\ g.text = text[k] /\ g.rev = stamp[k] /\ stamp[k] \in Nat
  BY <1>2 DEF Parse, Parsed, RInv, TypeOK, SharedOK, Texts
<1> HIDE DEF g
<1>4. job' = [job EXCEPT ![t] = r]
  <2>1. job' = [job EXCEPT ![t].pc = "check", ![t].got = g]
    BY DEF ParseRead, g
  <2> QED
    BY <1>1, <2>1 DEF RInv, TypeOK, Job
<1>5. /\ r \in Job /\ r.pc = "check" /\ r.key = j.key /\ r.low = j.low /\ r.shared = j.shared
      /\ r.todo = j.todo /\ r.got = g
  BY <1>1, <1>3 DEF Job, PCs
<1>6. g # None /\ Held(g)
  BY <1>3 DEF Parsed, None, Held
<1> HIDE DEF r, j
<1>7. ReadOK(r) /\ AnswerOK(r) /\ VerifyOK(r)
  BY <1>1, <1>2, <1>3, <1>5, <1>6 DEF JobOK, ReadOK, AnswerOK, VerifyOK, Reading, Watching, Verifying
<1> QED
  BY <1>1, <1>4, <1>5, <1>7, LocalMoves DEF JobOK

LEMMA ParseCheckMoves ==
  ASSUME RInv, NEW t \in Thread, ParseCheck(t)
  PROVE  RInv'
<1> DEFINE j == job[t]
<1>1. /\ j \in Job /\ JobOK(j) /\ j.pc = "check"
      /\ UNCHANGED <<source, store, sqlite, lastRead, calls>>
  BY DEF RInv, TypeOK, ParseCheck
<1>2. CASE /\ Stable(j) /\ UNCHANGED flight
           /\ job' = [job EXCEPT ![t].pc = "restat", ![t].got.hash = text[j.key]]
  <2> DEFINE h == text[j.key]
             g == [j.got EXCEPT !.hash = h]
             r == [j EXCEPT !.pc = "restat", !.got = g]
  <2>1. /\ j.got \in Parsed /\ j.got.key = j.key /\ j.key \in Plain /\ j.key \in Key /\ h \in Nat
        /\ j.low <= j.got.text \/ Misled(j.key)
        /\ Held(j.got)
    BY <1>1 DEF JobOK, ReadOK, AnswerOK, Job, Reading, RInv, TypeOK, SharedOK, Texts
  <2>2. g \in Parsed /\ g.key = j.key /\ g.text = j.got.text /\ g.hash = h
    BY <2>1 DEF Parsed
  <2>3. h = j.got.text \/ j.key \in slipped
    BY <1>2, <2>1 DEF Stable, Held
  <2>4. Sound(g) /\ g # None
    BY <2>1, <2>2, <2>3, KeyAssumption, NotNone DEF Sound
  <2> HIDE DEF h
  <2>5. job' = [job EXCEPT ![t] = r] /\ Local
    <3>1. job' = [job EXCEPT ![t].pc = "restat", ![t].got.hash = h]
      BY <1>2 DEF h
    <3> QED
      BY <1>1, <1>2, <3>1 DEF Local, RInv, TypeOK, Job
  <2> HIDE DEF g
  <2>6. /\ r \in Job /\ r.pc = "restat" /\ r.key = j.key /\ r.low = j.low /\ r.shared = j.shared
        /\ r.todo = j.todo /\ r.got = g
    BY <1>1, <2>2 DEF Job, PCs
  <2> HIDE DEF r, j
  <2>7. ReadOK(r) /\ AnswerOK(r) /\ VerifyOK(r)
    BY <1>1, <2>1, <2>2, <2>4, <2>6 DEF JobOK, ReadOK, AnswerOK, VerifyOK, Reading, Watching, Verifying
  <2> QED
    BY <1>1, <2>5, <2>6, <2>7, LocalMoves DEF JobOK
<1>3. CASE j.tries > 1 /\ job' = [job EXCEPT ![t].pc = "parse", ![t].tries = @ - 1] /\ UNCHANGED flight
  <2> DEFINE n == j.tries - 1
             r == [j EXCEPT !.pc = "parse", !.tries = n]
  <2>1. n \in Nat
    BY <1>1, <1>3 DEF Job
  <2>2. job' = [job EXCEPT ![t].pc = "parse", ![t].tries = n]
    BY <1>3
  <2> HIDE DEF n
  <2>3. job' = [job EXCEPT ![t] = r] /\ Local
    BY <1>1, <1>3, <2>2 DEF Local, RInv, TypeOK, Job
  <2>4. /\ r \in Job /\ r.pc = "parse" /\ r.key = j.key /\ r.low = j.low /\ r.shared = j.shared
        /\ r.todo = j.todo
    BY <1>1, <2>1 DEF Job, PCs
  <2> HIDE DEF r, j
  <2>5. ReadOK(r) /\ AnswerOK(r) /\ VerifyOK(r)
    BY <1>1, <2>4 DEF JobOK, ReadOK, AnswerOK, VerifyOK, Reading, Watching, Verifying
  <2> QED
    BY <1>1, <2>3, <2>4, <2>5, LocalMoves DEF JobOK
<1>4. CASE FinishFlight(t, None)
  BY <1>1, <1>4, Abandoned
<1> QED
  BY <1>2, <1>3, <1>4 DEF ParseCheck

LEMMA RestatMoves ==
  ASSUME RInv, NEW t \in Thread, Restat(t)
  PROVE  RInv'
<1> DEFINE j == job[t]
           e == [j.got EXCEPT !.rev = stamp[j.key]]
           r == [j EXCEPT !.pc = "recheck", !.got = e, !.shared = None, !.seen = None,
                          !.mon = 0, !.tries = 0]
<1>1. j \in Job /\ JobOK(j) /\ j.pc = "restat" /\ Local
  BY DEF RInv, TypeOK, Restat
<1>2. /\ j.got \in Parsed /\ j.got.key = j.key /\ j.key \in Plain
      /\ j.low <= j.got.text \/ Misled(j.key)
      /\ Sound(j.got) /\ j.key \notin Targeted /\ stamp[j.key] \in Nat
  BY <1>1, KeyAssumption DEF JobOK, ReadOK, AnswerOK, Job, RInv, TypeOK, SharedOK
<1>3. e \in Parsed /\ e.key = j.key /\ e.text = j.got.text /\ e.hash = j.got.hash
  BY <1>2 DEF Parsed
<1>4. job' = [job EXCEPT ![t] = r]
  BY DEF Restat, Got
<1> HIDE DEF e
<1>5. Sound(e)
  BY <1>2, <1>3 DEF Sound
<1>6. r \in Job /\ JobOK(r)
  BY <1>1, <1>2, <1>3, <1>5, AnswerInHand DEF Reading
<1> HIDE DEF r
<1> QED
  BY <1>1, <1>4, <1>6, LocalMoves

(***************************************************************************)
(* A read of one thread of the database.                                   *)
(***************************************************************************)

\* The monitor observes; what is kept and who calls stays.
LEMMA ObservedMoves ==
  ASSUME RInv, NEW t \in Thread, LocalSqlite, UNCHANGED <<monitor, evictions>>,
         conn' \in Seq([inode : Nat, base : Nat] \cup {None}), Len(conn') = Len(conn),
         Onward, Monitored', NEW r \in Job, job' = [job EXCEPT ![t] = r], JobOK(r)'
  PROVE  RInv'
<1>1. UNCHANGED <<text, stamp, slipped, intact, inode, commits, writes, artifacts, invalid, evidence,
                  overflow, flight, monitor, evictions, lastRead, calls>>
  BY DEF LocalSqlite, source, store
<1>2. SharedOK' /\ FreshRead'
  <2>1. monitor' \in 0..Len(conn') 
    BY <1>1 DEF RInv, TypeOK, SharedOK
  <2> QED
    BY <1>1, <2>1 DEF RInv, TypeOK, SharedOK, FreshRead, Misled, Reopened
<1>3. StoreOK'
  <2>1. Range(artifacts) \subseteq Parsed /\ Range(evidence) \subseteq Parsed
    BY RangeMember DEF RInv, TypeOK, SharedOK, Range
  <2> QED
    BY <1>1, <1>2, <2>1, SoundStays DEF RInv, TypeOK, StoreOK, Vouched
<1> QED
  BY <1>2, <1>3, CallMoves

LEMMA WatchMoves ==
  ASSUME RInv, NEW t \in Thread, Watch(t)
  PROVE  RInv'
<1>0. PICK j : j = job[t]
  OBVIOUS
<1>1. /\ j \in Job /\ JobOK(j) /\ j.pc = "observe" /\ LocalSqlite /\ Observe(j.mon)
      /\ UNCHANGED <<monitor, evictions>>
  BY <1>0 DEF RInv, TypeOK, Watch
<1>2. PICK o : o = Observation(Opened(j.mon))
  OBVIOUS
<1>3. j.mon \in 1..Len(conn) /\ j.key \in Targeted /\ j.key \in Key
  BY <1>1 DEF JobOK, ReadOK, Watching, Reading
<1>4. UNCHANGED <<text, stamp, slipped, inode, commits>>
  BY <1>1 DEF LocalSqlite, source
<1>5. /\ Onward /\ Monitored' /\ conn' \in Seq([inode : Nat, base : Nat] \cup {None})
      /\ Len(conn') = Len(conn) /\ o \in Obs /\ Seen(o)' /\ (Reopened \/ Matches(o)')
  BY <1>1, <1>2, <1>3, <1>4, ObserveOnward DEF RInv, TypeOK
<1>6. SharedOK'
  <2>1. UNCHANGED <<text, stamp, slipped, intact, inode, commits, writes, artifacts, invalid, evidence,
                    overflow, flight, monitor, evictions, lastRead, calls>>
    BY <1>1 DEF LocalSqlite, source, store
  <2> QED
    BY <1>5, <2>1 DEF RInv, TypeOK, SharedOK
<1>7. CASE j.shared # None /\ j.shared.obs = o /\ Got(t, j.shared)
  <2>1. /\ j.shared \in Parsed /\ j.shared.key = j.key /\ Sound(j.shared) /\ j.low <= text[j.key]
    BY <1>1, <1>7 DEF JobOK, ReadOK, Job, Reading
  <2>2. Reopened \/ j.shared.text = text[j.key]
    <3>1. Sound(j.shared)'
      BY <1>5, <1>6, <2>1, SoundStays DEF RInv, TypeOK
    <3>2. Reopened <=> Reopened'
      BY <1>1 DEF Reopened
    <3> QED
      BY <1>3, <1>4, <1>5, <1>7, <2>1, <3>1, <3>2 DEF Sound, Was
  <2>3. PICK r \in Job : /\ r = [j EXCEPT !.pc = "recheck", !.got = j.shared, !.shared = None,
                                         !.seen = None, !.mon = 0, !.tries = 0]
                         /\ JobOK(r)
    BY <1>1, <1>3, <2>1, <2>2, AnswerInHand DEF Reading, Misled
  <2>4. job' = [job EXCEPT ![t] = r]
    BY <1>0, <1>7, <2>3 DEF Got
  <2>5. JobOK(r)'
    BY <1>4, <1>5, <1>6, <2>3, CallStays DEF RInv, TypeOK
  <2> QED
    BY <1>1, <1>5, <2>3, <2>4, <2>5, ObservedMoves
<1>8. CASE job' = [job EXCEPT ![t].pc = "before", ![t].seen = o]
  <2>1. PICK r : r = [j EXCEPT !.pc = "before", !.seen = o]
    OBVIOUS
  <2>2. job' = [job EXCEPT ![t] = r]
    BY <1>0, <1>1, <1>8, <2>1 DEF RInv, TypeOK, Job
  <2>3. /\ r \in Job /\ r.pc = "before" /\ r.key = j.key /\ r.low = j.low /\ r.shared = j.shared
        /\ r.todo = j.todo /\ r.mon = j.mon /\ r.seen = o
    BY <1>1, <1>5, <2>1 DEF Job, PCs
  <2>4. o # None
    BY <1>5, NotNone
  <2>5. JobOK(j)'
    BY <1>1, <1>5, <1>6, CallStays DEF RInv, TypeOK
  <2>6. ReadOK(r)' /\ AnswerOK(r)' /\ VerifyOK(r)'
    BY <1>1, <1>5, <2>3, <2>4, <2>5 DEF JobOK, ReadOK, AnswerOK, VerifyOK, Reading, Watching, Verifying
  <2>7. JobOK(r)'
    BY <2>6 DEF JobOK
  <2> QED
    BY <1>1, <1>5, <2>2, <2>3, <2>7, ObservedMoves
<1> QED
  BY <1>0, <1>2, <1>7, <1>8 DEF Watch

LEMMA BeforeMoves ==
  ASSUME RInv, NEW t \in Thread, Before(t)
  PROVE  RInv'
<1> DEFINE j == job[t]
           v == text[j.key]
           known == j.shared # None /\ j.shared.rev = v
           pc == IF known THEN "confirm" ELSE "scan"
           g == IF known THEN [j.shared EXCEPT !.obs = j.seen] ELSE Parse(j.key, v, 0, j.seen)
           r == [j EXCEPT !.pc = pc, !.got = g]
<1>1. j \in Job /\ JobOK(j) /\ j.pc = "before" /\ Local
  BY DEF RInv, TypeOK, Before
<1>2. /\ j.key \in Key /\ j.key \in Targeted /\ j.low <= v /\ v \in Nat
      /\ j.seen \in Obs /\ Seen(j.seen)
      /\ j.shared # None => j.shared \in Parsed /\ j.shared.key = j.key /\ Sound(j.shared)
  BY <1>1 DEF JobOK, ReadOK, AnswerOK, Job, Reading, Watching, RInv, TypeOK, SharedOK, Texts
<1>3. /\ g \in Parsed /\ g.key = j.key /\ g.obs = j.seen /\ g.rev = v
      /\ known => g.text = j.shared.text
  <2>1. CASE known
    BY <1>2, <2>1 DEF Parsed
  <2>2. CASE ~known
    BY <1>2, <2>2 DEF Parse, Parsed
  <2> QED
    BY <2>1, <2>2
<1>4. known => g.text = v
  BY <1>2, <1>3 DEF Sound
<1>5. pc \in {"confirm", "scan"} /\ pc \in PCs /\ (pc = "confirm" => known)
  BY DEF PCs
<1> HIDE DEF pc, g, known
<1>6. job' = [job EXCEPT ![t] = r]
  <2>1. job' = [job EXCEPT ![t].pc = pc, ![t].got = g]
    BY DEF Before, pc, g, known
  <2> QED
    BY <1>1, <2>1 DEF RInv, TypeOK, Job
<1>7. /\ r \in Job /\ r.pc = pc /\ r.key = j.key /\ r.low = j.low /\ r.shared = j.shared
      /\ r.todo = j.todo /\ r.got = g /\ r.mon = j.mon
  BY <1>1, <1>3, <1>5 DEF Job
<1>8. g # None
  BY <1>3, NotNone
<1> HIDE DEF r, j, v
<1>9. ReadOK(r)
  BY <1>1, <1>2, <1>5, <1>7 DEF JobOK, ReadOK, Reading, Watching
<1>10. VerifyOK(r)
  BY <1>1, <1>5, <1>7 DEF JobOK, VerifyOK, Verifying
<1>11. AnswerOK(r)
  <2>1. pc = "confirm" => g.text = v /\ Sound(g)
    BY <1>2, <1>3, <1>4, <1>5 DEF Sound, Was, v
  <2> QED
    BY <1>2, <1>3, <1>5, <1>7, <1>8, <2>1 DEF AnswerOK, v
<1> QED
  BY <1>1, <1>6, <1>7, <1>9, <1>10, <1>11, LocalMoves DEF JobOK

LEMMA ScanMoves ==
  ASSUME RInv, NEW t \in Thread, Scan(t)
  PROVE  RInv'
<1> DEFINE j == job[t]
           x == text[j.key]
           y == intact[j.key]
           g == [[j.got EXCEPT !.text = x] EXCEPT !.ok = y]
           r == [j EXCEPT !.pc = "after", !.got = g]
<1>1. j \in Job /\ JobOK(j) /\ j.pc = "scan" /\ Local
  BY DEF RInv, TypeOK, Scan
<1>2. /\ j.key \in Key /\ j.key \in Targeted /\ j.low <= x /\ x \in Nat /\ y \in BOOLEAN
      /\ j.got \in Parsed /\ j.got.key = j.key /\ j.got.rev <= x /\ Seen(j.got.obs)
  BY <1>1 DEF JobOK, ReadOK, AnswerOK, Job, Reading, Watching, RInv, TypeOK, SharedOK, Texts
<1>3. /\ g \in Parsed /\ g.key = j.key /\ g.obs = j.got.obs /\ g.rev = j.got.rev /\ g.text = x
  BY <1>2 DEF Parsed
<1>4. job' = [job EXCEPT ![t] = r]
  <2>1. job' = [job EXCEPT ![t].pc = "after", ![t].got.text = x, ![t].got.ok = y]
    BY DEF Scan
  <2> HIDE DEF x, y
  <2> QED
    BY <1>1, <2>1 DEF RInv, TypeOK, Job
<1> HIDE DEF g
<1>5. /\ r \in Job /\ r.pc = "after" /\ r.key = j.key /\ r.low = j.low /\ r.shared = j.shared
      /\ r.todo = j.todo /\ r.got = g /\ r.mon = j.mon
  BY <1>1, <1>3 DEF Job, PCs
<1>6. g # None
  BY <1>3, NotNone
<1> HIDE DEF r, j
<1>7. ReadOK(r)
  BY <1>1, <1>2, <1>5 DEF JobOK, ReadOK, Reading, Watching
<1>8. VerifyOK(r)
  BY <1>1, <1>5 DEF JobOK, VerifyOK, Verifying
<1>9. AnswerOK(r)
  BY <1>2, <1>3, <1>5, <1>6 DEF AnswerOK, Was
<1> QED
  BY <1>1, <1>4, <1>5, <1>7, <1>8, <1>9, LocalMoves DEF JobOK

LEMMA AfterMoves ==
  ASSUME RInv, NEW t \in Thread, After(t)
  PROVE  RInv'
<1> DEFINE j == job[t]
<1>1. /\ j \in Job /\ JobOK(j) /\ j.pc = "after"
      /\ UNCHANGED <<source, store, sqlite, lastRead, calls>>
  BY DEF RInv, TypeOK, After
<1>2. CASE text[j.key] = j.got.rev /\ Goto(t, "confirm") /\ UNCHANGED flight
  <2> DEFINE r == [j EXCEPT !.pc = "confirm"]
  <2>1. job' = [job EXCEPT ![t] = r] /\ Local
    BY <1>1, <1>2 DEF Goto, Local
  <2>2. /\ r \in Job /\ r.pc = "confirm" /\ r.key = j.key /\ r.low = j.low /\ r.shared = j.shared
        /\ r.todo = j.todo /\ r.got = j.got /\ r.mon = j.mon
    BY <1>1 DEF Job, PCs
  <2> HIDE DEF r, j
  <2>3. /\ j.got \in Parsed /\ j.got.key = j.key /\ j.got.rev <= j.got.text
        /\ j.got.text <= text[j.key] /\ Seen(j.got.obs) /\ Was(j.got)
        /\ j.got.rev \in Nat /\ j.got.text \in Nat /\ j.key \in Targeted
    BY <1>1 DEF JobOK, ReadOK, AnswerOK, Watching, Job, Parsed
  <2>4. Sound(j.got)
    BY <1>2, <2>3 DEF Sound
  <2>5. ReadOK(r)
    BY <1>1, <2>2 DEF JobOK, ReadOK, Reading, Watching
  <2>6. AnswerOK(r) /\ VerifyOK(r)
    BY <1>1, <2>2, <2>4 DEF JobOK, AnswerOK, VerifyOK, Verifying
  <2> QED
    BY <1>1, <2>1, <2>2, <2>5, <2>6, LocalMoves DEF JobOK
<1>3. CASE FinishFlight(t, None)
  BY <1>1, <1>3, Abandoned
<1> QED
  BY <1>2, <1>3 DEF After

LEMMA ConfirmMoves ==
  ASSUME RInv, NEW t \in Thread, Confirm(t)
  PROVE  RInv'
<1> DEFINE j == job[t]
<1>1. /\ j \in Job /\ JobOK(j) /\ j.pc = "confirm"
      /\ UNCHANGED <<source, store, sqlite, lastRead, calls>>
  BY DEF RInv, TypeOK, Confirm
<1>2. CASE Got(t, j.got) /\ UNCHANGED flight
  <2> DEFINE r == [j EXCEPT !.pc = "recheck", !.got = j.got, !.shared = None, !.seen = None,
                            !.mon = 0, !.tries = 0]
  <2>1. /\ j.got \in Parsed /\ j.got.key = j.key /\ Sound(j.got)
        /\ j.low <= j.got.text \/ Misled(j.key)
    BY <1>1 DEF JobOK, AnswerOK, Job
  <2>2. r \in Job /\ JobOK(r)
    BY <1>1, <2>1, AnswerInHand DEF Reading
  <2>3. job' = [job EXCEPT ![t] = r] /\ Local
    BY <1>1, <1>2 DEF Got, Local
  <2> HIDE DEF r
  <2> QED
    BY <2>2, <2>3, LocalMoves
<1>3. CASE j.tries > 1 /\ job' = [job EXCEPT ![t].pc = "observe", ![t].tries = @ - 1] /\ UNCHANGED flight
  <2> DEFINE n == j.tries - 1
             r == [j EXCEPT !.pc = "observe", !.tries = n]
  <2>1. n \in Nat
    BY <1>1, <1>3 DEF Job
  <2>2. job' = [job EXCEPT ![t].pc = "observe", ![t].tries = n]
    BY <1>3
  <2> HIDE DEF n
  <2>3. job' = [job EXCEPT ![t] = r] /\ Local
    BY <1>1, <1>3, <2>2 DEF Local, RInv, TypeOK, Job
  <2>4. /\ r \in Job /\ r.pc = "observe" /\ r.key = j.key /\ r.low = j.low /\ r.shared = j.shared
        /\ r.todo = j.todo /\ r.mon = j.mon
    BY <1>1, <2>1 DEF Job, PCs
  <2> HIDE DEF r, j
  <2>5. ReadOK(r) /\ AnswerOK(r) /\ VerifyOK(r)
    BY <1>1, <2>4 DEF JobOK, ReadOK, AnswerOK, VerifyOK, Reading, Watching, Verifying
  <2> QED
    BY <1>1, <2>3, <2>4, <2>5, LocalMoves DEF JobOK
<1>4. CASE FinishFlight(t, None)
  BY <1>1, <1>4, Abandoned
<1> QED
  BY <1>2, <1>3, <1>4 DEF Confirm

(***************************************************************************)
(* The beginning of a read, and its end.                                   *)
(***************************************************************************)
LEMMA BeginMoves ==
  ASSUME RInv, NEW t \in Thread, NEW k \in Key, Begin(t, k)
  PROVE  RInv'
<1>1. UNCHANGED <<text, stamp, slipped, intact, inode, commits, writes, artifacts, invalid, evidence,
                  overflow, monitor, conn, evictions, lastRead>>
  BY DEF Begin, source, store, sqlite
<1>2. text[k] \in Nat /\ calls' \in Nat /\ text[k] <= text[k]
  BY DEF RInv, TypeOK, SharedOK, Texts, Begin
<1>3. flight' \in [Key -> Thread \cup {None}]
  BY DEF Begin, RInv, TypeOK, SharedOK
<1>4. SharedOK' /\ FreshRead' /\ Monitored'
  BY <1>1, <1>2, <1>3 DEF RInv, TypeOK, SharedOK, FreshRead, Misled, Monitored, Reopened
<1>5. Onward
  BY <1>1, StillOnward DEF RInv, TypeOK
<1>6. StoreOK'
  BY <1>1 DEF RInv, StoreOK, Sound, Seen, Known, Was, Matches, Vouched, Reopened
<1>7. PICK r : /\ r \in {Look0(k, text[k], None, TRUE),
                        [Idle EXCEPT !.pc = "wait", !.key = k, !.low = text[k]]}
               /\ job' = [job EXCEPT ![t] = r]
  BY DEF Begin
<1>8. /\ r \in Job /\ r.pc \in {"look", "wait"} /\ r.key = k /\ r.low = text[k]
      /\ r.shared = None /\ r.todo = <<>>
  <2>1. <<>> \in Seq(Parsed) /\ MaxTries \in Nat
    BY CapacityAssumption
  <2>2. CASE r = Look0(k, text[k], None, TRUE)
    BY <1>2, <2>1, <2>2 DEF Look0, Idle, Job, PCs
  <2>3. CASE r = [Idle EXCEPT !.pc = "wait", !.key = k, !.low = text[k]]
    BY <1>2, <2>1, <2>3 DEF Idle, Job, PCs
  <2> QED
    BY <1>7, <2>2, <2>3
<1>9. Range(r.todo) = {}
  BY <1>8 DEF Range
<1>10. ReadOK(r) /\ AnswerOK(r) /\ VerifyOK(r)
  BY <1>2, <1>8, <1>9 DEF ReadOK, AnswerOK, VerifyOK, Reading, Watching, Verifying
<1>11. JobOK(r)'
  BY <1>1, <1>4, <1>5, <1>8, <1>10, CallStays DEF RInv, TypeOK, JobOK
<1> QED
  BY <1>4, <1>5, <1>6, <1>7, <1>8, <1>11, CallMoves

LEMMA WokenMoves ==
  ASSUME RInv, NEW t \in Thread, Woken(t)
  PROVE  RInv'
<1> DEFINE j == job[t]
           l == Look0(j.key, j.low, j.shared, FALSE)
           r == IF CheckpointIsCurrent(j.key) THEN l ELSE Idle
<1>1. j \in Job /\ JobOK(j) /\ j.pc = "woken" /\ Local /\ job' = [job EXCEPT ![t] = r]
  BY DEF RInv, TypeOK, Woken, Local
<1> HIDE DEF j
<1>2. /\ l \in Job /\ l.pc = "look" /\ l.key = j.key /\ l.low = j.low /\ l.shared = j.shared
      /\ l.todo = <<>>
  <2>1. <<>> \in Seq(Parsed) /\ MaxTries \in Nat
    BY CapacityAssumption
  <2> QED
    BY <1>1, <2>1 DEF Look0, Idle, Job, PCs
<1> HIDE DEF l
<1>3. Range(l.todo) = {}
  BY <1>2 DEF Range
<1>4. ReadOK(l) /\ AnswerOK(l) /\ VerifyOK(l)
  BY <1>1, <1>2, <1>3 DEF JobOK, ReadOK, AnswerOK, VerifyOK, Reading, Watching, Verifying
<1>5. r \in Job /\ JobOK(r)
  BY <1>2, <1>4, IdleOK DEF JobOK
<1> HIDE DEF r
<1> QED
  BY <1>1, <1>5, LocalMoves

LEMMA RaiseMoves ==
  ASSUME RInv, NEW t \in Thread, Raise(t)
  PROVE  RInv'
BY Abandoned DEF Raise

LEMMA LookMoves ==
  ASSUME RInv, NEW t \in Thread, Look(t)
  PROVE  RInv'
<1>1. PICK j \in Job : j = job[t]
  BY DEF RInv, TypeOK
<1> DEFINE k == j.key
           found == IF Holds(invalid, k) THEN None ELSE Entry(artifacts, k)
           pc == IF k \in Targeted THEN "observe" ELSE "stat"
           sh == IF found = None THEN j.shared ELSE found
<1>2. JobOK(j) /\ j.pc = "look"
  BY <1>1 DEF RInv, Look
<1>3. UNCHANGED <<text, stamp, slipped, intact, inode, commits, writes, invalid, evidence, overflow,
                  flight, lastRead, calls>>
  BY DEF Look, source
<1>4. artifacts \in Seq(Parsed) /\ Range(artifacts) \subseteq Parsed
  BY RangeMember DEF RInv, TypeOK, SharedOK, Range
<1>5. found # None => found \in Range(artifacts) /\ found \in Parsed /\ found.key = k
  BY <1>4, EntryRange
<1>6. artifacts' = IF found = None THEN artifacts ELSE Append(Without(artifacts, k), found)
  BY <1>1 DEF Look
<1> HIDE DEF found
<1>7. artifacts' \in Seq(Parsed) /\ Range(artifacts') \subseteq Range(artifacts)
  <2>1. CASE found = None
    BY <1>4, <1>6, <2>1
  <2>2. CASE found # None
    <3>1. Without(artifacts, k) \in Seq(Parsed) /\ Range(Without(artifacts, k)) \subseteq Range(artifacts)
      BY <1>4, WithoutRange
    <3> QED
      BY <1>5, <1>6, <2>2, <3>1, AppendRange
  <2> QED
    BY <2>1, <2>2
<1>8. /\ Onward /\ Monitored' /\ conn' \in Seq([inode : Nat, base : Nat] \cup {None})
      /\ monitor' \in 0..Len(conn') /\ (k \in Targeted => monitor' \in 1..Len(conn'))
  <2>1. CASE k \in Targeted
    <3>1. GetMonitor
      BY <1>1, <2>1 DEF Look
    <3>2. Len(conn') \in Nat
      BY <1>3, <3>1, GetMonitorOnward DEF RInv, TypeOK
    <3> QED
      BY <1>3, <3>1, <3>2, GetMonitorOnward DEF RInv, TypeOK
  <2>2. CASE k \notin Targeted
    <3>1. UNCHANGED <<monitor, conn, evictions>>
      BY <1>1, <2>2 DEF Look, sqlite
    <3> QED
      BY <1>3, <2>2, <3>1, StillOnward DEF RInv, TypeOK, SharedOK, Monitored, Reopened
  <2> QED
    BY <2>1, <2>2
<1>9. (Reopened <=> Reopened') /\ evictions' = evictions
  BY <1>1 DEF Look, GetMonitor, sqlite, Reopened
<1>10. SharedOK' /\ FreshRead'
  BY <1>3, <1>7, <1>8, <1>9 DEF RInv, TypeOK, SharedOK, FreshRead, Misled
<1>11. StoreOK'
  <2>1. Range(evidence) \subseteq Parsed
    BY RangeMember DEF RInv, TypeOK, SharedOK, Range
  <2>2. \A e \in Range(artifacts') \cup Range(evidence) : Sound(e) /\ e \in Parsed
    BY <1>4, <1>7, <2>1 DEF RInv, StoreOK
  <2>3. \A e \in Range(artifacts') \cup Range(evidence) : Sound(e)'
    BY <1>8, <1>10, <2>2, SoundStays DEF RInv, TypeOK
  <2> QED
    BY <1>3, <2>3 DEF RInv, StoreOK, Vouched
<1>12. PICK s, r : s = sh /\ r = [j EXCEPT !.pc = pc, !.stored = found, !.mon = monitor', !.shared = s]
  OBVIOUS
<1>13. job' = [job EXCEPT ![t] = r]
  <2>1. job' = [job EXCEPT ![t].pc = pc, ![t].stored = found, ![t].mon = monitor', ![t].shared = s]
    BY <1>1, <1>12 DEF Look, found
  <2> HIDE DEF pc
  <2> QED
    BY <1>1, <1>12, <2>1 DEF RInv, TypeOK, Job
<1>14. /\ pc \in {"observe", "stat"} /\ pc \in PCs /\ (pc = "observe" <=> k \in Targeted)
       /\ s \in Parsed \cup {None} /\ found \in Parsed \cup {None} /\ monitor' \in Nat
  <2>1. monitor' \in Nat
    BY <1>10 DEF SharedOK
  <2> QED
    BY <1>5, <1>12, <2>1 DEF PCs, Job
<1>15. s # None => s.key = k /\ Sound(s)
  BY <1>2, <1>5, <1>12 DEF JobOK, ReadOK, RInv, StoreOK
<1> HIDE DEF pc
<1>16. /\ r \in Job /\ r.pc = pc /\ r.key = k /\ r.low = j.low /\ r.shared = s
       /\ r.todo = j.todo /\ r.mon = monitor'
  BY <1>12, <1>14 DEF Job
<1>17. JobOK(j)' /\ (s # None => Sound(s)')
  BY <1>2, <1>8, <1>10, <1>14, <1>15, CallStays, SoundStays DEF RInv, TypeOK
<1>18. ReadOK(r)'
  BY <1>2, <1>8, <1>14, <1>15, <1>16, <1>17 DEF JobOK, ReadOK, Reading, Watching, Key
<1>19. AnswerOK(r)' /\ VerifyOK(r)'
  BY <1>2, <1>14, <1>16, <1>17 DEF JobOK, AnswerOK, VerifyOK, Verifying
<1>20. JobOK(r)'
  BY <1>18, <1>19 DEF JobOK
<1> QED
  BY <1>8, <1>10, <1>11, <1>13, <1>16, <1>20, CallMoves

\* An artifact that is found to be invalid is not kept.
LEMMA DroppedKeeps ==
  ASSUME RInv, NEW k \in Key, Dropped(k), UNCHANGED <<text, stamp, slipped, inode, commits, conn, evictions, lastRead>>
  PROVE  /\ artifacts' \in Seq(Parsed) /\ evidence' \in Seq(Parsed)
         /\ invalid' \in Seq([key : Key]) /\ overflow' \in BOOLEAN /\ StoreOK'
<1>1. /\ artifacts \in Seq(Parsed) /\ invalid \in Seq([key : Key]) /\ evidence \in Seq(Parsed)
      /\ overflow \in BOOLEAN /\ MaxEntries \in Nat
  BY CapacityAssumption DEF RInv, TypeOK, SharedOK
<1>2. /\ artifacts' \in Seq(Parsed) /\ Range(artifacts') \subseteq Range(artifacts)
      /\ UNCHANGED <<evidence, overflow>>
  BY <1>1, WithoutRange DEF Dropped
<1>3. invalid' \in Seq([key : Key])
  <2> DEFINE w == Without(invalid, k)
             a == Append(w, [key |-> k])
  <2>1. w \in Seq([key : Key]) /\ [key |-> k] \in [key : Key]
    BY <1>1, WithoutRange
  <2>2. invalid' = Newest(a, MaxEntries)
    BY DEF Dropped
  <2> HIDE DEF w
  <2>3. a \in Seq([key : Key])
    BY <2>1, AppendRange
  <2> HIDE DEF a
  <2> QED
    BY <1>1, <2>2, <2>3, NewestRange
<1>4. StoreOK'
  BY <1>2 DEF RInv, StoreOK, Sound, Seen, Known, Was, Matches, Vouched, Reopened
<1> QED
  BY <1>1, <1>2, <1>3, <1>4

LEMMA RecheckMoves ==
  ASSUME RInv, NEW t \in Thread, Recheck(t)
  PROVE  RInv'
<1> DEFINE j == job[t]
<1>1. j \in Job /\ JobOK(j) /\ j.pc = "recheck" /\ UNCHANGED <<source, sqlite, lastRead, calls>>
  BY DEF RInv, TypeOK, Recheck
<1>2. CASE Goto(t, "publish") /\ UNCHANGED <<store, flight>>
  <2> DEFINE r == [j EXCEPT !.pc = "publish"]
  <2>1. job' = [job EXCEPT ![t] = r] /\ Local
    BY <1>1, <1>2 DEF Goto, Local
  <2>2. /\ r \in Job /\ r.pc = "publish" /\ r.key = j.key /\ r.low = j.low /\ r.shared = j.shared
        /\ r.todo = j.todo /\ r.got = j.got
    BY <1>1 DEF Job, PCs
  <2> HIDE DEF r, j
  <2>3. ReadOK(r) /\ AnswerOK(r) /\ VerifyOK(r)
    BY <1>1, <2>2 DEF JobOK, ReadOK, AnswerOK, VerifyOK, Reading, Watching, Verifying
  <2> QED
    BY <2>1, <2>2, <2>3, LocalMoves DEF JobOK
<1>3. CASE Dropped(j.key) /\ FinishFlight(t, None)
  <2>1. j.key \in Key
    BY <1>1 DEF JobOK, ReadOK, Reading
  <2>2. UNCHANGED <<text, stamp, slipped, inode, commits, conn, evictions>>
    BY <1>1 DEF source, sqlite
  <2>3. FreshRead' /\ lastRead' \in [Key -> [text : Nat, low : Nat, kept : BOOLEAN]]
    BY <1>1, <2>2 DEF RInv, TypeOK, SharedOK, FreshRead, Misled, Reopened
  <2>4. /\ artifacts' \in Seq(Parsed) /\ evidence' \in Seq(Parsed)
        /\ invalid' \in Seq([key : Key]) /\ overflow' \in BOOLEAN /\ StoreOK'
    BY <1>1, <1>3, <2>1, <2>2, DroppedKeeps
  <2> QED
    BY <1>1, <1>3, <2>3, <2>4, FlightEnds
<1> QED
  BY <1>2, <1>3 DEF Recheck

\* An answer is kept, and vouched for.
LEMMA AnswerKept ==
  ASSUME RInv, NEW e \in Parsed, Sound(e), NEW s, Put(e.key, e, s), Record(e.key, e),
         UNCHANGED <<text, stamp, slipped, inode, commits, conn, evictions>>, NEW low \in Nat,
         lastRead' = [lastRead EXCEPT ![e.key] = [text |-> e.text, low |-> low, kept |-> TRUE]]
  PROVE  /\ artifacts' \in Seq(Parsed) /\ evidence' \in Seq(Parsed)
         /\ invalid' \in Seq([key : Key]) /\ overflow' \in BOOLEAN
         /\ lastRead' \in [Key -> [text : Nat, low : Nat, kept : BOOLEAN]]
         /\ StoreOK'
<1> DEFINE k == e.key
           full == ~Holds(evidence, k) /\ Len(evidence) >= Capacity
           rest == IF full THEN Tail(evidence) ELSE evidence
<1>1. /\ artifacts \in Seq(Parsed) /\ invalid \in Seq([key : Key]) /\ evidence \in Seq(Parsed)
      /\ overflow \in BOOLEAN /\ MaxEntries \in Nat /\ k \in Key /\ e.text \in Nat
      /\ lastRead \in [Key -> [text : Nat, low : Nat, kept : BOOLEAN]]
  BY CapacityAssumption DEF RInv, TypeOK, SharedOK, Parsed
<1>2. artifacts' \in Seq(Parsed) /\ Range(artifacts') \subseteq Range(artifacts) \cup {e}
  <2>1. CASE artifacts' = artifacts
    BY <1>1, <2>1
  <2>2. CASE artifacts' = Newest(Append(Without(artifacts, k), e), MaxEntries)
    <3> DEFINE w == Without(artifacts, k)
               a == Append(w, e)
    <3>1. w \in Seq(Parsed) /\ Range(w) \subseteq Range(artifacts)
      BY <1>1, WithoutRange
    <3> HIDE DEF w
    <3>2. a \in Seq(Parsed) /\ Range(a) = Range(w) \cup {e}
      BY <3>1, AppendRange
    <3>3. artifacts' = Newest(a, MaxEntries)
      BY <2>2 DEF w
    <3> HIDE DEF a
    <3> QED
      BY <1>1, <3>1, <3>2, <3>3, NewestRange
  <2> QED
    BY <2>1, <2>2 DEF Put
<1>3. invalid' \in Seq([key : Key])
  BY <1>1, WithoutRange DEF Put
<1>4. rest \in Seq(Parsed) /\ Range(rest) \subseteq Range(evidence)
  <2>1. full => evidence # <<>>
    BY CapacityAssumption
  <2> QED
    BY <1>1, <2>1, TailRange
<1>5. evidence' = Append(Without(rest, k), e) /\ overflow' = (overflow \/ full)
  BY DEF Record
<1>6. overflow' \in BOOLEAN /\ (~overflow' => ~overflow /\ rest = evidence)
  BY <1>1, <1>5
<1> HIDE DEF full, rest
<1>7. /\ evidence' \in Seq(Parsed) /\ Range(evidence') = Range(Without(rest, k)) \cup {e}
      /\ Range(Without(rest, k)) \subseteq Range(rest)
      /\ \A d \in Range(rest) : d.key # k => d \in Range(Without(rest, k))
  <2>1. /\ Without(rest, k) \in Seq(Parsed) /\ Range(Without(rest, k)) \subseteq Range(rest)
        /\ \A d \in Range(rest) : d.key # k => d \in Range(Without(rest, k))
    BY <1>4, WithoutRange
  <2> QED
    BY <1>5, <2>1, AppendRange
<1>8. lastRead' \in [Key -> [text : Nat, low : Nat, kept : BOOLEAN]]
  <2>1. [text |-> e.text, low |-> low, kept |-> TRUE] \in [text : Nat, low : Nat, kept : BOOLEAN]
    BY <1>1
  <2> QED
    BY <1>1, <2>1
<1>9. Vouched(k)' = e.text /\ \A c \in Key : c # k => Vouched(c)' = Vouched(c)
  BY <1>1 DEF Vouched
<1>10. overflow' \/ \A c \in Key : \/ Vouched(c)' = 0
                                 \/ \E d \in Range(evidence') : d.key = c /\ d.text = Vouched(c)'
  <2> SUFFICES ASSUME ~overflow', NEW c \in Key, Vouched(c)' # 0
               PROVE  \E d \in Range(evidence') : d.key = c /\ d.text = Vouched(c)'
    OBVIOUS
  <2>1. CASE c = k
    BY <1>7, <1>9, <2>1
  <2>2. CASE c # k
    <3>1. PICK d \in Range(evidence) : d.key = c /\ d.text = Vouched(c)
      BY <1>6, <1>9, <2>2 DEF RInv, StoreOK
    <3>2. d \in Range(evidence')
      BY <1>6, <1>7, <2>2, <3>1
    <3> QED
      BY <1>9, <2>2, <3>1, <3>2
  <2> QED
    BY <2>1, <2>2
<1>11. \A d \in Range(artifacts') \cup Range(evidence') : Sound(d)
  BY <1>2, <1>4, <1>7 DEF RInv, StoreOK
<1>12. \A d \in Range(artifacts') \cup Range(evidence') : Sound(d)'
  BY <1>11 DEF Sound, Seen, Known, Was, Matches, Reopened
<1> QED
  BY <1>2, <1>3, <1>6, <1>7, <1>8, <1>10, <1>12 DEF StoreOK

LEMMA PublishMoves ==
  ASSUME RInv, NEW t \in Thread, Publish(t)
  PROVE  RInv'
<1> DEFINE j == job[t]
<1>1. /\ j \in Job /\ JobOK(j) /\ j.pc = "publish" /\ FinishFlight(t, j.got)
      /\ UNCHANGED <<source, sqlite, calls>>
  BY DEF RInv, TypeOK, Publish
<1>2. /\ j.got \in Parsed /\ j.got.key = j.key /\ Sound(j.got) /\ j.key \in Key /\ j.low \in Nat
      /\ j.low <= j.got.text \/ Misled(j.key)
  BY <1>1 DEF JobOK, ReadOK, AnswerOK, Job, Reading
<1>3. /\ UNCHANGED <<text, stamp, slipped, inode, commits, conn, evictions>>
      /\ (Reopened <=> Reopened')
  BY <1>1 DEF source, sqlite, Reopened
<1>4. CASE j.got.ok
  <2>1. /\ Put(j.key, j.got, j.stored) /\ Record(j.key, j.got)
        /\ lastRead' = [lastRead EXCEPT ![j.key] = [text |-> j.got.text, low |-> j.low, kept |-> TRUE]]
    BY <1>4 DEF Publish
  <2>2. /\ artifacts' \in Seq(Parsed) /\ evidence' \in Seq(Parsed)
        /\ invalid' \in Seq([key : Key]) /\ overflow' \in BOOLEAN
        /\ lastRead' \in [Key -> [text : Nat, low : Nat, kept : BOOLEAN]]
        /\ StoreOK'
    BY <1>2, <1>3, <2>1, AnswerKept
  <2>3. FreshRead'
    BY <1>2, <1>3, <2>1 DEF RInv, TypeOK, SharedOK, FreshRead, Misled
  <2> QED
    BY <1>1, <1>2, <2>2, <2>3, FlightEnds
<1>5. CASE ~j.got.ok
  <2>1. Dropped(j.key) /\ UNCHANGED lastRead
    BY <1>5 DEF Publish
  <2>2. /\ artifacts' \in Seq(Parsed) /\ evidence' \in Seq(Parsed)
        /\ invalid' \in Seq([key : Key]) /\ overflow' \in BOOLEAN /\ StoreOK'
    BY <1>2, <1>3, <2>1, DroppedKeeps
  <2>3. FreshRead' /\ lastRead' \in [Key -> [text : Nat, low : Nat, kept : BOOLEAN]]
    BY <1>3, <2>1 DEF RInv, TypeOK, SharedOK, FreshRead, Misled
  <2> QED
    BY <1>1, <1>2, <2>2, <2>3, FlightEnds
<1> QED
  BY <1>4, <1>5

(***************************************************************************)
(* A verification.                                                         *)
(***************************************************************************)
LEMMA VerifyBeginMoves ==
  ASSUME RInv, NEW t \in Thread, VerifyBegin(t)
  PROVE  RInv'
<1>1. /\ UNCHANGED <<text, stamp, slipped, intact, inode, commits, writes, artifacts, invalid, evidence,
                     overflow, flight, monitor, conn, evictions, lastRead>>
      /\ ~overflow /\ calls' \in Nat
  BY DEF VerifyBegin, source, store, sqlite, RInv, TypeOK, SharedOK
<1>2. SharedOK' /\ FreshRead' /\ Monitored'
  BY <1>1 DEF RInv, TypeOK, SharedOK, FreshRead, Misled, Monitored, Reopened
<1>3. Onward
  BY <1>1, StillOnward DEF RInv, TypeOK
<1>4. StoreOK'
  BY <1>1 DEF RInv, StoreOK, Sound, Seen, Known, Was, Matches, Vouched, Reopened
<1> DEFINE u == [k \in Key |-> Vouched(k)]
<1>5. u \in Texts /\ text \in Texts /\ evidence \in Seq(Parsed)
  BY DEF RInv, TypeOK, SharedOK, Vouched, Texts
<1>6. PICK r : r = [Idle EXCEPT !.pc = "verify", !.todo = evidence, !.since = text, !.used = u]
  OBVIOUS
<1>7. job' = [job EXCEPT ![t] = r]
  BY <1>6 DEF VerifyBegin
<1>8. \A k \in Key : text[k] <= text[k] /\ u[k] = Vouched(k)
  BY DEF RInv, TypeOK, SharedOK, Texts
<1> HIDE DEF u
<1>9. /\ r \in Job /\ r.pc = "verify" /\ r.shared = None /\ r.todo = evidence
      /\ r.since = text /\ r.used = u
  BY <1>5, <1>6 DEF Idle, Job, PCs
<1>10. VerifyOK(r)
  <2>1. \A k \in Key : Settled(r, k)
    BY <1>1, <1>8, <1>9 DEF Settled, RInv, StoreOK
  <2> QED
    BY <1>5, <1>8, <1>9, <2>1 DEF VerifyOK, RInv, StoreOK
<1>11. ReadOK(r) /\ AnswerOK(r)
  BY <1>9 DEF ReadOK, AnswerOK, Reading, Watching
<1>12. JobOK(r)'
  BY <1>1, <1>2, <1>3, <1>9, <1>10, <1>11, CallStays DEF RInv, TypeOK, JobOK
<1> QED
  BY <1>2, <1>3, <1>4, <1>7, <1>9, <1>12, CallMoves

\* A source that is as the evidence says settles its key.
LEMMA Settles ==
  ASSUME SharedOK, NEW j \in Job, JobOK(j), j.pc \in Verifying, j.todo # <<>>,
         \/ j.since[Head(j.todo).key] <= Head(j.todo).text
         \/ Misled(Head(j.todo).key)
  PROVE  LET r == [j EXCEPT !.pc = "verify", !.todo = Tail(j.todo), !.got = None, !.seen = None,
                            !.mon = 0]
         IN  r \in Job /\ JobOK(r)
<1> DEFINE r == [j EXCEPT !.pc = "verify", !.todo = Tail(j.todo), !.got = None, !.seen = None,
                          !.mon = 0]
<1>1. j.todo \in Seq(Parsed)
  BY DEF Job
<1>2. Tail(j.todo) \in Seq(Parsed) /\ Range(j.todo) = {Head(j.todo)} \cup Range(Tail(j.todo))
  BY <1>1, TailRange
<1>3. /\ r \in Job /\ r.pc = "verify" /\ r.key = j.key /\ r.shared = j.shared
      /\ r.todo = Tail(j.todo) /\ r.since = j.since /\ r.used = j.used
  BY <1>2 DEF Job, PCs
<1> HIDE DEF r
<1>4. ReadOK(r) /\ AnswerOK(r)
  BY <1>3 DEF JobOK, ReadOK, AnswerOK, Reading, Watching
<1>5. \A k \in Key : Settled(j, k) => Settled(r, k)
  BY <1>2, <1>3 DEF Settled
<1>6. VerifyOK(r)
  BY <1>2, <1>3, <1>5 DEF JobOK, VerifyOK
<1> QED
  BY <1>3, <1>4, <1>6 DEF JobOK, r

\* A verification ends.
LEMMA RefusedMoves ==
  ASSUME RInv, NEW t \in Thread, Refused(t), Local
  PROVE  RInv'
BY IdleOK, LocalMoves DEF Refused

LEMMA VerifyNextMoves ==
  ASSUME RInv, NEW t \in Thread, VerifyNext(t)
  PROVE  RInv'
<1>1. PICK j \in Job : j = job[t]
  BY DEF RInv, TypeOK
<1>2. JobOK(j) /\ j.pc = "verify" /\ j.todo # <<>> /\ LocalSqlite
  BY <1>1 DEF RInv, VerifyNext
<1>3. PICK e : e = Head(j.todo)
  OBVIOUS
<1>4. e \in Parsed /\ e.key \in Key /\ j.since \in Texts /\ j.since[e.key] <= text[e.key]
  <2>1. e \in Parsed
    BY <1>2, <1>3, TailRange DEF Job
  <2> QED
    BY <1>2, <2>1 DEF JobOK, VerifyOK, Verifying, Parsed, Job
<1>5. CASE e.key \in Plain
  <2>1. Local
    BY <1>1, <1>2, <1>3, <1>5 DEF VerifyNext, Local, LocalSqlite
  <2>2. CASE text[e.key] = e.hash /\ Checked(t)
    <3> DEFINE r == [j EXCEPT !.pc = "verify", !.todo = Tail(j.todo), !.got = None, !.seen = None,
                              !.mon = 0]
    <3>0. j.since[e.key] <= e.text \/ Misled(e.key)
      <4>1. e \in Range(j.todo) /\ j.todo \in Seq(Parsed)
        BY <1>2, <1>3, TailRange DEF Job
      <4>2. Sound(e)
        BY <1>2, <4>1 DEF JobOK, VerifyOK
      <4> QED
        BY <1>4, <1>5, <2>2, <4>2, KeyAssumption DEF Sound, Misled
    <3>1. r \in Job /\ JobOK(r)
      BY <1>2, <1>3, <1>4, <3>0, Settles DEF Verifying, RInv, TypeOK
    <3>2. job' = [job EXCEPT ![t] = r]
      BY <1>1, <2>2 DEF Checked
    <3> HIDE DEF r
    <3> QED
      BY <2>1, <3>1, <3>2, LocalMoves
  <2>3. CASE Refused(t)
    BY <2>1, <2>3, RefusedMoves
  <2> QED
    BY <1>1, <1>3, <1>5, <2>2, <2>3 DEF VerifyNext
<1>6. CASE e.key \notin Plain
  <2>1. GetMonitor /\ job' = [job EXCEPT ![t].pc = "v-observe", ![t].mon = monitor']
    BY <1>1, <1>3, <1>6 DEF VerifyNext
  <2>2. UNCHANGED <<text, stamp, slipped, intact, inode, commits, writes, artifacts, invalid, evidence,
                    overflow, flight, lastRead, calls, evictions>>
    BY <1>2, <2>1 DEF LocalSqlite, source, store, GetMonitor
  <2>3. /\ Onward /\ Monitored' /\ monitor' \in 1..Len(conn')
        /\ conn' \in Seq([inode : Nat, base : Nat] \cup {None})
    BY <2>1, <2>2, GetMonitorOnward DEF RInv, TypeOK
  <2>4. SharedOK' /\ FreshRead'
    <3>1. monitor' \in 0..Len(conn')
      BY <2>3
    <3> QED
      BY <2>2, <2>3, <3>1 DEF RInv, TypeOK, SharedOK, FreshRead, Misled, Reopened
  <2>5. StoreOK'
    <3>1. Range(artifacts) \subseteq Parsed /\ Range(evidence) \subseteq Parsed
      BY RangeMember DEF RInv, TypeOK, SharedOK, Range
    <3> QED
      BY <2>2, <2>3, <2>4, <3>1, SoundStays DEF RInv, TypeOK, StoreOK, Vouched
  <2>6. PICK m, r : m = monitor' /\ r = [j EXCEPT !.pc = "v-observe", !.mon = m]
    OBVIOUS
  <2>7. job' = [job EXCEPT ![t] = r] /\ m \in Nat
    <3>1. m \in Nat
      BY <2>3, <2>6
    <3>2. job' = [job EXCEPT ![t].pc = "v-observe", ![t].mon = m]
      BY <2>1, <2>6
    <3> QED
      BY <1>1, <2>6, <3>1, <3>2 DEF RInv, TypeOK, Job
  <2>8. /\ r \in Job /\ r.pc = "v-observe" /\ r.key = j.key /\ r.shared = j.shared /\ r.mon = m
        /\ r.todo = j.todo /\ r.since = j.since /\ r.used = j.used
    BY <2>6, <2>7 DEF Job, PCs
  <2>9. JobOK(j)'
    BY <1>2, <2>3, <2>4, CallStays DEF RInv, TypeOK
  <2>10. ReadOK(r)' /\ AnswerOK(r)'
    BY <1>2, <2>3, <2>6, <2>8, <2>9 DEF JobOK, ReadOK, AnswerOK, Reading, Watching
  <2>11. VerifyOK(r)'
    <3>1. e.key \in Targeted
      BY <1>4, <1>6 DEF Key
    <3>2. \A k \in Key : Settled(j, k)' => Settled(r, k)'
      BY <2>8 DEF Settled
    <3> QED
      BY <1>2, <1>3, <2>8, <2>9, <3>1, <3>2 DEF JobOK, VerifyOK, Verifying
  <2>12. JobOK(r)'
    BY <2>10, <2>11 DEF JobOK
  <2> QED
    BY <2>3, <2>4, <2>5, <2>7, <2>8, <2>12, CallMoves
<1> QED
  BY <1>5, <1>6

LEMMA VerifyObserveMoves ==
  ASSUME RInv, NEW t \in Thread, VerifyObserve(t)
  PROVE  RInv'
<1>0. PICK j : j = job[t]
  OBVIOUS
<1>1. /\ j \in Job /\ JobOK(j) /\ j.pc = "v-observe" /\ LocalSqlite /\ Observe(j.mon)
      /\ UNCHANGED <<monitor, evictions>>
  BY <1>0 DEF RInv, TypeOK, VerifyObserve
<1>2. PICK o, e : o = Observation(Opened(j.mon)) /\ e = Head(j.todo)
  OBVIOUS
<1>3. j.mon \in 1..Len(conn) /\ j.todo # <<>> /\ e.key \in Targeted
  BY <1>1, <1>2 DEF JobOK, ReadOK, VerifyOK, Verifying
<1>4. e \in Parsed /\ Sound(e) /\ e.key \in Key /\ j.since \in Texts /\ j.since[e.key] <= text[e.key]
  <2>1. e \in Parsed /\ e \in Range(j.todo)
    BY <1>1, <1>2, <1>3, TailRange DEF Job
  <2> QED
    BY <1>1, <2>1 DEF JobOK, VerifyOK, Verifying, Parsed, Job
<1>5. UNCHANGED <<text, stamp, slipped, inode, commits>>
  BY <1>1 DEF LocalSqlite, source
<1>6. /\ Onward /\ Monitored' /\ conn' \in Seq([inode : Nat, base : Nat] \cup {None})
      /\ Len(conn') = Len(conn) /\ o \in Obs /\ Seen(o)' /\ (Reopened \/ Matches(o)')
  BY <1>1, <1>2, <1>3, <1>5, ObserveOnward DEF RInv, TypeOK
<1>7. SharedOK'
  <2>1. UNCHANGED <<text, stamp, slipped, intact, inode, commits, writes, artifacts, invalid, evidence,
                    overflow, flight, monitor, evictions, lastRead, calls>>
    BY <1>1 DEF LocalSqlite, source, store
  <2> QED
    BY <1>6, <2>1 DEF RInv, TypeOK, SharedOK
<1>8. CASE e.obs = o /\ Checked(t)
  <2>1. Reopened \/ e.text = text[e.key]
    <3>1. Sound(e)'
      BY <1>4, <1>6, <1>7, SoundStays DEF RInv, TypeOK
    <3>2. Reopened <=> Reopened'
      BY <1>1 DEF Reopened
    <3> QED
      BY <1>3, <1>5, <1>6, <1>8, <3>1, <3>2 DEF Sound, Was
  <2>2. PICK r \in Job : /\ r = [j EXCEPT !.pc = "verify", !.todo = Tail(j.todo), !.got = None,
                                         !.seen = None, !.mon = 0]
                         /\ JobOK(r)
    BY <1>1, <1>2, <1>3, <1>4, <2>1, Settles DEF Verifying, RInv, TypeOK, Misled
  <2>3. job' = [job EXCEPT ![t] = r]
    BY <1>0, <1>8, <2>2 DEF Checked
  <2>4. JobOK(r)'
    BY <1>5, <1>6, <1>7, <2>2, CallStays DEF RInv, TypeOK
  <2> QED
    BY <1>1, <1>6, <2>2, <2>3, <2>4, ObservedMoves
<1>9. CASE job' = [job EXCEPT ![t].pc = "v-revision", ![t].seen = o]
  <2>1. PICK r : r = [j EXCEPT !.pc = "v-revision", !.seen = o]
    OBVIOUS
  <2>2. job' = [job EXCEPT ![t] = r]
    BY <1>0, <1>1, <1>9, <2>1 DEF RInv, TypeOK, Job
  <2>3. /\ r \in Job /\ r.pc = "v-revision" /\ r.key = j.key /\ r.shared = j.shared /\ r.seen = o
        /\ r.todo = j.todo /\ r.since = j.since /\ r.used = j.used
    BY <1>1, <1>6, <2>1 DEF Job, PCs
  <2>4. o # None
    BY <1>6, NotNone
  <2>5. JobOK(j)'
    BY <1>1, <1>6, <1>7, CallStays DEF RInv, TypeOK
  <2>6. ReadOK(r)' /\ AnswerOK(r)'
    BY <1>1, <2>3, <2>5 DEF JobOK, ReadOK, AnswerOK, Reading, Watching
  <2>7. VerifyOK(r)'
    <3>1. \A k \in Key : Settled(j, k)' => Settled(r, k)'
      BY <2>3 DEF Settled
    <3> QED
      BY <1>1, <1>6, <2>3, <2>4, <2>5, <3>1 DEF JobOK, VerifyOK, Verifying
  <2>8. JobOK(r)'
    BY <2>6, <2>7 DEF JobOK
  <2> QED
    BY <1>1, <1>6, <2>2, <2>3, <2>8, ObservedMoves
<1> QED
  BY <1>0, <1>2, <1>8, <1>9 DEF VerifyObserve

LEMMA VerifyRevisionMoves ==
  ASSUME RInv, NEW t \in Thread, VerifyRevision(t)
  PROVE  RInv'
<1> DEFINE j == job[t]
           e == Head(j.todo)
           v == text[e.key]
           pc == IF v = e.rev THEN "v-confirm" ELSE "v-parse"
           g == [e EXCEPT !.rev = v, !.obs = j.seen]
           r == [j EXCEPT !.pc = pc, !.got = g]
<1>1. j \in Job /\ JobOK(j) /\ j.pc = "v-revision" /\ Local
  BY DEF RInv, TypeOK, VerifyRevision
<1>2. j.todo # <<>> /\ e.key \in Targeted /\ j.seen \in Obs /\ Seen(j.seen)
  BY <1>1 DEF JobOK, VerifyOK, Verifying, Job
<1>3. e \in Parsed /\ e \in Range(j.todo)
  BY <1>1, <1>2, TailRange DEF Job
<1>4. e.rev = e.text /\ e.text <= v /\ v \in Nat /\ j.since[e.key] <= v /\ e.key \in Key
  BY <1>1, <1>2, <1>3 DEF JobOK, VerifyOK, Verifying, Sound, Parsed, RInv, TypeOK, SharedOK, Texts
<1>5. /\ g \in Parsed /\ g.key = e.key /\ g.text = e.text /\ g.rev = v /\ g.obs = j.seen
  BY <1>2, <1>3, <1>4 DEF Parsed
<1>6. pc \in {"v-confirm", "v-parse"} /\ pc \in PCs /\ (pc = "v-confirm" => v = e.text)
  BY <1>4 DEF PCs
<1>7. job' = [job EXCEPT ![t].pc = pc, ![t].got = g]
  BY DEF VerifyRevision
<1>8. g # None
  BY <1>5, NotNone
<1> HIDE DEF pc, g
<1>9. job' = [job EXCEPT ![t] = r]
  BY <1>1, <1>7 DEF RInv, TypeOK, Job
<1>10. /\ r \in Job /\ r.pc = pc /\ r.key = j.key /\ r.shared = j.shared /\ r.got = g
       /\ r.todo = j.todo /\ r.since = j.since /\ r.used = j.used
  BY <1>1, <1>5, <1>6 DEF Job
<1> HIDE DEF r, j
<1>11. ReadOK(r) /\ AnswerOK(r)
  BY <1>1, <1>6, <1>10 DEF JobOK, ReadOK, AnswerOK, Reading, Watching
<1>12. VerifyOK(r)
  <2>1. \A k \in Key : Settled(j, k) => Settled(r, k)
    BY <1>10 DEF Settled
  <2>2. pc = "v-confirm" => Sound(g) /\ j.since[g.key] <= g.text
    BY <1>2, <1>4, <1>5, <1>6 DEF Sound, Was
  <2>3. g.text <= g.rev /\ g.rev <= text[g.key] /\ Seen(g.obs)
    BY <1>2, <1>4, <1>5
  <2> QED
    BY <1>1, <1>2, <1>5, <1>6, <1>8, <1>10, <2>1, <2>2, <2>3 DEF JobOK, VerifyOK, Verifying
<1> QED
  BY <1>1, <1>9, <1>10, <1>11, <1>12, LocalMoves DEF JobOK

LEMMA VerifyParseMoves ==
  ASSUME RInv, NEW t \in Thread, VerifyParse(t)
  PROVE  RInv'
<1> DEFINE j == job[t]
<1>1. j \in Job /\ JobOK(j) /\ j.pc = "v-parse" /\ Local
  BY DEF RInv, TypeOK, VerifyParse
<1>2. CASE text[j.got.key] = j.got.text /\ Goto(t, "v-reconfirm")
  <2> DEFINE r == [j EXCEPT !.pc = "v-reconfirm"]
  <2>1. job' = [job EXCEPT ![t] = r]
    BY <1>2 DEF Goto
  <2>2. /\ r \in Job /\ r.pc = "v-reconfirm" /\ r.key = j.key /\ r.shared = j.shared
        /\ r.got = j.got /\ r.todo = j.todo /\ r.since = j.since /\ r.used = j.used
    BY <1>1 DEF Job, PCs
  <2> HIDE DEF r, j
  <2>3. /\ j.got \in Parsed /\ j.got.text <= j.got.rev /\ j.got.rev <= text[j.got.key]
        /\ Seen(j.got.obs) /\ j.got.key \in Key /\ j.since[j.got.key] <= text[j.got.key]
        /\ j.got.key \in Targeted
    BY <1>1 DEF JobOK, VerifyOK, Verifying, Job, Parsed
  <2>4. Sound(j.got) /\ j.since[j.got.key] <= j.got.text
    <3>1. j.got.rev = j.got.text
      BY <1>2, <2>3 DEF Parsed
    <3> QED
      BY <1>2, <2>3, <3>1 DEF Sound, Was
  <2>5. ReadOK(r) /\ AnswerOK(r)
    BY <1>1, <2>2 DEF JobOK, ReadOK, AnswerOK, Reading, Watching
  <2>6. VerifyOK(r)
    <3>1. \A k \in Key : Settled(j, k) => Settled(r, k)
      BY <2>2 DEF Settled
    <3> QED
      BY <1>1, <2>2, <2>4, <3>1 DEF JobOK, VerifyOK, Verifying
  <2> QED
    BY <1>1, <2>1, <2>2, <2>5, <2>6, LocalMoves DEF JobOK
<1>3. CASE Refused(t)
  BY <1>1, <1>3, RefusedMoves
<1> QED
  BY <1>2, <1>3 DEF VerifyParse

\* The evidence is renewed.  If it now is of another text than the last answer, it does
\* not vouch for that answer any more.
LEMMA RefreshedMoves ==
  ASSUME RInv, NEW t \in Thread, NEW e \in Parsed, Sound(e), Refreshed(e),
         UNCHANGED <<source, artifacts, invalid, overflow, flight, sqlite, calls>>,
         NEW r \in Job, job' = [job EXCEPT ![t] = r], JobOK(r)
  PROVE  RInv'
<1>1. UNCHANGED <<text, stamp, slipped, intact, inode, commits, writes, artifacts, invalid, overflow,
                  flight, monitor, conn, evictions, calls>>
  BY DEF source, sqlite
<1> DEFINE k == e.key
           L == [text : Nat, low : Nat, kept : BOOLEAN]
<1>2. /\ evidence \in Seq(Parsed) /\ k \in Key /\ lastRead \in [Key -> L]
  BY DEF RInv, TypeOK, SharedOK, Parsed
<1>3. ASSUME Holds(evidence, k)
      PROVE  evidence' \in Seq(Parsed) /\ lastRead' \in [Key -> L] /\ FreshRead' /\ StoreOK'
  <2> DEFINE b == lastRead[k].text = e.text
             w == Without(evidence, k)
  <2>1. evidence' = Append(w, e) /\ lastRead' = [lastRead EXCEPT ![k].kept = b] /\ b \in BOOLEAN
    BY <1>3 DEF Refreshed
  <2>2. /\ w \in Seq(Parsed) /\ Range(w) \subseteq Range(evidence)
        /\ \A d \in Range(evidence) : d.key # k => d \in Range(w)
    BY <1>2, WithoutRange
  <2> HIDE DEF w
  <2>3. evidence' \in Seq(Parsed) /\ Range(evidence') = Range(w) \cup {e}
    BY <2>1, <2>2, AppendRange
  <2>4. /\ lastRead' \in [Key -> L] /\ (lastRead'[k].kept <=> b)
        /\ \A c \in Key : /\ c # k => lastRead'[c] = lastRead[c]
                          /\ lastRead'[c].text = lastRead[c].text
                          /\ lastRead'[c].low = lastRead[c].low
    <3> HIDE DEF b
    <3> QED
      BY <1>2, <2>1
  <2>5. FreshRead'
    BY <1>1, <2>4 DEF RInv, FreshRead, Misled, Reopened
  <2>6. StoreOK'
    <3>1. \A d \in Range(artifacts') \cup Range(evidence') : Sound(d)
      BY <1>1, <2>2, <2>3 DEF RInv, StoreOK
    <3>2. \A d \in Range(artifacts') \cup Range(evidence') : Sound(d)'
      BY <1>1, <3>1 DEF Sound, Seen, Known, Was, Matches, Reopened
    <3>3. ASSUME ~overflow', NEW c \in Key, Vouched(c)' # 0
          PROVE  \E d \in Range(evidence') : d.key = c /\ d.text = Vouched(c)'
      <4>1. CASE c = k
        <5>1. Vouched(c)' = e.text
          BY <2>4, <3>3, <4>1 DEF Vouched
        <5> QED
          BY <2>3, <4>1, <5>1
      <4>2. CASE c # k
        <5>1. Vouched(c)' = Vouched(c)
          BY <2>4, <4>2 DEF Vouched
        <5>2. PICK d \in Range(evidence) : d.key = c /\ d.text = Vouched(c)
          BY <1>1, <3>3, <5>1 DEF RInv, StoreOK
        <5> QED
          BY <2>2, <2>3, <4>2, <5>1, <5>2
      <4> QED
        BY <4>1, <4>2
    <3> QED
      BY <3>2, <3>3 DEF StoreOK
  <2> QED
    BY <2>3, <2>4, <2>5, <2>6
<1>4. ASSUME ~Holds(evidence, k)
      PROVE  evidence' \in Seq(Parsed) /\ lastRead' \in [Key -> L] /\ FreshRead' /\ StoreOK'
  <2>1. UNCHANGED <<evidence, lastRead>>
    BY <1>4 DEF Refreshed
  <2> QED
    BY <1>1, <1>2, <2>1 DEF RInv, FreshRead, Misled, StoreOK, Sound, Seen, Known, Was, Matches, Vouched,
                            Reopened
<1>5. evidence' \in Seq(Parsed) /\ lastRead' \in [Key -> L] /\ FreshRead' /\ StoreOK'
  BY <1>3, <1>4
<1>6. SharedOK' /\ Monitored'
  BY <1>1, <1>5 DEF RInv, TypeOK, SharedOK, Monitored, Reopened
<1>7. Onward
  BY <1>1, StillOnward DEF RInv, TypeOK
<1>8. JobOK(r)'
  BY <1>1, <1>6, <1>7, CallStays DEF RInv, TypeOK
<1> QED
  BY <1>5, <1>6, <1>7, <1>8, CallMoves

LEMMA VerifyConfirmMoves ==
  ASSUME RInv, NEW t \in Thread, VerifyConfirm(t) \/ VerifyReconfirm(t)
  PROVE  RInv'
<1> DEFINE j == job[t]
<1>1. /\ j \in Job /\ JobOK(j) /\ j.pc \in {"v-confirm", "v-reconfirm"}
      /\ UNCHANGED <<source, artifacts, invalid, overflow, flight, sqlite, calls>>
  BY DEF RInv, TypeOK, VerifyConfirm, VerifyReconfirm
<1>2. /\ j.todo # <<>> /\ j.got \in Parsed /\ Sound(j.got)
      /\ j.since[Head(j.todo).key] <= Head(j.todo).text
  BY <1>1 DEF JobOK, VerifyOK, Verifying, Job
<1>3. CASE Refreshed(j.got) /\ Checked(t)
  <2> DEFINE r == [j EXCEPT !.pc = "verify", !.todo = Tail(j.todo), !.got = None, !.seen = None,
                            !.mon = 0]
  <2>1. r \in Job /\ JobOK(r)
    BY <1>1, <1>2, Settles DEF Verifying, RInv, TypeOK
  <2>2. job' = [job EXCEPT ![t] = r]
    BY <1>3 DEF Checked
  <2> HIDE DEF r
  <2> QED
    BY <1>1, <1>2, <1>3, <2>1, <2>2, RefreshedMoves
<1>4. CASE j.pc = "v-confirm" /\ UNCHANGED <<evidence, lastRead>> /\ Goto(t, "v-parse")
  <2> DEFINE r == [j EXCEPT !.pc = "v-parse"]
  <2>1. job' = [job EXCEPT ![t] = r] /\ Local
    BY <1>1, <1>4 DEF Goto, Local, store
  <2>2. /\ r \in Job /\ r.pc = "v-parse" /\ r.key = j.key /\ r.shared = j.shared
        /\ r.got = j.got /\ r.todo = j.todo /\ r.since = j.since /\ r.used = j.used
    BY <1>1 DEF Job, PCs
  <2> HIDE DEF r, j
  <2>3. ReadOK(r) /\ AnswerOK(r)
    BY <1>1, <2>2 DEF JobOK, ReadOK, AnswerOK, Reading, Watching
  <2>4. VerifyOK(r)
    <3>1. \A k \in Key : Settled(j, k) => Settled(r, k)
      BY <2>2 DEF Settled
    <3>2. j.got.text \in Nat /\ j.got.key \in Targeted
      BY <1>1, <1>2 DEF JobOK, VerifyOK, Verifying, Parsed
    <3>3. j.got.text <= j.got.rev /\ j.got.rev <= text[j.got.key] /\ Seen(j.got.obs)
      BY <1>2, <3>2 DEF Sound
    <3> QED
      BY <1>1, <1>4, <2>2, <3>1, <3>3 DEF JobOK, VerifyOK, Verifying
  <2> QED
    BY <2>1, <2>2, <2>3, <2>4, LocalMoves DEF JobOK
<1>5. CASE UNCHANGED <<evidence, lastRead>> /\ Refused(t)
  <2>1. Local
    BY <1>1, <1>5 DEF Local, store
  <2> QED
    BY <1>5, <2>1, RefusedMoves
<1> QED
  BY <1>3, <1>4, <1>5 DEF VerifyConfirm, VerifyReconfirm

\* Every source was looked at.
LEMMA VerifiedMoves ==
  ASSUME RInv, NEW t \in Thread, Verified(t)
  PROVE  RInv'
BY RefusedMoves DEF Verified


(***************************************************************************)
(* The sources, the monitor, and every step.                               *)
(***************************************************************************)
LEMMA SeatRange ==
  ASSUME NEW S, NEW d \in Seq(S), NEW i, NEW e \in S
  PROVE  [d EXCEPT ![i] = e] \in Seq(S)
<1> DEFINE f == [d EXCEPT ![i] = e]
<1>1. Len(d) \in Nat /\ DOMAIN d = 1..Len(d) /\ \A n \in 1..Len(d) : d[n] \in S
  OBVIOUS
<1>2. f = [n \in 1..Len(d) |-> IF n = i THEN e ELSE d[n]]
  BY <1>1
<1> HIDE DEF f
<1>3. f \in [1..Len(d) -> S]
  BY <1>1, <1>2
<1> QED
  BY <1>1, <1>3 DEF f

LEMMA SourcesMove ==
  ASSUME RInv, Harness \/ EvictMonitor
  PROVE  RInv'
<1>1. UNCHANGED <<artifacts, invalid, evidence, overflow, flight, job, lastRead, calls>>
  BY DEF Harness, EvictMonitor, store
<1>2. Onward /\ Monitored'
  BY HarnessOnward, EvictOnward DEF RInv, TypeOK
<1>3. /\ text' \in Texts /\ stamp' \in [Plain -> Nat] /\ intact' \in [Key -> BOOLEAN]
      /\ slipped' \subseteq Databases
  <2>1. CASE Harness
    <3>1. CASE \E k \in Plain : Write(k)
      <4>1. PICK k \in Plain, moves, extends \in BOOLEAN :
              /\ text' = [text EXCEPT ![k] = @ + 1]
              /\ stamp' = IF moves THEN [stamp EXCEPT ![k] = @ + 1] ELSE stamp
              /\ slipped' = IF ~moves /\ k \in Databases /\ InParse(k)
                            THEN slipped \cup {k} ELSE slipped
              /\ intact' = [intact EXCEPT ![k] = @ /\ extends]
        BY <3>1 DEF Write
      <4>2. text' \in Texts /\ stamp' \in [Plain -> Nat] /\ slipped' \subseteq Databases
        BY <4>1 DEF RInv, TypeOK, SharedOK, Texts, Key
      <4>3. intact' \in [Key -> BOOLEAN]
        BY <4>1 DEF RInv, TypeOK, SharedOK, Key
      <4> QED
        BY <4>2, <4>3
    <3>2. CASE \E K \in SUBSET Targeted : Commit(K)
      <4>1. PICK K \in SUBSET Targeted, extends \in BOOLEAN :
              /\ text' = [k \in Key |-> IF k \in K THEN text[k] + 1 ELSE text[k]]
              /\ intact' = [k \in Key |-> IF k \in K THEN intact[k] /\ extends ELSE intact[k]]
              /\ stamp' = stamp /\ slipped' = slipped
        BY <3>2 DEF Commit
      <4>2. text' \in Texts /\ stamp' \in [Plain -> Nat] /\ slipped' \subseteq Databases
        BY <4>1 DEF RInv, TypeOK, SharedOK, Texts
      <4>3. intact' \in [Key -> BOOLEAN]
        BY <4>1 DEF RInv, TypeOK, SharedOK
      <4> QED
        BY <4>2, <4>3
    <3>3. CASE Replace
      BY <3>3 DEF Replace, RInv, TypeOK, SharedOK, Texts
    <3> QED
      BY <2>1, <3>1, <3>2, <3>3 DEF Harness
  <2>2. CASE EvictMonitor
    BY <2>2 DEF EvictMonitor, source, RInv, TypeOK, SharedOK
  <2> QED
    BY <2>1, <2>2
<1>4. inode' \in Nat /\ commits' \in Nat /\ writes' \in Nat /\ evictions' \in Nat
  <2>1. inode \in Nat /\ commits \in Nat /\ writes \in Nat /\ evictions \in Nat
    BY DEF RInv, TypeOK, SharedOK
  <2>2. CASE Harness
    <3>1. writes' = writes + 1 /\ evictions' = evictions
      BY <2>2 DEF Harness, sqlite
    <3>2. inode' = inode \/ inode' = inode + 1
      BY <2>2 DEF Harness, Write, Commit, Replace
    <3>3. commits' = commits \/ commits' = commits + 1
      BY <2>2 DEF Harness, Write, Commit, Replace
    <3> QED
      BY <2>1, <3>1, <3>2, <3>3
  <2>3. CASE EvictMonitor
    <3>1. evictions' = evictions + 1 /\ UNCHANGED <<inode, commits, writes>>
      BY <2>3 DEF EvictMonitor, source
    <3> QED
      BY <2>1, <3>1
  <2> QED
    BY <2>2, <2>3
<1>5. conn' \in Seq([inode : Nat, base : Nat] \cup {None}) /\ monitor' \in 0..Len(conn')
  <2>1. CASE Harness
    BY <2>1 DEF Harness, sqlite, RInv, TypeOK, SharedOK
  <2>2. CASE EvictMonitor
    <3> DEFINE S == [inode : Nat, base : Nat] \cup {None}
    <3>1. /\ conn' = [conn EXCEPT ![monitor] = None] /\ monitor' = 0
          /\ conn \in Seq(S) /\ None \in S
      BY <2>2 DEF EvictMonitor, RInv, TypeOK, SharedOK
    <3> HIDE DEF S
    <3>2. conn' \in Seq(S)
      BY <3>1, SeatRange
    <3>3. Len(conn') \in Nat
      BY <3>2
    <3> QED
      BY <3>1, <3>2, <3>3 DEF S
  <2> QED
    BY <2>1, <2>2
<1>6. SharedOK'
  BY <1>1, <1>3, <1>4, <1>5 DEF RInv, TypeOK, SharedOK
<1>7. FreshRead'
  BY <1>1, <1>2 DEF RInv, FreshRead, Misled, Onward
<1>8. StoreOK'
  <2>1. Range(artifacts) \subseteq Parsed /\ Range(evidence) \subseteq Parsed
    BY RangeMember DEF RInv, TypeOK, SharedOK, Range
  <2> QED
    BY <1>1, <1>2, <1>6, <2>1, SoundStays DEF RInv, TypeOK, StoreOK, Vouched
<1>9. job' \in [Thread -> Job] /\ \A t \in Thread : job'[t] = job[t]
  BY <1>1 DEF RInv, TypeOK
<1> QED
  BY <1>2, <1>6, <1>7, <1>8, <1>9, Moves

LEMMA StepRInv ==
  ASSUME RInv, [Next]_vars
  PROVE  RInv'
<1>1. CASE UNCHANGED vars
  <2>1. UNCHANGED <<text, stamp, slipped, intact, inode, commits, writes, artifacts, invalid, evidence,
                    overflow, flight, monitor, conn, evictions, lastRead, calls, job>>
    BY <1>1 DEF vars
  <2>2. SharedOK' /\ FreshRead' /\ Monitored' /\ job' \in [Thread -> Job]
    BY <2>1 DEF RInv, TypeOK, SharedOK, FreshRead, Misled, Monitored, Reopened
  <2>3. Onward
    BY <2>1, StillOnward DEF RInv, TypeOK
  <2>4. StoreOK'
    BY <2>1 DEF RInv, StoreOK, Sound, Seen, Known, Was, Matches, Vouched, Reopened
  <2> QED
    BY <2>1, <2>2, <2>3, <2>4, Moves
<1>2. ASSUME NEW t \in Thread, Step(t) PROVE RInv'
  <2>1. CASE Woken(t) \/ Raise(t) \/ Look(t) \/ Recheck(t) \/ Publish(t)
    BY <2>1, WokenMoves, RaiseMoves, LookMoves, RecheckMoves, PublishMoves
  <2>2. CASE Stat(t) \/ Hash(t) \/ ParseRead(t) \/ ParseCheck(t) \/ Restat(t)
    BY <2>2, StatMoves, HashMoves, ParseReadMoves, ParseCheckMoves, RestatMoves
  <2>3. CASE Watch(t) \/ Before(t) \/ Scan(t) \/ After(t) \/ Confirm(t)
    BY <2>3, WatchMoves, BeforeMoves, ScanMoves, AfterMoves, ConfirmMoves
  <2>4. CASE VerifyNext(t) \/ VerifyObserve(t) \/ VerifyRevision(t) \/ VerifyConfirm(t)
              \/ VerifyParse(t) \/ VerifyReconfirm(t) \/ Verified(t)
    BY <2>4, VerifyNextMoves, VerifyObserveMoves, VerifyRevisionMoves, VerifyConfirmMoves,
       VerifyParseMoves, VerifiedMoves
  <2> QED
    BY <1>2, <2>1, <2>2, <2>3, <2>4 DEF Step
<1> QED
  BY <1>1, <1>2, SourcesMove, VerifyBeginMoves, BeginMoves DEF Next

LEMMA InitRInv == Init => RInv
<1> SUFFICES ASSUME Init PROVE RInv
  OBVIOUS
<1>1. SharedOK
  <2>1. artifacts = <<>> /\ evidence = <<>> /\ invalid = <<>> /\ conn = <<>> /\ monitor = 0
    BY DEF Init
  <2>2. /\ artifacts \in Seq(Parsed) /\ evidence \in Seq(Parsed) /\ invalid \in Seq([key : Key])
        /\ conn \in Seq([inode : Nat, base : Nat] \cup {None}) /\ Len(conn) = 0
    BY <2>1
  <2>3. lastRead \in [Key -> [text : Nat, low : Nat, kept : BOOLEAN]]
    BY DEF Init
  <2>4. text \in Texts /\ stamp \in [Plain -> Nat] /\ slipped \subseteq Databases /\ intact \in [Key -> BOOLEAN]
    BY DEF Init, Texts
  <2>5. flight \in [Key -> Thread \cup {None}]
    BY DEF Init
  <2>6. monitor \in 0..Len(conn)
    BY <2>1, <2>2
  <2>7. /\ inode \in Nat /\ commits \in Nat /\ overflow \in BOOLEAN
        /\ calls \in Nat /\ writes \in Nat /\ evictions \in Nat
    BY DEF Init
  <2> QED
    BY <2>2, <2>3, <2>4, <2>5, <2>6, <2>7 DEF SharedOK
<1>2. \A t \in Thread : job[t] = Idle
  BY DEF Init
<1>3. TypeOK /\ \A t \in Thread : JobOK(job[t])
  BY <1>1, <1>2, IdleOK DEF Init, TypeOK
<1>4. Monitored
  BY DEF Init, Monitored
<1>5. StoreOK
  <2>1. Range(artifacts) = {} /\ Range(evidence) = {}
    BY DEF Init, Range
  <2> QED
    BY <2>1 DEF Init, StoreOK, Vouched
<1> QED
  BY <1>3, <1>4, <1>5 DEF Init, RInv, FreshRead, Misled

(* Every parse that is cached, kept as evidence, handed to a waiter or held *)
(* by a call is what it says: of a thread of the database, a text that is  *)
(* not newer than the thread and still the thread's text if the            *)
(* observation would be made again, while its monitor has not been closed; *)
(* of an artifact read as a whole, the text whose hash it carries, while   *)
(* commits move the stamp of a SQLite file.  This is so whatever the       *)
(* threads and the harnesses do in between.                                *)
THEOREM ReadsAreSound == Spec => []RInv
  BY InitRInv, StepRInv, PTL DEF Spec

(* The reader's state and every call in it keep their types, "monitor" being *)
(* the number of a monitor that exists.                                    *)
THEOREM TypeCorrectness == Spec => []TypeOK
<1>1. RInv => TypeOK
  BY DEF RInv
<1> QED
  BY <1>1, ReadsAreSound, PTL

(* No answer holds a text older than the source's at the beginning of the  *)
(* call, be it parsed, cached or another thread's: unless the monitor of   *)
(* the T3 database has been closed and opened again, for its threads, or a *)
(* commit left the stamp of a SQLite file, for that file.                  *)
THEOREM AnswersAreFresh == Spec => []FreshRead
<1>1. RInv => FreshRead
  BY DEF RInv
<1> QED
  BY <1>1, ReadsAreSound, PTL

(* When verify_current says yes, no text last answered was older than the  *)
(* source's when the verification began: however many reads, evictions,    *)
(* commits and other verifications go on meanwhile, with the exceptions    *)
(* that VerifiedIsCurrent names.                                           *)
THEOREM VerificationIsHonest == Spec => VerifiedIsCurrent
<1>1. ASSUME RInv, [Next]_vars
      PROVE  [\A t \in Thread :
                job[t].pc = "verify" /\ job[t].todo = <<>> /\ job'[t].pc = "idle" =>
                  \A k \in Key : \/ job[t].used[k] = 0
                                 \/ job[t].used[k] >= job[t].since[k]
                                 \/ Misled(k)]_vars
  <2> SUFFICES ASSUME NEW t \in Thread, job[t].pc = "verify", job[t].todo = <<>>, NEW k \in Key
               PROVE  \/ job[t].used[k] = 0 \/ job[t].used[k] >= job[t].since[k]
                      \/ Misled(k)
    OBVIOUS
  <2>1. Range(job[t].todo) = {}
    BY DEF Range
  <2>2. Settled(job[t], k)
    BY <1>1 DEF RInv, JobOK, VerifyOK, Verifying
  <2>3. job[t].used \in Texts /\ job[t].since \in Texts
    BY <1>1 DEF RInv, JobOK, VerifyOK, Verifying
  <2> QED
    BY <2>1, <2>2, <2>3 DEF Settled, Texts
<1> QED
  BY <1>1, ReadsAreSound, PTL DEF Spec, VerifiedIsCurrent
=============================================================================
