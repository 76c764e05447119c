---------------------------- MODULE SourceReader ----------------------------
(***************************************************************************)
(* source_reader.py: transcripts are read from the harnesses' own files on *)
(* demand, through a process-local cache that several threads share, and   *)
(* an operation asks at its end whether what it used is still current.     *)
(*                                                                         *)
(* A key is one entry of the reader: a plain artifact (a JSONL file, a     *)
(* composite source, or a SQLite file read as a whole), or one thread of   *)
(* the T3 state database, which is read on its own while the others are    *)
(* being written.  A text is a version number; what the code compares by   *)
(* hash is equality of versions; the hash of an artifact is taken after    *)
(* the parse, and of a SQLite file nothing but its stamp says that it is   *)
(* of the text that was parsed.  The row of the session and its checkpoint *)
(* do not change here: ingesting gives the artifact a new key.             *)
(***************************************************************************)
EXTENDS Integers, SequencesExt

CONSTANTS
  Thread,     \* threads that share the reader
  Plain,      \* artifacts read as a whole
  Databases,  \* those of them that are SQLite files
  Targeted,   \* threads of the T3 state database
  MaxEntries, \* max_entries: capacity of the cache and of the invalid set
  Capacity,   \* _verification_capacity
  MaxTries,   \* attempts of a read that keeps being overtaken (3 in the code)
  MaxCalls,   \* bound: reads and verifications begun
  MaxWrites,  \* bound: changes made to the sources
  MaxEvictions \* bound: times the database's monitor is evicted

ASSUME CapacityAssumption == {MaxEntries, Capacity, MaxTries} \subseteq Nat \ {0}
ASSUME KeyAssumption == Plain \cap Targeted = {} /\ Databases \subseteq Plain

Key == Plain \cup Targeted
None == [none |-> TRUE]

VARIABLES
  text,      \* Key -> version of the transcript in the source
  stamp,     \* Plain -> what file_stat returns: size and modification time
  slipped,   \* history: Databases that a commit which left their stamp changed
             \*   between a parse and its check
  intact,    \* Key -> the source still extends what was ingested
  inode,     \* identity of the T3 database file
  commits,   \* commits made to it
  artifacts, \* _artifacts: cached parses, least recently used first
  invalid,   \* _invalid_artifacts, oldest first
  evidence,  \* _verification_evidence, oldest first
  overflow,  \* _verification_overflow
  flight,    \* _flights: Key -> the thread that reads it, or None
  monitor,   \* _revision_monitors[database]: number of the monitor object, or 0
  conn,      \* monitor object -> its connection, or None
  job,       \* Thread -> the call it is in
  lastRead,  \* Key -> history: the last ready answer, the text at its call, and
             \*   whether the evidence is still of that answer
  calls, writes, evictions \* how much of the bounds is used up

vars == <<text, stamp, slipped, intact, inode, commits, artifacts, invalid, evidence,
          overflow, flight, monitor, conn, job, lastRead, calls, writes, evictions>>
source == <<text, stamp, slipped, intact, inode, commits, writes>>
store == <<artifacts, invalid, evidence, overflow>>
sqlite == <<monitor, conn, evictions>>

(***************************************************************************)
(* The ordered dictionaries are sequences of records with a field "key".   *)
(***************************************************************************)
Holds(d, k) == \E i \in DOMAIN d : d[i].key = k
Place(d, k) == CHOOSE i \in DOMAIN d : d[i].key = k
Entry(d, k) == IF Holds(d, k) THEN d[Place(d, k)] ELSE None
Without(d, k) == IF Holds(d, k) THEN RemoveAt(d, Place(d, k)) ELSE d
Newest(d, n) == IF Len(d) > n THEN SubSeq(d, Len(d) - n + 1, Len(d)) ELSE d

(* A cached parse, or the evidence kept of it: "hash" is the version the   *)
(* hash was taken of (a thread's comes from the parse itself and is left   *)
(* out); "ok" says that the parse holds the session once and extends its   *)
(* stored messages.                                                        *)
Parse(k, r, v, o) == [key |-> k, rev |-> r, text |-> v, hash |-> 0, obs |-> o, ok |-> TRUE]

(* A thread that is in no call; the fields a step does not need keep these *)
(* values.                                                                 *)
Idle == [pc |-> "idle", key |-> None, low |-> 0, owner |-> FALSE, shared |-> None,
         stored |-> None, tries |-> 0, mon |-> 0, got |-> None, seen |-> None,
         todo |-> <<>>, since |-> None, used |-> None]

Init ==
  /\ text = [k \in Key |-> 1] /\ stamp = [k \in Plain |-> 1] /\ slipped = {}
  /\ intact = [k \in Key |-> TRUE]
  /\ inode = 1 /\ commits = 0
  /\ artifacts = <<>> /\ invalid = <<>> /\ evidence = <<>> /\ overflow = FALSE
  /\ flight = [k \in Key |-> None]
  /\ monitor = 0 /\ conn = <<>>
  /\ job = [t \in Thread |-> Idle]
  /\ lastRead = [k \in Key |-> [text |-> 0, low |-> 0, kept |-> TRUE]]
  /\ calls = 0 /\ writes = 0 /\ evictions = 0

-----------------------------------------------------------------------------
(***************************************************************************)
(* The sources.  A harness appends to or rewrites a plain file; a rewrite  *)
(* of equal size that restores the modification time leaves the stamp, as  *)
(* does a commit to a SQLite file that overwrites frames of its log within *)
(* one tick of the clock.                                                  *)
(* Every commit to the T3 database advances the data version that other    *)
(* connections see; it may or may not concern a thread that is read here.  *)
(***************************************************************************)
InParse(k) == \E t \in Thread : job[t].pc = "check" /\ job[t].key = k

Write(k) ==
  /\ k \in Plain
  /\ text' = [text EXCEPT ![k] = @ + 1]
  /\ \E moves, extends \in BOOLEAN :
       /\ stamp' = IF moves THEN [stamp EXCEPT ![k] = @ + 1] ELSE stamp
       /\ slipped' = IF ~moves /\ k \in Databases /\ InParse(k)
                     THEN slipped \cup {k} ELSE slipped
       /\ intact' = [intact EXCEPT ![k] = @ /\ extends]
  /\ UNCHANGED <<inode, commits>>

Commit(K) ==
  /\ commits' = commits + 1
  /\ text' = [k \in Key |-> IF k \in K THEN text[k] + 1 ELSE text[k]]
  /\ \E extends \in BOOLEAN :
       intact' = [k \in Key |-> IF k \in K THEN intact[k] /\ extends ELSE intact[k]]
  /\ UNCHANGED <<stamp, slipped, inode>>

(* Another database takes the place of the file. *)
Replace ==
  /\ inode' = inode + 1
  /\ text' = [k \in Key |-> IF k \in Targeted THEN text[k] + 1 ELSE text[k]]
  /\ UNCHANGED <<stamp, slipped, intact, commits>>

Harness ==
  /\ writes < MaxWrites /\ writes' = writes + 1
  /\ \/ \E k \in Plain : Write(k)
     \/ Targeted # {} /\ \E K \in SUBSET Targeted : Commit(K)
     \/ Targeted # {} /\ Replace
  /\ UNCHANGED <<store, flight, sqlite, job, lastRead, calls>>

-----------------------------------------------------------------------------
(***************************************************************************)
(* The revision monitor of the database: a read-only connection that stays *)
(* open.  PRAGMA data_version counts, from one, the commits of others that *)
(* this connection has seen; the numbers of two connections say nothing    *)
(* about each other.                                                       *)
(***************************************************************************)
Opened(i) == IF conn[i] = None \/ conn[i].inode # inode
             THEN [inode |-> inode, base |-> commits] ELSE conn[i]
Observation(c) == [inode |-> inode, version |-> commits - c.base + 1]

(* _sqlite_monitor: the monitor of the path, made if it is not there. *)
GetMonitor ==
  /\ UNCHANGED evictions
  /\ IF monitor = 0
     THEN /\ conn' = Append(conn, None) /\ monitor' = Len(conn) + 1
     ELSE UNCHANGED <<monitor, conn>>

Observe(i) == conn' = [conn EXCEPT ![i] = Opened(i)]

Confirms(i, o) ==
  /\ conn[i] # None /\ inode = o.inode
  /\ commits - conn[i].base + 1 = o.version

(* More than MaxEntries databases are read: this one's monitor is closed,  *)
(* whichever thread is between observing and confirming.                   *)
EvictMonitor ==
  /\ monitor # 0 /\ evictions < MaxEvictions /\ evictions' = evictions + 1
  /\ conn' = [conn EXCEPT ![monitor] = None] /\ monitor' = 0
  /\ UNCHANGED <<source, store, flight, job, lastRead, calls>>

-----------------------------------------------------------------------------
(***************************************************************************)
(* _read_source_transcript.  A SQLite source has no byte checkpoint.       *)
(***************************************************************************)
CheckpointIsCurrent(k) == k \in Targeted \cup Databases \/ intact[k]

Look0(k, low, shared, owner) ==
  [Idle EXCEPT !.pc = "look", !.key = k, !.low = low, !.shared = shared, !.owner = owner,
               !.tries = MaxTries]

Begin(t, k) ==
  /\ job[t].pc = "idle" /\ calls < MaxCalls /\ calls' = calls + 1
  /\ CheckpointIsCurrent(k)
  /\ IF flight[k] = None
     THEN /\ job' = [job EXCEPT ![t] = Look0(k, text[k], None, TRUE)]
          /\ flight' = [flight EXCEPT ![k] = t]
     ELSE /\ job' = [job EXCEPT ![t] = [Idle EXCEPT !.pc = "wait", !.key = k, !.low = text[k]]]
          /\ UNCHANGED flight
  /\ UNCHANGED <<source, store, sqlite, lastRead>>

(* The end of a call.  _finish_flight runs in a finally: those who wait    *)
(* wake with what the flight has parsed, if it has parsed anything.        *)
FinishFlight(t, parsed) ==
  LET k == job[t].key
      woken(w) == job[t].owner /\ job[w].pc = "wait" /\ job[w].key = k
  IN /\ flight' = IF job[t].owner THEN [flight EXCEPT ![k] = None] ELSE flight
     /\ job' = [w \in Thread |->
                  IF w = t THEN Idle
                  ELSE IF woken(w) THEN [job[w] EXCEPT !.pc = "woken", !.shared = parsed]
                  ELSE job[w]]

(* A waiter starts over, without a flight of its own. *)
Woken(t) ==
  /\ job[t].pc = "woken"
  /\ job' = [job EXCEPT ![t] = IF CheckpointIsCurrent(@.key)
                                THEN Look0(@.key, @.low, @.shared, FALSE) ELSE Idle]
  /\ UNCHANGED <<source, store, flight, sqlite, lastRead, calls>>

\* Faulty: a flight is finished only when the read succeeds.
RaiseKeepsFlight(t) ==
  /\ job[t].pc \in {"stat", "hash", "parse", "check", "restat",
                     "observe", "before", "scan", "after", "confirm"}
  /\ job' = [job EXCEPT ![t] = Idle]
  /\ UNCHANGED <<source, store, flight, sqlite, lastRead, calls>>

(* Reading raises: the file is gone, or the database cannot be opened. *)
Raise(t) ==
  /\ job[t].pc \in {"stat", "hash", "parse", "check", "restat",
                     "observe", "before", "scan", "after", "confirm"}
  /\ FinishFlight(t, None)
  /\ UNCHANGED <<source, store, sqlite, lastRead, calls>>

(* _get_artifact moves what it finds to the end; what the flight this      *)
(* thread waited for has parsed is the second choice.                      *)
Look(t) ==
  LET k == job[t].key
      found == IF Holds(invalid, k) THEN None ELSE Entry(artifacts, k)
  IN /\ job[t].pc = "look"
     /\ artifacts' = IF found = None THEN artifacts ELSE Append(Without(artifacts, k), found)
     /\ IF k \in Targeted THEN GetMonitor ELSE UNCHANGED sqlite
     /\ job' = [job EXCEPT ![t].pc = IF k \in Targeted THEN "observe" ELSE "stat",
                           ![t].stored = found, ![t].mon = monitor',
                           ![t].shared = IF found = None THEN @ ELSE found]
     /\ UNCHANGED <<source, invalid, evidence, overflow, flight, lastRead, calls>>

-----------------------------------------------------------------------------
(***************************************************************************)
(* A plain artifact.  "shared" is now the cached parse, if there is one;   *)
(* "got" what this call will answer with.                                  *)
(***************************************************************************)
Goto(t, pc) == job' = [job EXCEPT ![t].pc = pc]
(* The answer is in hand; only "got" and what the cache gave matter now. *)
Got(t, e) ==
  job' = [job EXCEPT ![t] = [@ EXCEPT !.pc = "recheck", !.got = e, !.shared = None,
                                      !.seen = None, !.mon = 0, !.tries = 0]]
Local == UNCHANGED <<source, store, flight, sqlite, lastRead, calls>>
LocalSqlite == UNCHANGED <<source, store, flight, lastRead, calls>>

Stat(t) ==
  LET j == job[t] IN
  /\ j.pc = "stat" /\ Local
  /\ Goto(t, IF j.shared # None /\ j.shared.rev = stamp[j.key] THEN "hash" ELSE "parse")

\* Faulty: a cached parse is taken for current by its stamp.
HashByStamp(t) == job[t].pc = "hash" /\ Local /\ Got(t, job[t].shared)

(* The stamp alone does not make a cached parse current. *)
Hash(t) ==
  LET j == job[t] IN
  /\ j.pc = "hash" /\ Local
  /\ IF text[j.key] = j.shared.hash
     THEN Got(t, j.shared)
     ELSE Goto(t, "parse")

(* _parse_current: the file is read between two looks at its stamp and     *)
(* hashed after the second.  The text of a SQLite file is not held against *)
(* that hash.                                                              *)
ParseRead(t) ==
  LET k == job[t].key IN
  /\ job[t].pc = "parse" /\ Local
  /\ job' = [job EXCEPT ![t].pc = "check",
                        ![t].got = [Parse(k, stamp[k], text[k], None) EXCEPT !.ok = intact[k]]]

Stable(j) == /\ j.got.rev = stamp[j.key]
             /\ j.key \in Databases \/ j.got.text = text[j.key]

ParseCheck(t) ==
  LET j == job[t] IN
  /\ j.pc = "check"
  /\ CASE Stable(j) ->
            /\ job' = [job EXCEPT ![t].pc = "restat", ![t].got.hash = text[j.key]]
            /\ UNCHANGED flight
       [] ~Stable(j) /\ j.tries > 1 ->
            /\ job' = [job EXCEPT ![t].pc = "parse", ![t].tries = @ - 1]
            /\ UNCHANGED flight
       [] OTHER -> FinishFlight(t, None)
  /\ UNCHANGED <<source, store, sqlite, lastRead, calls>>

(* The revision is taken again after the parse. *)
Restat(t) ==
  /\ job[t].pc = "restat" /\ Local
  /\ Got(t, [job[t].got EXCEPT !.rev = stamp[job[t].key]])

-----------------------------------------------------------------------------
(***************************************************************************)
(* _read_targeted_t3: one thread of the database.  The thread's own        *)
(* revision covers every row the parse reads.                              *)
(***************************************************************************)
Watch(t) ==
  LET j == job[t]
      o == Observation(Opened(j.mon))
  IN /\ j.pc = "observe" /\ LocalSqlite
     /\ Observe(j.mon) /\ UNCHANGED <<monitor, evictions>>
     /\ IF j.shared # None /\ j.shared.obs = o
        THEN Got(t, j.shared)
        ELSE job' = [job EXCEPT ![t].pc = "before", ![t].seen = o]

Before(t) ==
  LET j == job[t]
      v == text[j.key]
  IN /\ j.pc = "before" /\ Local
     /\ job' = [job EXCEPT ![t].pc = IF j.shared # None /\ j.shared.rev = v
                                     THEN "confirm" ELSE "scan",
                 ![t].got = IF j.shared # None /\ j.shared.rev = v
                            THEN [j.shared EXCEPT !.obs = j.seen]
                            ELSE Parse(j.key, v, 0, j.seen)]

Scan(t) ==
  LET k == job[t].key IN
  /\ job[t].pc = "scan" /\ Local
  /\ job' = [job EXCEPT ![t].pc = "after", ![t].got.text = text[k], ![t].got.ok = intact[k]]

(* A thread that changed while it was read is refused at once. *)
After(t) ==
  LET j == job[t] IN
  /\ j.pc = "after"
  /\ IF text[j.key] # j.got.rev THEN FinishFlight(t, None)
     ELSE Goto(t, "confirm") /\ UNCHANGED flight
  /\ UNCHANGED <<source, store, sqlite, lastRead, calls>>

Confirm(t) ==
  LET j == job[t] IN
  /\ j.pc = "confirm"
  /\ CASE Confirms(j.mon, j.seen) -> Got(t, j.got) /\ UNCHANGED flight
       [] ~Confirms(j.mon, j.seen) /\ j.tries > 1 ->
            /\ job' = [job EXCEPT ![t].pc = "observe", ![t].tries = @ - 1]
            /\ UNCHANGED flight
       [] OTHER -> FinishFlight(t, None)
  /\ UNCHANGED <<source, store, sqlite, lastRead, calls>>

-----------------------------------------------------------------------------
(***************************************************************************)
(* The answer.  The checkpoint is looked at again, then what was parsed is *)
(* held against the messages stored for the session.                       *)
(***************************************************************************)
Dropped(k) ==
  /\ invalid' = Newest(Append(Without(invalid, k), [key |-> k]), MaxEntries)
  /\ artifacts' = Without(artifacts, k)
  /\ UNCHANGED <<evidence, overflow>>

Recheck(t) ==
  LET j == job[t] IN
  /\ j.pc = "recheck"
  /\ IF CheckpointIsCurrent(j.key)
     THEN /\ Goto(t, "publish") /\ UNCHANGED <<store, flight>>
     ELSE /\ Dropped(j.key) /\ FinishFlight(t, None)
  /\ UNCHANGED <<source, sqlite, lastRead, calls>>

(* _put_artifact, left out when the cache gave exactly this parse. *)
Put(k, e, stored) ==
  IF e = stored THEN UNCHANGED <<artifacts, invalid>>
  ELSE /\ artifacts' = Newest(Append(Without(artifacts, k), e), MaxEntries)
       /\ invalid' = Without(invalid, k)

\* Faulty: the oldest evidence is lost silently.
RecordForgets(k, e) ==
  LET full == ~Holds(evidence, k) /\ Len(evidence) >= Capacity IN
  /\ evidence' = Append(Without(IF full THEN Tail(evidence) ELSE evidence, k), e)
  /\ UNCHANGED overflow

(* _record_verification: beyond the capacity the oldest evidence is lost,  *)
(* and that is remembered.                                                 *)
Record(k, e) ==
  LET full == ~Holds(evidence, k) /\ Len(evidence) >= Capacity IN
  /\ evidence' = Append(Without(IF full THEN Tail(evidence) ELSE evidence, k), e)
  /\ overflow' = (overflow \/ full)

Publish(t) ==
  LET j == job[t]
      k == j.key
  IN /\ j.pc = "publish"
     /\ IF j.got.ok
        THEN /\ Put(k, j.got, j.stored) /\ Record(k, j.got)
             /\ lastRead' = [lastRead EXCEPT ![k] = [text |-> j.got.text, low |-> j.low,
                                                     kept |-> TRUE]]
        ELSE Dropped(k) /\ UNCHANGED lastRead
     /\ FinishFlight(t, j.got)
     /\ UNCHANGED <<source, sqlite, calls>>

-----------------------------------------------------------------------------
(***************************************************************************)
(* verify_current: the evidence is copied under the lock and gone through  *)
(* without it.  What is invalid or was forgotten cannot be verified.       *)
(***************************************************************************)
Vouched(k) == IF lastRead[k].kept THEN lastRead[k].text ELSE 0

VerifyBegin(t) ==
  /\ job[t].pc = "idle" /\ calls < MaxCalls /\ calls' = calls + 1
  /\ invalid = <<>> /\ ~overflow
  /\ job' = [job EXCEPT ![t] = [Idle EXCEPT !.pc = "verify", !.todo = evidence, !.since = text,
                                           !.used = [k \in Key |-> Vouched(k)]]]
  /\ UNCHANGED <<source, store, flight, sqlite, lastRead>>

Refused(t) == job' = [job EXCEPT ![t] = Idle]
Checked(t) ==
  job' = [job EXCEPT ![t] = [@ EXCEPT !.pc = "verify", !.todo = Tail(job[t].todo), !.got = None,
                                      !.seen = None, !.mon = 0]]

VerifyNext(t) ==
  LET j == job[t]
      e == Head(j.todo)
  IN /\ j.pc = "verify" /\ j.todo # <<>> /\ LocalSqlite
     /\ IF e.key \in Plain
        THEN /\ UNCHANGED sqlite
             /\ IF stamp[e.key] = e.rev /\ text[e.key] = e.hash THEN Checked(t) ELSE Refused(t)
        ELSE /\ GetMonitor
             /\ job' = [job EXCEPT ![t].pc = "v-observe", ![t].mon = monitor']

VerifyObserve(t) ==
  LET j == job[t]
      o == Observation(Opened(j.mon))
  IN /\ j.pc = "v-observe" /\ LocalSqlite
     /\ Observe(j.mon) /\ UNCHANGED <<monitor, evictions>>
     /\ IF Head(j.todo).obs = o THEN Checked(t)
        ELSE job' = [job EXCEPT ![t].pc = "v-revision", ![t].seen = o]

(* The revision alone is enough, if no commit came after the observation;  *)
(* if it is another one, or one came, the thread is parsed again.          *)
VerifyRevision(t) ==
  LET j == job[t]
      e == Head(j.todo)
  IN /\ j.pc = "v-revision" /\ Local
     /\ job' = [job EXCEPT ![t].pc = IF text[e.key] = e.rev THEN "v-confirm" ELSE "v-parse",
                           ![t].got = [e EXCEPT !.rev = text[e.key], !.obs = j.seen]]

(* _refresh_verification: evidence that has been forgotten stays so.  What *)
(* a read recorded meanwhile is overwritten, another text included.        *)
Refreshed(e) ==
  IF Holds(evidence, e.key)
  THEN /\ evidence' = Append(Without(evidence, e.key), e)
       /\ lastRead' = [lastRead EXCEPT ![e.key].kept = (lastRead[e.key].text = e.text)]
  ELSE UNCHANGED <<evidence, lastRead>>

VerifyConfirm(t) ==
  LET j == job[t] IN
  /\ j.pc = "v-confirm"
  /\ IF Confirms(j.mon, j.seen)
     THEN Refreshed(j.got) /\ Checked(t)
     ELSE UNCHANGED <<evidence, lastRead>> /\ Goto(t, "v-parse")
  /\ UNCHANGED <<source, artifacts, invalid, overflow, flight, sqlite, calls>>

VerifyParse(t) ==
  LET j == job[t] IN
  /\ j.pc = "v-parse" /\ Local
  /\ IF text[j.got.key] = j.got.text THEN Goto(t, "v-reconfirm") ELSE Refused(t)

VerifyReconfirm(t) ==
  LET j == job[t] IN
  /\ j.pc = "v-reconfirm"
  /\ IF Confirms(j.mon, j.seen)
     THEN Refreshed(j.got) /\ Checked(t)
     ELSE UNCHANGED <<evidence, lastRead>> /\ Refused(t)
  /\ UNCHANGED <<source, artifacts, invalid, overflow, flight, sqlite, calls>>

(* Every source was as the evidence says. *)
Verified(t) ==
  /\ job[t].pc = "verify" /\ job[t].todo = <<>>
  /\ Refused(t) /\ Local

-----------------------------------------------------------------------------
Step(t) ==
  \/ Woken(t) \/ Raise(t) \/ Look(t)
  \/ Stat(t) \/ Hash(t) \/ ParseRead(t) \/ ParseCheck(t) \/ Restat(t)
  \/ Watch(t) \/ Before(t) \/ Scan(t) \/ After(t) \/ Confirm(t)
  \/ Recheck(t) \/ Publish(t)
  \/ VerifyNext(t) \/ VerifyObserve(t) \/ VerifyRevision(t) \/ VerifyConfirm(t)
  \/ VerifyParse(t) \/ VerifyReconfirm(t) \/ Verified(t)

Next ==
  \/ Harness \/ EvictMonitor
  \/ \E t \in Thread : Step(t) \/ VerifyBegin(t) \/ \E k \in Key : Begin(t, k)

Spec == Init /\ [][Next]_vars

-----------------------------------------------------------------------------
(* Types.  A parse of a plain artifact has no observation.                 *)
PCs == {"idle", "wait", "woken", "look", "stat", "hash", "parse", "check", "restat",
        "observe", "before", "scan", "after", "confirm", "recheck", "publish",
        "verify", "v-observe", "v-revision", "v-confirm", "v-parse", "v-reconfirm"}
Obs == [inode : Nat, version : Int]
Parsed == [key : Key, rev : Nat, text : Nat, hash : Nat, obs : Obs \cup {None}, ok : BOOLEAN]
Texts == [Key -> Nat]
Job == [pc : PCs, key : Key \cup {None}, low : Nat, owner : BOOLEAN,
        shared : Parsed \cup {None}, stored : Parsed \cup {None}, tries : Nat,
        mon : Nat, got : Parsed \cup {None}, seen : Obs \cup {None},
        todo : Seq(Parsed), since : Texts \cup {None}, used : Texts \cup {None}]

SharedOK ==
  /\ text \in Texts /\ stamp \in [Plain -> Nat] /\ slipped \subseteq Databases
  /\ intact \in [Key -> BOOLEAN]
  /\ inode \in Nat /\ commits \in Nat
  /\ artifacts \in Seq(Parsed) /\ evidence \in Seq(Parsed)
  /\ invalid \in Seq([key : Key]) /\ overflow \in BOOLEAN
  /\ flight \in [Key -> Thread \cup {None}]
  /\ conn \in Seq([inode : Nat, base : Nat] \cup {None}) /\ monitor \in 0..Len(conn)
  /\ lastRead \in [Key -> [text : Nat, low : Nat, kept : BOOLEAN]]
  /\ calls \in Nat /\ writes \in Nat /\ evictions \in Nat
TypeOK == SharedOK /\ job \in [Thread -> Job]

(* The monitor was closed and opened again, and data versions of two       *)
(* connections may have been taken for each other.                         *)
Reopened == evictions > 0

(* Or a commit to a SQLite file left its stamp while the file was parsed,  *)
(* and the hash taken then is of a newer text than the one parsed.         *)
Misled(k) == (k \in Targeted /\ Reopened) \/ k \in slipped

(* An answer "ready" holds a text that the source had at some moment of    *)
(* the call, whether it was parsed, taken from the cache, or taken from a  *)
(* flight that began before the call did; but where the code is Misled.    *)
FreshRead ==
  \A k \in Key : lastRead[k].text >= lastRead[k].low \/ Misled(k)

(* When verify_current says yes, the text last answered for every key was  *)
(* the source's text at some moment of the verification: what is forgotten *)
(* is not passed over.  Excepted is an answer whose evidence another       *)
(* verification has overwritten with a text it had copied before, and a    *)
(* key about which the code is Misled.                                     *)
VerifiedIsCurrent ==
  [][\A t \in Thread :
       job[t].pc = "verify" /\ job[t].todo = <<>> /\ job'[t].pc = "idle" =>
         \A k \in Key : \/ job[t].used[k] = 0
                        \/ job[t].used[k] >= job[t].since[k]
                        \/ Misled(k)]_vars

(* Whoever waits will be woken: a flight for the key is under way, and the *)
(* thread that owns it is inside a call for that key.  This must survive   *)
(* every way in which that call can end.                                   *)
WaitersHaveAFlight ==
  \A t \in Thread : job[t].pc = "wait" =>
    \E w \in Thread : flight[job[t].key] = w /\ job[w].owner /\ job[w].key = job[t].key
=============================================================================
