---------------------------- MODULE PresenceFile ----------------------------
(***************************************************************************)
(* Live presence in the watch daemon (watch/presence.py): a map of the     *)
(* sessions seen alive, under a lock, with a generation that grows with    *)
(* every change.  The observer's thread and the heartbeat's each take      *)
(* snapshots of it, in three critical sections, and replace presence.json  *)
(* outside the lock, so that an older snapshot may replace a newer one.    *)
(* Every start of the daemon is a new epoch.                               *)
(*                                                                         *)
(* What is known of a session is the generation of the activity it was     *)
(* last noted with; 0 stands for a session that is not in the map.         *)
(***************************************************************************)
EXTENDS Naturals

CONSTANTS
    Sessions,    \* the sessions whose transcripts may move
    MaxNotes,    \* bound: activities noted
    MaxEpoch     \* bound: starts of the daemon

ASSUME FileBounds == {MaxNotes, MaxEpoch} \subseteq Nat

Writers == {"observer", "heartbeat"}
Empty   == [s \in Sessions |-> 0]
NoEpoch == 0

VARIABLES
    alive, epoch,
    generation, entries,   \* the map, under its lock
    notes,                 \* activities noted so far
    pc, draft,             \* Writers -> the write_state_file under way
    file                   \* presence.json

vars == <<alive, epoch, generation, entries, notes, pc, draft, file>>

\* listed is history, which no code reads: the generation the map had when
\* the sessions were listed.
NoDraft  == [generation |-> 0, sessions |-> Empty, listed |-> 0]
NoFile   == [epoch |-> NoEpoch, generation |-> 0, sessions |-> Empty,
             listed |-> 0]

Init ==
    /\ alive = FALSE /\ epoch = NoEpoch
    /\ generation = 0 /\ entries = Empty /\ notes = 0
    /\ pc = [w \in Writers |-> "idle"] /\ draft = [w \in Writers |-> NoDraft]
    /\ file = NoFile

Goto(w, l) == pc' = [pc EXCEPT ![w] = l]

\* start() writes the file, and then starts the observer.
Start ==
    /\ ~alive /\ epoch < MaxEpoch
    /\ alive' = TRUE /\ epoch' = epoch + 1
    /\ generation' = 0 /\ entries' = Empty
    /\ Goto("observer", "expire")
    /\ UNCHANGED <<notes, draft, file>>

\* The process ends anywhere; stop() is a heartbeat before that.
Die ==
    /\ alive /\ alive' = FALSE
    /\ pc' = [w \in Writers |-> "idle"]
    /\ draft' = [w \in Writers |-> NoDraft]
    /\ UNCHANGED <<epoch, generation, entries, notes, file>>

\* note_activity up to the end of its critical section.  A transcript is
\* looked at by one thread, which peeks at it before the lock: a change in
\* between has an event, and so a call, of its own.
NoteActivity(s) ==
    /\ alive /\ pc["observer"] = "idle" /\ notes < MaxNotes
    /\ notes' = notes + 1
    /\ generation' = generation + 1
    /\ entries' = [entries EXCEPT ![s] = generation + 1]
    /\ Goto("observer", "expire")
    /\ UNCHANGED <<alive, epoch, draft, file>>

\* Faulty: sessions are dropped and the generation is not moved.
ExpireQuietly ==
    \E idle \in SUBSET {s \in Sessions : entries[s] # 0} :
        /\ entries' = [s \in Sessions |-> IF s \in idle THEN 0 ELSE entries[s]]
        /\ generation' = generation

\* Some of the entries are past the active window: which ones is left open.
Expire ==
    \E idle \in SUBSET {s \in Sessions : entries[s] # 0} :
        /\ entries' = [s \in Sessions |-> IF s \in idle THEN 0 ELSE entries[s]]
        /\ generation' = IF idle = {} THEN generation ELSE generation + 1

\* Faulty: the file is written only when there was something to expire.
HeartbeatIfRemoved ==
    /\ alive /\ pc["heartbeat"] = "idle"
    /\ Expire /\ entries' # entries
    /\ Goto("heartbeat", "expire")
    /\ UNCHANGED <<alive, epoch, notes, draft, file>>

Heartbeat ==
    /\ alive /\ pc["heartbeat"] = "idle"
    /\ Expire
    /\ Goto("heartbeat", "expire")
    /\ UNCHANGED <<alive, epoch, notes, draft, file>>

\* snapshot(): active() expires, then lists, each under the lock; the
\* generation is read under the lock once more.
SnapshotExpires(w) ==
    /\ pc[w] = "expire"
    /\ Expire
    /\ Goto(w, "list")
    /\ UNCHANGED <<alive, epoch, notes, draft, file>>

SnapshotLists(w) ==
    /\ pc[w] = "list"
    /\ draft' = [draft EXCEPT ![w].sessions = entries,
                              ![w].listed = generation]
    /\ Goto(w, "label")
    /\ UNCHANGED <<alive, epoch, generation, entries, notes, file>>

\* Faulty: the label continues the number found in the file.
SnapshotLabelsFromFile(w) ==
    /\ pc[w] = "label"
    /\ draft' = [draft EXCEPT ![w].generation = file.generation + 1]
    /\ Goto(w, "replace")
    /\ UNCHANGED <<alive, epoch, generation, entries, notes, file>>

SnapshotLabels(w) ==
    /\ pc[w] = "label"
    /\ draft' = [draft EXCEPT ![w].generation = generation]
    /\ Goto(w, "replace")
    /\ UNCHANGED <<alive, epoch, generation, entries, notes, file>>

\* atomic_write_json.  heartbeat() takes another snapshot afterwards, of
\* which only the expiry leaves a trace.
ReplaceFile(w) ==
    /\ pc[w] = "replace"
    /\ file' = [epoch |-> epoch, generation |-> draft[w].generation,
                sessions |-> draft[w].sessions, listed |-> draft[w].listed]
    /\ IF w = "heartbeat" THEN Expire ELSE UNCHANGED <<generation, entries>>
    /\ Goto(w, "idle")
    /\ draft' = [draft EXCEPT ![w] = NoDraft]
    /\ UNCHANGED <<alive, epoch, notes>>

\* The write raises; both callers catch it.
ReplaceFails(w) ==
    /\ pc[w] = "replace"
    /\ Goto(w, "idle")
    /\ draft' = [draft EXCEPT ![w] = NoDraft]
    /\ UNCHANGED <<alive, epoch, generation, entries, notes, file>>

WriterStep(w) ==
    \/ SnapshotExpires(w) \/ SnapshotLists(w) \/ SnapshotLabels(w)
    \/ ReplaceFile(w) \/ ReplaceFails(w)

Next ==
    \/ Start \/ Die \/ Heartbeat
    \/ \E s \in Sessions : NoteActivity(s)
    \/ \E w \in Writers : WriterStep(w)

Spec == Init /\ [][Next]_vars

\* The threads go on, and the heartbeat's write does not fail for ever.
Fairness ==
    /\ \A w \in Writers : WF_vars(WriterStep(w))
    /\ WF_vars(Heartbeat) /\ SF_vars(ReplaceFile("heartbeat"))

FairSpec == Spec /\ Fairness

----------------------------------------------------------------------------
(* Properties *)

TypeOK ==
    /\ alive \in BOOLEAN /\ epoch \in 0..MaxEpoch /\ notes \in 0..MaxNotes
    /\ generation \in Nat /\ entries \in [Sessions -> Nat]
    /\ pc \in [Writers -> {"idle", "expire", "list", "label", "replace"}]
    /\ draft \in [Writers -> [generation : Nat, sessions : [Sessions -> Nat],
                              listed : Nat]]
    /\ file \in [epoch : 0..MaxEpoch, generation : Nat,
                 sessions : [Sessions -> Nat], listed : Nat]

\* (An activity adds a generation, and so does the expiry of the session it
\* noted: an epoch has at most twice as many as there are activities.)
\*
\* What the file lists was the whole truth at its own generation or at an
\* earlier one (snapshot() lists before it labels): the labels by which
\* readers refuse older copies are right, whatever overwrites what.
Log == INSTANCE PresenceLog WITH
    MaxGeneration <- 2 * MaxNotes,
    file <- [epoch |-> file.epoch, generation |-> file.generation,
             listed |-> file.listed]
LabelsAreRight == Log!LogSpec

\* Within one life of the daemon, a generation number stands for one content
\* of the map (note_activity and expire move both in one critical section):
\* copies with the number of the present list exactly what is known now.
NumberMeansContent ==
    /\ alive /\ file.epoch = epoch /\ file.listed = generation
         => file.sessions = entries
    /\ \A w \in Writers :
         pc[w] \in {"label", "replace"} /\ draft[w].listed = generation
           => draft[w].sessions = entries

\* When activities have ceased the file comes to list what a running daemon
\* knows, and stays so, whatever was overwritten by a late writer or failed to
\* be written before (heartbeat() writes even if nothing expired).
FileSettles ==
    <>[](alive => /\ file.epoch = epoch /\ file.generation = generation
                  /\ file.sessions = entries)

=============================================================================
