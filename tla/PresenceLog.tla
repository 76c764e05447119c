---------------------------- MODULE PresenceLog ----------------------------
(***************************************************************************)
(* What the dashboard may expect of presence.json, abstractly.  Daemons    *)
(* follow one another; each numbers the states of what it knows, and       *)
(* writes, in any order, labelled copies of them.  A copy is never newer   *)
(* than its label.  A state is represented by its number, 0 at the start:  *)
(* what a daemon knows changes only together with the number.              *)
(***************************************************************************)
EXTENDS Naturals

CONSTANTS
    MaxEpoch,        \* bound: starts of the daemon
    MaxGeneration    \* bound: changes in one life of it

ASSUME LogBounds == {MaxEpoch, MaxGeneration} \subseteq Nat

VARIABLES alive, epoch, generation, file

log == <<alive, epoch, generation, file>>

NoEpoch == 0         \* JSON null: nobody has written yet

LogInit ==
    /\ alive = FALSE /\ epoch = NoEpoch /\ generation = 0
    /\ file = [epoch |-> NoEpoch, generation |-> 0, listed |-> 0]

LogStart ==
    /\ ~alive /\ epoch < MaxEpoch
    /\ alive' = TRUE /\ epoch' = epoch + 1 /\ generation' = 0
    /\ UNCHANGED file

LogDie == alive /\ alive' = FALSE /\ UNCHANGED <<epoch, generation, file>>

LogChange ==
    /\ alive /\ generation < MaxGeneration
    /\ generation' = generation + 1
    /\ UNCHANGED <<alive, epoch, file>>

LogWrite ==
    /\ alive
    /\ \E g \in 0..generation, l \in 0..generation :
         l <= g /\ file' = [epoch |-> epoch, generation |-> g, listed |-> l]
    /\ UNCHANGED <<alive, epoch, generation>>

\* The write of a heartbeat also expires sessions.
LogWriteAndChange ==
    /\ alive /\ generation < MaxGeneration
    /\ \E g \in 0..generation, l \in 0..generation :
         l <= g /\ file' = [epoch |-> epoch, generation |-> g, listed |-> l]
    /\ generation' = generation + 1
    /\ UNCHANGED <<alive, epoch>>

LogNext == LogStart \/ LogDie \/ LogChange \/ LogWrite \/ LogWriteAndChange

LogSpec == LogInit /\ [][LogNext]_log

\* When the changes have ceased, a daemon that runs leaves its last state in
\* the file.
Current == [epoch |-> epoch, generation |-> generation, listed |-> generation]
Settles == <>[](alive => file = Current)

=============================================================================
