---------------------------- MODULE SingleFlight ----------------------------
(***************************************************************************)
(* What the watch daemon promises for one harness, without its threads:    *)
(* runs of the ingest never overlap, and every request made while the      *)
(* daemon is up is followed by a run that STARTS after the request was     *)
(* made.  Requests made between two starts are coalesced into one.         *)
(* WatchDaemon implements it (WatchDaemon!Coalesces).                      *)
(***************************************************************************)
VARIABLES wanted,     \* a request was made and no run has started since
          running,    \* a run is in progress
          stopping    \* the daemon was asked to stop: no further promise

vars == <<wanted, running, stopping>>

TypeOK == wanted \in BOOLEAN /\ running \in BOOLEAN /\ stopping \in BOOLEAN

Init == wanted = FALSE /\ running = FALSE /\ stopping = FALSE

Request == /\ ~stopping
           /\ wanted' = TRUE
           /\ UNCHANGED <<running, stopping>>

\* A run may also start with nothing new to do: a request that came before a
\* run started can still cost one more run after it.
Start == /\ ~running
         /\ running' = TRUE
         /\ wanted' = FALSE
         /\ UNCHANGED stopping

Finish == /\ running
          /\ running' = FALSE
          /\ UNCHANGED <<wanted, stopping>>

Stop == stopping' = TRUE /\ UNCHANGED <<wanted, running>>

Next == Request \/ Start \/ Finish \/ Stop

\* Every request is served and every run ends, unless the daemon stops.
Served == wanted ~> (~wanted \/ stopping)
Ends   == running ~> ~running

Spec == Init /\ [][Next]_vars /\ Served /\ Ends
=============================================================================
