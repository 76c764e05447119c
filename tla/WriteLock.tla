----------------------------- MODULE WriteLock ------------------------------
(***************************************************************************)
(* _WriteSerializedConnection (watch/daemon.py): every ingest and derive   *)
(* thread of the daemon opens its own SQLite connection and wraps it, and  *)
(* the wrappers share one threading.Lock, taken by the first statement     *)
(* that may write and given back when the connection is in no transaction  *)
(* any more.  SQLite's part (does a statement leave a transaction open, is *)
(* it rolled back by an error) is a choice.                                *)
(***************************************************************************)
EXTENDS Naturals

CONSTANTS Conn,    \* connections, each used by the thread that opened it
          Nobody

ASSUME NobodyAssumption == Nobody \notin Conn

VARIABLES
  lock,     \* Conn \cup {Nobody}: holder of the shared threading.Lock
  owns,     \* [Conn -> BOOLEAN]: _owns_write_lock
  in_tx,    \* [Conn -> BOOLEAN]: sqlite3.Connection.in_transaction
  broken,   \* [Conn -> BOOLEAN]: a rollback of this connection failed
  pc,       \* [Conn -> ...]: where its thread is
  stmt      \* [Conn -> Kind]: the statement being executed

lockVars == <<lock, owns, in_tx, broken, pc, stmt>>

\* What the wrapper and SQLite tell apart: a keyword of _WRITE_STATEMENTS, a
\* script, the end of a transaction as a statement (COMMIT, ROLLBACK, RELEASE,
\* END), and the rest.
Kind == {"write", "script", "end", "read"}

Pc == {"closed", "ready", "acquire", "execute", "settle", "release"}

\* The wrapper's fields and the lock have their types.
LockTypeOK ==
  /\ lock \in Conn \cup {Nobody}
  /\ owns \in [Conn -> BOOLEAN]
  /\ in_tx \in [Conn -> BOOLEAN]
  /\ broken \in [Conn -> BOOLEAN]
  /\ pc \in [Conn -> Pc]
  /\ stmt \in [Conn -> Kind]

LockInit ==
  /\ lock = Nobody
  /\ owns = [c \in Conn |-> FALSE]
  /\ in_tx = [c \in Conn |-> FALSE]
  /\ broken = [c \in Conn |-> FALSE]
  /\ pc = [c \in Conn |-> "closed"]
  /\ stmt = [c \in Conn |-> "read"]

At(c, from, to) == pc[c] = from /\ pc' = [pc EXCEPT ![c] = to]

\* connect() and the wrapper around it.
Open(c) ==
  /\ At(c, "closed", "ready")
  /\ broken' = [broken EXCEPT ![c] = FALSE]
  /\ UNCHANGED <<lock, owns, in_tx, stmt>>

\* Faulty: a script is taken for a reader.
NeedsLockKeywordsOnly(k) == k = "write"

\* _acquire_for: a keyword of _WRITE_STATEMENTS; executescript asks for BEGIN.
NeedsLock(k) == k \in {"write", "script"}

\* execute, executemany, executescript: _acquire_for decides by the keyword.
Issue(c, k) ==
  /\ At(c, "ready",
        IF NeedsLock(k) /\ ~owns[c] THEN "acquire" ELSE "execute")
  /\ stmt' = [stmt EXCEPT ![c] = k]
  /\ UNCHANGED <<lock, owns, in_tx, broken>>

Acquire(c) ==
  /\ At(c, "acquire", "execute")
  /\ lock = Nobody
  /\ lock' = c
  /\ owns' = [owns EXCEPT ![c] = TRUE]
  /\ UNCHANGED <<in_tx, broken, stmt>>

\* What a statement of kind k may leave of a transaction, whether it succeeds
\* or raises: an error inside a transaction may roll it back or leave it open.
After(k, open) == IF k \in {"write", "script"} \/ open THEN BOOLEAN ELSE {FALSE}

Run(c) ==
  /\ At(c, "execute", "settle")
  /\ \E open \in After(stmt[c], in_tx[c]) :
       in_tx' = [in_tx EXCEPT ![c] = open]
  /\ UNCHANGED <<lock, owns, broken, stmt>>

\* Faulty: the lock is given back inside the transaction.
SettleEarly(c) ==
  /\ At(c, "settle", IF owns[c] THEN "release" ELSE "ready")
  /\ UNCHANGED <<lock, owns, in_tx, broken, stmt>>

\* Faulty: a transaction ended by a statement keeps the lock.
SettleLate(c) ==
  /\ At(c, "settle", "ready")
  /\ UNCHANGED <<lock, owns, in_tx, broken, stmt>>

\* On return and on error alike: give the lock back outside a transaction.
Settle(c) ==
  /\ At(c, "settle", IF owns[c] /\ ~in_tx[c] THEN "release" ELSE "ready")
  /\ UNCHANGED <<lock, owns, in_tx, broken, stmt>>

\* Faulty: the flag outlives the lock.
GiveBackLockOnly(c) ==
  IF owns[c] THEN lock' = Nobody /\ UNCHANGED owns ELSE UNCHANGED <<lock, owns>>

\* Faulty: nothing is given back.
GiveBackNothing(c) == UNCHANGED <<lock, owns>>

\* _release_write_lock
GiveBack(c) ==
  IF owns[c] THEN lock' = Nobody /\ owns' = [owns EXCEPT ![c] = FALSE]
             ELSE UNCHANGED <<lock, owns>>

Release(c) ==
  /\ At(c, "release", "ready")
  /\ GiveBack(c)
  /\ UNCHANGED <<in_tx, broken, stmt>>

\* commit(), whose failure rolls back, and rollback(): either way the lock is
\* released, even when the rollback itself raises.
EndTransaction(c) ==
  /\ At(c, "ready", "release")
  /\ \/ in_tx' = [in_tx EXCEPT ![c] = FALSE] /\ UNCHANGED broken
     \/ in_tx[c] /\ broken' = [broken EXCEPT ![c] = TRUE] /\ UNCHANGED in_tx
  /\ UNCHANGED <<lock, owns, stmt>>

\* close(), from the finally clause of the run: SQLite abandons the transaction.
Close(c) ==
  /\ At(c, "ready", "closed")
  /\ in_tx' = [in_tx EXCEPT ![c] = FALSE]
  /\ GiveBack(c)
  /\ UNCHANGED <<broken, stmt>>

Step(c) == Run(c) \/ Settle(c) \/ Release(c)

LockNext ==
  \E c \in Conn :
    \/ Open(c) \/ Acquire(c) \/ EndTransaction(c) \/ Close(c) \/ Step(c)
    \/ \E k \in Kind : Issue(c, k)

LockSpec == LockInit /\ [][LockNext]_lockVars

\* A thread finishes the call it is in, and a run comes to its finally clause
\* however many statements it issues; a blocked thread owes nothing.
LockFairSpec == LockSpec /\ \A c \in Conn : WF_lockVars(Step(c)) /\ SF_lockVars(Close(c))

-----------------------------------------------------------------------------
\* What one connection must satisfy for the three invariants to be kept: a
\* statement that may open a transaction runs with the lock, the lock outlives
\* the transaction, and outside one only a call in progress may still hold it.
Consistent(c) ==
  /\ owns[c] <=> lock = c
  /\ in_tx[c] /\ ~broken[c] => owns[c]
  /\ owns[c] /\ ~in_tx[c] => pc[c] \in {"execute", "settle", "release"}
  /\ pc[c] = "acquire" => ~owns[c]
  /\ pc[c] = "execute" /\ stmt[c] \in {"write", "script"} => owns[c]
  /\ pc[c] = "release" => ~in_tx[c] \/ broken[c]
  /\ pc[c] = "closed" => ~in_tx[c]

\* The inductive invariant: every connection is Consistent at each of its steps
\* (_acquire_for, _release_write_lock and their callers).
LockInv == LockTypeOK /\ \A c \in Conn : Consistent(c)

-----------------------------------------------------------------------------
\* The wrapper's flag and the lock agree: one owner at most, and the holder knows
\* that it must release.
OwnerHoldsLock == \A c \in Conn : owns[c] <=> lock = c

\* Write transactions are serialized: an open transaction holds the lock (unless
\* the connection is broken: its rollback failed), so no two of the daemon's
\* connections are in a transaction at the same time.
TransactionHoldsLock == \A c \in Conn : in_tx[c] /\ ~broken[c] => lock = c

\* No leak: a thread that is back in its own code outside a transaction, or has
\* closed its connection, does not hold the lock.
NoLeak == \A c \in Conn : pc[c] \in {"ready", "closed"} /\ ~in_tx[c] => lock # c

\* Every holder lets go: whatever statements fail, a run ends in close(), so no
\* thread of the daemon waits for the write lock for ever (_run_ingest's finally).
HolderLetsGo == \A c \in Conn : lock = c ~> lock # c
=============================================================================
