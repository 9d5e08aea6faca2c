------------------------------ MODULE SqliteTxn ------------------------------
(***************************************************************************)
(* Writes and transactions on SQLite: ConnectionPool (sqlite/_pool.py),    *)
(* AsyncConnection (sqlite/_connection.py), SQLiteAdapter                  *)
(* (db/backends/sqlite.py) and, above them, AquiliaDatabase.transaction    *)
(* (db/engine.py) and Atomic (models/transactions.py).                     *)
(*                                                                         *)
(* All tasks of the process share one writer connection behind an          *)
(* asyncio.Lock.  Tasks switch only at an await; a statement is submitted  *)
(* to the thread pool, runs there and is then awaited, each in its step.   *)
(* Cancelling the await cancels a statement that is still queued; one that *)
(* a thread has begun runs on, with nobody waiting for it.  A write is     *)
(* identified by the task that makes it and the number of its call.        *)
(***************************************************************************)
EXTENDS Naturals, Sequences, SequencesExt

CONSTANTS
  Tasks,     \* the asyncio tasks that use the database
  MaxCalls,  \* bound: calls of all tasks together
  MaxFaults  \* bound: BEGIN, COMMIT and ROLLBACK that raise or are cancelled

ASSUME BoundsAssumption == MaxCalls \in Nat /\ MaxFaults \in Nat

Kinds == {"auto", "transaction", "atomic"}

(* What is left of a statement, the last two of execute() without and with its
   own commit. *)
Statements == {"none", "begin", "commit", "rollback", "write", "autocommit"}
Rest(s) == IF s = "autocommit" THEN "commit" ELSE "none"

VARIABLES
  locked,     \* ConnectionPool._writer_lock: its _locked
  queue,      \* its waiters, in the order of their calls
  woken,      \* the first waiter has been woken and has not run yet
  untimed,    \* the waiters that wait without pool_timeout
  opened,     \* a transaction is open on the writer's sqlite3 connection
  flag,       \* AsyncConnection._in_transaction
  dirty,      \* the writes in the open transaction
  durable,    \* the writes committed
  late,       \* <<write, statement>>: nobody awaits it, its thread runs on
  pinned,     \* the tasks whose _active_txn_conn is the writer
  pc,         \* task -> where it is
  statement,  \* task -> what is left to run of the statement it awaits
  kind,       \* task -> the call it is in
  calls,      \* task -> how many calls it has made
  faults

(* History, read by properties and by no guard. *)
VARIABLES
  acked,      \* the writes whose call returned
  undone,     \* those whose call raised: nothing had run, or ROLLBACK returned
  crossed,    \* those whose own statement was left to its thread, or in whose
              \* transaction such a statement of another call committed
  strays,     \* the tasks of which a COMMIT or a ROLLBACK failed
  leaked      \* a BEGIN failed: nobody will release the lock it was made under

lock    == <<locked, queue, woken, untimed>>
data    == <<opened, dirty, durable>>
history == <<acked, undone, crossed, strays, leaked>>
vars    == <<lock, data, flag, late, pinned, pc, statement, kind, calls, faults,
             history>>

CallsMade == FoldFunction(+, 0, calls)
Inside(t) == pc[t] \in {"block", "commit", "rollback"}
Using(t) == pc[t] \in {"auto", "begin"} \/ Inside(t)
Write(t) == <<t, calls[t]>>

(* Where the task goes on, and the statement it awaits there. *)
Goto(t, to, s) == /\ pc' = [pc EXCEPT ![t] = to]
                  /\ statement' = [statement EXCEPT ![t] = s]
Enter(t, k, to, s) == Goto(t, to, s) /\ kind' = [kind EXCEPT ![t] = k]
Return(t) == Enter(t, "auto", "idle", "none")
-----------------------------------------------------------------------------
Init ==
  /\ locked = FALSE /\ queue = <<>> /\ woken = FALSE /\ untimed = {}
  /\ opened = FALSE /\ flag = FALSE /\ dirty = {} /\ durable = {}
  /\ late = {} /\ pinned = {}
  /\ statement = [t \in Tasks |-> "none"]
  /\ pc = [t \in Tasks |-> "idle"]
  /\ kind = [t \in Tasks |-> "auto"]
  /\ calls = [t \in Tasks |-> 0]
  /\ faults = 0
  /\ acked = {} /\ undone = {} /\ crossed = {} /\ strays = {} /\ leaked = FALSE

(* AsyncConnection.execute decides whether to commit when it submits the
   statement: not while the connection believes to be in a transaction. *)
AutoStatement == IF flag THEN "write" ELSE "autocommit"

(* The task goes on with the connection. *)
Proceed(t, k) == IF k = "auto" THEN Enter(t, k, "auto", AutoStatement)
                               ELSE Enter(t, k, "begin", "begin")

(* Mutant of TakeLock: who finds the lock free does not look at the waiters. *)
Barge(t, k) ==
  IF locked
  THEN /\ queue' = Append(queue, t)
       /\ Enter(t, k, "wait", "none")
       /\ UNCHANGED <<locked, woken, untimed>>
  ELSE /\ locked' = TRUE
       /\ Proceed(t, k)
       /\ UNCHANGED <<queue, woken, untimed>>

(* _acquire of the writer: a timer is made only when locked() says so, but
   asyncio's acquire() also waits when somebody has been woken before. *)
TakeLock(t, k) ==
  IF ~locked /\ queue = <<>>
  THEN /\ locked' = TRUE
       /\ Proceed(t, k)
       /\ UNCHANGED <<queue, woken, untimed>>
  ELSE /\ queue' = Append(queue, t)
       /\ untimed' = IF locked THEN untimed ELSE untimed \cup {t}
       /\ Enter(t, k, "wait", "none")
       /\ UNCHANGED <<locked, woken>>

(* asyncio.Lock.release, which asks nobody who holds the lock; it raises when
   the lock is free. *)
Release ==
  /\ locked' = FALSE
  /\ woken' = (queue # <<>>)
  /\ UNCHANGED <<queue, untimed>>

(* execute(), transaction() or atomic() is called.  A task that is still pinned
   writes on its connection without the lock, and may not begin again. *)
Call(t, k) ==
  /\ pc[t] = "idle" /\ CallsMade < MaxCalls
  /\ calls' = [calls EXCEPT ![t] = @ + 1]
  /\ \/ /\ t \notin pinned
        /\ TakeLock(t, k)
     \/ /\ t \in pinned
        /\ IF k = "auto" THEN Proceed(t, k) ELSE UNCHANGED <<pc, statement, kind>>
        /\ UNCHANGED lock
  /\ UNCHANGED <<data, flag, late, pinned, faults, history>>

Resume(t) ==
  /\ woken /\ Head(queue) = t
  /\ locked' = TRUE
  /\ queue' = Tail(queue)
  /\ woken' = FALSE
  /\ untimed' = untimed \ {t}
  /\ Proceed(t, kind[t])
  /\ UNCHANGED <<data, flag, late, pinned, calls, faults, history>>

(* Mutant of WakeNext: a waiter that leaves takes its wake-up along. *)
ForgetNext(t, rest) == woken' = (woken /\ Head(queue) # t)

(* A waiter that leaves after it was woken wakes the next one. *)
WakeNext(t, rest) == woken' = (woken /\ (Head(queue) # t \/ rest # <<>>))

(* PoolExhaustedError after pool_timeout, or the task is cancelled: it leaves its
   place among the waiters. *)
GiveUp(t) ==
  /\ pc[t] = "wait"
  /\ \E i \in DOMAIN queue :
       LET rest == RemoveAt(queue, i) IN
       /\ queue[i] = t
       /\ queue' = rest
       /\ WakeNext(t, rest)
  /\ untimed' = untimed \ {t}
  /\ Return(t)
  /\ UNCHANGED <<locked, data, flag, late, pinned, calls, faults, history>>
-----------------------------------------------------------------------------
(* Mutant of Store: the transaction is not joined, every statement commits. *)
StoreNow(w) == durable' = durable \cup {w} /\ UNCHANGED <<opened, dirty>>

(* A write: sqlite3 runs in autocommit mode, each statement is a transaction of
   its own unless one is open. *)
Store(w) == IF opened THEN dirty' = dirty \cup {w} /\ UNCHANGED <<opened, durable>>
                      ELSE durable' = durable \cup {w} /\ UNCHANGED <<opened, dirty>>

(* What a thread does to the connection; outside a transaction commit() and
   rollback() do nothing, inside one sqlite refuses BEGIN. *)
Perform(s, w) ==
  \/ s \in {"write", "autocommit"} /\ Store(w)
  \/ s = "begin" /\ ~opened /\ opened' = TRUE /\ UNCHANGED <<dirty, durable>>
  \/ s = "commit" /\ opened' = FALSE /\ dirty' = {} /\ durable' = durable \cup dirty
  \/ s = "rollback" /\ opened' = FALSE /\ dirty' = {} /\ UNCHANGED durable

(* A thread runs the next part of the statement the task awaits. *)
Run(t) ==
  /\ Perform(statement[t], Write(t))
  /\ statement' = [statement EXCEPT ![t] = Rest(@)]
  /\ UNCHANGED <<lock, flag, late, pinned, pc, kind, calls, faults, history>>

(* The transaction a late commit() ends, if it is that of a task in its block. *)
Victims(s) == {Write(t) : t \in {u \in Tasks : s = "commit" /\ opened /\ Using(u)}}

(* A thread runs the next part of a statement nobody awaits. *)
RunLate(w, s) ==
  /\ <<w, s>> \in late
  /\ \/ Perform(s, w)
     \/ s = "begin" /\ opened /\ UNCHANGED data
  /\ late' = (late \ {<<w, s>>})
             \cup {<<w, r>> : r \in {Rest(s)} \ {"none"}}
  /\ crossed' = crossed \cup Victims(s)
  /\ UNCHANGED <<lock, flag, pinned, pc, statement, kind, calls, faults, acked,
                 undone, strays, leaked>>

(* The statement raised, was still queued when its await was cancelled, or had
   run: nothing of it comes later. *)
Settled(t) == UNCHANGED <<late, crossed>>

(* The await was cancelled and its thread runs on. *)
Abandoned(t) ==
  /\ statement[t] # "none"
  /\ late' = late \cup {<<Write(t), statement[t]>>}
  /\ crossed' = crossed \cup {Write(t)}
-----------------------------------------------------------------------------
(* _AcquireContext.__aexit__, for a call that is not pinned. *)
LeavePool(t) == IF t \in pinned THEN UNCHANGED lock ELSE Release

AutoReturns(t) ==
  /\ pc[t] = "auto" /\ statement[t] = "none"
  /\ acked' = IF t \in pinned \/ locked THEN acked \cup {Write(t)} ELSE acked
  /\ LeavePool(t)
  /\ Return(t)
  /\ UNCHANGED <<data, flag, late, pinned, calls, faults, undone, crossed, strays,
                 leaked>>

(* The statement raises, or the call is cancelled: the connection is given back
   at once. *)
AutoFails(t) ==
  /\ pc[t] = "auto"
  /\ \/ /\ Settled(t)
        /\ undone' = IF statement[t] \in {"write", "autocommit"}
                     THEN undone \cup {Write(t)} ELSE undone
     \/ Abandoned(t) /\ UNCHANGED undone
  /\ LeavePool(t)
  /\ Return(t)
  /\ UNCHANGED <<data, flag, pinned, calls, faults, acked, strays, leaked>>
-----------------------------------------------------------------------------
(* SQLiteAdapter.begin; the block goes on with its write. *)
BeginReturns(t) ==
  /\ pc[t] = "begin" /\ statement[t] = "none"
  /\ flag' = TRUE
  /\ pinned' = pinned \cup {t}
  /\ Goto(t, "block", "write")
  /\ UNCHANGED <<lock, data, late, kind, calls, faults, history>>

(* BEGIN raises, as it does inside a transaction, or is cancelled.  The acquired
   connection is not released. *)
BeginFails(t) ==
  /\ pc[t] = "begin"
  /\ \/ statement[t] = "begin" /\ opened /\ Settled(t) /\ UNCHANGED faults
     \/ /\ faults < MaxFaults /\ faults' = faults + 1
        /\ Settled(t) \/ Abandoned(t)
  /\ leaked' = TRUE
  /\ Return(t)
  /\ UNCHANGED <<lock, data, flag, pinned, calls, acked, undone, strays>>

BlockReturns(t) ==
  /\ pc[t] = "block" /\ statement[t] = "none"
  /\ Goto(t, "commit", "commit")
  /\ UNCHANGED <<lock, data, flag, late, pinned, kind, calls, faults, history>>

(* The block raises or is cancelled; transaction() and atomic() roll back. *)
BlockFails(t) ==
  /\ pc[t] = "block"
  /\ Settled(t) \/ Abandoned(t)
  /\ Goto(t, "rollback", "rollback")
  /\ UNCHANGED <<lock, data, flag, pinned, kind, calls, faults, acked, undone, strays,
                 leaked>>

(* Mutant of Unpin: the context variable is left set. *)
StayPinned(t) == UNCHANGED pinned
Unpin(t) == pinned' = pinned \ {t}

CommitReturns(t) ==
  /\ pc[t] = "commit" /\ statement[t] = "none"
  /\ flag' = FALSE
  /\ locked /\ Release
  /\ Unpin(t)
  /\ acked' = acked \cup {Write(t)}
  /\ Return(t)
  /\ UNCHANGED <<data, late, calls, faults, undone, crossed, strays, leaked>>

(* After a COMMIT that raised transaction() rolls back, Atomic does not. *)
AfterCommitFailed(t) ==
  /\ strays' = strays \cup {t}
  /\ IF kind[t] = "transaction" THEN Goto(t, "rollback", "rollback") /\ UNCHANGED kind
                                ELSE Return(t)

(* COMMIT raises, or its await is cancelled.  The lock is released, the task stays
   pinned. *)
CommitFails(t) ==
  /\ pc[t] = "commit"
  /\ faults < MaxFaults /\ faults' = faults + 1
  /\ Settled(t) \/ Abandoned(t)
  /\ IF locked THEN Release ELSE UNCHANGED lock
  /\ AfterCommitFailed(t)
  /\ UNCHANGED <<data, flag, pinned, calls, acked, undone, leaked>>

(* COMMIT ran, but releasing the lock raises since somebody else released it. *)
CommitUnheld(t) ==
  /\ pc[t] = "commit" /\ statement[t] = "none" /\ ~locked
  /\ flag' = FALSE
  /\ AfterCommitFailed(t)
  /\ UNCHANGED <<lock, data, late, pinned, calls, faults, acked, undone, crossed,
                 leaked>>

RollbackReturns(t) ==
  /\ pc[t] = "rollback" /\ statement[t] = "none"
  /\ flag' = FALSE
  /\ IF locked THEN Release /\ Unpin(t) ELSE UNCHANGED <<lock, pinned>>
  /\ undone' = undone \cup {Write(t)}
  /\ Return(t)
  /\ UNCHANGED <<data, late, calls, faults, acked, crossed, strays, leaked>>

RollbackFails(t) ==
  /\ pc[t] = "rollback"
  /\ faults < MaxFaults /\ faults' = faults + 1
  /\ Settled(t) \/ Abandoned(t)
  /\ IF locked THEN Release ELSE UNCHANGED lock
  /\ strays' = strays \cup {t}
  /\ Return(t)
  /\ UNCHANGED <<data, flag, pinned, calls, acked, undone, leaked>>
-----------------------------------------------------------------------------
Progress(t) ==
  \/ Resume(t) \/ Run(t) \/ AutoReturns(t) \/ AutoFails(t)
  \/ BeginReturns(t) \/ BeginFails(t) \/ BlockReturns(t) \/ BlockFails(t)
  \/ CommitReturns(t) \/ CommitFails(t) \/ CommitUnheld(t)
  \/ RollbackReturns(t) \/ RollbackFails(t)

Next ==
  \/ \E t \in Tasks : Progress(t) \/ GiveUp(t) \/ \E k \in Kinds : Call(t, k)
  \/ \E j \in late : RunLate(j[1], j[2])

Spec == Init /\ [][Next]_vars

(* The executor runs every statement that is awaited, the loop runs every woken
   task and blocks end.  Timers are not counted on: a waiter may have none. *)
FairSpec == Spec /\ \A t \in Tasks : WF_vars(Progress(t))
-----------------------------------------------------------------------------
Writes == Tasks \X Nat

(* Types of the state, and what the lock says of its waiters. *)
TypeOK ==
  /\ locked \in BOOLEAN /\ woken \in BOOLEAN /\ opened \in BOOLEAN /\ flag \in BOOLEAN
  /\ queue \in Seq(Tasks) /\ untimed \subseteq Tasks
  /\ \A t \in Tasks : pc[t] = "wait" <=> \E i \in DOMAIN queue : queue[i] = t
  /\ woken => ~locked /\ queue # <<>>
  /\ dirty \subseteq Writes /\ durable \subseteq Writes
  /\ late \subseteq Writes \X (Statements \ {"none"}) /\ pinned \subseteq Tasks
  /\ pc \in [Tasks -> {"idle", "wait", "auto", "begin", "block", "commit", "rollback"}]
  /\ statement \in [Tasks -> Statements]
  /\ kind \in [Tasks -> Kinds]
  /\ calls \in [Tasks -> Nat] /\ faults \in 0..MaxFaults
  /\ acked \subseteq Writes /\ undone \subseteq Writes /\ crossed \subseteq Writes
  /\ strays \subseteq Tasks /\ leaked \in BOOLEAN

(* "writes are serialized through a single dedicated writer connection"
   (_pool.py), as far as calls go: while no COMMIT or ROLLBACK has failed, one
   call at a time has the writer, it holds the lock, only a BEGIN that failed
   keeps the lock from those who wait, and no call's write is in a transaction
   that is not its own, through exceptions, timeouts and cancellations.  Writes
   that were left to their threads (crossed) land in whatever is open then. *)
WriterSerialized ==
  strays = {} =>
    /\ \A s, t \in Tasks : s # t /\ Using(s) => ~Using(t)
    /\ locked <=> leaked \/ \E t \in Tasks : Using(t)
    /\ \A w \in dirty \ crossed : \E t \in Tasks : Inside(t) /\ w = Write(t)

(* What a call reported is what happened: the writes of calls that returned are
   committed, whatever abandoned statements did meanwhile; those of calls that
   raised are gone and stay gone, but for the ones an abandoned statement reached
   (crossed).  Unless a COMMIT or a ROLLBACK has failed. *)
OutcomeIsTrue ==
  strays = {} =>
    /\ acked \subseteq durable
    /\ undone \cap (durable \cup dirty) \subseteq crossed

(* "each connection must only be used by one task at a time (enforced by the
   pool)" (_connection.py): while a task's statement runs, no statement of
   another task does.  The code breaks it when a call is cancelled. *)
OneTaskAtATime ==
  \A j \in late, t \in Tasks : statement[t] # "none" => j[1][1] = t

(* "Transaction exceeded timeout of ... and was rolled back" (transactions.py), and
   transaction() of engine.py that rolls back on cancellation: the writes of a
   block that was rolled back are not committed.  The code breaks it when the
   block is cancelled while its statement runs. *)
RolledBack == strays = {} => undone \cap durable = {}

(* A waiting call always gets the writer or gives up, even without its timer,
   unless a BEGIN failed and kept the lock. *)
WaitEnds == \A t \in Tasks : pc[t] = "wait" ~> pc[t] # "wait" \/ leaked
=============================================================================
