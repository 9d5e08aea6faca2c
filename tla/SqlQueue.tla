------------------------------- MODULE SqlQueue -------------------------------
(***************************************************************************)
(* The task queue shared by several processes through a database:          *)
(* aquilia/tasks/backends/sql.py, SQLBackend, and the TaskManager loops     *)
(* that run on it.                                                         *)
(*                                                                         *)
(* A step is one SQL statement (with the local work around it): statements *)
(* are atomic, nothing spans two of them, and every worker, reclaim loop   *)
(* or client works on its own copy of a row between a SELECT and the       *)
(* UPDATE that writes the copy back whole.                                 *)
(***************************************************************************)
EXTENDS Integers, FiniteSets

CONSTANTS
  Jobs,        \* the job ids that may ever be pushed
  Processes,   \* the processes that share the database: the lease owners
  Workers,     \* the worker loops of all the processes
  Home,        \* worker -> its process
  NoJob,       \* no job: no dependency, an idle worker
  NoProcess,   \* owner of a row that is not RUNNING
  Parent,      \* job -> the job it depends on, or NoJob
  Rank,        \* job -> place in ORDER BY priority, sequence
  ScanLimit,   \* LIMIT of the scan of pop: 32 in the code
  MaxRetries,  \* job -> max_retries
  LongBackoff, \* TRUE: a retry never falls due before its second write
  MaxLapses,   \* bound: leases that expire although their worker is alive
  MaxCrashes,  \* bound: process crashes
  MaxRequeues  \* bound: manual retries

ASSUME IdentifiersAssumption ==
  /\ NoJob \notin Jobs /\ NoProcess \notin Processes
  /\ Home \in [Workers -> Processes]
  /\ Parent \in [Jobs -> Jobs \cup {NoJob}]
ASSUME NumbersAssumption ==
  /\ Rank \in [Jobs -> Nat] /\ \A i, j \in Jobs : Rank[i] = Rank[j] => i = j
  /\ MaxRetries \in [Jobs -> Nat]
  /\ ScanLimit \in Nat /\ MaxLapses \in Nat /\ MaxCrashes \in Nat
  /\ MaxRequeues \in Nat /\ LongBackoff \in BOOLEAN

Claimable == {"pending", "retrying", "waiting"}
Broken    == {"failed", "dead", "cancelled"}
Terminal  == Broken \cup {"completed"}

VARIABLES
  row,      \* job -> what its row and payload say; "absent": no row
  owner,    \* job -> column owner, meaningful in a RUNNING row
  lease,    \* job -> column lease_expires_at: "none", "valid" or "expired"
  pushed,   \* the job ids used so far
  pc,       \* worker -> where its loop is
  seen,     \* worker -> the candidates of its scan still to be tried
  job,      \* worker -> the job in its hands
  copy,     \* worker -> its copy of that job
  found,    \* process -> the rows its reclaim loop has read, not yet written
  client,   \* the maintenance operation in progress: its kind, job and copy
  lapses, crashes, requeues

(* History, read by properties and by no guard. *)
VARIABLES
  lapsed,    \* jobs whose lease has expired, their worker dead or slow
  revived,   \* jobs put back by a manual retry
  repeated,  \* jobs that failed twice: put back by a second retry, or a later one
  fenced,    \* workers whose job was reclaimed since they claimed it
  succeeded  \* jobs of which some run of the body returned

table   == <<row, owner, lease>>
local   == <<pc, seen, job, copy>>
bounds  == <<lapses, crashes, requeues>>
history == <<lapsed, revived, repeated, fenced, succeeded>>
vars    == <<table, pushed, local, found, client, bounds, history>>

(* due abstracts scheduled_at (available_at), epoch is attempt_epoch.  A copy
   written back after its time has come may wait for BecomeDue again. *)
NoRow  == [state |-> "absent", due |-> TRUE, epoch |-> 0, retries |-> 0]
NoSeen == [j \in Jobs |-> NoRow]
Idle   == [kind |-> "none", job |-> NoJob, copy |-> NoRow]

Active(j) == row[j].state \in Claimable \cup {"running"}
Holds(w)  == pc[w] \in {"claimed", "popped", "body", "store", "push"}
Attended(j) == \E w \in Workers : Holds(w) /\ job[w] = j /\ owner[j] = Home[w]
-----------------------------------------------------------------------------
Init ==
  /\ row = NoSeen
  /\ owner = [j \in Jobs |-> NoProcess]
  /\ lease = [j \in Jobs |-> "none"]
  /\ pushed = {}
  /\ pc = [w \in Workers |-> "idle"]
  /\ seen = [w \in Workers |-> NoSeen]
  /\ job = [w \in Workers |-> NoJob]
  /\ copy = [w \in Workers |-> NoRow]
  /\ found = [p \in Processes |-> NoSeen]
  /\ client = Idle
  /\ lapses = 0 /\ crashes = 0 /\ requeues = 0
  /\ lapsed = {} /\ revived = {} /\ repeated = {} /\ fenced = {} /\ succeeded = {}

(* Mutant of Write: pop writes its copy before it has set lease_expires_at. *)
WriteWithoutLease(j, c, p) ==
  /\ row' = [row EXCEPT ![j] = c]
  /\ owner' = [owner EXCEPT ![j] = IF c.state = "running" THEN p ELSE NoProcess]
  /\ lease' = [lease EXCEPT ![j] = "none"]

(* _write: the whole row, inserted when it has vanished.  Only a RUNNING copy
   carries an owner and a lease that anything reads again. *)
Write(j, c, p) ==
  /\ row' = [row EXCEPT ![j] = c]
  /\ owner' = [owner EXCEPT ![j] = IF c.state = "running" THEN p ELSE NoProcess]
  /\ lease' = [lease EXCEPT ![j] = IF c.state = "running" THEN "valid" ELSE "none"]

Push(j) ==
  /\ j \notin pushed
  /\ pushed' = pushed \cup {j}
  /\ Write(j, [NoRow EXCEPT !.state = IF Parent[j] = NoJob THEN "pending" ELSE "waiting"],
           NoProcess)
  /\ UNCHANGED <<local, found, client, bounds, history>>

(* The clock passes scheduled_at. *)
BecomeDue(j) ==
  /\ ~row[j].due
  /\ LongBackoff => \A w \in Workers : pc[w] = "push" => job[w] # j
  /\ row' = [row EXCEPT ![j].due = TRUE]
  /\ UNCHANGED <<owner, lease, pushed, local, found, client, bounds, history>>
-----------------------------------------------------------------------------
(* pop(): the candidates are read once, then tried in order. *)
AnyReady == {j \in Jobs : row[j].state # "absent" /\ row[j].due}  \* mutant of Ready
Ready    == {j \in Jobs : row[j].state \in Claimable /\ row[j].due}
Scanned == {j \in Ready : Cardinality({i \in Ready : Rank[i] < Rank[j]}) < ScanLimit}

Scan(w) ==
  /\ pc[w] = "idle" /\ Ready # {}
  /\ seen' = [seen EXCEPT ![w] = [j \in Jobs |-> IF j \in Scanned THEN row[j] ELSE NoRow]]
  /\ pc' = [pc EXCEPT ![w] = "poll"]
  /\ UNCHANGED <<table, pushed, job, copy, found, client, bounds, history>>

Candidates(w) == {j \in Jobs : seen[w][j] # NoRow}
IsNext(w, j)  == j \in Candidates(w) /\ \A i \in Candidates(w) : Rank[j] <= Rank[i]

(* The loop of pop goes on with the next candidate. *)
Skip(w, j) ==
  /\ seen' = [seen EXCEPT ![w][j] = NoRow]
  /\ pc' = [pc EXCEPT ![w] = IF Candidates(w) = {j} THEN "idle" ELSE "poll"]

Lost(d) == row[d].state \in Broken \cup {"absent"}
DoneOrGone(d) == row[d].state \in {"completed", "absent"}  \* mutant of Done
Done(d)       == row[d].state = "completed"

(* dependency_status, and what pop decides on it. *)
CheckParent(w, j) ==
  /\ pc[w] = "poll" /\ IsNext(w, j) /\ Parent[j] # NoJob
  /\ \/ /\ Lost(Parent[j])
        /\ pc' = [pc EXCEPT ![w] = "orphan"] /\ UNCHANGED seen
     \/ /\ Done(Parent[j])
        /\ pc' = [pc EXCEPT ![w] = "claim"] /\ UNCHANGED seen
     \/ /\ ~Lost(Parent[j]) /\ ~Done(Parent[j])
        /\ IF seen[w][j].state = "waiting" THEN Skip(w, j)
           ELSE pc' = [pc EXCEPT ![w] = "park"] /\ UNCHANGED seen
  /\ UNCHANGED <<table, pushed, job, copy, found, client, bounds, history>>

Park(w, j) ==
  /\ pc[w] = "park" /\ IsNext(w, j)
  /\ Write(j, [seen[w][j] EXCEPT !.state = "waiting"], NoProcess)
  /\ Skip(w, j)
  /\ UNCHANGED <<pushed, job, copy, found, client, bounds, history>>

(* fail_orphaned_dependent reads the dependency a second time. *)
CheckOrphan(w, j) ==
  /\ pc[w] = "orphan" /\ IsNext(w, j)
  /\ IF Lost(Parent[j]) THEN pc' = [pc EXCEPT ![w] = "fail"] /\ UNCHANGED seen
     ELSE Skip(w, j)
  /\ UNCHANGED <<table, pushed, job, copy, found, client, bounds, history>>

FailOrphan(w, j) ==
  /\ pc[w] = "fail" /\ IsNext(w, j)
  /\ Write(j, [seen[w][j] EXCEPT !.state = "failed"], NoProcess)
  /\ Skip(w, j)
  /\ UNCHANGED <<pushed, job, copy, found, client, bounds, history>>

MayClaim(w, j) ==
  /\ IsNext(w, j)
  /\ pc[w] = "claim" \/ (pc[w] = "poll" /\ Parent[j] = NoJob)

(* The condition of the UPDATE: the row still has the state the scan saw. *)
AnyState(w, j)  == TRUE  \* mutant of Unclaimed: WHERE id = ?
Unclaimed(w, j) == row[j].state = seen[w][j].state

Claim(w, j) ==
  /\ MayClaim(w, j)
  /\ Unclaimed(w, j)
  /\ row' = [row EXCEPT ![j].state = "running"]
  /\ owner' = [owner EXCEPT ![j] = Home[w]]
  /\ lease' = [lease EXCEPT ![j] = "valid"]
  /\ pc' = [pc EXCEPT ![w] = "claimed"]
  /\ job' = [job EXCEPT ![w] = j]
  /\ copy' = [copy EXCEPT ![w] = [seen[w][j] EXCEPT !.state = "running"]]
  /\ seen' = [seen EXCEPT ![w] = NoSeen]
  /\ fenced' = fenced \ {w}
  /\ UNCHANGED <<pushed, found, client, bounds, lapsed, revived, repeated, succeeded>>

LoseClaim(w, j) ==
  /\ MayClaim(w, j)
  /\ ~Unclaimed(w, j)
  /\ Skip(w, j)
  /\ UNCHANGED <<table, pushed, job, copy, found, client, bounds, history>>
-----------------------------------------------------------------------------
(* The rest of pop, and the first update of _execute_job: both write the copy
   the scan made, unconditionally. *)
WriteRunning(w, from, to) ==
  /\ pc[w] = from
  /\ Write(job[w], copy[w], Home[w])
  /\ pc' = [pc EXCEPT ![w] = to]
  /\ UNCHANGED <<pushed, seen, job, copy, found, client, bounds, history>>

FinishPop(w) == WriteRunning(w, "claimed", "popped")
StartBody(w) == WriteRunning(w, "popped", "body")

(* Mutant of Release: the copy is kept. *)
ReleaseLate(w) == pc' = [pc EXCEPT ![w] = "idle"] /\ UNCHANGED <<job, copy>>

(* A loop that goes back to polling. *)
Release(w) ==
  /\ pc' = [pc EXCEPT ![w] = "idle"]
  /\ job' = [job EXCEPT ![w] = NoJob]
  /\ copy' = [copy EXCEPT ![w] = NoRow]

(* The heartbeat task beside the body. *)
Heartbeat(w) ==
  /\ pc[w] \in {"body", "store", "push"}
  /\ row[job[w]].state = "running" /\ owner[job[w]] = Home[w]
  /\ lease' = [lease EXCEPT ![job[w]] = "valid"]
  /\ UNCHANGED <<row, owner, pushed, local, found, client, bounds, history>>

(* What the end of the body makes of the copy: completed, retrying or dead. *)
Results(j, c) ==
  LET n == c.retries + 1 IN
  {[c EXCEPT !.state = "completed"], [c EXCEPT !.state = "dead", !.retries = n]}
  \cup IF n < MaxRetries[j]
       THEN {[c EXCEPT !.state = "retrying", !.retries = n, !.due = FALSE]} ELSE {}

(* The SELECT of update_if_epoch. *)
EpochHolds(w) == row[job[w]].state # "absent" /\ row[job[w]].epoch = copy[w].epoch

Finish(w) ==
  /\ pc[w] = "body"
  /\ \E c \in Results(job[w], copy[w]) :
       /\ succeeded' = IF c.state = "completed" THEN succeeded \cup {job[w]} ELSE succeeded
       /\ IF EpochHolds(w)
          THEN /\ pc' = [pc EXCEPT ![w] = "store"]
               /\ copy' = [copy EXCEPT ![w] = c]
               /\ UNCHANGED job
          ELSE Release(w)
  /\ UNCHANGED <<table, pushed, seen, found, client, bounds, lapsed, revived, repeated, fenced>>

(* The write of update_if_epoch; a retry is then pushed, which writes again. *)
Store(w) ==
  /\ pc[w] = "store"
  /\ Write(job[w], copy[w], Home[w])
  /\ IF copy[w].state = "retrying"
     THEN pc' = [pc EXCEPT ![w] = "push"] /\ UNCHANGED <<job, copy>>
     ELSE Release(w)
  /\ repeated' = IF copy[w].state = "retrying" /\ copy[w].retries > 1
                 THEN repeated \cup {job[w]} ELSE repeated
  /\ UNCHANGED <<pushed, seen, found, client, bounds, lapsed, revived, fenced, succeeded>>

PushAgain(w) ==
  /\ pc[w] = "push"
  /\ Write(job[w], copy[w], Home[w])
  /\ Release(w)
  /\ UNCHANGED <<pushed, seen, found, client, bounds, history>>
-----------------------------------------------------------------------------
(* lease_seconds pass without a renewal: for good when nobody attends the job,
   at most MaxLapses times when its worker is only slow. *)
Expire(j) ==
  /\ row[j].state = "running" /\ lease[j] = "valid"
  /\ ~Attended(j) \/ lapses < MaxLapses
  /\ lease' = [lease EXCEPT ![j] = "expired"]
  /\ lapses' = IF Attended(j) THEN lapses + 1 ELSE lapses
  /\ lapsed' = lapsed \cup {j}
  /\ UNCHANGED <<row, owner, pushed, local, found, client, crashes, requeues,
                 revived, repeated, fenced, succeeded>>

(* reclaim_expired: one SELECT, then one write per row found. *)
ReclaimScan(p) ==
  LET Expired == {j \in Jobs : row[j].state = "running" /\ lease[j] = "expired"} IN
  /\ found[p] = NoSeen /\ Expired # {}
  /\ found' = [found EXCEPT ![p] = [j \in Jobs |-> IF j \in Expired THEN row[j] ELSE NoRow]]
  /\ UNCHANGED <<table, pushed, local, client, bounds, history>>

Reclaim(p, j) ==
  LET c == found[p][j] IN
  /\ c # NoRow
  /\ Write(j, [c EXCEPT !.state = IF c.retries > 0 THEN "retrying" ELSE "pending",
                        !.epoch = @ + 1], NoProcess)
  /\ found' = [found EXCEPT ![p][j] = NoRow]
  /\ fenced' = fenced \cup {w \in Workers : Holds(w) /\ job[w] = j}
  /\ UNCHANGED <<pushed, local, client, bounds, lapsed, revived, repeated, succeeded>>

(* A process dies, or is stopped, and comes back with idle loops. *)
Crash(p) ==
  LET Mine == {w \in Workers : Home[w] = p} IN
  /\ crashes < MaxCrashes
  /\ crashes' = crashes + 1
  /\ pc' = [w \in Workers |-> IF w \in Mine THEN "idle" ELSE pc[w]]
  /\ seen' = [w \in Workers |-> IF w \in Mine THEN NoSeen ELSE seen[w]]
  /\ job' = [w \in Workers |-> IF w \in Mine THEN NoJob ELSE job[w]]
  /\ copy' = [w \in Workers |-> IF w \in Mine THEN NoRow ELSE copy[w]]
  /\ found' = [found EXCEPT ![p] = NoSeen]
  /\ UNCHANGED <<table, pushed, client, lapses, requeues, history>>
-----------------------------------------------------------------------------
(* cancel, retry_job and the orphan sweep (of _cleanup_loop, of cancel and of a
   dead-lettered job): a SELECT, then the copy is written back changed. *)
Read(kind, j) ==
  /\ client = Idle
  /\ client' = [kind |-> kind, job |-> j, copy |-> row[j]]
  /\ UNCHANGED <<table, pushed, local, found, bounds, history>>

CancelRead(j) == Active(j) /\ Read("cancel", j)
RetryRead(j)  == requeues < MaxRequeues /\ row[j].state \in Broken /\ Read("retry", j)
SweepRead(j)  == Active(j) /\ Parent[j] # NoJob /\ Read("sweep", j)

SweepCheck ==
  /\ client.kind = "sweep"
  /\ client' = IF Lost(Parent[client.job]) THEN [client EXCEPT !.kind = "fail"] ELSE Idle
  /\ UNCHANGED <<table, pushed, local, found, bounds, history>>

WriteBack(kind, st) ==
  /\ client.kind = kind
  /\ Write(client.job, [client.copy EXCEPT !.state = st], NoProcess)
  /\ client' = Idle
  /\ UNCHANGED <<pushed, local, found, lapses, crashes, lapsed, repeated, fenced, succeeded>>

CancelWrite == WriteBack("cancel", "cancelled") /\ UNCHANGED <<requeues, revived>>
SweepWrite  == WriteBack("fail", "failed") /\ UNCHANGED <<requeues, revived>>
RetryWrite  == /\ WriteBack("retry", "retrying")
               /\ requeues' = requeues + 1
               /\ revived' = revived \cup {client.job}

(* cleanup() of old terminal rows, and flush(). *)
Delete(S) ==
  /\ row' = [j \in Jobs |-> IF j \in S THEN NoRow ELSE row[j]]
  /\ owner' = [j \in Jobs |-> IF j \in S THEN NoProcess ELSE owner[j]]
  /\ lease' = [j \in Jobs |-> IF j \in S THEN "none" ELSE lease[j]]
  /\ UNCHANGED <<pushed, local, found, client, bounds, history>>

Cleanup == \E Old \in SUBSET {j \in Jobs : row[j].state \in Terminal} : Delete(Old)
Flush   == \E Queue \in SUBSET Jobs : Delete(Queue)
-----------------------------------------------------------------------------
WorkerStep(w) ==
  \/ Scan(w) \/ FinishPop(w) \/ StartBody(w) \/ Finish(w) \/ Store(w) \/ PushAgain(w)
  \/ \E j \in Jobs : \/ CheckParent(w, j) \/ Park(w, j) \/ CheckOrphan(w, j)
                     \/ FailOrphan(w, j) \/ Claim(w, j) \/ LoseClaim(w, j)

ReclaimStep(p) == ReclaimScan(p) \/ \E j \in Jobs : Reclaim(p, j)

ClientStep ==
  \/ \E j \in Jobs : Push(j) \/ CancelRead(j) \/ RetryRead(j) \/ SweepRead(j)
  \/ SweepCheck \/ CancelWrite \/ SweepWrite \/ RetryWrite \/ Cleanup \/ Flush

Next ==
  \/ \E w \in Workers : WorkerStep(w) \/ Heartbeat(w)
  \/ \E p \in Processes : ReclaimStep(p) \/ Crash(p)
  \/ \E j \in Jobs : BecomeDue(j) \/ Expire(j)
  \/ ClientStep

Spec == Init /\ [][Next]_vars

(* The loops poll, bodies end (timeouts), the clock advances, a lease nobody
   renews runs out.  Nothing obliges a client to act or a process to crash. *)
Fairness ==
  /\ \A w \in Workers : WF_vars(WorkerStep(w))
  /\ \A p \in Processes : WF_vars(ReclaimStep(p))
  /\ \A j \in Jobs : WF_vars(BecomeDue(j)) /\ WF_vars(Expire(j) /\ ~Attended(j))

FairSpec == Spec /\ Fairness
-----------------------------------------------------------------------------
RowType == [state : Claimable \cup Terminal \cup {"running", "absent"},
            due : BOOLEAN, epoch : Nat, retries : Nat]

TableOK ==
  /\ row \in [Jobs -> RowType]
  /\ owner \in [Jobs -> Processes \cup {NoProcess}]
  /\ lease \in [Jobs -> {"none", "valid", "expired"}]

(* A worker holds a job from its claim to its last write, and has candidates only
   while it polls. *)
LocalOK ==
  /\ pc \in [Workers -> {"idle", "poll", "orphan", "claim", "park", "fail", "claimed",
                         "popped", "body", "store", "push"}]
  /\ seen \in [Workers -> [Jobs -> RowType]]
  /\ job \in [Workers -> Jobs \cup {NoJob}]
  /\ copy \in [Workers -> RowType]
  /\ \A w \in Workers : Holds(w) <=> job[w] # NoJob
  /\ \A w \in Workers : (pc[w] = "idle" \/ Holds(w)) => Candidates(w) = {}

RestOK ==
  /\ pushed \subseteq Jobs
  /\ found \in [Processes -> [Jobs -> RowType]]
  /\ client \in {Idle} \cup [kind : {"cancel", "retry", "sweep", "fail"},
                             job : Jobs, copy : RowType]
  /\ lapses \in Nat /\ crashes \in Nat /\ requeues \in Nat
  /\ lapsed \subseteq Jobs /\ revived \subseteq Jobs /\ repeated \subseteq Jobs
  /\ fenced \subseteq Workers /\ succeeded \subseteq Jobs

(* Types of the state, and where a worker's copies exist. *)
TypeOK == TableOK /\ LocalOK /\ RestOK

(* "concurrent workers never both claim one job" (pop): without a lapse or a
   manual retry.  (An abandoned job is no exception: two reclaim loops may put it
   back one after the other, the second while the worker that claimed it again is
   running it.) *)
NeverBothClaim ==
  \A v, w \in Workers :
     v # w /\ Holds(v) /\ Holds(w) /\ job[v] = job[w]
       => job[w] \in lapsed \cup revived

(* Neither the job nor a job it waits for, directly or through others, has had its
   lease run out, was retried by hand, or has failed twice. *)
Calm(j) ==
  \E A \in SUBSET Jobs :
    /\ j \in A /\ \A i \in A : Parent[i] \in A \cup {NoJob}
    /\ A \cap (lapsed \cup revived \cup repeated) = {}

(* Two workers never hold one job that is calm.  Its ancestors count, because a poll
   that finds a dependency unfinished again parks the job, whoever runs it by then;
   and the second failure counts, because a poll that read the row at its first
   retry finds it in the same state. *)
Exclusive ==
  \A v, w \in Workers :
     v # w /\ Holds(v) /\ Holds(w) /\ job[v] = job[w] => ~Calm(job[w])

(* Workflows across processes: when a step has run, the step it depends on had
   run before, whatever expired, crashed, raced or was written back late. *)
StepsInOrder ==
  \A j \in succeeded : Parent[j] # NoJob => Parent[j] \in succeeded

(* Somebody has read the row, or the row of its parent, and is about to write
   back what follows from it. *)
WriteBackPending(j) ==
  \/ client.job = j
  \/ \E w \in Workers : pc[w] \in {"park", "fail"} /\ IsNext(w, j)

(* The COMPLETED row of a calm job is overwritten only by an operation that had
   decided to before the job completed: never by a worker or by a poll that finds it
   completed. *)
ResultKept ==
  [][\A j \in Jobs :
       /\ row[j].state = "completed"
       /\ row'[j].state \notin {"completed", "absent"}
       => ~Calm(j) \/ WriteBackPending(j)]_vars

(* Every job pushed is eventually finished, failed, cancelled or deleted, by
   whichever process is there: crashes lose time, never a job. *)
EveryJobSettles == \A j \in Jobs : Active(j) ~> ~Active(j)

(* "a zombie worker whose lease was reclaimed cannot clobber the reclaiming
   worker's state" (_execute_job): its result is discarded by the epoch check
   while another worker runs the attempt that replaced it. *)
ZombieDiscarded ==
  [][\A v, w \in Workers :
       /\ w \in fenced /\ pc[w] = "body"
       /\ v \notin fenced /\ pc[v] = "body" /\ job[v] = job[w]
       => pc'[w] # "store"]_vars

(* The table is a job board (module JobBoard): a row that waits for a worker is
   on the board, and whatever lease runs out, process crashes or copy is written
   back late, a poll claims only a row that is on it and whose dependency ran.  A
   run is over when its result is known, before the row says so. *)
Board == INSTANCE JobBoard WITH
  Needs    <- [j \in Jobs |-> {Parent[j]} \ {NoJob}],
  posted   <- pushed,
  board    <- {j \in Jobs : row[j].state \in Claimable},
  hand     <- [w \in Workers |-> IF pc[w] \in {"claimed", "popped", "body"}
                                THEN job[w] ELSE NoJob],
  finished <- succeeded

ImplementsJobBoard == Board!Spec
=============================================================================
