------------------------------ MODULE TaskQueue ------------------------------
(***************************************************************************)
(* The in-process task queue: aquilia/tasks/engine.py, MemoryBackend and   *)
(* the TaskManager that drives it.                                         *)
(*                                                                         *)
(* Everything runs on one event loop and no critical section of the        *)
(* backend awaits, so each backend call is one step; the only places where *)
(* something else can run are the body of a task and the sleeps of the     *)
(* loops.  A worker's pop and the start of the body are therefore one      *)
(* step, and so is everything from the end of the body to the next poll.   *)
(* Job objects are shared: the worker, the store and a client mutate the   *)
(* same object, which outlives its removal from the store.                 *)
(***************************************************************************)
EXTENDS Integers, Sequences

CONSTANTS
  Jobs,         \* the job ids that may ever be enqueued
  Workers,      \* the worker loops a running manager spawns
  Keys,         \* the fingerprints used for deduplication
  NoJob,        \* no job: an idle worker, a free fingerprint
  NoKey,        \* the dedup_key of a job enqueued with dedup="allow"
  Priority,     \* job -> priority value, lower runs first
  DependsOn,    \* job -> sequence of the job ids it depends on
  DedupKey,     \* job -> its fingerprint, or NoKey
  Delayed,      \* the jobs enqueued with a delay
  MaxRetries,   \* job -> max_retries
  MaxRequeues   \* bound: manual retries over a whole behaviour

ASSUME NullsAssumption == NoJob \notin Jobs /\ NoKey \notin Keys
ASSUME JobAttributesAssumption ==
  /\ Priority \in [Jobs -> Int]
  /\ DependsOn \in [Jobs -> Seq(Jobs)]
  /\ DedupKey \in [Jobs -> Keys \cup {NoKey}]
  /\ Delayed \subseteq Jobs
  /\ MaxRetries \in [Jobs -> Nat]
ASSUME MaxRequeuesAssumption == MaxRequeues \in Nat

Claimable == {"pending", "retrying", "scheduled", "waiting"}
Broken    == {"failed", "dead", "cancelled"}
Terminal  == Broken \cup {"completed"}
JobState  == Claimable \cup Terminal \cup {"running"}

VARIABLES
  running,      \* TaskManager._running
  stored,       \* keys of MemoryBackend._jobs
  state,        \* Job.state of every job object
  due,          \* FALSE while Job.scheduled_at is in the future
  retryCount,   \* Job.retry_count
  createdAt,    \* rank of Job.created_at among the jobs, 0 before enqueue
  heap,         \* MemoryBackend._queues: entries <<counter, job>>
  counter,      \* MemoryBackend._counter
  fingerprints, \* MemoryBackend._fingerprints
  exec,         \* worker -> the job whose body it awaits
  requeues      \* bound counter of manual retries

(* History, read by properties and by no guard. *)
VARIABLES
  revived,      \* jobs put back by a manual retry, or by a failure recorded
                \* after the job was cancelled, failed or flushed
  interrupted,  \* jobs whose worker was cancelled by stop() during the body
  succeeded     \* jobs of which some run of the body returned

backend == <<stored, state, due, retryCount, createdAt, heap, counter,
             fingerprints>>
history == <<revived, interrupted, succeeded>>
vars    == <<running, backend, exec, requeues, history>>

Parents(j)  == {DependsOn[j][i] : i \in DOMAIN DependsOn[j]}
Live(j)     == j \in stored /\ state[j] \notin Terminal
Busy(w)     == exec[w] # NoJob
-----------------------------------------------------------------------------
(* Heap order: priority value, then the insertion counter. *)
Before(a, b) ==
  \/ Priority[a[2]] < Priority[b[2]]
  \/ Priority[a[2]] = Priority[b[2]] /\ a[1] < b[1]

(* heappush of a fresh entry for j, on top of a heap h. *)
PushOnto(h, j) == /\ counter' = counter + 1
                  /\ heap' = h \cup {<<counter + 1, j>>}

(* A dependency that can never complete; F is the set of jobs failed so far
   in the same pass. *)
LostIfBroken(d, F) == state[d] \in Broken \/ d \in F  \* mutant of Lost: missing is pending
Lost(d, F) == d \notin stored \/ state[d] \in Broken \/ d \in F
Done(d)    == d \in stored /\ state[d] = "completed"

(* dependency_status reads the dependencies in order and answers at the first
   one that has not completed. *)
DependencyFailed(j, F) ==
  \E i \in DOMAIN DependsOn[j] :
     /\ Lost(DependsOn[j][i], F)
     /\ \A k \in DOMAIN DependsOn[j] : k < i => Done(DependsOn[j][k])
SatisfiedIfMissing(j)  == \A d \in Parents(j) : d \in stored => Done(d)  \* mutant of:
DependencySatisfied(j) == \A d \in Parents(j) : Done(d)

(* update() of a terminal job frees its fingerprint, if it still holds it. *)
Released(fps, F) == [k \in Keys |-> IF fps[k] \in F THEN NoJob ELSE fps[k]]

(* fail_orphaned_dependent on every job of F; the mutant writes a state that
   JobState does not have. *)
Orphaned(st, F) == [j \in Jobs |-> IF j \in F THEN "orphaned" ELSE st[j]]
Failed(st, F) == [j \in Jobs |-> IF j \in F THEN "failed" ELSE st[j]]
-----------------------------------------------------------------------------
Init ==
  /\ running = FALSE
  /\ stored = {}
  /\ state = [j \in Jobs |-> "pending"]
  /\ due = [j \in Jobs |-> TRUE]
  /\ retryCount = [j \in Jobs |-> 0]
  /\ createdAt = [j \in Jobs |-> 0]
  /\ heap = {}
  /\ counter = 0
  /\ fingerprints = [k \in Keys |-> NoJob]
  /\ exec = [w \in Workers |-> NoJob]
  /\ requeues = 0
  /\ revived = {} /\ interrupted = {} /\ succeeded = {}

(* Mutant of ReserveFingerprint: the holder is not looked up. *)
TakeFingerprint(j) ==
  fingerprints' = IF DedupKey[j] = NoKey THEN fingerprints
                  ELSE [fingerprints EXCEPT ![DedupKey[j]] = j]

(* enqueue(dedup="skip") answers with the job that holds the fingerprint while
   that job is live; otherwise the fingerprint is (re)taken. *)
ReserveFingerprint(j) ==
  IF DedupKey[j] = NoKey
  THEN UNCHANGED fingerprints
  ELSE /\ ~Live(fingerprints[DedupKey[j]])
       /\ fingerprints' = [fingerprints EXCEPT ![DedupKey[j]] = j]

Enqueue(j) ==
  /\ createdAt[j] = 0
  /\ ReserveFingerprint(j)
  /\ stored' = stored \cup {j}
  /\ state' = [state EXCEPT ![j] = IF DependsOn[j] # <<>> THEN "waiting"
                                   ELSE IF j \in Delayed THEN "scheduled"
                                   ELSE "pending"]
  /\ due' = [due EXCEPT ![j] = j \notin Delayed]
  /\ createdAt' = [createdAt EXCEPT ![j] = counter + 1]
  /\ PushOnto(heap, j)
  /\ UNCHANGED <<running, retryCount, exec, requeues, history>>

(* The clock passes scheduled_at. *)
BecomeDue(j) ==
  /\ ~due[j]
  /\ due' = [due EXCEPT ![j] = TRUE]
  /\ UNCHANGED <<running, stored, state, retryCount, createdAt, heap, counter,
                 fingerprints, exec, requeues, history>>
-----------------------------------------------------------------------------
(* pop(): one scan of the heap.  Entries of vanished, terminal or running jobs
   are consumed; those not due yet and those with dependencies are put back. *)
NoneDeferred == {}  \* mutant of Deferred: the jobs not due are not put back
Deferred  == {e \in heap : Live(e[2]) /\ ~due[e[2]]}
(* Mutant of Ready: a terminal job is not dropped. *)
Undropped == {e \in heap : e[2] \in stored /\ due[e[2]] /\ state[e[2]] # "running"}
Ready     == {e \in heap : Live(e[2]) /\ due[e[2]] /\ state[e[2]] \in Claimable}
Immediate == {e \in Ready : DependsOn[e[2]] = <<>>}
Blocked   == Ready \ Immediate

IsFirst(e, S) == e \in S /\ \A o \in S \ {e} : Before(e, o)

StartJob(w, j, F) ==
  /\ exec' = [exec EXCEPT ![w] = j]
  /\ state' = [Failed(state, F) EXCEPT ![j] = "running"]

(* Mutant of DrainImmediate: the entry is peeked at, and the body is left to mark
   the job RUNNING. *)
Peek(w) ==
  /\ running /\ ~Busy(w)
  /\ \E e \in Immediate : IsFirst(e, Immediate) /\ exec' = [exec EXCEPT ![w] = e[2]]
  /\ UNCHANGED <<running, backend, requeues, history>>

(* The scan stops at the first ready entry without dependencies. *)
DrainImmediate(w) ==
  /\ running /\ ~Busy(w)
  /\ \E e \in Immediate :
       /\ IsFirst(e, Immediate)
       /\ heap' = {o \in heap : o # e /\ (Before(e, o) \/ o \in Deferred \cup Blocked)}
       /\ StartJob(w, e[2], {})
  /\ UNCHANGED <<running, stored, due, retryCount, createdAt, counter,
                 fingerprints, requeues, history>>

(* Blocked entries are looked at only when the scan found none, in heap order:
   X is the set of entries whose job is failed on the way, which later entries
   of the same pass already see. *)
IsFailedScan(X) ==
  \A e \in Blocked :
     e \in X <=> DependencyFailed(e[2], {o[2] : o \in {x \in X : Before(x, e)}})

DrainBlocked(w) ==
  /\ running /\ ~Busy(w)
  /\ Immediate = {}
  /\ \E X \in SUBSET Blocked :
       LET F  == {e[2] : e \in X}
           OK == {e \in Blocked : DependencySatisfied(e[2])}
       IN  /\ IsFailedScan(X)
           /\ fingerprints' = Released(fingerprints, F)
           /\ \/ /\ OK = {} /\ X # {}
                 /\ heap' = Deferred \cup (Blocked \ X)
                 /\ state' = Failed(state, F)
                 /\ UNCHANGED exec
              \/ \E e \in OK :
                   /\ IsFirst(e, OK)
                   /\ heap' = Deferred \cup (Blocked \ (X \cup {e}))
                   /\ StartJob(w, e[2], F)
  /\ UNCHANGED <<running, stored, due, retryCount, createdAt, counter, requeues,
                 history>>
-----------------------------------------------------------------------------
(* Mutant of Complete: the result is refused as stale and dropped. *)
Discard(w) ==
  /\ Busy(w)
  /\ exec' = [exec EXCEPT ![w] = NoJob]
  /\ UNCHANGED <<running, backend, requeues, history>>

(* The body returned: COMPLETED through update_if_epoch, which on this backend
   always writes, and puts back a job that was flushed meanwhile. *)
Complete(w) ==
  LET j == exec[w] IN
  /\ Busy(w)
  /\ state' = [state EXCEPT ![j] = "completed"]
  /\ stored' = stored \cup {j}
  /\ fingerprints' = Released(fingerprints, {j})
  /\ exec' = [exec EXCEPT ![w] = NoJob]
  /\ succeeded' = succeeded \cup {j}
  /\ UNCHANGED <<running, due, retryCount, createdAt, heap, counter, requeues,
                 revived, interrupted>>

(* The body raised or timed out and can_retry holds after the increment. *)
FailAndRetry(w) ==
  LET j == exec[w] IN
  /\ Busy(w)
  /\ retryCount[j] + 1 < MaxRetries[j]
  /\ retryCount' = [retryCount EXCEPT ![j] = @ + 1]
  /\ state' = [state EXCEPT ![j] = "retrying"]
  /\ due' = [due EXCEPT ![j] = FALSE]
  /\ stored' = stored \cup {j}
  /\ PushOnto(heap, j)
  /\ exec' = [exec EXCEPT ![w] = NoJob]
  /\ revived' = IF j \in stored /\ state[j] = "running" THEN revived
                ELSE revived \cup {j}
  /\ UNCHANGED <<running, createdAt, fingerprints, requeues, interrupted, succeeded>>

(* fail_orphaned_dependents(only_job_id=j): the direct dependents of a job that
   has just died, RUNNING ones included. *)
DependentsOf(j) == {c \in stored \ {j} : Live(c) /\ j \in Parents(c)}

(* Retries exhausted, or a fault that says it is not retryable. *)
FailForGood(w) ==
  LET j == exec[w]
      F == DependentsOf(j)
  IN
  /\ Busy(w)
  /\ retryCount' = [retryCount EXCEPT ![j] = @ + 1]
  /\ state' = [Failed(state, F) EXCEPT ![j] = "dead"]
  /\ stored' = stored \cup {j}
  /\ fingerprints' = Released(fingerprints, F \cup {j})
  /\ exec' = [exec EXCEPT ![w] = NoJob]
  /\ UNCHANGED <<running, due, createdAt, heap, counter, requeues, history>>
-----------------------------------------------------------------------------
(* Mutant of Cancel: no test of is_terminal. *)
CancelAny(j) ==
  /\ j \in stored
  /\ state' = [state EXCEPT ![j] = "cancelled"]
  /\ UNCHANGED <<running, stored, due, retryCount, createdAt, heap, counter,
                 fingerprints, exec, requeues, history>>

(* TaskManager.cancel: the object is changed in place; its heap entry, its
   fingerprint and a body in progress are left alone. *)
Cancel(j) ==
  LET F == DependentsOf(j) IN
  /\ Live(j)
  /\ state' = [Failed(state, F) EXCEPT ![j] = "cancelled"]
  /\ fingerprints' = Released(fingerprints, F)
  /\ UNCHANGED <<running, stored, due, retryCount, createdAt, heap, counter, exec,
                 requeues, history>>

(* TaskManager.retry_job. *)
Retry(j) ==
  /\ requeues < MaxRequeues
  /\ j \in stored /\ state[j] \in Broken
  /\ state' = [state EXCEPT ![j] = "retrying"]
  /\ PushOnto(heap, j)
  /\ requeues' = requeues + 1
  /\ revived' = revived \cup {j}
  /\ UNCHANGED <<running, stored, due, retryCount, createdAt, fingerprints, exec,
                 interrupted, succeeded>>

Flush ==
  /\ stored' = {}
  /\ heap' = {}
  /\ fingerprints' = [k \in Keys |-> NoJob]
  /\ UNCHANGED <<running, state, due, retryCount, createdAt, counter, exec, requeues,
                 history>>

(* One pass of _cleanup_loop: the orphan sweep over the jobs newest first, then
   cleanup() of the terminal jobs that are old enough (any set of them). *)
IsSweep(F) ==
  \A j \in stored :
     j \in F <=> /\ Live(j)
                 /\ \E d \in Parents(j) :
                       Lost(d, {k \in F : createdAt[k] > createdAt[j]})

CleanupPass ==
  /\ running
  /\ \E F \in SUBSET stored :
       /\ IsSweep(F)
       /\ state' = Failed(state, F)
       /\ fingerprints' = Released(fingerprints, F)
  /\ \E Old \in SUBSET {j \in stored : state[j] \in Terminal} :
       stored' = stored \ Old
  /\ UNCHANGED <<running, due, retryCount, createdAt, heap, counter, exec, requeues,
                 history>>
-----------------------------------------------------------------------------
Start ==
  /\ ~running
  /\ \A w \in Workers : ~Busy(w)
  /\ running' = TRUE
  /\ UNCHANGED <<backend, exec, requeues, history>>

Stop ==
  /\ running
  /\ running' = FALSE
  /\ UNCHANGED <<backend, exec, requeues, history>>

(* A worker cancelled in the middle of a body unwinds and writes nothing. *)
Unwind(w) ==
  /\ ~running /\ Busy(w)
  /\ interrupted' = interrupted \cup {exec[w]}
  /\ exec' = [exec EXCEPT ![w] = NoJob]
  /\ UNCHANGED <<running, backend, requeues, revived, succeeded>>

Next ==
  \/ \E j \in Jobs : Enqueue(j) \/ BecomeDue(j) \/ Cancel(j) \/ Retry(j)
  \/ \E w \in Workers : \/ DrainImmediate(w) \/ DrainBlocked(w)
                        \/ Complete(w) \/ FailAndRetry(w) \/ FailForGood(w)
                        \/ Unwind(w)
  \/ Flush \/ CleanupPass \/ Start \/ Stop

Spec == Init /\ [][Next]_vars

(* A worker loop polls every 0.1 s, a body ends because of its timeout (300 s
   unless the caller disables it), the clock advances, the cleanup loop runs,
   and asyncio delivers the cancellation of stop(). *)
WorkerFairness(w) ==
  /\ WF_vars(DrainImmediate(w) \/ DrainBlocked(w))
  /\ WF_vars(Complete(w) \/ FailAndRetry(w) \/ FailForGood(w) \/ Unwind(w))

Fairness ==
  /\ \A w \in Workers : WorkerFairness(w)
  /\ \A j \in Jobs : WF_vars(BecomeDue(j))
  /\ WF_vars(CleanupPass)

FairSpec == Spec /\ Fairness
-----------------------------------------------------------------------------
(* Types of the state, ghosts included. *)
TypeOK ==
  /\ running \in BOOLEAN
  /\ stored \subseteq Jobs
  /\ state \in [Jobs -> JobState]
  /\ due \in [Jobs -> BOOLEAN]
  /\ retryCount \in [Jobs -> Nat]
  /\ createdAt \in [Jobs -> Nat]
  /\ heap \subseteq (Nat \X Jobs)
  /\ counter \in Nat
  /\ fingerprints \in [Keys -> Jobs \cup {NoJob}]
  /\ exec \in [Workers -> Jobs \cup {NoJob}]
  /\ requeues \in Nat
  /\ revived \subseteq Jobs /\ interrupted \subseteq Jobs /\ succeeded \subseteq Jobs

(* Every stored job that is waiting for a worker can be found by one: pop
   consumes heap entries, clients cancel, retry, flush and clean up around it,
   and a claimable job must never be left without an entry. *)
Findable ==
  \A j \in stored : state[j] \in Claimable => \E e \in heap : e[2] = j

(* "a job is never handed out twice" (TaskManager, Async-safety), as far as the
   code goes: only a job that was put back by hand, or that failed after being
   cancelled, failed or flushed, can be in two workers at once. *)
HandedOutOnce ==
  \A v, w \in Workers :
     v # w /\ Busy(v) /\ exec[v] = exec[w] => exec[v] \in revived

(* Deduplication: two live jobs never share a fingerprint, unless one of them
   came back after its reservation had been given up. *)
DedupExclusive ==
  \A i, j \in stored \ revived :
     i # j /\ Live(i) /\ Live(j) /\ DedupKey[i] = DedupKey[j] => DedupKey[i] = NoKey

(* Workflows: when a step has run, every step it depends on had run before,
   whatever was cancelled, retried, flushed or cleaned up in between. *)
StepsInOrder == \A j \in succeeded : Parents(j) \subseteq succeeded

(* A stored job in RUNNING is in the hands of a worker, or stop() cut it off:
   such a job has no heap entry and a restarted manager never looks at it. *)
RunningIsHeld ==
  \A j \in stored :
     state[j] = "running" => j \in interrupted \/ \E w \in Workers : exec[w] = j

(* "a state it will never leave" (Job.is_terminal) for the outcomes a run wrote
   itself, for jobs nobody revived. *)
OutcomeStays ==
  [][\A j \in Jobs : state[j] \in {"completed", "dead"} /\ j \notin revived'
       => state'[j] = state[j]]_vars

(* "A cancelled job can never complete" (TaskManager.cancel). *)
CancelledNeverCompletes ==
  [][\A j \in Jobs : state[j] = "cancelled" => state'[j] # "completed"]_vars

(* The sweep concerns "WAITING jobs whose dependencies can never complete"
   (_cleanup_loop): a job whose body is running has had its dependencies. *)
RunningIsNoOrphan ==
  [][\A j \in Jobs : state[j] = "running" => state'[j] # "failed"]_vars

(* With the manager up for good, every job reaches a terminal state, retries
   and broken or missing dependencies included, unless stop() cut a body off:
   that job stays RUNNING and everything that depends on it waits for ever. *)
EveryJobSettles ==
  <>[]running =>
     \A j \in Jobs : Live(j) ~> (~Live(j) \/ interrupted # {})

(* The queue is a job board (module JobBoard): a stored job that is waiting for
   a worker is on the board, and whatever cancels, fails, sweeps, flushes or
   retries jobs around the workers, a poll starts only a job that is on it and
   whose dependencies have all run. *)
Board == INSTANCE JobBoard WITH
  Needs    <- [j \in Jobs |-> Parents(j)],
  posted   <- {j \in Jobs : createdAt[j] # 0},
  board    <- {j \in stored : state[j] \in Claimable},
  hand     <- exec,
  finished <- succeeded

ImplementsJobBoard == Board!Spec
=============================================================================
