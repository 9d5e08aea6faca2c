--------------------------- MODULE TaskQueue_proofs ---------------------------
(* Proofs about TaskQueue, for every set of jobs and workers, every dependency
   graph, every priority and retry budget. *)
EXTENDS TaskQueue, TLAPS

(* Only enqueued jobs are stored, executed or moved out of their first state. *)
Known ==
  /\ \A j \in stored : createdAt[j] # 0
  /\ \A w \in Workers : Busy(w) => createdAt[exec[w]] # 0
  /\ \A j \in Jobs : createdAt[j] = 0 => state[j] = "pending"

(* The state of a job in a worker's hands, as long as nobody revived it. *)
HeldState ==
  \A w \in Workers : Busy(w) /\ exec[w] \notin revived
     => state[exec[w]] \in {"running", "cancelled", "failed"}

(* A live job that was not revived still holds its reservation. *)
ReservationHeld ==
  \A j \in stored \ revived :
     Live(j) /\ DedupKey[j] # NoKey => fingerprints[DedupKey[j]] = j

(* A body is started only after the bodies it depends on have succeeded. *)
ParentsSucceeded ==
  /\ \A w \in Workers : Busy(w) => Parents(exec[w]) \subseteq succeeded
  /\ \A j \in Jobs : state[j] = "completed" => j \in succeeded

IInv ==
  /\ TypeOK /\ Known /\ HeldState /\ ReservationHeld /\ ParentsSucceeded
  /\ Findable /\ HandedOutOnce /\ StepsInOrder /\ RunningIsHeld
-----------------------------------------------------------------------------
(* The actions of Next, one by one, for proofs by cases. *)
LEMMA StepCases ==
  ASSUME [Next]_vars
  PROVE  \/ \E j \in Jobs : Enqueue(j)
         \/ \E j \in Jobs : BecomeDue(j)
         \/ \E j \in Jobs : Cancel(j)
         \/ \E j \in Jobs : Retry(j)
         \/ \E w \in Workers : DrainImmediate(w)
         \/ \E w \in Workers : DrainBlocked(w)
         \/ \E w \in Workers : Complete(w)
         \/ \E w \in Workers : FailAndRetry(w)
         \/ \E w \in Workers : FailForGood(w)
         \/ \E w \in Workers : Unwind(w)
         \/ Flush \/ CleanupPass
         \/ (Start \/ Stop \/ UNCHANGED vars)
  BY DEF Next

(* What the helpers of the actions do to the types they touch. *)
LEMMA HelperTypes ==
  ASSUME TypeOK, NEW F \in SUBSET Jobs
  PROVE  /\ Failed(state, F) \in [Jobs -> JobState]
         /\ Released(fingerprints, F) \in [Keys -> Jobs \cup {NoJob}]
  BY DEF TypeOK, Failed, Released, JobState, Claimable, Terminal, Broken

LEMMA BusyWorker ==
  ASSUME TypeOK, NEW w \in Workers, Busy(w)
  PROVE  exec[w] \in Jobs
  BY DEF TypeOK, Busy

LEMMA TypeStep ==
  ASSUME TypeOK, [Next]_vars
  PROVE  TypeOK'
<1> USE DEF TypeOK, backend, history, JobState, Claimable, Terminal, Broken
<1>1. ASSUME NEW j \in Jobs, Enqueue(j) PROVE TypeOK'
  BY <1>1 DEF Enqueue, ReserveFingerprint, PushOnto
<1>2. ASSUME NEW j \in Jobs, BecomeDue(j) PROVE TypeOK'
  BY <1>2 DEF BecomeDue
<1>3. ASSUME NEW j \in Jobs, Cancel(j) PROVE TypeOK'
  <2>1. DependentsOf(j) \in SUBSET Jobs
    BY DEF DependentsOf
  <2> QED
    BY <1>3, <2>1, HelperTypes DEF Cancel
<1>4. ASSUME NEW j \in Jobs, Retry(j) PROVE TypeOK'
  BY <1>4 DEF Retry, PushOnto
<1>5. ASSUME NEW w \in Workers, DrainImmediate(w) PROVE TypeOK'
  <2>1. PICK e \in Immediate :
          /\ heap' = {o \in heap : o # e /\ (Before(e, o) \/ o \in Deferred \cup Blocked)}
          /\ StartJob(w, e[2], {})
    BY <1>5 DEF DrainImmediate
  <2>2. e[2] \in Jobs
    BY DEF Immediate, Ready
  <2> QED
    BY <1>5, <2>1, <2>2, HelperTypes DEF DrainImmediate, StartJob
<1>6. ASSUME NEW w \in Workers, DrainBlocked(w) PROVE TypeOK'
  <2> DEFINE OK == {e \in Blocked : DependencySatisfied(e[2])}
  <2>1. PICK X \in SUBSET Blocked :
          /\ fingerprints' = Released(fingerprints, {e[2] : e \in X})
          /\ \/ /\ heap' = Deferred \cup (Blocked \ X)
                /\ state' = Failed(state, {e[2] : e \in X})
                /\ UNCHANGED exec
             \/ \E e \in OK :
                  /\ heap' = Deferred \cup (Blocked \ (X \cup {e}))
                  /\ StartJob(w, e[2], {o[2] : o \in X})
    BY <1>6 DEF DrainBlocked
  <2>2. Blocked \subseteq heap /\ Deferred \subseteq heap
    BY DEF Blocked, Ready, Deferred
  <2>3. {e[2] : e \in X} \in SUBSET Jobs
    BY <2>2
  <2>4. heap' \subseteq heap
    BY <2>1, <2>2
  <2>5. state' \in [Jobs -> JobState] /\ exec' \in [Workers -> Jobs \cup {NoJob}]
    BY <2>1, <2>2, <2>3, HelperTypes DEF StartJob
  <2> QED
    BY <1>6, <2>1, <2>3, <2>4, <2>5, HelperTypes DEF DrainBlocked
<1>7. ASSUME NEW w \in Workers, Complete(w) PROVE TypeOK'
  BY <1>7, BusyWorker, HelperTypes DEF Complete
<1>8. ASSUME NEW w \in Workers, FailAndRetry(w) PROVE TypeOK'
  BY <1>8, BusyWorker DEF FailAndRetry, PushOnto
<1>9. ASSUME NEW w \in Workers, FailForGood(w) PROVE TypeOK'
  <2>1. exec[w] \in Jobs /\ DependentsOf(exec[w]) \in SUBSET Jobs
    BY <1>9, BusyWorker DEF FailForGood, DependentsOf
  <2> QED
    BY <1>9, <2>1, HelperTypes DEF FailForGood
<1>10. ASSUME NEW w \in Workers, Unwind(w) PROVE TypeOK'
  BY <1>10, BusyWorker DEF Unwind
<1>11. CASE Flush
  BY <1>11 DEF Flush
<1>12. CASE CleanupPass
  BY <1>12, HelperTypes DEF CleanupPass
<1>13. CASE Start \/ Stop \/ UNCHANGED vars
  BY <1>13 DEF Start, Stop, vars
<1> QED
  BY StepCases, <1>1, <1>2, <1>3, <1>4, <1>5, <1>6, <1>7, <1>8, <1>9, <1>10,
     <1>11, <1>12, <1>13

LEMMA InitTypeOK == Init => TypeOK
<1> SUFFICES ASSUME Init PROVE TypeOK
  OBVIOUS
<1>1. running \in BOOLEAN /\ stored \subseteq Jobs /\ heap \subseteq (Nat \X Jobs)
  BY DEF Init
<1>2. /\ state \in [Jobs -> JobState] /\ due \in [Jobs -> BOOLEAN]
      /\ retryCount \in [Jobs -> Nat] /\ createdAt \in [Jobs -> Nat]
      /\ counter \in Nat /\ requeues \in Nat
  BY DEF Init, JobState, Claimable
<1>3. /\ fingerprints \in [Keys -> Jobs \cup {NoJob}]
      /\ exec \in [Workers -> Jobs \cup {NoJob}]
      /\ revived \subseteq Jobs /\ interrupted \subseteq Jobs
      /\ succeeded \subseteq Jobs
  BY DEF Init
<1> QED
  BY <1>1, <1>2, <1>3 DEF TypeOK

(* The state keeps its types through every operation of the queue. *)
THEOREM Typing == Spec => []TypeOK
<1>1. TypeOK /\ [Next]_vars => TypeOK'
  BY TypeStep
<1> QED
  BY InitTypeOK, <1>1, PTL DEF Spec
-----------------------------------------------------------------------------
(* What remains in the heap when the jobs of G leave it. *)
KeepsEntries(G) ==
  \A e \in heap :
     e[2] \in stored /\ state[e[2]] \in Claimable /\ e[2] \notin G => e \in heap'

(* The two ways a worker takes a job: DrainImmediate and the second disjunct of
   DrainBlocked, with the set F of jobs failed during the scan. *)
Takes(w, j, F) ==
  /\ ~Busy(w)
  /\ j \in stored /\ state[j] \in Claimable /\ j \notin F
  /\ DependencySatisfied(j)
  /\ F \subseteq {i \in stored : state[i] \in Claimable}
  /\ StartJob(w, j, F)
  /\ fingerprints' = Released(fingerprints, F)
  /\ KeepsEntries(F \cup {j})
  /\ UNCHANGED <<running, stored, due, retryCount, createdAt, counter, requeues,
                 history>>

(* A poll that only fails jobs whose dependencies are lost. *)
FailsBlocked(F) ==
  /\ F \subseteq {i \in stored : state[i] \in Claimable}
  /\ state' = Failed(state, F)
  /\ fingerprints' = Released(fingerprints, F)
  /\ KeepsEntries(F)
  /\ UNCHANGED <<running, stored, due, retryCount, createdAt, counter, exec,
                 requeues, history>>

(* The entries a scan keeps or considers are those of stored, claimable jobs. *)
LEMMA HeapEntries ==
  ASSUME TypeOK, NEW e \in heap
  PROVE  /\ e[2] \in Jobs
         /\ e \in Ready => e[2] \in stored /\ state[e[2]] \in Claimable
         /\ e[2] \in stored /\ state[e[2]] \in Claimable => e \in Ready \cup Deferred
<1>1. e[2] \in Jobs
  BY DEF TypeOK
<1>2. state[e[2]] \in Claimable => state[e[2]] \notin Terminal
  BY DEF Claimable, Terminal, Broken
<1> QED
  BY <1>1, <1>2 DEF TypeOK, Ready, Deferred, Live

(* A job whose dependencies have all completed is not failed by a scan that
   fails claimable jobs only. *)
LEMMA SatisfiedNotFailed ==
  ASSUME NEW j \in Jobs, NEW F, DependencySatisfied(j),
         \A i \in F : state[i] \in Claimable
  PROVE  ~DependencyFailed(j, F)
<1>1. \A d \in Parents(j) : d \in stored /\ state[d] = "completed"
  BY DEF DependencySatisfied, Done
<1>2. \A d \in Parents(j) : ~Lost(d, F)
  BY <1>1 DEF Lost, Claimable, Broken
<1> QED
  BY <1>2 DEF DependencyFailed, Parents

LEMMA DrainImmediateTakes ==
  ASSUME TypeOK, NEW w \in Workers, DrainImmediate(w)
  PROVE  \E j \in Jobs : Takes(w, j, {})
<1>1. PICK e \in Immediate :
        /\ IsFirst(e, Immediate)
        /\ heap' = {o \in heap : o # e /\ (Before(e, o) \/ o \in Deferred \cup Blocked)}
        /\ StartJob(w, e[2], {})
  BY DEF DrainImmediate
<1>2. e \in heap /\ e \in Ready /\ DependsOn[e[2]] = <<>>
  BY DEF Immediate, Ready
<1>3. DependencySatisfied(e[2])
  BY <1>2 DEF DependencySatisfied, Parents
<1>4. fingerprints' = Released(fingerprints, {})
  BY DEF DrainImmediate, Released, TypeOK
<1>5. KeepsEntries({e[2]})
  <2> SUFFICES ASSUME NEW o \in heap, o[2] \in stored, state[o[2]] \in Claimable,
                      o[2] # e[2]
               PROVE  o \in heap'
    BY DEF KeepsEntries
  <2>1. o \in Immediate \cup Blocked \cup Deferred
    BY HeapEntries DEF Blocked
  <2>2. o \in Immediate => Before(e, o)
    BY <1>1 DEF IsFirst
  <2> QED
    BY <1>1, <2>1, <2>2
<1> QED
  BY <1>1, <1>2, <1>3, <1>4, <1>5, HeapEntries DEF DrainImmediate, Takes

LEMMA DrainBlockedTakes ==
  ASSUME TypeOK, NEW w \in Workers, DrainBlocked(w)
  PROVE  \E F \in SUBSET Jobs : FailsBlocked(F) \/ \E j \in Jobs : Takes(w, j, F)
<1> DEFINE OK == {e \in Blocked : DependencySatisfied(e[2])}
<1>1. PICK X \in SUBSET Blocked :
        /\ IsFailedScan(X)
        /\ fingerprints' = Released(fingerprints, {e[2] : e \in X})
        /\ \/ /\ heap' = Deferred \cup (Blocked \ X)
              /\ state' = Failed(state, {e[2] : e \in X})
              /\ UNCHANGED exec
           \/ \E e \in OK :
                /\ heap' = Deferred \cup (Blocked \ (X \cup {e}))
                /\ StartJob(w, e[2], {o[2] : o \in X})
  BY DEF DrainBlocked
<1> DEFINE F == {e[2] : e \in X}
<1>2. Blocked \subseteq Ready /\ Deferred \subseteq heap /\ Ready \subseteq heap
  BY DEF Blocked, Deferred, Ready
<1>3. F \subseteq {i \in stored : state[i] \in Claimable} /\ F \subseteq Jobs
  BY <1>2, HeapEntries
<1>4. \A o \in heap :
        o[2] \in stored /\ state[o[2]] \in Claimable => o \in Blocked \cup Deferred
  BY HeapEntries DEF DrainBlocked, Blocked
<1>5. ASSUME state' = Failed(state, F), UNCHANGED exec,
             heap' = Deferred \cup (Blocked \ X)
      PROVE  FailsBlocked(F)
  <2>1. KeepsEntries(F)
    BY <1>4, <1>5 DEF KeepsEntries
  <2> QED
    BY <1>1, <1>3, <1>5, <2>1 DEF DrainBlocked, FailsBlocked
<1>6. ASSUME NEW e \in OK,
             heap' = Deferred \cup (Blocked \ (X \cup {e})),
             StartJob(w, e[2], F)
      PROVE  Takes(w, e[2], F) /\ e[2] \in Jobs
  <2>1. /\ e[2] \in Jobs /\ e[2] \in stored /\ state[e[2]] \in Claimable
        /\ DependencySatisfied(e[2])
    BY <1>2, HeapEntries
  <2>2. e[2] \notin F
    <3> SUFFICES ASSUME NEW x \in X, x[2] = e[2] PROVE FALSE
      OBVIOUS
    <3> DEFINE G == {o[2] : o \in {y \in X : Before(y, x)}}
    <3>1. DependencyFailed(x[2], G)
      BY <1>1 DEF IsFailedScan
    <3>2. \A i \in G : state[i] \in Claimable
      BY <1>3
    <3> QED
      BY <2>1, <3>1, <3>2, SatisfiedNotFailed
  <2>3. KeepsEntries(F \cup {e[2]})
    BY <1>4, <1>6 DEF KeepsEntries
  <2> QED
    BY <1>1, <1>3, <1>6, <2>1, <2>2, <2>3 DEF DrainBlocked, Takes
<1> QED
  BY <1>1, <1>3, <1>5, <1>6

(* StepCases with the polls in the form the invariants need. *)
LEMMA Cases ==
  ASSUME TypeOK, [Next]_vars
  PROVE  \/ \E j \in Jobs : Enqueue(j)
         \/ \E j \in Jobs : Cancel(j)
         \/ \E j \in Jobs : Retry(j)
         \/ \E w \in Workers, j \in Jobs, F \in SUBSET Jobs : Takes(w, j, F)
         \/ \E F \in SUBSET Jobs : FailsBlocked(F)
         \/ \E w \in Workers : Complete(w)
         \/ \E w \in Workers : FailAndRetry(w)
         \/ \E w \in Workers : FailForGood(w)
         \/ \E w \in Workers : Unwind(w)
         \/ Flush \/ CleanupPass
         \/ ((\E j \in Jobs : BecomeDue(j)) \/ Start \/ Stop \/ UNCHANGED vars)
  BY StepCases, DrainImmediateTakes, DrainBlockedTakes

(* The successor states of the jobs, job by job. *)
LEMMA FailedState ==
  ASSUME TypeOK, NEW F \in SUBSET Jobs, NEW i \in Jobs
  PROVE  Failed(state, F)[i] = IF i \in F THEN "failed" ELSE state[i]
  BY DEF Failed

LEMMA TakesState ==
  ASSUME TypeOK, NEW w \in Workers, NEW j \in Jobs, NEW F \in SUBSET Jobs,
         Takes(w, j, F)
  PROVE  /\ \A i \in Jobs : state'[i] = IF i = j THEN "running"
                                        ELSE IF i \in F THEN "failed" ELSE state[i]
         /\ \A v \in Workers : exec'[v] = IF v = w THEN j ELSE exec[v]
  BY HelperTypes, FailedState DEF Takes, StartJob, TypeOK

LEMMA CancelState ==
  ASSUME TypeOK, NEW j \in Jobs, Cancel(j)
  PROVE  /\ DependentsOf(j) \in SUBSET Jobs
         /\ \A i \in DependentsOf(j) : Live(i)
         /\ \A i \in Jobs : state'[i] = IF i = j THEN "cancelled"
                              ELSE IF i \in DependentsOf(j) THEN "failed" ELSE state[i]
         /\ UNCHANGED <<stored, createdAt, heap, exec, history>>
<1>1. /\ DependentsOf(j) \in SUBSET Jobs
      /\ \A i \in DependentsOf(j) : Live(i)
  BY DEF DependentsOf, TypeOK
<1> QED
  BY <1>1, HelperTypes, FailedState DEF Cancel

LEMMA FailForGoodState ==
  ASSUME TypeOK, NEW w \in Workers, FailForGood(w)
  PROVE  LET j == exec[w]
             F == DependentsOf(j)
         IN  /\ j \in Jobs /\ F \in SUBSET Jobs
             /\ \A i \in F : Live(i) /\ i # j
             /\ \A i \in Jobs : state'[i] = IF i = j THEN "dead"
                                  ELSE IF i \in F THEN "failed" ELSE state[i]
<1>1. /\ exec[w] \in Jobs
      /\ DependentsOf(exec[w]) \in SUBSET Jobs
      /\ \A i \in DependentsOf(exec[w]) : Live(i) /\ i # exec[w]
  BY BusyWorker DEF FailForGood, DependentsOf, TypeOK
<1> QED
  BY <1>1, HelperTypes, FailedState DEF FailForGood

LEMMA CleanupState ==
  ASSUME TypeOK, CleanupPass
  PROVE  \E F \in SUBSET stored :
           /\ \A j \in F : Live(j)
           /\ \A i \in Jobs : state'[i] = IF i \in F THEN "failed" ELSE state[i]
           /\ fingerprints' = Released(fingerprints, F)
           /\ stored' \subseteq stored
<1>1. PICK F \in SUBSET stored :
        /\ IsSweep(F)
        /\ state' = Failed(state, F)
        /\ fingerprints' = Released(fingerprints, F)
  BY DEF CleanupPass
<1>2. \A j \in F : Live(j)
  BY <1>1 DEF IsSweep
<1>3. stored' \subseteq stored
  BY DEF CleanupPass
<1>4. F \in SUBSET Jobs
  BY DEF TypeOK
<1> QED
  BY <1>1, <1>2, <1>3, <1>4, FailedState
-----------------------------------------------------------------------------
(* Each part of the invariant, through every operation. *)
LEMMA KnownStep ==
  ASSUME IInv, [Next]_vars
  PROVE  Known'
<1> USE DEF IInv, Known, TypeOK, Busy, history
<1>1. ASSUME NEW j \in Jobs, Enqueue(j) PROVE Known'
  BY <1>1 DEF Enqueue
<1>2. ASSUME NEW j \in Jobs, Cancel(j) PROVE Known'
  <2>1. \A i \in DependentsOf(j) \cup {j} : createdAt[i] # 0
    BY <1>2, CancelState DEF Cancel, Live
  <2> QED
    BY <1>2, <2>1, CancelState
<1>3. ASSUME NEW j \in Jobs, Retry(j) PROVE Known'
  BY <1>3 DEF Retry
<1>4. ASSUME NEW w \in Workers, NEW j \in Jobs, NEW F \in SUBSET Jobs, Takes(w, j, F)
      PROVE  Known'
  BY <1>4, TakesState DEF Takes
<1>5. ASSUME NEW F \in SUBSET Jobs, FailsBlocked(F) PROVE Known'
  BY <1>5, FailedState DEF FailsBlocked
<1>6. ASSUME NEW w \in Workers, Complete(w) PROVE Known'
  BY <1>6, BusyWorker DEF Complete
<1>7. ASSUME NEW w \in Workers, FailAndRetry(w) PROVE Known'
  BY <1>7, BusyWorker DEF FailAndRetry
<1>8. ASSUME NEW w \in Workers, FailForGood(w) PROVE Known'
  <2>1. /\ \A i \in DependentsOf(exec[w]) \cup {exec[w]} : createdAt[i] # 0
        /\ stored' = stored \cup {exec[w]} /\ UNCHANGED createdAt
        /\ exec' = [exec EXCEPT ![w] = NoJob]
    BY <1>8, FailForGoodState DEF FailForGood, Live
  <2> QED
    BY <1>8, <2>1, FailForGoodState
<1>9. ASSUME NEW w \in Workers, Unwind(w) PROVE Known'
  BY <1>9 DEF Unwind, backend
<1>10. CASE Flush
  BY <1>10 DEF Flush
<1>11. CASE CleanupPass
  BY <1>11, CleanupState DEF CleanupPass
<1>12. CASE (\E j \in Jobs : BecomeDue(j)) \/ Start \/ Stop \/ UNCHANGED vars
  BY <1>12 DEF BecomeDue, Start, Stop, vars, backend
<1> QED
  BY Cases, <1>1, <1>2, <1>3, <1>4, <1>5, <1>6, <1>7, <1>8, <1>9, <1>10, <1>11,
     <1>12

LEMMA HeldStateStep ==
  ASSUME IInv, [Next]_vars
  PROVE  HeldState'
<1> USE DEF IInv, HeldState, TypeOK, Busy, history
<1>1. ASSUME NEW j \in Jobs, Enqueue(j) PROVE HeldState'
  BY <1>1 DEF Enqueue, Known
<1>2. ASSUME NEW j \in Jobs, Cancel(j) PROVE HeldState'
  BY <1>2, CancelState
<1>3. ASSUME NEW j \in Jobs, Retry(j) PROVE HeldState'
  BY <1>3 DEF Retry
<1>4. ASSUME NEW w \in Workers, NEW j \in Jobs, NEW F \in SUBSET Jobs, Takes(w, j, F)
      PROVE  HeldState'
  BY <1>4, TakesState DEF Takes
<1>5. ASSUME NEW F \in SUBSET Jobs, FailsBlocked(F) PROVE HeldState'
  BY <1>5, FailedState DEF FailsBlocked
<1>6. ASSUME NEW w \in Workers, Complete(w) PROVE HeldState'
  BY <1>6, BusyWorker DEF Complete, HandedOutOnce
<1>7. ASSUME NEW w \in Workers, FailAndRetry(w) PROVE HeldState'
  BY <1>7, BusyWorker DEF FailAndRetry, HandedOutOnce
<1>8. ASSUME NEW w \in Workers, FailForGood(w) PROVE HeldState'
  <2>1. /\ exec' = [exec EXCEPT ![w] = NoJob] /\ UNCHANGED revived
        /\ \A v \in Workers : v # w /\ exec[v] = exec[w] => exec[v] \in revived
    BY <1>8 DEF FailForGood, HandedOutOnce
  <2> QED
    BY <1>8, <2>1, FailForGoodState
<1>9. ASSUME NEW w \in Workers, Unwind(w) PROVE HeldState'
  BY <1>9 DEF Unwind, backend
<1>10. CASE Flush
  BY <1>10 DEF Flush
<1>11. CASE CleanupPass
  BY <1>11, CleanupState DEF CleanupPass
<1>12. CASE (\E j \in Jobs : BecomeDue(j)) \/ Start \/ Stop \/ UNCHANGED vars
  BY <1>12 DEF BecomeDue, Start, Stop, vars, backend
<1> QED
  BY Cases, <1>1, <1>2, <1>3, <1>4, <1>5, <1>6, <1>7, <1>8, <1>9, <1>10, <1>11,
     <1>12

LEMMA HandedOutOnceStep ==
  ASSUME IInv, [Next]_vars
  PROVE  HandedOutOnce'
<1> USE DEF IInv, HandedOutOnce, TypeOK, Busy, history
<1>1. ASSUME NEW w \in Workers, NEW j \in Jobs, NEW F \in SUBSET Jobs, Takes(w, j, F)
      PROVE  HandedOutOnce'
  <2>1. \A v \in Workers : exec[v] = j => j \in revived
    BY <1>1, NullsAssumption DEF Takes, HeldState, Claimable
  <2> QED
    BY <1>1, <2>1, TakesState DEF Takes
<1>2. ASSUME NEW w \in Workers,
             Complete(w) \/ FailAndRetry(w) \/ FailForGood(w) \/ Unwind(w)
      PROVE  HandedOutOnce'
  BY <1>2, BusyWorker DEF Complete, FailAndRetry, FailForGood, Unwind
<1>3. CASE \/ \E j \in Jobs : Enqueue(j) \/ Cancel(j) \/ Retry(j) \/ BecomeDue(j)
           \/ \E F \in SUBSET Jobs : FailsBlocked(F)
           \/ Flush \/ CleanupPass \/ Start \/ Stop \/ UNCHANGED vars
  BY <1>3 DEF Enqueue, Cancel, Retry, BecomeDue, FailsBlocked, Flush, CleanupPass,
              Start, Stop, vars
<1> QED
  BY Cases, <1>1, <1>2, <1>3

LEMMA RunningIsHeldStep ==
  ASSUME IInv, [Next]_vars
  PROVE  RunningIsHeld'
<1> USE DEF IInv, RunningIsHeld, TypeOK, Busy, history
<1>1. ASSUME NEW j \in Jobs, Enqueue(j) PROVE RunningIsHeld'
  BY <1>1 DEF Enqueue
<1>2. ASSUME NEW j \in Jobs, Cancel(j) PROVE RunningIsHeld'
  BY <1>2, CancelState
<1>3. ASSUME NEW j \in Jobs, Retry(j) PROVE RunningIsHeld'
  BY <1>3 DEF Retry
<1>4. ASSUME NEW w \in Workers, NEW j \in Jobs, NEW F \in SUBSET Jobs, Takes(w, j, F)
      PROVE  RunningIsHeld'
  BY <1>4, TakesState, NullsAssumption DEF Takes
<1>5. ASSUME NEW F \in SUBSET Jobs, FailsBlocked(F) PROVE RunningIsHeld'
  BY <1>5, FailedState DEF FailsBlocked
<1>6. ASSUME NEW w \in Workers, Complete(w) PROVE RunningIsHeld'
  BY <1>6, BusyWorker DEF Complete
<1>7. ASSUME NEW w \in Workers, FailAndRetry(w) PROVE RunningIsHeld'
  BY <1>7, BusyWorker DEF FailAndRetry
<1>8. ASSUME NEW w \in Workers, FailForGood(w) PROVE RunningIsHeld'
  <2>1. /\ exec' = [exec EXCEPT ![w] = NoJob] /\ UNCHANGED interrupted
        /\ stored' = stored \cup {exec[w]}
    BY <1>8 DEF FailForGood
  <2> QED
    BY <1>8, <2>1, FailForGoodState
<1>9. ASSUME NEW w \in Workers, Unwind(w) PROVE RunningIsHeld'
  BY <1>9 DEF Unwind, backend
<1>10. CASE Flush
  BY <1>10 DEF Flush
<1>11. CASE CleanupPass
  BY <1>11, CleanupState DEF CleanupPass
<1>12. CASE (\E j \in Jobs : BecomeDue(j)) \/ Start \/ Stop \/ UNCHANGED vars
  BY <1>12 DEF BecomeDue, Start, Stop, vars, backend
<1> QED
  BY Cases, <1>1, <1>2, <1>3, <1>4, <1>5, <1>6, <1>7, <1>8, <1>9, <1>10, <1>11,
     <1>12

LEMMA ParentsSucceededStep ==
  ASSUME IInv, [Next]_vars
  PROVE  ParentsSucceeded' /\ StepsInOrder'
<1> USE DEF IInv, ParentsSucceeded, StepsInOrder, TypeOK, Busy, history
<1> DEFINE Goal == ParentsSucceeded' /\ StepsInOrder'
<1>1. ASSUME NEW j \in Jobs, Enqueue(j) PROVE Goal
  BY <1>1 DEF Enqueue
<1>2. ASSUME NEW j \in Jobs, Cancel(j) PROVE Goal
  BY <1>2, CancelState
<1>3. ASSUME NEW j \in Jobs, Retry(j) PROVE Goal
  BY <1>3 DEF Retry
<1>4. ASSUME NEW w \in Workers, NEW j \in Jobs, NEW F \in SUBSET Jobs, Takes(w, j, F)
      PROVE  Goal
  <2>1. Parents(j) \subseteq succeeded
    BY <1>4 DEF Takes, DependencySatisfied, Done
  <2> QED
    BY <1>4, <2>1, TakesState DEF Takes
<1>5. ASSUME NEW F \in SUBSET Jobs, FailsBlocked(F) PROVE Goal
  BY <1>5, FailedState DEF FailsBlocked
<1>6. ASSUME NEW w \in Workers, Complete(w) PROVE Goal
  BY <1>6, BusyWorker DEF Complete
<1>7. ASSUME NEW w \in Workers, FailAndRetry(w) PROVE Goal
  BY <1>7, BusyWorker DEF FailAndRetry
<1>8. ASSUME NEW w \in Workers, FailForGood(w) PROVE Goal
  <2>1. exec' = [exec EXCEPT ![w] = NoJob] /\ UNCHANGED succeeded
    BY <1>8 DEF FailForGood
  <2> QED
    BY <1>8, <2>1, FailForGoodState
<1>9. ASSUME NEW w \in Workers, Unwind(w) PROVE Goal
  BY <1>9 DEF Unwind, backend
<1>10. CASE Flush
  BY <1>10 DEF Flush
<1>11. CASE CleanupPass
  BY <1>11, CleanupState DEF CleanupPass
<1>12. CASE (\E j \in Jobs : BecomeDue(j)) \/ Start \/ Stop \/ UNCHANGED vars
  BY <1>12 DEF BecomeDue, Start, Stop, vars, backend
<1> QED
  BY Cases, <1>1, <1>2, <1>3, <1>4, <1>5, <1>6, <1>7, <1>8, <1>9, <1>10, <1>11,
     <1>12

LEMMA PushFinds ==
  ASSUME NEW j \in Jobs, PushOnto(heap, j)
  PROVE  heap \subseteq heap' /\ \E e \in heap' : e[2] = j
<1>1. <<counter + 1, j>> \in heap' /\ heap \subseteq heap'
  BY DEF PushOnto
<1> QED
  BY <1>1

LEMMA FindableStep ==
  ASSUME IInv, [Next]_vars
  PROVE  Findable'
<1> USE DEF IInv, Findable, TypeOK, Busy, history
<1>1. ASSUME NEW j \in Jobs, Enqueue(j) PROVE Findable'
  BY <1>1, PushFinds DEF Enqueue
<1>2. ASSUME NEW j \in Jobs, Cancel(j) PROVE Findable'
  BY <1>2, CancelState DEF Claimable
<1>3. ASSUME NEW j \in Jobs, Retry(j) PROVE Findable'
  BY <1>3, PushFinds DEF Retry
<1>4. ASSUME NEW w \in Workers, NEW j \in Jobs, NEW F \in SUBSET Jobs, Takes(w, j, F)
      PROVE  Findable'
  BY <1>4, TakesState DEF Takes, KeepsEntries, Claimable
<1>5. ASSUME NEW F \in SUBSET Jobs, FailsBlocked(F) PROVE Findable'
  BY <1>5, FailedState DEF FailsBlocked, KeepsEntries, Claimable
<1>6. ASSUME NEW w \in Workers, Complete(w) PROVE Findable'
  BY <1>6, BusyWorker DEF Complete, Claimable
<1>7. ASSUME NEW w \in Workers, FailAndRetry(w) PROVE Findable'
  BY <1>7, BusyWorker, PushFinds DEF FailAndRetry
<1>8. ASSUME NEW w \in Workers, FailForGood(w) PROVE Findable'
  <2>1. stored' = stored \cup {exec[w]} /\ UNCHANGED heap
    BY <1>8 DEF FailForGood
  <2> QED
    BY <1>8, <2>1, FailForGoodState DEF Claimable
<1>9. ASSUME NEW w \in Workers, Unwind(w) PROVE Findable'
  BY <1>9 DEF Unwind, backend
<1>10. CASE Flush
  BY <1>10 DEF Flush
<1>11. CASE CleanupPass
  BY <1>11, CleanupState DEF CleanupPass, Claimable
<1>12. CASE (\E j \in Jobs : BecomeDue(j)) \/ Start \/ Stop \/ UNCHANGED vars
  BY <1>12 DEF BecomeDue, Start, Stop, vars, backend
<1> QED
  BY Cases, <1>1, <1>2, <1>3, <1>4, <1>5, <1>6, <1>7, <1>8, <1>9, <1>10, <1>11,
     <1>12

(* A reservation survives when only reservations of jobs of F are given up. *)
LEMMA KeepsReservation ==
  ASSUME IInv, NEW F, NEW j \in stored \ revived, Live(j), DedupKey[j] # NoKey, j \notin F
  PROVE  Released(fingerprints, F)[DedupKey[j]] = j
<1>1. DedupKey[j] \in Keys /\ fingerprints[DedupKey[j]] = j
  BY JobAttributesAssumption DEF IInv, TypeOK, ReservationHeld
<1> QED
  BY <1>1 DEF Released

LEMMA ReservationHeldStep ==
  ASSUME IInv, [Next]_vars
  PROVE  ReservationHeld'
<1> USE DEF IInv, ReservationHeld, TypeOK, Live, history
<1>1. ASSUME NEW j \in Jobs, Enqueue(j) PROVE ReservationHeld'
  <2> SUFFICES ASSUME NEW i \in (stored \cup {j}) \ revived, Live(i)', DedupKey[i] # NoKey
               PROVE  fingerprints'[DedupKey[i]] = i
    BY <1>1 DEF Enqueue
  <2>1. DedupKey[i] \in Keys
    BY JobAttributesAssumption
  <2>2. CASE i = j
    BY <1>1, <2>1, <2>2 DEF Enqueue, ReserveFingerprint
  <2>3. CASE i # j
    <3>1. i \in stored \ revived /\ Live(i) /\ fingerprints[DedupKey[i]] = i
      BY <1>1, <2>3 DEF Enqueue
    <3> QED
      BY <1>1, <2>1, <3>1 DEF Enqueue, ReserveFingerprint
  <2> QED
    BY <2>2, <2>3
<1>2. ASSUME NEW j \in Jobs, Cancel(j) PROVE ReservationHeld'
  <2>1. /\ fingerprints' = Released(fingerprints, DependentsOf(j))
        /\ stored' = stored /\ revived' = revived
    BY <1>2 DEF Cancel
  <2>2. \A i \in Jobs : Live(i)' => Live(i) /\ i \notin DependentsOf(j)
    BY <1>2, <2>1, CancelState DEF Terminal, Broken
  <2> QED
    BY <2>1, <2>2, KeepsReservation
<1>3. ASSUME NEW j \in Jobs, Retry(j) PROVE ReservationHeld'
  BY <1>3 DEF Retry
<1>4. ASSUME NEW w \in Workers, NEW j \in Jobs, NEW F \in SUBSET Jobs, Takes(w, j, F)
      PROVE  ReservationHeld'
  <2>1. /\ fingerprints' = Released(fingerprints, F)
        /\ stored' = stored /\ revived' = revived
        /\ Live(j) /\ j \notin F
    BY <1>4 DEF Takes, Claimable, Terminal, Broken
  <2>2. \A i \in Jobs : Live(i)' => Live(i) /\ i \notin F
    BY <1>4, <2>1, TakesState DEF Terminal, Broken
  <2> QED
    BY <2>1, <2>2, KeepsReservation
<1>5. ASSUME NEW F \in SUBSET Jobs, FailsBlocked(F) PROVE ReservationHeld'
  <2>1. \A i \in Jobs : Live(i)' => Live(i) /\ i \notin F
    BY <1>5, FailedState DEF FailsBlocked, Terminal, Broken
  <2> QED
    BY <1>5, <2>1, KeepsReservation DEF FailsBlocked
<1>6. ASSUME NEW w \in Workers, Complete(w) PROVE ReservationHeld'
  <2>1. /\ fingerprints' = Released(fingerprints, {exec[w]})
        /\ revived' = revived /\ stored' = stored \cup {exec[w]}
    BY <1>6 DEF Complete
  <2>2. \A i \in stored' : Live(i)' => Live(i) /\ i # exec[w]
    BY <1>6, <2>1, BusyWorker DEF Complete, Terminal
  <2> QED
    BY <2>1, <2>2, KeepsReservation
<1>7. ASSUME NEW w \in Workers, FailAndRetry(w) PROVE ReservationHeld'
  BY <1>7, BusyWorker DEF FailAndRetry, Terminal, Broken
<1>8. ASSUME NEW w \in Workers, FailForGood(w) PROVE ReservationHeld'
  <2> DEFINE F == DependentsOf(exec[w]) \cup {exec[w]}
  <2>1. /\ fingerprints' = Released(fingerprints, F)
        /\ revived' = revived /\ stored' = stored \cup {exec[w]}
    BY <1>8 DEF FailForGood
  <2>2. \A i \in stored' : Live(i)' => Live(i) /\ i \notin F
    BY <1>8, <2>1, FailForGoodState DEF Terminal, Broken
  <2> QED
    BY <2>1, <2>2, KeepsReservation
<1>9. ASSUME NEW w \in Workers, Unwind(w) PROVE ReservationHeld'
  BY <1>9 DEF Unwind, backend
<1>10. CASE Flush
  BY <1>10 DEF Flush
<1>11. CASE CleanupPass
  <2>1. PICK F \in SUBSET stored :
          /\ \A i \in Jobs : state'[i] = IF i \in F THEN "failed" ELSE state[i]
          /\ fingerprints' = Released(fingerprints, F)
          /\ stored' \subseteq stored
    BY <1>11, CleanupState
  <2>2. \A i \in stored' : Live(i)' => Live(i) /\ i \notin F
    BY <2>1 DEF Terminal, Broken
  <2> QED
    BY <1>11, <2>1, <2>2, KeepsReservation DEF CleanupPass
<1>12. CASE (\E j \in Jobs : BecomeDue(j)) \/ Start \/ Stop \/ UNCHANGED vars
  BY <1>12 DEF BecomeDue, Start, Stop, vars, backend
<1> QED
  BY Cases, <1>1, <1>2, <1>3, <1>4, <1>5, <1>6, <1>7, <1>8, <1>9, <1>10, <1>11,
     <1>12
-----------------------------------------------------------------------------
LEMMA InitIInv == Init => IInv
<1> SUFFICES ASSUME Init PROVE IInv
  OBVIOUS
<1>1. TypeOK
  BY InitTypeOK
<1>2. \A w \in Workers : ~Busy(w)
  BY DEF Init, Busy
<1>3. /\ stored = {} /\ succeeded = {}
      /\ \A j \in Jobs : state[j] = "pending" /\ createdAt[j] = 0
  BY DEF Init
<1> QED
  BY <1>1, <1>2, <1>3 DEF IInv, Known, HeldState, ReservationHeld, ParentsSucceeded,
     Findable, HandedOutOnce, StepsInOrder, RunningIsHeld

(* The conjunction of the invariants is inductive: each operation preserves each
   part, given all the others. *)
THEOREM Invariance == Spec => []IInv
<1>1. IInv /\ [Next]_vars => IInv'
  BY TypeStep, KnownStep, HeldStateStep, ReservationHeldStep, ParentsSucceededStep,
     FindableStep, HandedOutOnceStep, RunningIsHeldStep DEF IInv
<1> QED
  BY InitIInv, <1>1, PTL DEF Spec

(* No claimable job is ever lost from the heap. *)
THEOREM AlwaysFindable == Spec => []Findable
<1>1. IInv => Findable
  BY DEF IInv
<1> QED
  BY Invariance, <1>1, PTL

(* Two workers run the same job only if it was put back by hand, or by a failure
   recorded after it was cancelled, failed or flushed. *)
THEOREM NeverHandedOutTwice == Spec => []HandedOutOnce
<1>1. IInv => HandedOutOnce
  BY DEF IInv
<1> QED
  BY Invariance, <1>1, PTL

(* Two live jobs never share a fingerprint unless one was put back: each of them
   would hold the one reservation. *)
THEOREM Deduplication == Spec => []DedupExclusive
<1>1. IInv => DedupExclusive
  BY DEF IInv, ReservationHeld, DedupExclusive
<1> QED
  BY Invariance, <1>1, PTL

(* The steps of a workflow succeed in the order of their dependencies. *)
THEOREM WorkflowOrder == Spec => []StepsInOrder
<1>1. IInv => StepsInOrder
  BY DEF IInv
<1> QED
  BY Invariance, <1>1, PTL

(* A stored RUNNING job has a worker, or had one that stop() interrupted. *)
THEOREM NoAbandonedRun == Spec => []RunningIsHeld
<1>1. IInv => RunningIsHeld
  BY DEF IInv
<1> QED
  BY Invariance, <1>1, PTL

(* COMPLETED and DEAD are final for a job that nobody revived. *)
THEOREM OutcomesAreFinal == Spec => OutcomeStays
<1> DEFINE Stays ==
      \A j \in Jobs : state[j] \in {"completed", "dead"} /\ j \notin revived'
        => state'[j] = state[j]
<1>1. ASSUME IInv, [Next]_vars PROVE Stays
  <2> SUFFICES ASSUME NEW j \in Jobs, state[j] \in {"completed", "dead"},
                      j \notin revived'
               PROVE  state'[j] = state[j]
    OBVIOUS
  <2> USE DEF TypeOK, history
  <2>0. /\ TypeOK /\ Known /\ HeldState
        /\ state[j] \in Terminal /\ state[j] \notin Claimable
    BY <1>1 DEF IInv, Terminal, Broken, Claimable
  <2>1. ASSUME NEW i \in Jobs, Enqueue(i) PROVE state'[j] = state[j]
    BY <2>0, <2>1 DEF Enqueue, Known
  <2>2. ASSUME NEW i \in Jobs, Cancel(i) PROVE state'[j] = state[j]
    <3>1. Live(i)
      BY <2>2 DEF Cancel
    <3> QED
      BY <2>0, <2>2, <3>1, CancelState DEF Live
  <2>3. ASSUME NEW i \in Jobs, Retry(i) PROVE state'[j] = state[j]
    BY <2>0, <2>3 DEF Retry
  <2>4. ASSUME NEW w \in Workers, NEW i \in Jobs, NEW F \in SUBSET Jobs, Takes(w, i, F)
        PROVE  state'[j] = state[j]
    BY <2>0, <2>4, TakesState DEF Takes
  <2>5. ASSUME NEW F \in SUBSET Jobs, FailsBlocked(F) PROVE state'[j] = state[j]
    BY <2>0, <2>5, FailedState DEF FailsBlocked
  <2>6. ASSUME NEW w \in Workers, exec[w] = j, Busy(w) PROVE j \in revived
    BY <2>0, <2>6 DEF HeldState
  <2>7. ASSUME NEW w \in Workers, Complete(w) PROVE state'[j] = state[j]
    BY <2>0, <2>6, <2>7 DEF Complete
  <2>8. ASSUME NEW w \in Workers, FailAndRetry(w) PROVE state'[j] = state[j]
    BY <2>0, <2>6, <2>8 DEF FailAndRetry
  <2>9. ASSUME NEW w \in Workers, FailForGood(w) PROVE state'[j] = state[j]
    <3>1. Busy(w) /\ revived' = revived
      BY <2>9 DEF FailForGood
    <3> QED
      BY <2>0, <2>6, <2>9, <3>1, FailForGoodState DEF Live
  <2>10. CASE CleanupPass
    BY <2>0, <2>10, CleanupState DEF Live
  <2>11. CASE \/ \E i \in Jobs : BecomeDue(i)
              \/ \E w \in Workers : Unwind(w)
              \/ Flush \/ Start \/ Stop \/ UNCHANGED vars
    BY <2>11 DEF BecomeDue, Unwind, Flush, Start, Stop, vars, backend
  <2> QED
    BY <1>1, <2>0, Cases, <2>1, <2>2, <2>3, <2>4, <2>5, <2>7, <2>8, <2>9, <2>10, <2>11
<1>2. IInv /\ [Next]_vars => [Stays]_vars
  BY <1>1
<1> QED
  BY Invariance, <1>2, PTL DEF Spec, OutcomeStays
-----------------------------------------------------------------------------
(* The in-process queue implements the job board (module JobBoard): every step
   of TaskQueue, read through the mapping of TaskQueue!Board, is a step of the
   board or changes nothing on it.  The invariant is needed twice: a job that is
   stored was posted (Known), and the dependencies of a job that starts have run
   (ParentsSucceeded). *)

(* The jobs on the board, and the jobs that were posted. *)
OnBoard == {j \in stored : state[j] \in Claimable}
Posted  == {j \in Jobs : createdAt[j] # 0}

LEMMA InitBoard == Init => Board!Init
<1> SUFFICES ASSUME Init PROVE Board!Init
  OBVIOUS
<1> QED
  BY DEF Init, Board!Init

(* The actions of the board, over the variables of the queue. *)
LEMMA BoardActions ==
  ASSUME TypeOK
  PROVE  /\ \A j \in Jobs : Board!Post(j) <=>
              /\ j \notin Posted
              /\ Posted' = Posted \cup {j} /\ OnBoard' = OnBoard \cup {j}
              /\ UNCHANGED <<exec, succeeded>>
         /\ \A j \in Jobs : Board!Return(j) <=>
              /\ j \in Posted
              /\ OnBoard' = OnBoard \cup {j}
              /\ UNCHANGED <<Posted, exec, succeeded>>
         /\ \A w \in Workers, j \in Jobs : Board!Take(w, j) <=>
              /\ exec[w] = NoJob
              /\ j \in OnBoard /\ Parents(j) \subseteq succeeded
              /\ exec' = [exec EXCEPT ![w] = j]
              /\ OnBoard' \subseteq OnBoard \ {j}
              /\ UNCHANGED <<Posted, succeeded>>
         /\ \A w \in Workers : Board!Finish(w) <=>
              /\ exec[w] # NoJob
              /\ exec' = [exec EXCEPT ![w] = NoJob]
              /\ succeeded' = succeeded \cup {exec[w]}
              /\ OnBoard' \subseteq OnBoard
              /\ UNCHANGED Posted
         /\ \A w \in Workers : Board!GiveBack(w) <=>
              /\ exec[w] # NoJob
              /\ exec' = [exec EXCEPT ![w] = NoJob]
              /\ OnBoard' = OnBoard \cup {exec[w]}
              /\ UNCHANGED <<Posted, succeeded>>
         /\ \A w \in Workers : Board!Drop({w}) <=>
              /\ exec' = [exec EXCEPT ![w] = NoJob]
              /\ OnBoard' \subseteq OnBoard
              /\ UNCHANGED <<Posted, succeeded>>
         /\ Board!Withdraw <=>
              OnBoard' \subseteq OnBoard /\ UNCHANGED <<Posted, exec, succeeded>>
<1> USE DEF Posted, OnBoard
<1>1. \A w \in Workers :
        (exec' = [v \in Workers |-> IF v \in {w} THEN NoJob ELSE exec[v]])
          <=> (exec' = [exec EXCEPT ![w] = NoJob])
  BY DEF TypeOK
<1>2. \A w \in Workers : Board!Drop({w}) <=>
        /\ exec' = [exec EXCEPT ![w] = NoJob]
        /\ OnBoard' \subseteq OnBoard
        /\ UNCHANGED <<Posted, succeeded>>
  BY <1>1 DEF Board!Drop
<1> QED
  BY <1>2 DEF Board!Post, Board!Return, Board!Take, Board!Finish, Board!GiveBack,
     Board!Withdraw

(* A job that runs or has ended is on the board in no state. *)
LEMMA OffBoard ==
  /\ \A s \in Terminal \cup {"running"} : s \notin Claimable
  /\ {"failed", "cancelled", "dead", "completed"} \subseteq Terminal
  BY DEF Terminal, Broken, Claimable

(* Steps that move no job to a claimable state put nothing on the board. *)
LEMMA BoardShrinks ==
  ASSUME TypeOK, stored' \cap {j \in Jobs : state'[j] \in Claimable} \subseteq stored,
         stored' \subseteq Jobs,
         \A j \in Jobs : state'[j] \in Claimable => state[j] \in Claimable
  PROVE  OnBoard' \subseteq OnBoard
  BY DEF OnBoard, TypeOK

LEMMA BoardStep ==
  ASSUME IInv, [Next]_vars
  PROVE  [Board!Next]_(Board!vars)
<1> USE DEF IInv
<1>0. TypeOK /\ TypeOK'
  BY TypeStep
<1>1. ASSUME NEW j \in Jobs, Enqueue(j) PROVE Board!Post(j)
  <2>1. j \notin Posted /\ Posted' = Posted \cup {j}
    BY <1>0, <1>1 DEF Enqueue, Posted, TypeOK
  <2>2. state'[j] \in Claimable /\ \A i \in Jobs \ {j} : state'[i] = state[i]
    BY <1>0, <1>1 DEF Enqueue, TypeOK, Claimable
  <2>3. OnBoard' = OnBoard \cup {j}
    BY <1>0, <1>1, <2>2, <2>1 DEF Enqueue, OnBoard, TypeOK, Known
  <2> QED
    BY <1>0, <1>1, <2>1, <2>3, BoardActions DEF Enqueue, history
<1>2. ASSUME NEW j \in Jobs, Cancel(j) PROVE Board!Withdraw
  <2>1. OnBoard' \subseteq OnBoard
    BY <1>0, <1>2, CancelState, OffBoard, BoardShrinks DEF TypeOK
  <2> QED
    BY <1>0, <1>2, <2>1, CancelState, BoardActions DEF Posted, history
<1>3. ASSUME NEW j \in Jobs, Retry(j) PROVE Board!Return(j)
  <2>1. j \in Posted
    BY <1>3 DEF Retry, Known, Posted
  <2>2. OnBoard' = OnBoard \cup {j}
    BY <1>0, <1>3 DEF Retry, OnBoard, TypeOK, Claimable
  <2> QED
    BY <1>0, <1>3, <2>1, <2>2, BoardActions DEF Retry, Posted, history
<1>4. ASSUME NEW w \in Workers, NEW j \in Jobs, NEW F \in SUBSET Jobs, Takes(w, j, F)
      PROVE  Board!Take(w, j)
  <2>1. Parents(j) \subseteq succeeded
    <3>1. Parents(j) \subseteq Jobs
      BY JobAttributesAssumption DEF Parents
    <3> QED
      BY <1>4, <3>1 DEF Takes, DependencySatisfied, Done, ParentsSucceeded
  <2>2. OnBoard' \subseteq OnBoard
    BY <1>0, <1>4, TakesState, OffBoard, BoardShrinks DEF Takes, TypeOK
  <2>3. j \in OnBoard /\ j \notin OnBoard'
    BY <1>0, <1>4, TakesState, OffBoard DEF Takes, OnBoard
  <2>4. /\ exec[w] = NoJob /\ exec' = [exec EXCEPT ![w] = j]
        /\ UNCHANGED <<Posted, succeeded>>
    BY <1>4 DEF Takes, StartJob, Busy, Posted, history
  <2>5. OnBoard' \subseteq OnBoard \ {j}
    BY <2>2, <2>3
  <2> QED
    BY <1>0, <2>1, <2>3, <2>4, <2>5, BoardActions
<1>5. ASSUME NEW F \in SUBSET Jobs, FailsBlocked(F) PROVE Board!Withdraw
  <2>1. OnBoard' \subseteq OnBoard
    BY <1>0, <1>5, FailedState, OffBoard, BoardShrinks DEF FailsBlocked, TypeOK
  <2> QED
    BY <1>0, <1>5, <2>1, BoardActions DEF FailsBlocked, Posted, history
<1>6. ASSUME NEW w \in Workers, Complete(w) PROVE Board!Finish(w)
  <2>1. exec[w] \in Jobs
    BY <1>0, <1>6, BusyWorker DEF Complete
  <2>2. OnBoard' \subseteq OnBoard
    BY <1>0, <1>6, <2>1, OffBoard DEF Complete, TypeOK, OnBoard
  <2> QED
    BY <1>0, <1>6, <2>2, BoardActions DEF Complete, Busy, Posted
<1>7. ASSUME NEW w \in Workers, FailAndRetry(w) PROVE Board!GiveBack(w)
  <2>1. exec[w] \in Jobs
    BY <1>0, <1>7, BusyWorker DEF FailAndRetry
  <2>2. OnBoard' = OnBoard \cup {exec[w]}
    BY <1>0, <1>7, <2>1 DEF FailAndRetry, TypeOK, OnBoard, Claimable
  <2> QED
    BY <1>0, <1>7, <2>2, BoardActions DEF FailAndRetry, Busy, Posted
<1>8. ASSUME NEW w \in Workers, FailForGood(w) PROVE Board!Drop({w})
  <2>1. stored' = stored \cup {exec[w]} /\ state'[exec[w]] = "dead"
    BY <1>0, <1>8, FailForGoodState DEF FailForGood
  <2>2. OnBoard' \subseteq OnBoard
    BY <1>0, <1>8, <2>1, FailForGoodState, OffBoard, BoardShrinks DEF TypeOK
  <2> QED
    BY <1>0, <1>8, <2>2, BoardActions DEF FailForGood, Posted, history
<1>9. ASSUME NEW w \in Workers, Unwind(w) PROVE Board!Drop({w})
  BY <1>0, <1>9, BoardActions DEF Unwind, Posted, OnBoard, backend
<1>10. ASSUME Flush PROVE Board!Withdraw
  BY <1>0, <1>10, BoardActions DEF Flush, Posted, OnBoard, history
<1>11. ASSUME CleanupPass PROVE Board!Withdraw
  <2>1. OnBoard' \subseteq OnBoard
    BY <1>0, <1>11, CleanupState, OffBoard, BoardShrinks DEF TypeOK
  <2> QED
    BY <1>0, <1>11, <2>1, BoardActions DEF CleanupPass, Posted, history
<1>12. CASE (\E j \in Jobs : BecomeDue(j)) \/ Start \/ Stop \/ UNCHANGED vars
  BY <1>12 DEF BecomeDue, Start, Stop, vars, backend, history, Board!vars
<1>13. ASSUME NEW w \in Workers, Board!Drop({w}) PROVE Board!Next
  BY <1>13 DEF Board!Next
<1> QED
  BY <1>0, Cases, <1>1, <1>2, <1>3, <1>4, <1>5, <1>6, <1>7, <1>8, <1>9, <1>10,
     <1>11, <1>12, <1>13 DEF Board!Next

(* The promise of TaskBackend, kept by the in-process queue for every set of
   jobs and workers and every dependency graph. *)
THEOREM BoardImplemented == Spec => ImplementsJobBoard
<1>1. IInv /\ [Next]_vars => [Board!Next]_(Board!vars)
  BY BoardStep
<1> QED
  BY Invariance, InitBoard, <1>1, PTL DEF Spec, ImplementsJobBoard, Board!Spec
=============================================================================
