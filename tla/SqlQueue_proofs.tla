--------------------------- MODULE SqlQueue_proofs ---------------------------
(* Proofs about SqlQueue, for every set of jobs, workers and processes and every
   workflow. *)
EXTENDS SqlQueue, TLAPS

States   == Claimable \cup Terminal \cup {"running", "absent"}
Owners   == Processes \cup {NoProcess}
Counters == {"idle", "poll", "orphan", "claim", "park", "fail", "claimed", "popped",
             "body", "store", "push"}
-----------------------------------------------------------------------------
(* The actions of Next, one by one, for proofs by cases. *)
LEMMA StepCases ==
  ASSUME [Next]_vars
  PROVE  \/ \E j \in Jobs : Push(j)
         \/ \E j \in Jobs : BecomeDue(j)
         \/ \E w \in Workers : Scan(w)
         \/ \E w \in Workers, j \in Jobs : CheckParent(w, j)
         \/ \E w \in Workers, j \in Jobs : Park(w, j)
         \/ \E w \in Workers, j \in Jobs : CheckOrphan(w, j)
         \/ \E w \in Workers, j \in Jobs : FailOrphan(w, j)
         \/ \E w \in Workers, j \in Jobs : Claim(w, j)
         \/ \E w \in Workers, j \in Jobs : LoseClaim(w, j)
         \/ \E w \in Workers : FinishPop(w) \/ StartBody(w)
         \/ \E w \in Workers : Heartbeat(w)
         \/ \E w \in Workers : Finish(w)
         \/ \E w \in Workers : Store(w)
         \/ \E w \in Workers : PushAgain(w)
         \/ \E j \in Jobs : Expire(j)
         \/ \E p \in Processes : ReclaimScan(p)
         \/ \E p \in Processes, j \in Jobs : Reclaim(p, j)
         \/ \E p \in Processes : Crash(p)
         \/ \E j \in Jobs : CancelRead(j) \/ RetryRead(j) \/ SweepRead(j)
         \/ SweepCheck
         \/ CancelWrite \/ SweepWrite
         \/ RetryWrite
         \/ Cleanup \/ Flush
         \/ UNCHANGED vars
  BY DEF Next, WorkerStep, ReclaimStep, ClientStep

LEMMA RowTypes ==
  /\ NoRow \in RowType
  /\ \A c \in RowType, st \in States : [c EXCEPT !.state = st] \in RowType
  /\ \A c \in RowType, st \in States, n \in Nat :
       [c EXCEPT !.state = st, !.epoch = n] \in RowType
  /\ NoSeen \in [Jobs -> RowType]
  BY DEF RowType, NoRow, NoSeen, States, Claimable, Terminal, Broken

(* _write keeps the columns typed. *)
LEMMA WriteType ==
  ASSUME TableOK, NEW j \in Jobs, NEW c \in RowType, NEW p \in Owners, Write(j, c, p)
  PROVE  TableOK'
  BY DEF TableOK, Write, Owners

(* The loop of pop goes on with candidates, or ends without. *)
LEMMA SkipType ==
  ASSUME LocalOK, NEW w \in Workers, NEW j \in Jobs, Skip(w, j), ~Holds(w),
         UNCHANGED <<job, copy>>
  PROVE  LocalOK'
<1>1. seen' = [seen EXCEPT ![w] = [seen[w] EXCEPT ![j] = NoRow]]
  BY DEF Skip
<1>2. seen' \in [Workers -> [Jobs -> RowType]]
  BY <1>1, RowTypes DEF LocalOK
<1>3. /\ pc'[w] \in {"idle", "poll"} /\ \A v \in Workers \ {w} : pc'[v] = pc[v]
      /\ pc' \in [Workers -> Counters]
  BY DEF Skip, LocalOK, Counters
<1>4. \A v \in Workers : Holds(v)' <=> job'[v] # NoJob
  BY <1>3 DEF Holds, LocalOK
<1>5. pc'[w] = "idle" => Candidates(w) = {j}
  BY DEF Skip, LocalOK
<1>6. /\ Candidates(w)' = Candidates(w) \ {j}
      /\ \A v \in Workers \ {w} : Candidates(v)' = Candidates(v)
  BY <1>1 DEF Candidates, LocalOK
<1>7. \A v \in Workers : (pc'[v] = "idle" \/ Holds(v)') => Candidates(v)' = {}
  BY <1>3, <1>5, <1>6 DEF LocalOK, Holds
<1> QED
  BY <1>2, <1>3, <1>4, <1>7 DEF LocalOK, Counters

(* A step inside the loop of pop, or inside the execution of a held job. *)
LEMMA MoveType ==
  ASSUME LocalOK, NEW w \in Workers, NEW from, NEW to, pc[w] = from,
         pc' = [pc EXCEPT ![w] = to], UNCHANGED <<seen, job>>,
         copy' \in [Workers -> RowType],
         \/ /\ from \in {"poll", "orphan", "claim", "park", "fail"}
            /\ to \in {"poll", "orphan", "claim", "park", "fail"}
         \/ /\ from \in {"claimed", "popped", "body", "store", "push"}
            /\ to \in {"claimed", "popped", "body", "store", "push"}
  PROVE  LocalOK'
<1>1. pc' \in [Workers -> Counters]
  BY DEF LocalOK, Counters
<1>2. \A v \in Workers : Holds(v)' <=> Holds(v)
  BY DEF LocalOK, Holds
<1>3. \A v \in Workers : pc'[v] = "idle" => pc[v] = "idle"
  BY DEF LocalOK
<1> QED
  BY <1>1, <1>2, <1>3 DEF LocalOK, Counters, Candidates

LEMMA ReleaseType ==
  ASSUME LocalOK, NEW w \in Workers, Holds(w), Release(w), UNCHANGED seen
  PROVE  LocalOK'
<1>1. /\ pc' = [pc EXCEPT ![w] = "idle"]
      /\ job' = [job EXCEPT ![w] = NoJob]
      /\ copy' = [copy EXCEPT ![w] = NoRow]
  BY DEF Release
<1>2. /\ pc' \in [Workers -> Counters]
      /\ job' \in [Workers -> Jobs \cup {NoJob}]
      /\ copy' \in [Workers -> RowType]
  BY <1>1, RowTypes DEF LocalOK, Counters
<1>3. \A v \in Workers : Holds(v)' <=> job'[v] # NoJob
  BY <1>1 DEF LocalOK, Holds
<1>4. \A v \in Workers : (pc'[v] = "idle" \/ Holds(v)') => Candidates(v)' = {}
  BY <1>1 DEF LocalOK, Candidates, Holds
<1> QED
  BY <1>2, <1>3, <1>4 DEF LocalOK, Counters

LEMMA LocalUnchanged ==
  ASSUME LocalOK, UNCHANGED local
  PROVE  LocalOK'
  BY DEF LocalOK, local, Holds, Candidates

LEMMA HeldJob ==
  ASSUME LocalOK, NEW w \in Workers, Holds(w)
  PROVE  job[w] \in Jobs /\ copy[w] \in RowType /\ Home[w] \in Owners
  BY IdentifiersAssumption DEF LocalOK, Owners

LEMMA InitTypeOK == Init => TypeOK
<1> SUFFICES ASSUME Init PROVE TypeOK
  OBVIOUS
<1>1. TableOK
  BY RowTypes DEF Init, TableOK
<1>2. /\ pc \in [Workers -> Counters] /\ job \in [Workers -> Jobs \cup {NoJob}]
      /\ seen \in [Workers -> [Jobs -> RowType]] /\ copy \in [Workers -> RowType]
  BY RowTypes DEF Init, Counters
<1>3. \A w \in Workers : (Holds(w) <=> job[w] # NoJob) /\ Candidates(w) = {}
  BY DEF Init, Holds, Candidates, NoSeen
<1>4. LocalOK
  BY <1>2, <1>3 DEF LocalOK, Counters
<1>5. /\ found \in [Processes -> [Jobs -> RowType]]
      /\ lapses \in Nat /\ crashes \in Nat /\ requeues \in Nat
  BY RowTypes DEF Init
<1>6. RestOK
  BY <1>5 DEF Init, RestOK
<1> QED
  BY <1>1, <1>4, <1>6 DEF TypeOK
-----------------------------------------------------------------------------
LEMMA TypeStep ==
  ASSUME TypeOK, [Next]_vars
  PROVE  TypeOK'
<1> USE DEF TypeOK, bounds, history
<1>1. ASSUME NEW j \in Jobs, Push(j) PROVE TypeOK'
  <2>1. TableOK'
    <3>1. PICK st \in States : Write(j, [NoRow EXCEPT !.state = st], NoProcess)
      BY <1>1 DEF Push, States, Claimable
    <3> QED
      BY <3>1, RowTypes, WriteType DEF Owners
  <2> QED
    BY <1>1, <2>1, LocalUnchanged DEF Push, RestOK
<1>2. ASSUME NEW j \in Jobs, BecomeDue(j) PROVE TypeOK'
  <2>1. TableOK'
    BY <1>2 DEF BecomeDue, TableOK, RowType
  <2> QED
    BY <1>2, <2>1, LocalUnchanged DEF BecomeDue, RestOK
<1>3. ASSUME NEW w \in Workers, Scan(w) PROVE TypeOK'
  <2>1. LocalOK'
    <3> DEFINE S == [j \in Jobs |-> IF j \in Scanned THEN row[j] ELSE NoRow]
    <3>1. S \in [Jobs -> RowType]
      BY RowTypes DEF TableOK
    <3>2. /\ pc[w] = "idle" /\ pc' = [pc EXCEPT ![w] = "poll"]
          /\ seen' = [seen EXCEPT ![w] = S] /\ UNCHANGED <<job, copy>>
      BY <1>3 DEF Scan
    <3> HIDE DEF S
    <3> QED
      BY <3>1, <3>2 DEF LocalOK, Holds, Candidates
  <2> QED
    BY <1>3, <2>1 DEF Scan, table, TableOK, RestOK
<1>4. ASSUME NEW w \in Workers, NEW j \in Jobs, CheckParent(w, j) PROVE TypeOK'
  <2>1. LocalOK'
    <3>1. CASE Skip(w, j)
      BY <1>4, <3>1, SkipType DEF CheckParent, Holds
    <3>2. CASE ~Skip(w, j)
      <4>1. PICK to \in {"orphan", "claim", "park"} : pc' = [pc EXCEPT ![w] = to]
        BY <1>4, <3>2 DEF CheckParent
      <4>2. pc[w] = "poll" /\ UNCHANGED <<seen, job, copy>>
        BY <1>4, <3>2 DEF CheckParent
      <4> QED
        BY <4>1, <4>2, MoveType DEF LocalOK
    <3> QED
      BY <3>1, <3>2
  <2> QED
    BY <1>4, <2>1 DEF CheckParent, table, TableOK, RestOK
<1>5. ASSUME NEW w \in Workers, NEW j \in Jobs, Park(w, j) \/ FailOrphan(w, j)
      PROVE  TypeOK'
  <2>1. PICK st \in States :
          /\ Write(j, [seen[w][j] EXCEPT !.state = st], NoProcess)
          /\ Skip(w, j) /\ ~Holds(w)
          /\ UNCHANGED <<pushed, job, copy, found, client, bounds, history>>
    BY <1>5 DEF Park, FailOrphan, States, Claimable, Terminal, Broken, Holds
  <2>2. TableOK'
    BY <2>1, RowTypes, WriteType DEF LocalOK, Owners
  <2> QED
    BY <2>1, <2>2, SkipType DEF RestOK
<1>6. ASSUME NEW w \in Workers, NEW j \in Jobs, CheckOrphan(w, j) PROVE TypeOK'
  <2>1. LocalOK'
    <3>1. CASE Lost(Parent[j])
      BY <1>6, <3>1, MoveType DEF CheckOrphan, LocalOK
    <3>2. CASE ~Lost(Parent[j])
      BY <1>6, <3>2, SkipType DEF CheckOrphan, Holds
    <3> QED
      BY <3>1, <3>2
  <2> QED
    BY <1>6, <2>1 DEF CheckOrphan, table, TableOK, RestOK
<1>7. ASSUME NEW w \in Workers, NEW j \in Jobs, Claim(w, j) PROVE TypeOK'
  <2>1. TableOK'
    BY <1>7, IdentifiersAssumption DEF Claim, TableOK, RowType
  <2>2. LocalOK'
    <3> DEFINE c == [seen[w][j] EXCEPT !.state = "running"]
    <3>1. c \in RowType /\ NoSeen \in [Jobs -> RowType]
      BY RowTypes DEF LocalOK, States
    <3>2. /\ pc' = [pc EXCEPT ![w] = "claimed"] /\ job' = [job EXCEPT ![w] = j]
          /\ copy' = [copy EXCEPT ![w] = c] /\ seen' = [seen EXCEPT ![w] = NoSeen]
      BY <1>7 DEF Claim
    <3> HIDE DEF c
    <3>3. \A v \in Workers : (pc'[v] = "idle" \/ Holds(v)') => Candidates(v)' = {}
      BY <3>2 DEF LocalOK, Candidates, Holds, NoSeen
    <3> QED
      BY <3>1, <3>2, <3>3, IdentifiersAssumption DEF LocalOK, Holds
  <2> QED
    BY <1>7, <2>1, <2>2 DEF Claim, RestOK
<1>8. ASSUME NEW w \in Workers, NEW j \in Jobs, LoseClaim(w, j) PROVE TypeOK'
  BY <1>8, SkipType DEF LoseClaim, MayClaim, Holds, table, TableOK, RestOK
<1>9. ASSUME NEW w \in Workers, FinishPop(w) \/ StartBody(w) PROVE TypeOK'
  <2>1. Holds(w) /\ Write(job[w], copy[w], Home[w])
    BY <1>9 DEF FinishPop, StartBody, WriteRunning, Holds
  <2>2. TableOK'
    BY <2>1, HeldJob, WriteType
  <2>3. LocalOK'
    BY <1>9, MoveType DEF FinishPop, StartBody, WriteRunning, LocalOK
  <2> QED
    BY <1>9, <2>2, <2>3 DEF FinishPop, StartBody, WriteRunning, RestOK
<1>10. ASSUME NEW w \in Workers, Heartbeat(w) PROVE TypeOK'
  BY <1>10, LocalUnchanged DEF Heartbeat, TableOK, RestOK
<1>11. ASSUME NEW w \in Workers, Finish(w) PROVE TypeOK'
  <2>1. Holds(w) /\ job[w] \in Jobs /\ copy[w] \in RowType
    BY <1>11, HeldJob DEF Finish, Holds
  <2>2. \A c \in Results(job[w], copy[w]) : c \in RowType
    <3> DEFINE c == copy[w]
    <3>1. c \in RowType /\ c.retries + 1 \in Nat
      BY <2>1 DEF RowType
    <3>2. /\ [c EXCEPT !.state = "completed"] \in RowType
          /\ [c EXCEPT !.state = "dead", !.retries = c.retries + 1] \in RowType
          /\ [c EXCEPT !.state = "retrying", !.retries = c.retries + 1, !.due = FALSE]
               \in RowType
      BY <3>1 DEF RowType, Claimable, Terminal, Broken
    <3> HIDE DEF c
    <3> QED
      BY <3>2 DEF Results, c
  <2>3. LocalOK'
    <3>1. CASE EpochHolds(w)
      <4>1. PICK c \in Results(job[w], copy[w]) : copy' = [copy EXCEPT ![w] = c]
        BY <1>11, <3>1 DEF Finish
      <4>2. copy' \in [Workers -> RowType]
        BY <2>2, <4>1 DEF LocalOK
      <4>3. pc[w] = "body" /\ pc' = [pc EXCEPT ![w] = "store"] /\ UNCHANGED <<seen, job>>
        BY <1>11, <3>1 DEF Finish
      <4> QED
        BY <4>2, <4>3, MoveType
    <3>2. CASE ~EpochHolds(w)
      BY <1>11, <2>1, <3>2, ReleaseType DEF Finish
    <3> QED
      BY <3>1, <3>2
  <2>4. succeeded' \in {succeeded, succeeded \cup {job[w]}}
    BY <1>11 DEF Finish
  <2> QED
    BY <1>11, <2>1, <2>3, <2>4 DEF Finish, table, TableOK, RestOK
<1>12. ASSUME NEW w \in Workers, Store(w) PROVE TypeOK'
  <2>1. Holds(w)
    BY <1>12 DEF Store, Holds
  <2>2. TableOK'
    BY <1>12, <2>1, HeldJob, WriteType DEF Store
  <2>3. LocalOK'
    <3>1. CASE copy[w].state = "retrying"
      BY <1>12, <3>1, MoveType DEF Store, LocalOK
    <3>2. CASE copy[w].state # "retrying"
      BY <1>12, <2>1, <3>2, ReleaseType DEF Store
    <3> QED
      BY <3>1, <3>2
  <2>4. job[w] \in Jobs /\ repeated' \in {repeated, repeated \cup {job[w]}}
    BY <1>12, <2>1, HeldJob DEF Store
  <2> QED
    BY <1>12, <2>2, <2>3, <2>4 DEF Store, RestOK
<1>13. ASSUME NEW w \in Workers, PushAgain(w) PROVE TypeOK'
  <2>1. Holds(w)
    BY <1>13 DEF PushAgain, Holds
  <2> QED
    BY <1>13, <2>1, HeldJob, WriteType, ReleaseType DEF PushAgain, RestOK
<1>14. ASSUME NEW j \in Jobs, Expire(j) PROVE TypeOK'
  <2>1. lapses' \in Nat /\ lapsed' \subseteq Jobs
    BY <1>14 DEF Expire, RestOK
  <2> QED
    BY <1>14, <2>1, LocalUnchanged DEF Expire, TableOK, RestOK
<1>15. ASSUME NEW p \in Processes, ReclaimScan(p) PROVE TypeOK'
  <2>1. PICK E \in SUBSET Jobs :
          found' = [found EXCEPT ![p] = [j \in Jobs |-> IF j \in E THEN row[j] ELSE NoRow]]
    BY <1>15 DEF ReclaimScan
  <2>2. [j \in Jobs |-> IF j \in E THEN row[j] ELSE NoRow] \in [Jobs -> RowType]
    BY RowTypes DEF TableOK
  <2>3. found' \in [Processes -> [Jobs -> RowType]]
    BY <2>1, <2>2 DEF RestOK
  <2>4. UNCHANGED <<table, pushed, local, client, bounds, history>>
    BY <1>15 DEF ReclaimScan
  <2> QED
    BY <2>3, <2>4, LocalUnchanged DEF table, TableOK, RestOK
<1>16. ASSUME NEW p \in Processes, NEW j \in Jobs, Reclaim(p, j) PROVE TypeOK'
  <2>1. found[p][j] \in RowType /\ found[p][j].epoch + 1 \in Nat
    BY DEF RestOK, RowType
  <2>2. PICK st \in States :
          Write(j, [found[p][j] EXCEPT !.state = st, !.epoch = @ + 1], NoProcess)
    BY <1>16 DEF Reclaim, States, Claimable
  <2>3. TableOK'
    BY <2>1, <2>2, RowTypes, WriteType DEF Owners
  <2>4. found' = [found EXCEPT ![p] = [found[p] EXCEPT ![j] = NoRow]]
    BY <1>16 DEF Reclaim
  <2>5. found' \in [Processes -> [Jobs -> RowType]]
    BY <2>4, RowTypes DEF RestOK
  <2>6. /\ UNCHANGED <<pushed, local, client, bounds, lapsed, revived, repeated, succeeded>>
        /\ fenced' \subseteq fenced \cup Workers
    BY <1>16 DEF Reclaim
  <2> QED
    BY <2>3, <2>5, <2>6, LocalUnchanged DEF RestOK
<1>17. ASSUME NEW p \in Processes, Crash(p) PROVE TypeOK'
  <2> DEFINE Mine == {w \in Workers : Home[w] = p}
  <2>1. /\ pc' = [w \in Workers |-> IF w \in Mine THEN "idle" ELSE pc[w]]
        /\ seen' = [w \in Workers |-> IF w \in Mine THEN NoSeen ELSE seen[w]]
        /\ job' = [w \in Workers |-> IF w \in Mine THEN NoJob ELSE job[w]]
        /\ copy' = [w \in Workers |-> IF w \in Mine THEN NoRow ELSE copy[w]]
    BY <1>17 DEF Crash
  <2>2. LocalOK'
    <3>1. /\ pc' \in [Workers -> Counters] /\ job' \in [Workers -> Jobs \cup {NoJob}]
          /\ seen' \in [Workers -> [Jobs -> RowType]] /\ copy' \in [Workers -> RowType]
      BY <2>1, RowTypes DEF LocalOK, Counters
    <3>2. \A w \in Workers : Holds(w)' <=> job'[w] # NoJob
      BY <2>1 DEF LocalOK, Holds
    <3>3. \A w \in Workers : (pc'[w] = "idle" \/ Holds(w)') => Candidates(w)' = {}
      BY <2>1 DEF LocalOK, Holds, Candidates, NoSeen
    <3> QED
      BY <3>1, <3>2, <3>3 DEF LocalOK, Counters
  <2>3. found' \in [Processes -> [Jobs -> RowType]] /\ crashes' \in Nat
    <3>1. found' = [found EXCEPT ![p] = NoSeen] /\ crashes' = crashes + 1
      BY <1>17 DEF Crash
    <3>2. found \in [Processes -> [Jobs -> RowType]] /\ crashes \in Nat
      BY DEF RestOK
    <3>3. NoSeen \in [Jobs -> RowType]
      BY RowTypes
    <3> QED
      BY <3>1, <3>2, <3>3
  <2>4. UNCHANGED <<table, pushed, client, lapses, requeues, history>>
    BY <1>17 DEF Crash
  <2>5. RestOK' /\ TableOK'
    BY <2>3, <2>4 DEF RestOK, table, TableOK
  <2> QED
    BY <2>2, <2>5
<1>18. ASSUME NEW j \in Jobs, CancelRead(j) \/ RetryRead(j) \/ SweepRead(j) PROVE TypeOK'
  <2>1. PICK kind \in {"cancel", "retry", "sweep"} : Read(kind, j)
    BY <1>18 DEF CancelRead, RetryRead, SweepRead
  <2>2. row[j] \in RowType
    BY DEF TableOK
  <2> QED
    BY <2>1, <2>2, LocalUnchanged DEF Read, table, TableOK, RestOK
<1>19. CASE SweepCheck
  <2>1. client \in [kind : {"sweep"}, job : Jobs, copy : RowType]
    BY <1>19 DEF SweepCheck, RestOK, Idle
  <2>2. RestOK'
    BY <1>19, <2>1 DEF SweepCheck, RestOK
  <2> QED
    BY <1>19, <2>2, LocalUnchanged DEF SweepCheck, table, TableOK
<1>20. ASSUME NEW kind \in {"cancel", "fail", "retry"}, NEW st \in States,
              WriteBack(kind, st), requeues' \in Nat, revived' \subseteq Jobs
       PROVE  TypeOK'
  <2>1. client.job \in Jobs /\ client.copy \in RowType
    BY <1>20 DEF WriteBack, RestOK, Idle
  <2>2. TableOK'
    BY <1>20, <2>1, RowTypes, WriteType DEF WriteBack, Owners
  <2> QED
    BY <1>20, <2>2, LocalUnchanged DEF WriteBack, RestOK
<1>21. CASE CancelWrite \/ SweepWrite
  BY <1>20, <1>21 DEF CancelWrite, SweepWrite, States, Terminal, Broken, RestOK
<1>22. CASE RetryWrite
  <2>1. client.job \in Jobs
    BY <1>22 DEF RetryWrite, WriteBack, RestOK, Idle
  <2> QED
    BY <1>20, <1>22, <2>1 DEF RetryWrite, States, Claimable, RestOK
<1>23. ASSUME NEW S \in SUBSET Jobs, Delete(S) PROVE TypeOK'
  <2>1. TableOK'
    BY <1>23, RowTypes DEF Delete, TableOK
  <2> QED
    BY <1>23, <2>1, LocalUnchanged DEF Delete, RestOK
<1>24. CASE Cleanup \/ Flush
  BY <1>23, <1>24 DEF Cleanup, Flush
<1>25. CASE UNCHANGED vars
  BY <1>25, LocalUnchanged DEF vars, table, TableOK, RestOK
<1> QED
  BY StepCases, <1>1, <1>2, <1>3, <1>4, <1>5, <1>6, <1>7, <1>8, <1>9, <1>10, <1>11,
     <1>12, <1>13, <1>14, <1>15, <1>16, <1>17, <1>18, <1>19, <1>21, <1>22, <1>24,
     <1>25

(* Rows and copies keep their types, and a worker holds a job exactly from its
   claim to its last write, through every statement of every process. *)
THEOREM Typing == Spec => []TypeOK
<1>1. TypeOK /\ [Next]_vars => TypeOK'
  BY TypeStep
<1> QED
  BY InitTypeOK, <1>1, PTL DEF Spec
-----------------------------------------------------------------------------
(* A job's dependency, if it has one, has succeeded. *)
Fit(j) == Parent[j] # NoJob => Parent[j] \in succeeded

(* What the steps of a workflow owe to one another: who may still write
   COMPLETED, and what was read before a claim. *)
Order ==
  /\ \A j \in Jobs : row[j].state = "completed" => j \in succeeded
  /\ \A w \in Workers :
       /\ Holds(w) => Fit(job[w])
       /\ Holds(w) /\ copy[w].state = "completed" => pc[w] = "store" /\ job[w] \in succeeded
       /\ pc[w] = "claim" => \A j \in Jobs : IsNext(w, j) => Fit(j)
  /\ StepsInOrder

OInv == TypeOK /\ Order

(* Order reads only these parts of the state. *)
LEMMA OrderUnchanged ==
  ASSUME Order, UNCHANGED <<local, succeeded>>,
         \A j \in Jobs : row'[j].state = "completed" => row[j].state = "completed"
  PROVE  Order'
  BY DEF Order, local, Fit, Holds, IsNext, Candidates, StepsInOrder

(* A write makes a row COMPLETED only from a COMPLETED copy. *)
LEMMA WriteState ==
  ASSUME TypeOK, NEW j \in Jobs, NEW c, NEW p, Write(j, c, p), c.state # "completed"
  PROVE  \A i \in Jobs : row'[i].state = "completed" => row[i].state = "completed"
  BY DEF TypeOK, TableOK, Write

(* The first candidate is unique: ranks are. *)
LEMMA NextUnique ==
  ASSUME NEW w \in Workers, NEW i \in Jobs, NEW j \in Jobs, IsNext(w, i), IsNext(w, j)
  PROVE  i = j
<1>1. Rank[i] <= Rank[j] /\ Rank[j] <= Rank[i]
  BY DEF IsNext
<1>2. Rank[i] \in Nat /\ Rank[j] \in Nat /\ (Rank[i] = Rank[j] => i = j)
  BY NumbersAssumption
<1> QED
  BY <1>1, <1>2

(* A step of worker w that leaves it in the loop of pop, but not about to claim,
   or back in front of it. *)
LEMMA PollOrder ==
  ASSUME OInv, NEW w \in Workers,
         \A v \in Workers \ {w} : pc'[v] = pc[v] /\ seen'[v] = seen[v]
                                  /\ job'[v] = job[v] /\ copy'[v] = copy[v],
         ~Holds(w)', pc'[w] # "claim", UNCHANGED succeeded,
         \A j \in Jobs : row'[j].state = "completed" => row[j].state = "completed"
  PROVE  Order'
<1>1. \A v \in Workers \ {w} : /\ Holds(v)' <=> Holds(v)
                               /\ \A j \in Jobs : IsNext(v, j)' <=> IsNext(v, j)
  BY DEF Holds, IsNext, Candidates
<1> QED
  BY <1>1 DEF OInv, Order, Fit, StepsInOrder

LEMMA OrderStep ==
  ASSUME OInv, [Next]_vars
  PROVE  Order'
<1> USE DEF history
<1>0. TypeOK /\ Order /\ LocalOK /\ TableOK /\ RestOK
  BY DEF OInv, TypeOK
<1>1. ASSUME NEW j \in Jobs, Push(j) PROVE Order'
  BY <1>0, <1>1, WriteState, OrderUnchanged DEF Push, NoRow
<1>2. ASSUME NEW j \in Jobs, BecomeDue(j) PROVE Order'
  <2>1. \A i \in Jobs : row'[i].state = row[i].state
    BY <1>0, <1>2 DEF BecomeDue, TableOK, RowType
  <2> QED
    BY <1>0, <1>2, <2>1, OrderUnchanged DEF BecomeDue
<1>3. ASSUME NEW w \in Workers, Scan(w) PROVE Order'
  BY <1>0, <1>3, PollOrder DEF Scan, LocalOK, Holds, table
<1>4. ASSUME NEW w \in Workers, NEW j \in Jobs, CheckParent(w, j) PROVE Order'
  <2>1. /\ pc[w] = "poll" /\ IsNext(w, j) /\ Parent[j] # NoJob
        /\ UNCHANGED <<table, job, copy, succeeded>>
    BY <1>4 DEF CheckParent
  <2>2. CASE Done(Parent[j]) /\ pc' = [pc EXCEPT ![w] = "claim"] /\ UNCHANGED seen
    <3>1. Fit(j)
      BY <1>0, <2>1, <2>2, IdentifiersAssumption DEF Done, Order, Fit
    <3>2. \A i \in Jobs : IsNext(w, i) => Fit(i)
      BY <2>1, <3>1, NextUnique
    <3>3. \A v \in Workers : /\ Holds(v)' <=> Holds(v)
                             /\ \A i \in Jobs : IsNext(v, i)' <=> IsNext(v, i)
      BY <1>0, <2>1, <2>2 DEF Holds, IsNext, Candidates, LocalOK
    <3> QED
      BY <1>0, <2>1, <2>2, <3>2, <3>3 DEF Order, Fit, StepsInOrder, Holds, LocalOK, table
  <2>3. CASE ~(Done(Parent[j]) /\ pc' = [pc EXCEPT ![w] = "claim"] /\ UNCHANGED seen)
    <3>1. /\ pc'[w] \in {"idle", "poll", "orphan", "park"}
          /\ \A v \in Workers \ {w} : pc'[v] = pc[v] /\ seen'[v] = seen[v]
      BY <1>0, <1>4, <2>3 DEF CheckParent, Skip, LocalOK
    <3> QED
      BY <2>1, <3>1, PollOrder DEF Holds, table
  <2> QED
    BY <2>2, <2>3
<1>5. ASSUME NEW w \in Workers, NEW j \in Jobs, Park(w, j) \/ FailOrphan(w, j)
      PROVE  Order'
  <2>1. PICK st \in {"waiting", "failed"} :
          /\ Write(j, [seen[w][j] EXCEPT !.state = st], NoProcess)
          /\ Skip(w, j) /\ UNCHANGED <<job, copy, succeeded>>
    BY <1>5 DEF Park, FailOrphan
  <2>2. [seen[w][j] EXCEPT !.state = st].state = st
    BY <1>0 DEF LocalOK, RowType
  <2>3. /\ pc'[w] \in {"idle", "poll"}
        /\ \A v \in Workers \ {w} : pc'[v] = pc[v] /\ seen'[v] = seen[v]
    BY <1>0, <2>1 DEF Skip, LocalOK
  <2> QED
    BY <1>0, <2>1, <2>2, <2>3, WriteState, PollOrder DEF Holds
<1>6. ASSUME NEW w \in Workers, NEW j \in Jobs, CheckOrphan(w, j) \/ LoseClaim(w, j)
      PROVE  Order'
  <2>1. /\ pc'[w] \in {"idle", "poll", "fail"}
        /\ \A v \in Workers \ {w} : pc'[v] = pc[v] /\ seen'[v] = seen[v]
    BY <1>0, <1>6 DEF CheckOrphan, LoseClaim, Skip, LocalOK
  <2> QED
    BY <1>6, <2>1, PollOrder DEF CheckOrphan, LoseClaim, Holds, table
<1>7. ASSUME NEW w \in Workers, NEW j \in Jobs, Claim(w, j) PROVE Order'
  <2>1. Fit(j)
    BY <1>0, <1>7 DEF Claim, MayClaim, Order, Fit
  <2>2. \A i \in Jobs : row'[i].state = "completed" => row[i].state = "completed"
    BY <1>0, <1>7 DEF Claim, TableOK, RowType
  <2>3. /\ pc'[w] = "claimed" /\ job'[w] = j /\ copy'[w].state = "running"
        /\ succeeded' = succeeded
    BY <1>0, <1>7 DEF Claim, LocalOK, RowType
  <2>4. \A v \in Workers \ {w} : /\ pc'[v] = pc[v] /\ seen'[v] = seen[v]
                                 /\ job'[v] = job[v] /\ copy'[v] = copy[v]
    BY <1>0, <1>7 DEF Claim, LocalOK
  <2>5. \A v \in Workers \ {w} : /\ Holds(v)' <=> Holds(v)
                                 /\ \A i \in Jobs : IsNext(v, i)' <=> IsNext(v, i)
    BY <2>4 DEF Holds, IsNext, Candidates
  <2> QED
    BY <1>0, <2>1, <2>2, <2>3, <2>4, <2>5 DEF Order, Fit, StepsInOrder
<1>8. ASSUME NEW w \in Workers, FinishPop(w) \/ StartBody(w) PROVE Order'
  <2>1. /\ Holds(w) /\ pc[w] # "store" /\ pc'[w] \in {"popped", "body"}
        /\ Write(job[w], copy[w], Home[w])
        /\ UNCHANGED <<seen, job, copy, succeeded>>
        /\ \A v \in Workers \ {w} : pc'[v] = pc[v]
    BY <1>0, <1>8 DEF FinishPop, StartBody, WriteRunning, Holds, LocalOK
  <2>2. \A i \in Jobs : row'[i].state = "completed" => row[i].state = "completed"
    BY <1>0, <2>1, HeldJob, WriteState DEF Order
  <2>3. \A v \in Workers : /\ Holds(v)' <=> Holds(v)
                           /\ \A i \in Jobs : IsNext(v, i)' <=> IsNext(v, i)
    BY <2>1 DEF Holds, IsNext, Candidates
  <2> QED
    BY <1>0, <2>1, <2>2, <2>3 DEF Order, Fit, StepsInOrder
<1>9. ASSUME NEW w \in Workers, Heartbeat(w) PROVE Order'
  BY <1>0, <1>9, OrderUnchanged DEF Heartbeat
<1>10. ASSUME NEW w \in Workers, Finish(w) PROVE Order'
  <2>1. PICK c \in Results(job[w], copy[w]) :
          /\ succeeded' = IF c.state = "completed" THEN succeeded \cup {job[w]}
                          ELSE succeeded
          /\ IF EpochHolds(w)
             THEN /\ pc' = [pc EXCEPT ![w] = "store"]
                  /\ copy' = [copy EXCEPT ![w] = c]
                  /\ UNCHANGED job
             ELSE Release(w)
    BY <1>10 DEF Finish
  <2>2. /\ Holds(w) /\ job[w] \in Jobs /\ Fit(job[w])
        /\ UNCHANGED <<row, seen>>
    BY <1>0, <1>10, HeldJob DEF Finish, Holds, Order, table
  <2>3. succeeded \subseteq succeeded' /\ StepsInOrder'
    BY <1>0, <2>1, <2>2 DEF Order, Fit, StepsInOrder
  <2>4. \A v \in Workers \ {w} : /\ pc'[v] = pc[v] /\ job'[v] = job[v]
                                 /\ copy'[v] = copy[v]
    BY <1>0, <2>1 DEF Release, LocalOK
  <2>5. \A v \in Workers \ {w} : /\ Holds(v)' <=> Holds(v)
                                 /\ \A i \in Jobs : IsNext(v, i)' <=> IsNext(v, i)
    BY <2>2, <2>4 DEF Holds, IsNext, Candidates
  <2>6. CASE EpochHolds(w)
    <3>1. pc'[w] = "store" /\ job'[w] = job[w] /\ copy'[w] = c
      BY <1>0, <2>1, <2>6 DEF LocalOK
    <3>2. c.state = "completed" => job[w] \in succeeded'
      BY <2>1
    <3> QED
      BY <1>0, <2>2, <2>3, <2>4, <2>5, <3>1, <3>2 DEF Order, Fit
  <2>7. CASE ~EpochHolds(w)
    <3>1. pc'[w] = "idle"
      BY <1>0, <2>1, <2>7 DEF Release, LocalOK
    <3>2. ~Holds(w)'
      BY <3>1 DEF Holds
    <3> QED
      BY <1>0, <2>2, <2>3, <2>4, <2>5, <3>1, <3>2 DEF Order, Fit
  <2> QED
    BY <2>6, <2>7
<1>11. ASSUME NEW w \in Workers, Store(w) \/ PushAgain(w) PROVE Order'
  <2>1. /\ Holds(w) /\ Write(job[w], copy[w], Home[w]) /\ UNCHANGED <<seen, succeeded>>
        /\ \/ pc'[w] = "idle"
           \/ /\ copy[w].state = "retrying" /\ pc'[w] = "push"
              /\ UNCHANGED <<job, copy>>
        /\ \A v \in Workers \ {w} : /\ pc'[v] = pc[v] /\ job'[v] = job[v]
                                    /\ copy'[v] = copy[v]
    BY <1>0, <1>11 DEF Store, PushAgain, Release, Holds, LocalOK
  <2>2. job[w] \in Jobs
    BY <1>0, <2>1, HeldJob
  <2>3. \A i \in Jobs : row'[i].state = "completed" => i \in succeeded
    BY <1>0, <2>1, <2>2 DEF Write, TableOK, Order
  <2>4. \A v \in Workers \ {w} : /\ Holds(v)' <=> Holds(v)
                                 /\ \A i \in Jobs : IsNext(v, i)' <=> IsNext(v, i)
    BY <2>1 DEF Holds, IsNext, Candidates
  <2> QED
    BY <1>0, <2>1, <2>3, <2>4 DEF Order, Fit, StepsInOrder, Holds
<1>12. ASSUME NEW j \in Jobs, Expire(j) PROVE Order'
  BY <1>0, <1>12, OrderUnchanged DEF Expire
<1>13. ASSUME NEW p \in Processes, ReclaimScan(p) PROVE Order'
  BY <1>0, <1>13, OrderUnchanged DEF ReclaimScan, table
<1>14. ASSUME NEW p \in Processes, NEW j \in Jobs, Reclaim(p, j) PROVE Order'
  <2>1. PICK st \in {"retrying", "pending"} :
          Write(j, [found[p][j] EXCEPT !.state = st, !.epoch = @ + 1], NoProcess)
    BY <1>14 DEF Reclaim
  <2>2. [found[p][j] EXCEPT !.state = st, !.epoch = @ + 1].state = st
    BY <1>0 DEF RestOK, RowType
  <2>3. UNCHANGED <<local, succeeded>>
    BY <1>14 DEF Reclaim
  <2> QED
    BY <1>0, <2>1, <2>2, <2>3, WriteState, OrderUnchanged
<1>15. ASSUME NEW p \in Processes, Crash(p) PROVE Order'
  <2> DEFINE Mine == {w \in Workers : Home[w] = p}
  <2>1. /\ pc' = [w \in Workers |-> IF w \in Mine THEN "idle" ELSE pc[w]]
        /\ seen' = [w \in Workers |-> IF w \in Mine THEN NoSeen ELSE seen[w]]
        /\ job' = [w \in Workers |-> IF w \in Mine THEN NoJob ELSE job[w]]
        /\ copy' = [w \in Workers |-> IF w \in Mine THEN NoRow ELSE copy[w]]
        /\ UNCHANGED <<row, succeeded>>
    BY <1>15 DEF Crash, table
  <2>2. \A w \in Workers :
          \/ pc'[w] = "idle"
          \/ /\ pc'[w] = pc[w] /\ seen'[w] = seen[w]
             /\ job'[w] = job[w] /\ copy'[w] = copy[w]
    BY <2>1
  <2>3. \A w \in Workers :
          \/ ~Holds(w)' /\ pc'[w] # "claim"
          \/ /\ pc'[w] = pc[w] /\ job'[w] = job[w] /\ copy'[w] = copy[w]
             /\ Holds(w)' <=> Holds(w)
             /\ \A i \in Jobs : IsNext(w, i)' <=> IsNext(w, i)
    BY <2>2 DEF Holds, IsNext, Candidates
  <2> QED
    BY <1>0, <2>1, <2>3 DEF Order, Fit, StepsInOrder
<1>16. ASSUME NEW j \in Jobs, CancelRead(j) \/ RetryRead(j) \/ SweepRead(j) PROVE Order'
  BY <1>0, <1>16, OrderUnchanged DEF CancelRead, RetryRead, SweepRead, Read, table
<1>17. CASE SweepCheck
  BY <1>0, <1>17, OrderUnchanged DEF SweepCheck, table
<1>18. ASSUME NEW kind \in {"cancel", "fail", "retry"},
              NEW st \in {"cancelled", "failed", "retrying"}, WriteBack(kind, st)
       PROVE  Order'
  <2>1. client.job \in Jobs /\ [client.copy EXCEPT !.state = st].state = st
    BY <1>0, <1>18 DEF WriteBack, RestOK, Idle, RowType
  <2> QED
    BY <1>0, <1>18, <2>1, WriteState, OrderUnchanged DEF WriteBack
<1>19. CASE CancelWrite \/ SweepWrite \/ RetryWrite
  BY <1>18, <1>19 DEF CancelWrite, SweepWrite, RetryWrite
<1>20. ASSUME NEW S \in SUBSET Jobs, Delete(S) PROVE Order'
  BY <1>0, <1>20, OrderUnchanged DEF Delete, NoRow
<1>21. CASE Cleanup \/ Flush
  BY <1>20, <1>21 DEF Cleanup, Flush
<1>22. CASE UNCHANGED vars
  BY <1>0, <1>22, OrderUnchanged DEF vars, table
<1> QED
  BY StepCases, <1>1, <1>2, <1>3, <1>4, <1>5, <1>6, <1>7, <1>8, <1>9, <1>10, <1>11,
     <1>12, <1>13, <1>14, <1>15, <1>16, <1>17, <1>19, <1>21, <1>22

(* Types and the order of workflow steps, together, are inductive. *)
THEOREM Invariance == Spec => []OInv
<1>1. Init => OInv
  <2> SUFFICES ASSUME Init PROVE Order
    BY InitTypeOK DEF OInv
  <2>1. \A w \in Workers : ~Holds(w) /\ pc[w] # "claim"
    BY DEF Init, Holds
  <2>2. \A j \in Jobs : row[j].state = "absent"
    BY DEF Init, NoSeen, NoRow
  <2> QED
    BY <2>1, <2>2 DEF Init, Order, StepsInOrder
<1>2. OInv /\ [Next]_vars => OInv'
  BY TypeStep, OrderStep DEF OInv
<1> QED
  BY <1>1, <1>2, PTL DEF Spec

(* A step of a workflow succeeds only after the step it depends on, whatever the
   processes crash, race, reclaim or write back late. *)
THEOREM WorkflowOrder == Spec => []StepsInOrder
<1>1. OInv => StepsInOrder
  BY DEF OInv, Order
<1> QED
  BY Invariance, <1>1, PTL
=============================================================================
