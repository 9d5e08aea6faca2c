-------------------------- MODULE SqlQueueBoard_proofs --------------------------
(* The shared table implements the job board (module JobBoard), whatever the
   processes crash, race, reclaim or write back late; and, for jobs that nothing has
   disturbed, one worker at a time holds a job and its result is kept. *)
EXTENDS SqlQueue_proofs

(* The abstract variables of SqlQueue!Board. *)
OnBoard == {j \in Jobs : row[j].state \in Claimable}
InHand  == {"claimed", "popped", "body"}
Hand    == [w \in Workers |-> IF pc[w] \in InHand THEN job[w] ELSE NoJob]

(* Where rows and copies come from: only jobs that were pushed have any, a poll
   tries only rows it read claimable, and until its body has ended a worker holds
   a copy that says RUNNING. *)
Origin ==
  /\ \A j \in Jobs : row[j].state # "absent" => j \in pushed
  /\ \A w \in Workers, j \in Jobs :
       seen[w][j] # NoRow => j \in pushed /\ seen[w][j].state \in Claimable
  /\ \A w \in Workers :
       /\ Holds(w) => job[w] \in pushed
       /\ pc[w] \in InHand => copy[w].state = "running"
  /\ \A p \in Processes, j \in Jobs : found[p][j] # NoRow => j \in pushed
  /\ client # Idle => client.job \in pushed

BInv == OInv /\ Origin
-----------------------------------------------------------------------------
(* The actions of the board, over the variables of the table and its workers. *)
LEMMA BoardActions ==
  /\ \A j \in Jobs : Board!Post(j) <=>
       /\ j \notin pushed
       /\ pushed' = pushed \cup {j} /\ OnBoard' = OnBoard \cup {j}
       /\ UNCHANGED <<Hand, succeeded>>
  /\ \A j \in Jobs : Board!Return(j) <=>
       /\ j \in pushed
       /\ OnBoard' = OnBoard \cup {j}
       /\ UNCHANGED <<pushed, Hand, succeeded>>
  /\ \A w \in Workers, j \in Jobs : Board!Take(w, j) <=>
       /\ Hand[w] = NoJob
       /\ j \in OnBoard /\ {Parent[j]} \ {NoJob} \subseteq succeeded
       /\ Hand' = [Hand EXCEPT ![w] = j]
       /\ OnBoard' \subseteq OnBoard \ {j}
       /\ UNCHANGED <<pushed, succeeded>>
  /\ \A w \in Workers : Board!Finish(w) <=>
       /\ Hand[w] # NoJob
       /\ Hand' = [Hand EXCEPT ![w] = NoJob]
       /\ succeeded' = succeeded \cup {Hand[w]}
       /\ OnBoard' \subseteq OnBoard
       /\ UNCHANGED pushed
  /\ \A S \in SUBSET Workers : Board!Drop(S) <=>
       /\ Hand' = [w \in Workers |-> IF w \in S THEN NoJob ELSE Hand[w]]
       /\ OnBoard' \subseteq OnBoard
       /\ UNCHANGED <<pushed, succeeded>>
  /\ Board!Withdraw <=>
       OnBoard' \subseteq OnBoard /\ UNCHANGED <<pushed, Hand, succeeded>>
<1> USE DEF OnBoard, Hand, InHand
<1>1. \A w \in Workers, j \in Jobs : Board!Take(w, j) <=>
        /\ Hand[w] = NoJob
        /\ j \in OnBoard /\ {Parent[j]} \ {NoJob} \subseteq succeeded
        /\ Hand' = [Hand EXCEPT ![w] = j]
        /\ OnBoard' \subseteq OnBoard \ {j}
        /\ UNCHANGED <<pushed, succeeded>>
  BY DEF Board!Take
<1>2. \A w \in Workers : Board!Finish(w) <=>
        /\ Hand[w] # NoJob
        /\ Hand' = [Hand EXCEPT ![w] = NoJob]
        /\ succeeded' = succeeded \cup {Hand[w]}
        /\ OnBoard' \subseteq OnBoard
        /\ UNCHANGED pushed
  BY DEF Board!Finish
<1>3. \A S \in SUBSET Workers : Board!Drop(S) <=>
        /\ Hand' = [w \in Workers |-> IF w \in S THEN NoJob ELSE Hand[w]]
        /\ OnBoard' \subseteq OnBoard
        /\ UNCHANGED <<pushed, succeeded>>
  BY DEF Board!Drop
<1>4. Board!Withdraw <=>
        OnBoard' \subseteq OnBoard /\ UNCHANGED <<pushed, Hand, succeeded>>
  BY DEF Board!Withdraw
<1>5. \A j \in Jobs :
        /\ Board!Post(j) <=>
             /\ j \notin pushed
             /\ pushed' = pushed \cup {j} /\ OnBoard' = OnBoard \cup {j}
             /\ UNCHANGED <<Hand, succeeded>>
        /\ Board!Return(j) <=>
             /\ j \in pushed
             /\ OnBoard' = OnBoard \cup {j}
             /\ UNCHANGED <<pushed, Hand, succeeded>>
  BY DEF Board!Post, Board!Return
<1> QED
  BY <1>1, <1>2, <1>3, <1>4, <1>5

(* A step of the queue that is a stutter, or one of the quiet steps, of the board. *)
LEMMA Stutter ==
  ASSUME UNCHANGED <<pushed, OnBoard, Hand, succeeded>>
  PROVE  [Board!Next]_(Board!vars)
  BY DEF Board!vars, OnBoard, Hand, InHand

LEMMA HandUnchanged ==
  ASSUME \A v \in Workers : /\ pc'[v] \in InHand <=> pc[v] \in InHand
                            /\ pc[v] \in InHand => job'[v] = job[v]
  PROVE  UNCHANGED Hand
  BY DEF Hand

(* A write of a row by anyone who does not take a job: the job is on the board
   afterwards exactly when what is written is claimable. *)
LEMMA WriteOnBoard ==
  ASSUME TypeOK, NEW j \in Jobs, NEW c, NEW p, Write(j, c, p)
  PROVE  /\ c.state \in Claimable => OnBoard' = OnBoard \cup {j}
         /\ c.state \notin Claimable => OnBoard' = OnBoard \ {j}
<1>1. /\ row'[j] = c
      /\ \A i \in Jobs \ {j} : row'[i] = row[i]
  BY DEF Write, TypeOK, TableOK
<1> QED
  BY <1>1 DEF OnBoard

LEMMA WriteStep ==
  ASSUME TypeOK, NEW j \in Jobs, NEW c, NEW p, Write(j, c, p),
         j \in pushed, UNCHANGED <<pushed, Hand, succeeded>>
  PROVE  [Board!Next]_(Board!vars)
<1>1. Board!Return(j) \/ Board!Withdraw
  BY WriteOnBoard, BoardActions
<1> QED
  BY <1>1 DEF Board!Next
-----------------------------------------------------------------------------
LEMMA OriginUnchanged ==
  ASSUME Origin, UNCHANGED <<local, found, client>>, pushed \subseteq pushed',
         \A j \in Jobs : row'[j].state # "absent" => j \in pushed'
  PROVE  Origin'
  BY DEF Origin, local, Holds

(* A write of a row of a job that was pushed keeps the origin of the rows. *)
LEMMA WriteOrigin ==
  ASSUME TypeOK, Origin, NEW j \in Jobs, NEW c, NEW p, Write(j, c, p), j \in pushed
  PROVE  \A i \in Jobs : row'[i].state # "absent" => i \in pushed
<1>1. \A i \in Jobs \ {j} : row'[i] = row[i]
  BY DEF Write, TypeOK, TableOK
<1> QED
  BY <1>1 DEF Origin

(* A step of worker w only. *)
LEMMA WorkerOrigin ==
  ASSUME TypeOK, Origin, NEW w \in Workers, UNCHANGED <<pushed, found, client>>,
         \A v \in Workers \ {w} : /\ pc'[v] = pc[v] /\ seen'[v] = seen[v]
                                  /\ job'[v] = job[v] /\ copy'[v] = copy[v],
         \A j \in Jobs : row'[j].state # "absent" => j \in pushed,
         \A j \in Jobs : seen'[w][j] # NoRow =>
           j \in pushed /\ seen'[w][j].state \in Claimable,
         Holds(w)' => job'[w] \in pushed,
         pc'[w] \in InHand => copy'[w].state = "running"
  PROVE  Origin'
<1>1. \A v \in Workers \ {w} : Holds(v)' <=> Holds(v)
  BY DEF Holds
<1> QED
  BY <1>1 DEF Origin

LEMMA OriginStep ==
  ASSUME BInv, [Next]_vars
  PROVE  Origin'
<1> USE DEF history
<1>0. TypeOK /\ Origin /\ LocalOK /\ TableOK /\ RestOK
  BY DEF BInv, OInv, TypeOK
<1>1. ASSUME NEW j \in Jobs, Push(j) PROVE Origin'
  <2>1. \A i \in Jobs \ {j} : row'[i] = row[i]
    BY <1>0, <1>1 DEF Push, Write, TableOK
  <2> QED
    BY <1>0, <1>1, <2>1, OriginUnchanged DEF Push, Origin
<1>2. ASSUME NEW j \in Jobs, BecomeDue(j) PROVE Origin'
  <2>1. \A i \in Jobs : row'[i].state = row[i].state
    BY <1>0, <1>2 DEF BecomeDue, TableOK, RowType
  <2> QED
    BY <1>0, <1>2, <2>1, OriginUnchanged DEF BecomeDue, Origin
<1>3. ASSUME NEW w \in Workers, Scan(w) PROVE Origin'
  <2>1. /\ \A j \in Jobs : seen'[w][j] # NoRow =>
             j \in pushed /\ seen'[w][j].state \in Claimable
        /\ \A v \in Workers \ {w} : seen'[v] = seen[v]
    <3>1. \A j \in Scanned : row[j].state \in Claimable /\ row[j].state # "absent"
      BY DEF Scanned, Ready, Claimable
    <3> QED
      BY <1>0, <1>3, <3>1 DEF Scan, LocalOK, Origin
  <2> QED
    BY <1>0, <1>3, <2>1, WorkerOrigin DEF Scan, LocalOK, Holds, InHand, table, Origin
<1>4. ASSUME NEW w \in Workers, NEW j \in Jobs, Skip(w, j), ~Holds(w),
             UNCHANGED <<pushed, found, client, job, copy>>,
             \A i \in Jobs : row'[i].state # "absent" => i \in pushed
      PROVE  Origin'
  <2>1. /\ \A i \in Jobs : seen'[w][i] # NoRow => seen'[w][i] = seen[w][i]
        /\ \A v \in Workers \ {w} : seen'[v] = seen[v] /\ pc'[v] = pc[v]
        /\ pc'[w] \in {"idle", "poll"}
    BY <1>0, <1>4 DEF Skip, LocalOK
  <2> QED
    BY <1>0, <1>4, <2>1, WorkerOrigin DEF Holds, InHand, Origin
<1>5. ASSUME NEW w \in Workers, NEW to, pc' = [pc EXCEPT ![w] = to], ~Holds(w),
             to \in {"poll", "orphan", "claim", "park", "fail"},
             UNCHANGED <<pushed, found, client, seen, job, copy, row>>
      PROVE  Origin'
  <2>1. pc'[w] = to /\ \A v \in Workers \ {w} : pc'[v] = pc[v]
    BY <1>0, <1>5 DEF LocalOK
  <2> QED
    BY <1>0, <1>5, <2>1, WorkerOrigin DEF Holds, InHand, Origin
<1>6. ASSUME NEW w \in Workers, NEW j \in Jobs, CheckParent(w, j) \/ CheckOrphan(w, j)
      PROVE  Origin'
  <2>1. /\ ~Holds(w)
        /\ UNCHANGED <<row, pushed, found, client, job, copy>>
    BY <1>6 DEF CheckParent, CheckOrphan, Holds, table
  <2>2. \/ Skip(w, j)
        \/ \E to \in {"orphan", "claim", "park", "fail"} :
             pc' = [pc EXCEPT ![w] = to] /\ UNCHANGED seen
    BY <1>6 DEF CheckParent, CheckOrphan
  <2> QED
    BY <1>0, <1>4, <1>5, <2>1, <2>2 DEF Origin
<1>7. ASSUME NEW w \in Workers, NEW j \in Jobs, Park(w, j) \/ FailOrphan(w, j)
      PROVE  Origin'
  <2>1. /\ ~Holds(w) /\ Skip(w, j) /\ j \in pushed
        /\ UNCHANGED <<pushed, found, client, job, copy>>
    BY <1>0, <1>7 DEF Park, FailOrphan, Holds, IsNext, Candidates, Origin
  <2>2. \E c : Write(j, c, NoProcess)
    BY <1>7 DEF Park, FailOrphan
  <2>3. \A i \in Jobs : row'[i].state # "absent" => i \in pushed
    BY <1>0, <2>1, <2>2, WriteOrigin
  <2> QED
    BY <1>4, <2>1, <2>3
<1>8. ASSUME NEW w \in Workers, NEW j \in Jobs, Claim(w, j) PROVE Origin'
  <2>1. j \in pushed /\ seen[w][j] \in RowType
    BY <1>0, <1>8 DEF Claim, MayClaim, IsNext, Candidates, Origin, LocalOK
  <2>2. /\ pc'[w] = "claimed" /\ job'[w] = j /\ seen'[w] = NoSeen
        /\ copy'[w].state = "running"
        /\ \A v \in Workers \ {w} : /\ pc'[v] = pc[v] /\ seen'[v] = seen[v]
                                    /\ job'[v] = job[v] /\ copy'[v] = copy[v]
    BY <1>0, <1>8, <2>1 DEF Claim, LocalOK, RowType
  <2>3. \A i \in Jobs : row'[i].state # "absent" => i \in pushed
    BY <1>0, <1>8, <2>1 DEF Claim, TableOK, Origin
  <2>4. UNCHANGED <<pushed, found, client>>
    BY <1>8 DEF Claim
  <2>5. \A i \in Jobs : seen'[w][i] = NoRow
    BY <2>2 DEF NoSeen
  <2> QED
    BY <1>0, <2>1, <2>2, <2>3, <2>4, <2>5, WorkerOrigin
<1>9. ASSUME NEW w \in Workers, NEW j \in Jobs, LoseClaim(w, j) PROVE Origin'
  BY <1>0, <1>4, <1>9 DEF LoseClaim, MayClaim, Holds, table, Origin
<1>10. ASSUME NEW w \in Workers, FinishPop(w) \/ StartBody(w) PROVE Origin'
  <2>1. PICK from \in {"claimed", "popped"}, to \in {"popped", "body"} :
          WriteRunning(w, from, to)
    BY <1>10 DEF FinishPop, StartBody
  <2>2. Holds(w) /\ pc[w] \in InHand
    BY <2>1 DEF WriteRunning, Holds, InHand
  <2>3. \A i \in Jobs : row'[i].state # "absent" => i \in pushed
    BY <1>0, <2>1, <2>2, HeldJob, WriteOrigin DEF WriteRunning, Origin
  <2>4. \A v \in Workers \ {w} : pc'[v] = pc[v]
    BY <1>0, <2>1 DEF WriteRunning, LocalOK
  <2> QED
    BY <1>0, <2>1, <2>2, <2>3, <2>4, WorkerOrigin DEF WriteRunning, Origin
<1>11. ASSUME NEW w \in Workers, Heartbeat(w) PROVE Origin'
  BY <1>0, <1>11, OriginUnchanged DEF Heartbeat, Origin
<1>12. ASSUME NEW w \in Workers, Holds(w), Release(w), UNCHANGED <<pushed, seen, found, client>>,
              \A i \in Jobs : row'[i].state # "absent" => i \in pushed
       PROVE  Origin'
  <2>1. /\ pc'[w] = "idle"
        /\ \A v \in Workers \ {w} : /\ pc'[v] = pc[v] /\ seen'[v] = seen[v]
                                    /\ job'[v] = job[v] /\ copy'[v] = copy[v]
    BY <1>0, <1>12 DEF Release, LocalOK
  <2> QED
    BY <1>0, <1>12, <2>1, WorkerOrigin DEF Holds, InHand, Origin
<1>13. ASSUME NEW w \in Workers, Holds(w), NEW to \in {"store", "push"},
              pc' = [pc EXCEPT ![w] = to],
              UNCHANGED <<pushed, seen, found, client, job>>,
              \A v \in Workers \ {w} : copy'[v] = copy[v],
              \A i \in Jobs : row'[i].state # "absent" => i \in pushed
       PROVE  Origin'
  <2>1. pc'[w] = to /\ \A v \in Workers \ {w} : pc'[v] = pc[v]
    BY <1>0, <1>13 DEF LocalOK
  <2> QED
    BY <1>0, <1>13, <2>1, WorkerOrigin DEF Holds, InHand, Origin
<1>14. ASSUME NEW w \in Workers, Finish(w) PROVE Origin'
  <2>1. /\ Holds(w) /\ UNCHANGED <<row, pushed, seen, found, client>>
    BY <1>14 DEF Finish, Holds, table
  <2>2. \/ Release(w)
        \/ /\ pc' = [pc EXCEPT ![w] = "store"] /\ UNCHANGED job
           /\ \A v \in Workers \ {w} : copy'[v] = copy[v]
    <3>1. PICK c \in Results(job[w], copy[w]) :
            IF EpochHolds(w)
            THEN /\ pc' = [pc EXCEPT ![w] = "store"]
                 /\ copy' = [copy EXCEPT ![w] = c]
                 /\ UNCHANGED job
            ELSE Release(w)
      BY <1>14 DEF Finish
    <3> QED
      BY <1>0, <3>1 DEF LocalOK
  <2>3. \A i \in Jobs : row'[i].state # "absent" => i \in pushed
    BY <1>0, <2>1 DEF Origin
  <2> QED
    BY <1>12, <1>13, <2>1, <2>2, <2>3
<1>15. ASSUME NEW w \in Workers, Store(w) \/ PushAgain(w) PROVE Origin'
  <2>1. /\ Holds(w) /\ Write(job[w], copy[w], Home[w])
        /\ UNCHANGED <<pushed, seen, found, client>>
        /\ \/ Release(w)
           \/ pc' = [pc EXCEPT ![w] = "push"] /\ UNCHANGED <<job, copy>>
    BY <1>15 DEF Store, PushAgain, Holds
  <2>2. \A i \in Jobs : row'[i].state # "absent" => i \in pushed
    BY <1>0, <2>1, HeldJob, WriteOrigin DEF Origin
  <2> QED
    BY <1>12, <1>13, <2>1, <2>2
<1>16. ASSUME NEW j \in Jobs, Expire(j) PROVE Origin'
  BY <1>0, <1>16, OriginUnchanged DEF Expire, Origin
<1>17. ASSUME NEW p \in Processes, ReclaimScan(p) PROVE Origin'
  <2>1. \A q \in Processes, j \in Jobs : found'[q][j] # NoRow => j \in pushed
    BY <1>0, <1>17 DEF ReclaimScan, RestOK, Origin
  <2> QED
    BY <1>0, <1>17, <2>1 DEF ReclaimScan, table, local, Origin, Holds
<1>18. ASSUME NEW p \in Processes, NEW j \in Jobs, Reclaim(p, j) PROVE Origin'
  <2>1. j \in pushed /\ \E c : Write(j, c, NoProcess)
    BY <1>0, <1>18 DEF Reclaim, Origin
  <2>2. \A i \in Jobs : row'[i].state # "absent" => i \in pushed
    BY <1>0, <2>1, WriteOrigin
  <2>3. \A q \in Processes, i \in Jobs : found'[q][i] # NoRow => i \in pushed
    BY <1>0, <1>18 DEF Reclaim, RestOK, Origin
  <2> QED
    BY <1>0, <1>18, <2>2, <2>3 DEF Reclaim, local, Origin, Holds
<1>19. ASSUME NEW p \in Processes, Crash(p) PROVE Origin'
  <2> DEFINE Mine == {w \in Workers : Home[w] = p}
  <2>1. /\ pc' = [w \in Workers |-> IF w \in Mine THEN "idle" ELSE pc[w]]
        /\ seen' = [w \in Workers |-> IF w \in Mine THEN NoSeen ELSE seen[w]]
        /\ job' = [w \in Workers |-> IF w \in Mine THEN NoJob ELSE job[w]]
        /\ copy' = [w \in Workers |-> IF w \in Mine THEN NoRow ELSE copy[w]]
        /\ found' = [found EXCEPT ![p] = NoSeen]
        /\ UNCHANGED <<row, pushed, client>>
    BY <1>19 DEF Crash, table
  <2>2. \A w \in Workers :
          \/ /\ pc'[w] = "idle" /\ seen'[w] = NoSeen
          \/ /\ pc'[w] = pc[w] /\ seen'[w] = seen[w]
             /\ job'[w] = job[w] /\ copy'[w] = copy[w]
    BY <2>1
  <2>3. \A q \in Processes, i \in Jobs : found'[q][i] # NoRow => i \in pushed
    BY <1>0, <2>1 DEF RestOK, Origin, NoSeen
  <2>4. \A w \in Workers :
          /\ \A i \in Jobs : seen'[w][i] # NoRow =>
               i \in pushed /\ seen'[w][i].state \in Claimable
          /\ Holds(w)' => job'[w] \in pushed
          /\ pc'[w] \in InHand => copy'[w].state = "running"
    BY <1>0, <2>2 DEF Origin, NoSeen, Holds, InHand
  <2> QED
    BY <1>0, <2>1, <2>3, <2>4 DEF Origin
<1>20. ASSUME NEW j \in Jobs, CancelRead(j) \/ RetryRead(j) \/ SweepRead(j) PROVE Origin'
  <2>1. /\ row[j].state # "absent" /\ client'.job = j
        /\ UNCHANGED <<row, pushed, local, found>>
    BY <1>20 DEF CancelRead, RetryRead, SweepRead, Read, Active, Claimable, Broken, table
  <2>2. j \in pushed
    BY <1>0, <2>1 DEF Origin
  <2> QED
    BY <1>0, <2>1, <2>2 DEF Origin, local, Holds
<1>21. CASE SweepCheck
  <2>1. /\ client' = Idle \/ (client # Idle /\ client'.job = client.job)
        /\ UNCHANGED <<row, pushed, local, found>>
    BY <1>0, <1>21 DEF SweepCheck, table, Idle, RestOK
  <2> QED
    BY <1>0, <2>1 DEF Origin, local, Holds
<1>22. ASSUME NEW kind \in {"cancel", "fail", "retry"}, NEW st, WriteBack(kind, st)
       PROVE  Origin'
  <2>1. /\ client # Idle /\ client.job \in Jobs /\ client.job \in pushed
        /\ client' = Idle /\ UNCHANGED <<pushed, local, found>>
    BY <1>0, <1>22 DEF WriteBack, RestOK, Idle, Origin
  <2>2. \A i \in Jobs : row'[i].state # "absent" => i \in pushed
    BY <1>0, <1>22, <2>1, WriteOrigin DEF WriteBack
  <2> QED
    BY <1>0, <2>1, <2>2 DEF Origin, local, Holds
<1>23. CASE CancelWrite \/ SweepWrite \/ RetryWrite
  BY <1>22, <1>23 DEF CancelWrite, SweepWrite, RetryWrite
<1>24. ASSUME NEW S \in SUBSET Jobs, Delete(S) PROVE Origin'
  BY <1>0, <1>24, OriginUnchanged DEF Delete, NoRow, Origin
<1>25. CASE Cleanup \/ Flush
  BY <1>24, <1>25 DEF Cleanup, Flush
<1>26. CASE UNCHANGED vars
  BY <1>0, <1>26, OriginUnchanged DEF vars, table, Origin
<1> QED
  BY StepCases, <1>1, <1>2, <1>3, <1>6, <1>7, <1>8, <1>9, <1>10, <1>11, <1>14, <1>15,
     <1>16, <1>17, <1>18, <1>19, <1>20, <1>21, <1>23, <1>25, <1>26
-----------------------------------------------------------------------------
LEMMA InitBoard == Init => Board!Init
<1> SUFFICES ASSUME Init PROVE Board!Init
  OBVIOUS
<1>1. \A j \in Jobs : row[j].state = "absent"
  BY DEF Init, NoSeen, NoRow
<1>2. \A w \in Workers : pc[w] \notin {"claimed", "popped", "body"}
  BY DEF Init
<1> QED
  BY <1>1, <1>2 DEF Init, Board!Init, Claimable

LEMMA BoardStep ==
  ASSUME BInv, [Next]_vars
  PROVE  [Board!Next]_(Board!vars)
<1> USE DEF history
<1>0. TypeOK /\ Origin /\ Order /\ LocalOK /\ TableOK /\ RestOK
  BY DEF BInv, OInv, TypeOK
<1>1. ASSUME NEW j \in Jobs, Push(j) PROVE [Board!Next]_(Board!vars)
  <2>1. PICK st \in {"pending", "waiting"} : Write(j, [NoRow EXCEPT !.state = st], NoProcess)
    BY <1>1 DEF Push
  <2>2. OnBoard' = OnBoard \cup {j}
    BY <1>0, <2>1, WriteOnBoard DEF NoRow, Claimable
  <2>3. UNCHANGED <<Hand, succeeded>>
    BY <1>1, HandUnchanged DEF Push, local
  <2>4. Board!Post(j)
    BY <1>1, <2>2, <2>3, BoardActions DEF Push
  <2> QED
    BY <2>4 DEF Board!Next
<1>2. ASSUME UNCHANGED <<pushed, local, succeeded>>,
             \A i \in Jobs : row'[i].state = row[i].state
      PROVE  [Board!Next]_(Board!vars)
  <2>1. UNCHANGED <<Hand, OnBoard>>
    BY <1>2, HandUnchanged DEF OnBoard, local
  <2> QED
    BY <1>2, <2>1, Stutter
<1>3. ASSUME NEW j \in Jobs, BecomeDue(j) PROVE [Board!Next]_(Board!vars)
  <2>1. \A i \in Jobs : row'[i].state = row[i].state
    BY <1>0, <1>3 DEF BecomeDue, TableOK, RowType
  <2> QED
    BY <1>2, <1>3, <2>1 DEF BecomeDue
<1>4. ASSUME NEW w \in Workers, pc[w] \notin InHand, pc'[w] \notin InHand,
             \A v \in Workers \ {w} : pc'[v] = pc[v] /\ job'[v] = job[v]
      PROVE  UNCHANGED Hand
  BY <1>4, HandUnchanged
<1>5. ASSUME NEW w \in Workers,
             \/ Scan(w)
             \/ \E j \in Jobs : CheckParent(w, j) \/ CheckOrphan(w, j) \/ LoseClaim(w, j)
      PROVE  [Board!Next]_(Board!vars)
  <2>1. /\ UNCHANGED <<row, pushed, job, succeeded>>
        /\ pc[w] \notin InHand /\ pc'[w] \notin InHand
        /\ \A v \in Workers \ {w} : pc'[v] = pc[v]
    BY <1>0, <1>5 DEF Scan, CheckParent, CheckOrphan, LoseClaim, MayClaim, Skip, table,
       InHand, LocalOK
  <2>2. UNCHANGED <<Hand, OnBoard>>
    BY <1>4, <2>1 DEF OnBoard
  <2> QED
    BY <2>1, <2>2, Stutter
<1>6. ASSUME NEW w \in Workers, NEW j \in Jobs, Park(w, j) \/ FailOrphan(w, j)
      PROVE  [Board!Next]_(Board!vars)
  <2>1. /\ j \in pushed /\ UNCHANGED <<pushed, job, succeeded>>
        /\ pc[w] \notin InHand /\ pc'[w] \notin InHand
        /\ \A v \in Workers \ {w} : pc'[v] = pc[v]
        /\ \E c : Write(j, c, NoProcess)
    BY <1>0, <1>6 DEF Park, FailOrphan, IsNext, Candidates, Origin, Skip, InHand, LocalOK
  <2> QED
    BY <1>0, <1>4, <2>1, WriteStep
<1>7. ASSUME NEW w \in Workers, NEW j \in Jobs, Claim(w, j)
      PROVE  [Board!Next]_(Board!vars)
  <2>1. /\ IsNext(w, j) /\ j \in Candidates(w) /\ pc[w] \in {"claim", "poll"}
        /\ row[j].state = seen[w][j].state
    BY <1>7 DEF Claim, MayClaim, IsNext, Unclaimed
  <2>2. j \in OnBoard
    BY <1>0, <2>1 DEF Candidates, Origin, OnBoard
  <2>3. {Parent[j]} \ {NoJob} \subseteq succeeded
    BY <1>0, <1>7, <2>1 DEF Claim, MayClaim, Order, Fit
  <2>4. row'[j].state = "running" /\ \A i \in Jobs \ {j} : row'[i] = row[i]
    BY <1>0, <1>7 DEF Claim, TableOK, RowType
  <2>5. OnBoard' \subseteq OnBoard \ {j}
    BY <2>4 DEF OnBoard, Claimable
  <2>6. /\ Hand[w] = NoJob
        /\ pc' = [pc EXCEPT ![w] = "claimed"] /\ job' = [job EXCEPT ![w] = j]
        /\ UNCHANGED <<pushed, succeeded>>
    BY <1>7, <2>1 DEF Claim, Hand, InHand
  <2>7. Hand' = [Hand EXCEPT ![w] = j]
    BY <1>0, <2>6 DEF Hand, InHand, LocalOK
  <2>8. Board!Take(w, j)
    BY <2>2, <2>3, <2>5, <2>6, <2>7, BoardActions
  <2> QED
    BY <2>8 DEF Board!Next
<1>8. ASSUME NEW w \in Workers, FinishPop(w) \/ StartBody(w)
      PROVE  [Board!Next]_(Board!vars)
  <2>1. PICK from \in {"claimed", "popped"}, to \in {"popped", "body"} :
          WriteRunning(w, from, to)
    BY <1>8 DEF FinishPop, StartBody
  <2>2. Holds(w)
    BY <2>1 DEF WriteRunning, Holds
  <2>3. UNCHANGED Hand
    BY <1>0, <2>1, HandUnchanged DEF WriteRunning, InHand, LocalOK
  <2> QED
    BY <1>0, <2>1, <2>2, <2>3, HeldJob, WriteStep DEF WriteRunning, Origin
<1>9. ASSUME NEW w \in Workers, Finish(w) PROVE [Board!Next]_(Board!vars)
  <2>1. PICK c \in Results(job[w], copy[w]) :
          /\ succeeded' = IF c.state = "completed" THEN succeeded \cup {job[w]} ELSE succeeded
          /\ IF EpochHolds(w)
             THEN /\ pc' = [pc EXCEPT ![w] = "store"]
                  /\ copy' = [copy EXCEPT ![w] = c]
                  /\ UNCHANGED job
             ELSE Release(w)
    BY <1>9 DEF Finish
  <2>2. pc[w] = "body" /\ Holds(w) /\ UNCHANGED <<row, pushed>>
    BY <1>9 DEF Finish, Holds, table
  <2>3. Hand[w] = job[w] /\ job[w] # NoJob
    BY <1>0, <2>2 DEF Hand, InHand, LocalOK
  <2>4. /\ pc'[w] \notin InHand
        /\ \A v \in Workers \ {w} : pc'[v] = pc[v] /\ job'[v] = job[v]
    BY <1>0, <2>1 DEF Release, LocalOK, InHand
  <2>5. Hand' = [Hand EXCEPT ![w] = NoJob]
    BY <2>4 DEF Hand
  <2>6. OnBoard' \subseteq OnBoard
    BY <2>2 DEF OnBoard
  <2>7. CASE c.state = "completed"
    <3>1. Board!Finish(w)
      BY <2>1, <2>2, <2>3, <2>5, <2>6, <2>7, BoardActions
    <3> QED
      BY <3>1 DEF Board!Next
  <2>8. CASE c.state # "completed"
    <3>1. Hand' = [v \in Workers |-> IF v \in {w} THEN NoJob ELSE Hand[v]]
      BY <2>5 DEF Hand
    <3>2. Board!Drop({w})
      BY <2>1, <2>2, <2>6, <2>8, <3>1, BoardActions
    <3> QED
      BY <3>2 DEF Board!Next
  <2> QED
    BY <2>7, <2>8
<1>10. ASSUME NEW w \in Workers, Store(w) \/ PushAgain(w) PROVE [Board!Next]_(Board!vars)
  <2>1. /\ Holds(w) /\ Write(job[w], copy[w], Home[w])
        /\ UNCHANGED <<pushed, succeeded>>
        /\ pc[w] \notin InHand
        /\ \/ Release(w)
           \/ pc' = [pc EXCEPT ![w] = "push"] /\ UNCHANGED <<job, copy>>
    BY <1>10 DEF Store, PushAgain, Holds, InHand
  <2>2. /\ pc'[w] \notin InHand
        /\ \A v \in Workers \ {w} : pc'[v] = pc[v] /\ job'[v] = job[v]
    BY <1>0, <2>1 DEF Release, InHand, LocalOK
  <2> QED
    BY <1>0, <1>4, <2>1, <2>2, HeldJob, WriteStep DEF Origin
<1>11. ASSUME \/ \E w \in Workers : Heartbeat(w)
              \/ \E j \in Jobs : Expire(j)
       PROVE  [Board!Next]_(Board!vars)
  BY <1>2, <1>11 DEF Heartbeat, Expire
<1>12. ASSUME \/ \E p \in Processes : ReclaimScan(p)
              \/ \E j \in Jobs : CancelRead(j) \/ RetryRead(j) \/ SweepRead(j)
              \/ SweepCheck
       PROVE  [Board!Next]_(Board!vars)
  BY <1>2, <1>12 DEF ReclaimScan, CancelRead, RetryRead, SweepRead, Read, SweepCheck, table
<1>13. ASSUME NEW p \in Processes, NEW j \in Jobs, Reclaim(p, j)
       PROVE  [Board!Next]_(Board!vars)
  <2>1. /\ j \in pushed /\ UNCHANGED <<pushed, local, succeeded>>
        /\ \E c : Write(j, c, NoProcess)
    BY <1>0, <1>13 DEF Reclaim, Origin
  <2>2. UNCHANGED Hand
    BY <2>1, HandUnchanged DEF local
  <2> QED
    BY <1>0, <2>1, <2>2, WriteStep
<1>14. ASSUME NEW p \in Processes, Crash(p) PROVE [Board!Next]_(Board!vars)
  <2> DEFINE Mine == {w \in Workers : Home[w] = p}
  <2>1. /\ pc' = [w \in Workers |-> IF w \in Mine THEN "idle" ELSE pc[w]]
        /\ job' = [w \in Workers |-> IF w \in Mine THEN NoJob ELSE job[w]]
        /\ UNCHANGED <<row, pushed, succeeded>>
    BY <1>14 DEF Crash, table
  <2>2. Hand' = [w \in Workers |-> IF w \in Mine THEN NoJob ELSE Hand[w]]
    BY <2>1 DEF Hand, InHand
  <2>3. OnBoard' \subseteq OnBoard
    BY <2>1 DEF OnBoard
  <2>4. Board!Drop(Mine) /\ Mine \in SUBSET Workers
    BY <2>1, <2>2, <2>3, BoardActions
  <2> QED
    BY <2>4 DEF Board!Next
<1>15. ASSUME NEW kind \in {"cancel", "fail", "retry"}, NEW st, WriteBack(kind, st)
       PROVE  [Board!Next]_(Board!vars)
  <2>1. /\ client.job \in Jobs /\ client.job \in pushed
        /\ UNCHANGED <<pushed, local, succeeded>>
        /\ \E c : Write(client.job, c, NoProcess)
    BY <1>0, <1>15 DEF WriteBack, RestOK, Idle, Origin
  <2>2. UNCHANGED Hand
    BY <2>1, HandUnchanged DEF local
  <2> QED
    BY <1>0, <2>1, <2>2, WriteStep
<1>16. CASE CancelWrite \/ SweepWrite \/ RetryWrite
  BY <1>15, <1>16 DEF CancelWrite, SweepWrite, RetryWrite
<1>17. ASSUME NEW S \in SUBSET Jobs, Delete(S) PROVE [Board!Next]_(Board!vars)
  <2>1. OnBoard' \subseteq OnBoard
    BY <1>17 DEF Delete, OnBoard, NoRow, Claimable
  <2>2. UNCHANGED <<pushed, Hand, succeeded>>
    BY <1>17, HandUnchanged DEF Delete, local
  <2>3. Board!Withdraw
    BY <2>1, <2>2, BoardActions
  <2> QED
    BY <2>3 DEF Board!Next
<1>18. CASE Cleanup \/ Flush
  BY <1>17, <1>18 DEF Cleanup, Flush
<1>19. CASE UNCHANGED vars
  BY <1>2, <1>19 DEF vars, table
<1> QED
  BY StepCases, <1>1, <1>3, <1>5, <1>6, <1>7, <1>8, <1>9, <1>10, <1>11, <1>12, <1>13,
     <1>14, <1>16, <1>18, <1>19

(* The promise of TaskBackend, kept by the table that several processes share, for
   every set of processes, workers and jobs and any number of crashes and lapses. *)
THEOREM BoardImplemented == Spec => ImplementsJobBoard
<1>1. Init => Origin
  BY DEF Init, Origin, NoSeen, NoRow, Holds, InHand
<1>2. OInv /\ Origin /\ [Next]_vars => Origin'
  BY OriginStep DEF BInv
<1>3. OInv /\ Origin /\ [Next]_vars => [Board!Next]_(Board!vars)
  BY BoardStep DEF BInv
<1> QED
  BY Invariance, InitBoard, <1>1, <1>2, <1>3, PTL DEF Spec, ImplementsJobBoard, Board!Spec
-----------------------------------------------------------------------------
(* Why no two workers hold a calm job.  What follows is about calm jobs only,
   whose rows are written by pop, by their holder and by a cancel or a sweep. *)

(* A lease that ran out, and the row a reclaim loop read because of it. *)
Lapses ==
  /\ \A j \in Jobs : lease[j] = "expired" => j \in lapsed
  /\ \A p \in Processes, j \in Jobs : found[p][j] # NoRow => j \in lapsed

(* What a worker is about to write when its body has ended. *)
RetryCopies ==
  \A w \in Workers :
    /\ Holds(w) /\ copy[w].state = "retrying" =>
         copy[w].retries \in 1 .. MaxRetries[job[w]] - 1 /\ ~copy[w].due
    /\ pc[w] = "push" => copy[w].state = "retrying"
    /\ pc[w] = "store" => copy[w].state \in {"completed", "dead", "retrying"}

(* A job that is finished, or gone, and in nobody's hands. *)
Over(q) ==
  /\ q \in pushed /\ row[q].state \notin Claimable \cup {"running"}
  /\ \A w \in Workers : job[w] # q

OneHolder(j) == \A v, w \in Workers : job[v] = j /\ job[w] = j => v = w

(* Between the claim and the last write of its holder, a row may be claimed again
   only between the two writes of a retry, which is not due yet. *)
RowOfHeld(j) ==
  \A w \in Workers : job[w] = j =>
    \/ row[j].state \notin Claimable \cup {"completed"}
    \/ pc[w] = "push" /\ row[j].state = "retrying" /\ ~row[j].due

(* A job that has been claimed once has nothing left to wait for. *)
Before(j) ==
  Parent[j] # NoJob =>
    /\ row[j].state # "pending" /\ (row[j].state = "retrying" => Over(Parent[j]))
    /\ \A w \in Workers :
         /\ seen[w][j].state # "pending"
         /\ seen[w][j].state = "retrying" => Over(Parent[j])
         /\ job[w] = j => Over(Parent[j])
         /\ pc[w] = "claim" /\ IsNext(w, j) => Over(Parent[j])

NoPark(j) == \A w \in Workers : pc[w] = "park" => ~IsNext(w, j)

(* Whoever claims a job while a poll still sees its retry is on a second attempt,
   which ends at best in a second retry. *)
Ripe(w) ==
  /\ copy[w].retries > 0 /\ pc[w] # "push"
  /\ copy[w].state = "retrying" => copy[w].retries > 1

FirstRetry(j) ==
  /\ row[j].state = "retrying" => row[j].retries > 0
  /\ \A v \in Workers : seen[v][j].state = "retrying" =>
       /\ seen[v][j].retries > 0 /\ row[j].state \notin {"pending", "waiting"}
       /\ \A w \in Workers : job[w] = j => Ripe(w)

Undisturbed(j) ==
  OneHolder(j) /\ RowOfHeld(j) /\ Before(j) /\ NoPark(j) /\ FirstRetry(j)

KInv == /\ BInv /\ Lapses /\ RetryCopies
        /\ \A j \in Jobs : Calm(j) => Undisturbed(j)
-----------------------------------------------------------------------------
LEMMA CalmJobs ==
  \A j \in Jobs : Calm(j) =>
    /\ j \notin lapsed \cup revived \cup repeated
    /\ Parent[j] # NoJob => Parent[j] \in Jobs /\ Calm(Parent[j])
  BY DEF Calm

(* History is never forgotten. *)
LEMMA HistoryGrows ==
  ASSUME [Next]_vars
  PROVE  /\ lapsed \subseteq lapsed' /\ revived \subseteq revived'
         /\ repeated \subseteq repeated' /\ pushed \subseteq pushed'
<1> USE DEF history
<1>1. ASSUME NEW j \in Jobs, Push(j) \/ BecomeDue(j) \/ Expire(j) \/ CancelRead(j)
                             \/ RetryRead(j) \/ SweepRead(j)
      PROVE  /\ lapsed \subseteq lapsed' /\ revived \subseteq revived'
             /\ repeated \subseteq repeated' /\ pushed \subseteq pushed'
  BY <1>1 DEF Push, BecomeDue, Expire, CancelRead, RetryRead, SweepRead, Read
<1>2. ASSUME NEW w \in Workers, NEW j \in Jobs,
             CheckParent(w, j) \/ Park(w, j) \/ CheckOrphan(w, j) \/ FailOrphan(w, j)
               \/ Claim(w, j) \/ LoseClaim(w, j)
      PROVE  /\ lapsed \subseteq lapsed' /\ revived \subseteq revived'
             /\ repeated \subseteq repeated' /\ pushed \subseteq pushed'
  BY <1>2 DEF CheckParent, Park, CheckOrphan, FailOrphan, Claim, LoseClaim
<1>3. ASSUME NEW w \in Workers,
             Scan(w) \/ FinishPop(w) \/ StartBody(w) \/ Heartbeat(w) \/ Finish(w)
               \/ Store(w) \/ PushAgain(w)
      PROVE  /\ lapsed \subseteq lapsed' /\ revived \subseteq revived'
             /\ repeated \subseteq repeated' /\ pushed \subseteq pushed'
  BY <1>3 DEF Scan, FinishPop, StartBody, WriteRunning, Heartbeat, Finish, Store, PushAgain
<1>4. ASSUME NEW p \in Processes,
             ReclaimScan(p) \/ Crash(p) \/ \E j \in Jobs : Reclaim(p, j)
      PROVE  /\ lapsed \subseteq lapsed' /\ revived \subseteq revived'
             /\ repeated \subseteq repeated' /\ pushed \subseteq pushed'
  BY <1>4 DEF ReclaimScan, Crash, Reclaim
<1>5. CASE SweepCheck \/ CancelWrite \/ SweepWrite \/ RetryWrite \/ Cleanup \/ Flush
  BY <1>5 DEF SweepCheck, CancelWrite, SweepWrite, RetryWrite, WriteBack, Cleanup, Flush, Delete
<1>6. CASE UNCHANGED vars
  BY <1>6 DEF vars
<1> QED
  BY StepCases, <1>1, <1>2, <1>3, <1>4, <1>5, <1>6

LEMMA CalmBefore ==
  ASSUME [Next]_vars, NEW j \in Jobs, Calm(j)'
  PROVE  Calm(j)
  BY HistoryGrows DEF Calm

LEMMA WriteRow ==
  ASSUME TableOK, NEW j \in Jobs, NEW c, NEW p, Write(j, c, p)
  PROVE  /\ row'[j] = c /\ \A i \in Jobs \ {j} : row'[i] = row[i]
         /\ lease'[j] \in {"none", "valid"} /\ \A i \in Jobs \ {j} : lease'[i] = lease[i]
  BY DEF Write, TableOK

LEMMA LapsesStep ==
  ASSUME BInv, Lapses, [Next]_vars
  PROVE  Lapses'
<1>0. TableOK /\ RestOK /\ LocalOK
  BY DEF BInv, OInv, TypeOK
<1> USE DEF history
(* A write leaves its row without an expired lease. *)
<1>1. ASSUME NEW j \in Jobs, NEW c, NEW p, Write(j, c, p), lapsed \subseteq lapsed',
             \A q \in Processes, i \in Jobs : found'[q][i] \in {NoRow, found[q][i]}
      PROVE  Lapses'
  <2>1. \A i \in Jobs : lease'[i] = "expired" => lease[i] = "expired"
    BY <1>0, <1>1, WriteRow
  <2> QED
    BY <1>1, <2>1 DEF Lapses
<1>2. ASSUME lapsed \subseteq lapsed',
             \A i \in Jobs : lease'[i] = "expired" => lease[i] = "expired",
             \A q \in Processes, i \in Jobs : found'[q][i] \in {NoRow, found[q][i]}
      PROVE  Lapses'
  BY <1>2 DEF Lapses
<1>3. ASSUME NEW j \in Jobs, Push(j) PROVE Lapses'
  BY <1>1, <1>3 DEF Push
<1>4. ASSUME NEW j \in Jobs, BecomeDue(j) \/ CancelRead(j) \/ RetryRead(j) \/ SweepRead(j)
      PROVE  Lapses'
  BY <1>2, <1>4 DEF BecomeDue, CancelRead, RetryRead, SweepRead, Read, table
<1>5. ASSUME NEW w \in Workers, NEW j \in Jobs,
             CheckParent(w, j) \/ CheckOrphan(w, j) \/ LoseClaim(w, j)
      PROVE  Lapses'
  BY <1>2, <1>5 DEF CheckParent, CheckOrphan, LoseClaim, table
<1>6. ASSUME NEW w \in Workers, NEW j \in Jobs, Park(w, j) \/ FailOrphan(w, j)
      PROVE  Lapses'
  <2>1. UNCHANGED <<found, lapsed>> /\ \E c : Write(j, c, NoProcess)
    BY <1>6 DEF Park, FailOrphan
  <2> QED
    BY <1>1, <2>1
<1>7. ASSUME NEW w \in Workers, NEW j \in Jobs, Claim(w, j) PROVE Lapses'
  BY <1>0, <1>2, <1>7 DEF Claim, TableOK
<1>8. ASSUME NEW w \in Workers, Scan(w) \/ Finish(w) PROVE Lapses'
  BY <1>2, <1>8 DEF Scan, Finish, table
<1>9. ASSUME NEW w \in Workers, FinishPop(w) \/ StartBody(w) \/ Store(w) \/ PushAgain(w)
      PROVE  Lapses'
  <2>1. Holds(w) /\ UNCHANGED <<found, lapsed>> /\ Write(job[w], copy[w], Home[w])
    BY <1>9 DEF FinishPop, StartBody, WriteRunning, Store, PushAgain, Holds
  <2> QED
    BY <1>0, <1>1, <2>1, HeldJob
<1>10. ASSUME NEW w \in Workers, Heartbeat(w) PROVE Lapses'
  <2>1. \A i \in Jobs : lease'[i] = "expired" => lease[i] = "expired"
    BY <1>0, <1>10 DEF Heartbeat, TableOK
  <2> QED
    BY <1>2, <1>10, <2>1 DEF Heartbeat
<1>11. ASSUME NEW j \in Jobs, Expire(j) PROVE Lapses'
  <2>1. \A i \in Jobs : lease'[i] = "expired" => lease[i] = "expired" \/ i = j
    BY <1>0, <1>11 DEF Expire, TableOK
  <2> QED
    BY <1>11, <2>1 DEF Expire, Lapses
<1>12. ASSUME NEW p \in Processes, ReclaimScan(p) PROVE Lapses'
  <2>1. \A q \in Processes, i \in Jobs :
          found'[q][i] # NoRow => found[q][i] # NoRow \/ lease[i] = "expired"
    BY <1>0, <1>12 DEF ReclaimScan, RestOK
  <2> QED
    BY <1>12, <2>1 DEF ReclaimScan, table, Lapses
<1>13. ASSUME NEW p \in Processes, NEW j \in Jobs, Reclaim(p, j) PROVE Lapses'
  <2>1. UNCHANGED lapsed /\ \E c : Write(j, c, NoProcess)
    BY <1>13 DEF Reclaim
  <2>2. \A q \in Processes, i \in Jobs : found'[q][i] \in {NoRow, found[q][i]}
    BY <1>0, <1>13 DEF Reclaim, RestOK
  <2> QED
    BY <1>1, <2>1, <2>2
<1>14. ASSUME NEW p \in Processes, Crash(p) PROVE Lapses'
  <2>1. \A q \in Processes, i \in Jobs : found'[q][i] \in {NoRow, found[q][i]}
    BY <1>0, <1>14 DEF Crash, RestOK, NoSeen
  <2> QED
    BY <1>2, <1>14, <2>1 DEF Crash, table
<1>15. CASE SweepCheck
  BY <1>2, <1>15 DEF SweepCheck, table
<1>16. ASSUME NEW kind \in {"cancel", "fail", "retry"}, NEW st, WriteBack(kind, st)
       PROVE  Lapses'
  <2>1. client.job \in Jobs /\ UNCHANGED <<found, lapsed>>
        /\ \E c : Write(client.job, c, NoProcess)
    BY <1>0, <1>16 DEF WriteBack, RestOK, Idle
  <2> QED
    BY <1>1, <2>1
<1>17. CASE CancelWrite \/ SweepWrite \/ RetryWrite
  BY <1>16, <1>17 DEF CancelWrite, SweepWrite, RetryWrite
<1>18. ASSUME NEW S \in SUBSET Jobs, Delete(S) PROVE Lapses'
  BY <1>2, <1>18 DEF Delete
<1>19. CASE Cleanup \/ Flush
  BY <1>18, <1>19 DEF Cleanup, Flush
<1>20. CASE UNCHANGED vars
  BY <1>2, <1>20 DEF vars, table
<1> QED
  BY StepCases, <1>3, <1>4, <1>5, <1>6, <1>7, <1>8, <1>9, <1>10, <1>11, <1>12, <1>13,
     <1>14, <1>15, <1>17, <1>19, <1>20

(* What the end of a body makes of a copy. *)
LEMMA ResultFacts ==
  ASSUME NEW j \in Jobs, NEW d \in RowType, NEW c \in Results(j, d)
  PROVE  /\ c.state \in {"completed", "dead", "retrying"}
         /\ c.state = "retrying" => /\ c.retries = d.retries + 1 /\ ~c.due
                                /\ c.retries < MaxRetries[j]
         /\ c.retries \in {d.retries, d.retries + 1}
<1> DEFINE n == d.retries + 1
<1>1. /\ DOMAIN d = {"state", "due", "epoch", "retries"} /\ d.retries \in Nat
      /\ d = [state |-> d.state, due |-> d.due, epoch |-> d.epoch, retries |-> d.retries]
  BY DEF RowType
<1>2. CASE c = [d EXCEPT !.state = "completed"]
  BY <1>1, <1>2
<1>3. CASE c = [d EXCEPT !.state = "dead", !.retries = n]
  BY <1>1, <1>3
<1>4. ASSUME NEW b \in BOOLEAN, b = FALSE,
             c = [d EXCEPT !.state = "retrying", !.retries = n, !.due = b]
      PROVE  c.state = "retrying" /\ c.retries = n /\ ~c.due
  BY <1>1, <1>4
<1>5. CASE n < MaxRetries[j] /\ c = [d EXCEPT !.state = "retrying", !.retries = n, !.due = FALSE]
  BY <1>4, <1>5
<1> QED
  BY <1>2, <1>3, <1>5 DEF Results

(* A worker's copy says RETRYING only from the end of its body to its last write. *)
LEMMA RetryCopiesStep ==
  ASSUME BInv, RetryCopies, [Next]_vars
  PROVE  RetryCopies'
<1>0. TableOK /\ RestOK /\ LocalOK /\ Origin
  BY DEF BInv, OInv, TypeOK
<1> USE DEF history
<1>1. ASSUME UNCHANGED <<pc, copy, job>> PROVE RetryCopies'
  BY <1>1 DEF RetryCopies, Holds
<1>2. ASSUME NEW w \in Workers, pc'[w] \notin {"push", "store"}, 
             \A v \in Workers \ {w} : pc'[v] = pc[v] /\ copy'[v] = copy[v] /\ job'[v] = job[v],
             Holds(w)' => copy'[w].state = "running"
      PROVE  RetryCopies'
  BY <1>2 DEF RetryCopies, Holds
<1>3. ASSUME NEW w \in Workers,
             \/ Scan(w)
             \/ \E j \in Jobs : \/ CheckParent(w, j) \/ Park(w, j) \/ CheckOrphan(w, j)
                                \/ FailOrphan(w, j) \/ LoseClaim(w, j)
      PROVE  RetryCopies'
  <2>1. pc'[w] \in {"idle", "poll", "orphan", "claim", "park", "fail"}
        /\ \A v \in Workers \ {w} : pc'[v] = pc[v] /\ copy'[v] = copy[v] /\ job'[v] = job[v]
    BY <1>0, <1>3 DEF Scan, CheckParent, Park, CheckOrphan, FailOrphan, LoseClaim, Skip, LocalOK
  <2> QED
    BY <1>2, <2>1 DEF Holds
<1>4. ASSUME NEW w \in Workers, NEW j \in Jobs, Claim(w, j) PROVE RetryCopies'
  <2>1. /\ pc'[w] = "claimed" /\ copy'[w].state = "running"
        /\ \A v \in Workers \ {w} : pc'[v] = pc[v] /\ copy'[v] = copy[v] /\ job'[v] = job[v]
    BY <1>0, <1>4 DEF Claim, LocalOK, RowType
  <2> QED
    BY <1>2, <2>1
<1>5. ASSUME NEW w \in Workers, FinishPop(w) \/ StartBody(w) PROVE RetryCopies'
  <2>1. /\ pc[w] \in InHand /\ pc'[w] \in InHand /\ UNCHANGED <<copy, job>>
        /\ \A v \in Workers \ {w} : pc'[v] = pc[v]
    BY <1>0, <1>5 DEF FinishPop, StartBody, WriteRunning, LocalOK, InHand
  <2>2. copy'[w].state = "running"
    BY <1>0, <2>1 DEF Origin
  <2> QED
    BY <1>2, <2>1, <2>2 DEF InHand
<1>6. ASSUME NEW w \in Workers, Release(w) PROVE RetryCopies'
  <2>1. /\ pc'[w] = "idle"
        /\ \A v \in Workers \ {w} : pc'[v] = pc[v] /\ copy'[v] = copy[v] /\ job'[v] = job[v]
    BY <1>0, <1>6 DEF Release, LocalOK
  <2> QED
    BY <1>2, <2>1 DEF Holds
<1>7. ASSUME NEW w \in Workers, Finish(w) PROVE RetryCopies'
  <2>1. Holds(w) /\ pc[w] = "body"
    BY <1>7 DEF Finish, Holds
  <2>2. CASE EpochHolds(w)
    <3>1. PICK c \in Results(job[w], copy[w]) :
            copy' = [copy EXCEPT ![w] = c] /\ pc' = [pc EXCEPT ![w] = "store"] /\ UNCHANGED job
      BY <1>7, <2>2 DEF Finish
    <3>2. /\ copy'[w] = c /\ pc'[w] = "store" /\ job'[w] = job[w]
          /\ \A v \in Workers \ {w} : pc'[v] = pc[v] /\ copy'[v] = copy[v] /\ job'[v] = job[v]
      BY <1>0, <3>1 DEF LocalOK
    <3>3. /\ job[w] \in Jobs /\ copy[w] \in RowType /\ copy[w].retries \in Nat
          /\ MaxRetries[job[w]] \in Nat
      BY <1>0, <2>1, HeldJob, NumbersAssumption DEF RowType
    <3>4. /\ c.state \in {"completed", "dead", "retrying"}
          /\ c.state = "retrying" => c.retries \in 1 .. MaxRetries[job[w]] - 1 /\ ~c.due
      BY <3>3, ResultFacts
    <3> QED
      BY <3>2, <3>4 DEF RetryCopies, Holds
  <2> QED
    BY <1>6, <1>7, <2>2 DEF Finish
<1>8. ASSUME NEW w \in Workers, Store(w) \/ PushAgain(w) PROVE RetryCopies'
  <2>1. CASE Release(w)
    BY <1>6, <2>1
  <2>2. CASE ~Release(w)
    <3>1. /\ pc[w] = "store" /\ copy[w].state = "retrying"
          /\ pc' = [pc EXCEPT ![w] = "push"] /\ UNCHANGED <<copy, job>>
      BY <1>8, <2>2 DEF Store, PushAgain
    <3>2. pc'[w] = "push" /\ \A v \in Workers \ {w} : pc'[v] = pc[v]
      BY <1>0, <3>1 DEF LocalOK
    <3> QED
      BY <3>1, <3>2 DEF RetryCopies, Holds
  <2> QED
    BY <2>1, <2>2
<1>9. ASSUME NEW p \in Processes, Crash(p) PROVE RetryCopies'
  <2>1. \A w \in Workers :
          \/ pc'[w] = "idle"
          \/ pc'[w] = pc[w] /\ copy'[w] = copy[w] /\ job'[w] = job[w]
    BY <1>9 DEF Crash
  <2> QED
    BY <2>1 DEF RetryCopies, Holds
<1>10. ASSUME UNCHANGED local PROVE RetryCopies'
  BY <1>1, <1>10 DEF local
<1>11. ASSUME NEW j \in Jobs, Push(j) \/ BecomeDue(j) \/ Expire(j) \/ CancelRead(j)
                              \/ RetryRead(j) \/ SweepRead(j)
       PROVE  RetryCopies'
  BY <1>10, <1>11 DEF Push, BecomeDue, Expire, CancelRead, RetryRead, SweepRead, Read
<1>12. ASSUME NEW p \in Processes, ReclaimScan(p) \/ \E j \in Jobs : Reclaim(p, j)
       PROVE  RetryCopies'
  BY <1>10, <1>12 DEF ReclaimScan, Reclaim
<1>13. CASE SweepCheck \/ CancelWrite \/ SweepWrite \/ RetryWrite \/ Cleanup \/ Flush
  BY <1>10, <1>13 DEF SweepCheck, CancelWrite, SweepWrite, RetryWrite, WriteBack,
                      Cleanup, Flush, Delete
<1>14. ASSUME NEW w \in Workers, Heartbeat(w) PROVE RetryCopies'
  BY <1>10, <1>14 DEF Heartbeat
<1>15. CASE UNCHANGED vars
  BY <1>10, <1>15 DEF vars
<1> QED
  BY StepCases, <1>3, <1>4, <1>5, <1>7, <1>8, <1>9, <1>11, <1>12, <1>13, <1>14, <1>15
-----------------------------------------------------------------------------
(* What a step that is neither a read of pop nor a claim does to the row of a calm
   job, and to a worker that may hold it or have it among its candidates. *)
RowStep(j) ==
  \/ /\ row'[j].state = row[j].state /\ row'[j].retries = row[j].retries
     /\ row'[j].due # row[j].due => \A w \in Workers : pc[w] = "push" => job[w] # j
  \/ j \notin pushed /\ row'[j].state = IF Parent[j] = NoJob THEN "pending" ELSE "waiting"
  \/ row'[j].state \in Broken \cup {"absent"}
  \/ \E w \in Workers :
       /\ job[w] = j /\ row'[j] = copy[w]
       /\ \/ copy[w].state = "running"
          \/ /\ copy[w].state \in {"completed", "dead", "retrying"}
             /\ job'[w] = NoJob \/ (pc'[w] = "push" /\ copy[w].state = "retrying")

LocalStep(w) ==
  /\ job'[w] \in {job[w], NoJob}
  /\ \A j \in Jobs : seen'[w][j] \in {seen[w][j], NoRow}
  /\ pc'[w] \in {"claim", "park"} => pc'[w] = pc[w] /\ seen'[w] = seen[w]
  /\ pc[w] = "push" /\ job'[w] # NoJob => pc'[w] = "push"

RipeStep(j) == \A w \in Workers : job'[w] = j /\ Ripe(w) => Ripe(w)'

LEMMA OverStays ==
  ASSUME NEW q \in Jobs, Over(q), RowStep(q), pushed \subseteq pushed',
         \A w \in Workers : job'[w] \in {job[w], NoJob}, q # NoJob
  PROVE  Over(q)'
  BY DEF Over, RowStep, Claimable, Broken

LEMMA HolderHolds ==
  ASSUME LocalOK, NEW w \in Workers, job[w] \in Jobs
  PROVE  Holds(w)
  BY IdentifiersAssumption DEF LocalOK

LEMMA QuietStep ==
  ASSUME BInv, RetryCopies, pushed \subseteq pushed',
         NEW A \in SUBSET Jobs,
         \A j \in A : Parent[j] \in A \cup {NoJob} /\ Undisturbed(j),
         \A j \in A : RowStep(j) /\ RipeStep(j),
         \A w \in Workers : LocalStep(w)
  PROVE  \A j \in A : Undisturbed(j)'
<1> SUFFICES ASSUME NEW j \in A PROVE Undisturbed(j)'
  OBVIOUS
<1>0. /\ TypeOK /\ Origin /\ LocalOK /\ j \in Jobs /\ j # NoJob
      /\ OneHolder(j) /\ RowOfHeld(j) /\ Before(j) /\ NoPark(j) /\ FirstRetry(j)
      /\ RowStep(j) /\ RipeStep(j)
  BY IdentifiersAssumption DEF BInv, OInv, TypeOK, Undisturbed
<1>1. \A w \in Workers : job'[w] = j => job[w] = j
  BY <1>0 DEF LocalStep
<1>2. \A w \in Workers : job[w] = j => Holds(w) /\ j \in pushed
  BY <1>0, HolderHolds DEF Origin
<1>3. \A w \in Workers :
        seen'[w][j].state # "absent" => seen'[w][j] = seen[w][j] /\ j \in pushed
  BY <1>0 DEF LocalStep, Origin, NoRow
<1>4. Parent[j] # NoJob => Parent[j] \in Jobs /\ (Over(Parent[j]) => Over(Parent[j])')
  BY OverStays, IdentifiersAssumption DEF LocalStep
<1>5. OneHolder(j)'
  BY <1>0, <1>1 DEF OneHolder
<1>6. RowOfHeld(j)'
  <2> SUFFICES ASSUME NEW w \in Workers, job'[w] = j
               PROVE  \/ row'[j].state \notin Claimable \cup {"completed"}
                      \/ pc'[w] = "push" /\ row'[j].state = "retrying" /\ ~row'[j].due
    BY DEF RowOfHeld
  <2>1. job[w] = j /\ Holds(w) /\ j \in pushed /\ (pc[w] = "push" => pc'[w] = "push")
    BY <1>0, <1>1, <1>2 DEF LocalStep
  <2>2. \/ row[j].state \notin Claimable \cup {"completed"}
        \/ pc[w] = "push" /\ row[j].state = "retrying" /\ ~row[j].due
    BY <1>0, <2>1 DEF RowOfHeld
  <2>3. CASE /\ row'[j].state = row[j].state
             /\ row'[j].due # row[j].due => \A v \in Workers : pc[v] = "push" => job[v] # j
    BY <2>1, <2>2, <2>3
  <2>4. CASE row'[j].state \in Broken \cup {"absent"}
    BY <2>4 DEF Broken, Claimable
  <2>5. ASSUME NEW v \in Workers, job[v] = j, row'[j] = copy[v],
               \/ copy[v].state = "running"
               \/ /\ copy[v].state \in {"completed", "dead", "retrying"}
                  /\ job'[v] = NoJob \/ (pc'[v] = "push" /\ copy[v].state = "retrying")
        PROVE  \/ row'[j].state \notin Claimable \cup {"completed"}
               \/ pc'[w] = "push" /\ row'[j].state = "retrying" /\ ~row'[j].due
    <3>1. v = w
      BY <1>0, <2>1, <2>5 DEF OneHolder
    <3> QED
      BY <1>0, <2>1, <2>5, <3>1 DEF RetryCopies, Claimable
  <2> QED
    BY <1>0, <2>1, <2>3, <2>4, <2>5 DEF RowStep
<1>7. Before(j)'
  <2> SUFFICES ASSUME Parent[j] # NoJob
               PROVE  /\ row'[j].state # "pending"
                      /\ row'[j].state = "retrying" => Over(Parent[j])'
                      /\ \A w \in Workers :
                           /\ seen'[w][j].state # "pending"
                           /\ seen'[w][j].state = "retrying" => Over(Parent[j])'
                           /\ job'[w] = j => Over(Parent[j])'
                           /\ pc'[w] = "claim" /\ IsNext(w, j)' => Over(Parent[j])'
    BY DEF Before
  <2>1. /\ row'[j].state # "pending"
        /\ row'[j].state = "retrying" => Over(Parent[j])'
    <3>1. CASE row'[j].state = row[j].state
      BY <1>0, <1>4, <3>1 DEF Before
    <3>2. CASE row'[j].state \in {"waiting", "absent"} \cup Broken
      BY <3>2 DEF Broken
    <3>3. CASE \E w \in Workers : job[w] = j /\ row'[j].state \in
                                    {"running", "completed", "dead", "retrying"}
      BY <1>0, <1>4, <3>3 DEF Before
    <3> QED
      BY <1>0, <3>1, <3>2, <3>3 DEF RowStep
  <2>2. ASSUME NEW w \in Workers
        PROVE  /\ seen'[w][j].state # "pending"
               /\ seen'[w][j].state = "retrying" => Over(Parent[j])'
    BY <1>0, <1>3, <1>4 DEF Before
  <2>3. ASSUME NEW w \in Workers, job'[w] = j PROVE Over(Parent[j])'
    BY <1>0, <1>1, <1>4, <2>3 DEF Before
  <2>4. ASSUME NEW w \in Workers, pc'[w] = "claim", IsNext(w, j)' PROVE Over(Parent[j])'
    <3>1. pc[w] = "claim" /\ IsNext(w, j)
      BY <2>4 DEF LocalStep, IsNext, Candidates
    <3> QED
      BY <1>0, <1>4, <3>1 DEF Before
  <2> QED
    BY <2>1, <2>2, <2>3, <2>4
<1>8. NoPark(j)'
  <2> SUFFICES ASSUME NEW w \in Workers, pc'[w] = "park", IsNext(w, j)' PROVE FALSE
    BY DEF NoPark
  <2>1. pc[w] = "park" /\ IsNext(w, j)
    BY DEF LocalStep, IsNext, Candidates
  <2> QED
    BY <1>0, <2>1 DEF NoPark
<1>9. FirstRetry(j)'
  <2>1. row'[j].state = "retrying" => row'[j].retries > 0
    <3>1. CASE row'[j].state = row[j].state /\ row'[j].retries = row[j].retries
      BY <1>0, <3>1 DEF FirstRetry
    <3>2. CASE row'[j].state \in {"pending", "waiting", "absent"} \cup Broken
      BY <3>2 DEF Broken
    <3>3. CASE \E w \in Workers : job[w] = j /\ row'[j] = copy[w]
      BY <1>2, <3>3 DEF RetryCopies
    <3> QED
      BY <1>0, <3>1, <3>2, <3>3 DEF RowStep
  <2>2. ASSUME NEW v \in Workers, seen'[v][j].state = "retrying"
        PROVE  /\ seen'[v][j].retries > 0 /\ row'[j].state \notin {"pending", "waiting"}
               /\ \A w \in Workers : job'[w] = j => Ripe(w)'
    <3>1. seen'[v][j] = seen[v][j] /\ j \in pushed
      BY <1>3, <2>2
    <3>2. /\ seen[v][j].retries > 0 /\ row[j].state \notin {"pending", "waiting"}
          /\ \A w \in Workers : job[w] = j => Ripe(w)
      BY <1>0, <2>2, <3>1 DEF FirstRetry
    <3>3. row'[j].state \notin {"pending", "waiting"}
      BY <1>0, <3>1, <3>2 DEF RowStep, Broken
    <3>4. \A w \in Workers : job'[w] = j => Ripe(w)'
      BY <1>0, <1>1, <3>2 DEF RipeStep
    <3> QED
      BY <3>1, <3>2, <3>3, <3>4
  <2> QED
    BY <2>1, <2>2 DEF FirstRetry
<1> QED
  BY <1>5, <1>6, <1>7, <1>8, <1>9 DEF Undisturbed

(* Nobody holds a calm job that can be claimed: its row is claimable only between
   the two writes of its first retry, which no poll has seen due. *)
LEMMA NobodyHolds ==
  ASSUME BInv, NEW w \in Workers, NEW j \in Jobs, Undisturbed(j),
         IsNext(w, j), Unclaimed(w, j)
  PROVE  /\ row[j].state \in Claimable /\ seen[w][j].state = row[j].state
         /\ \A v \in Workers : job[v] # j
<1>1. row[j].state \in Claimable /\ seen[w][j].state = row[j].state
  BY DEF BInv, Origin, IsNext, Candidates, Unclaimed
<1>2. ASSUME NEW v \in Workers, job[v] = j PROVE FALSE
  <2>1. pc[v] = "push" /\ row[j].state = "retrying"
    BY <1>1, <1>2 DEF Undisturbed, RowOfHeld
  <2>2. Ripe(v)
    BY <1>1, <1>2, <2>1 DEF Undisturbed, FirstRetry
  <2> QED
    BY <2>1, <2>2 DEF Ripe
<1> QED
  BY <1>1, <1>2

LEMMA ClaimStep ==
  ASSUME BInv, NEW A \in SUBSET Jobs,
         \A j \in A : Parent[j] \in A \cup {NoJob} /\ Undisturbed(j),
         NEW w \in Workers, NEW k \in Jobs, Claim(w, k)
  PROVE  \A j \in A : Undisturbed(j)'
<1> SUFFICES ASSUME NEW j \in A PROVE Undisturbed(j)'
  OBVIOUS
<1>0. /\ TypeOK /\ Origin /\ LocalOK /\ TableOK /\ j \in Jobs /\ j # NoJob
      /\ OneHolder(j) /\ RowOfHeld(j) /\ Before(j) /\ NoPark(j) /\ FirstRetry(j)
      /\ Undisturbed(j)
  BY IdentifiersAssumption DEF BInv, OInv, TypeOK, Undisturbed
<1>1. /\ MayClaim(w, k) /\ IsNext(w, k) /\ Unclaimed(w, k) /\ ~Holds(w)
      /\ seen[w][k] \in RowType
  BY <1>0 DEF Claim, MayClaim, Holds, LocalOK
<1>2. /\ pc'[w] = "claimed" /\ job'[w] = k /\ seen'[w] = NoSeen
      /\ copy'[w] = [seen[w][k] EXCEPT !.state = "running"]
      /\ \A v \in Workers \ {w} : /\ pc'[v] = pc[v] /\ seen'[v] = seen[v]
                                  /\ job'[v] = job[v] /\ copy'[v] = copy[v]
      /\ row'[k].state = "running" /\ \A i \in Jobs \ {k} : row'[i] = row[i]
      /\ UNCHANGED pushed
  BY <1>0, <1>1 DEF Claim, LocalOK, TableOK, RowType
<1>3. \A i \in Jobs : seen'[w][i].state = "absent" /\ seen'[w][i] = NoRow
  BY <1>2 DEF NoSeen, NoRow
<1>4. k \in A => /\ row[k].state \in Claimable /\ seen[w][k].state = row[k].state
                 /\ \A v \in Workers : job[v] # k
  BY <1>1, NobodyHolds
<1>5. Parent[j] # NoJob /\ Over(Parent[j]) => Over(Parent[j])'
  <2> SUFFICES ASSUME Parent[j] \in A, Over(Parent[j]) PROVE Over(Parent[j])'
    BY IdentifiersAssumption
  <2>1. k # Parent[j]
    BY <1>4 DEF Over
  <2> QED
    BY <1>2, <2>1 DEF Over
<1>6. CASE k = j
  <2>0. /\ row[j].state \in Claimable /\ seen[w][j].state = row[j].state
        /\ \A v \in Workers : job'[v] = j => v = w
    BY <1>2, <1>4, <1>6
  <2>1. OneHolder(j)'
    BY <2>0 DEF OneHolder
  <2>2. RowOfHeld(j)'
    BY <1>2, <1>6 DEF RowOfHeld, Claimable
  <2>3. Before(j)'
    <3> SUFFICES ASSUME Parent[j] # NoJob
                 PROVE  /\ row'[j].state = "running" /\ Over(Parent[j])'
                        /\ \A v \in Workers : seen'[v][j].state # "pending"
      BY DEF Before
    <3>1. pc[w] = "claim" /\ IsNext(w, j)
      BY <1>1, <1>6 DEF MayClaim
    <3> QED
      BY <1>0, <1>2, <1>3, <1>5, <1>6, <3>1 DEF Before
  <2>4. NoPark(j)'
    BY <1>0, <1>2 DEF NoPark, IsNext, Candidates
  <2>5. ASSUME NEW v \in Workers, seen'[v][j].state = "retrying"
        PROVE  /\ seen'[v][j].retries > 0 /\ Ripe(w)'
    <3>1. seen'[v][j] = seen[v][j]
      BY <1>2, <1>3, <2>5
    <3>2. seen[w][j].state = "retrying"
      BY <1>0, <2>0, <2>5, <3>1 DEF FirstRetry, Claimable
    <3>3. seen[w][j].retries > 0 /\ seen[v][j].retries > 0
      BY <1>0, <2>5, <3>1, <3>2 DEF FirstRetry
    <3>4. copy'[w].retries > 0 /\ copy'[w].state = "running"
      BY <1>1, <1>2, <1>6, <3>3 DEF RowType
    <3> QED
      BY <1>2, <3>1, <3>3, <3>4 DEF Ripe
  <2>6. FirstRetry(j)'
    BY <1>2, <1>6, <2>0, <2>5 DEF FirstRetry
  <2> QED
    BY <2>1, <2>2, <2>3, <2>4, <2>6 DEF Undisturbed
<1>7. CASE k # j
  <2>0. row'[j] = row[j] /\ \A v \in Workers : job'[v] = j => v # w
    BY <1>2, <1>7
  <2>1. OneHolder(j)'
    BY <1>0, <1>2, <2>0 DEF OneHolder
  <2>2. RowOfHeld(j)'
    BY <1>0, <1>2, <2>0 DEF RowOfHeld
  <2>3. Before(j)'
    <3> SUFFICES ASSUME Parent[j] # NoJob
                 PROVE  /\ row'[j].state # "pending"
                        /\ row'[j].state = "retrying" => Over(Parent[j])'
                        /\ \A v \in Workers :
                             /\ seen'[v][j].state # "pending"
                             /\ seen'[v][j].state = "retrying" => Over(Parent[j])'
                             /\ job'[v] = j => Over(Parent[j])'
                             /\ pc'[v] = "claim" /\ IsNext(v, j)' => Over(Parent[j])'
      BY DEF Before
    <3>1. ASSUME NEW v \in Workers \ {w} PROVE IsNext(v, j)' <=> IsNext(v, j)
      BY <1>2 DEF IsNext, Candidates
    <3> QED
      BY <1>0, <1>2, <1>3, <1>5, <2>0, <3>1 DEF Before
  <2>4. NoPark(j)'
    BY <1>0, <1>2 DEF NoPark, IsNext, Candidates
  <2>5. \A v \in Workers : v # w /\ Ripe(v) => Ripe(v)'
    BY <1>2 DEF Ripe
  <2>6. FirstRetry(j)'
    BY <1>0, <1>2, <1>3, <2>0, <2>5 DEF FirstRetry
  <2> QED
    BY <2>1, <2>2, <2>3, <2>4, <2>6 DEF Undisturbed
<1> QED
  BY <1>6, <1>7

(* The reads of pop: the scan, and the reads of a dependency.  Only what one worker
   has seen and where it is may change. *)
LEMMA ReadStep ==
  ASSUME BInv, NEW A \in SUBSET Jobs,
         \A j \in A : Parent[j] \in A \cup {NoJob} /\ Undisturbed(j),
         NEW w \in Workers, ~Holds(w), ~Holds(w)', UNCHANGED <<row, pushed, job, copy>>,
         \A v \in Workers \ {w} : pc'[v] = pc[v] /\ seen'[v] = seen[v],
         \A i \in Jobs : \/ seen'[w][i] \in {seen[w][i], NoRow}
                         \/ seen'[w][i] = row[i] /\ row[i].due,
         \A i \in Jobs : pc'[w] = "claim" /\ IsNext(w, i)' => Parent[i] # NoJob /\ Done(Parent[i]),
         \A i \in Jobs : pc'[w] = "park" /\ IsNext(w, i)' =>
           /\ Parent[i] # NoJob /\ ~Lost(Parent[i]) /\ ~Done(Parent[i])
           /\ seen[w][i].state = "pending" \/ seen[w][i].state = "retrying"
  PROVE  \A j \in A : Undisturbed(j)'
<1> SUFFICES ASSUME NEW j \in A PROVE Undisturbed(j)'
  OBVIOUS
<1>0. /\ TypeOK /\ Origin /\ LocalOK /\ TableOK /\ j \in Jobs /\ j # NoJob
      /\ OneHolder(j) /\ RowOfHeld(j) /\ Before(j) /\ NoPark(j) /\ FirstRetry(j)
  BY IdentifiersAssumption DEF BInv, OInv, TypeOK, Undisturbed
<1>1. job[w] # j
  BY <1>0 DEF LocalOK
<1>2. \A v \in Workers : job[v] = j => v # w /\ pc'[v] = pc[v]
  BY <1>1
<1>3. Parent[j] # NoJob =>
        /\ Parent[j] \in Jobs /\ Undisturbed(Parent[j])
        /\ Over(Parent[j])' <=> Over(Parent[j])
  BY DEF Over
<1>4. \A v \in Workers \ {w} : IsNext(v, j)' <=> IsNext(v, j)
  BY DEF IsNext, Candidates
<1>5. OneHolder(j)' /\ RowOfHeld(j)'
  BY <1>0, <1>2 DEF OneHolder, RowOfHeld
<1>6. Before(j)'
  <2> SUFFICES ASSUME Parent[j] # NoJob
               PROVE  /\ row[j].state # "pending"
                      /\ row[j].state = "retrying" => Over(Parent[j])
                      /\ \A v \in Workers :
                           /\ seen'[v][j].state # "pending"
                           /\ seen'[v][j].state = "retrying" => Over(Parent[j])
                           /\ job[v] = j => Over(Parent[j])
                           /\ pc'[v] = "claim" /\ IsNext(v, j)' => Over(Parent[j])
    BY <1>3 DEF Before
  <2>1. ASSUME NEW v \in Workers
        PROVE  /\ seen'[v][j].state # "pending"
               /\ seen'[v][j].state = "retrying" => Over(Parent[j])
    BY <1>0 DEF Before, NoRow
  <2>2. ASSUME pc'[w] = "claim", IsNext(w, j)' PROVE Over(Parent[j])
    <3>1. row[Parent[j]].state = "completed" /\ Undisturbed(Parent[j]) /\ Parent[j] \in Jobs
      BY <1>3, <2>2 DEF Done
    <3>2. Parent[j] \in pushed
      BY <1>0, <3>1 DEF Origin
    <3>3. \A v \in Workers : job[v] # Parent[j]
      BY <3>1 DEF Undisturbed, RowOfHeld
    <3> QED
      BY <3>1, <3>2, <3>3 DEF Over, Claimable
  <2> QED
    BY <1>0, <1>4, <2>1, <2>2 DEF Before
<1>7. NoPark(j)'
  <2> SUFFICES ASSUME pc'[w] = "park", IsNext(w, j)' PROVE FALSE
    BY <1>0, <1>4 DEF NoPark
  <2>1. /\ Parent[j] # NoJob /\ ~Lost(Parent[j]) /\ ~Done(Parent[j])
        /\ seen[w][j].state = "pending" \/ seen[w][j].state = "retrying"
    OBVIOUS
  <2>2. Over(Parent[j]) /\ Parent[j] \in Jobs
    BY <1>0, <1>3, <2>1 DEF Before
  <2> QED
    BY <1>0, <2>1, <2>2 DEF Over, Lost, Done, TableOK, RowType, Terminal
<1>8. FirstRetry(j)'
  <2>1. ASSUME NEW v \in Workers, seen'[v][j].state = "retrying"
        PROVE  /\ seen'[v][j].retries > 0 /\ row[j].state \notin {"pending", "waiting"}
               /\ \A u \in Workers : job[u] = j => Ripe(u)
    <3>1. CASE seen'[v][j] = seen[v][j]
      BY <1>0, <2>1, <3>1 DEF FirstRetry
    <3>2. CASE seen'[v][j] = row[j] /\ row[j].due
      BY <1>0, <2>1, <3>2 DEF FirstRetry, RowOfHeld, Claimable
    <3> QED
      BY <2>1, <3>1, <3>2 DEF NoRow
  <2>2. \A u \in Workers : job[u] = j /\ Ripe(u) => Ripe(u)'
    BY <1>2 DEF Ripe
  <2> QED
    BY <1>0, <2>1, <2>2 DEF FirstRetry
<1> QED
  BY <1>5, <1>6, <1>7, <1>8 DEF Undisturbed
-----------------------------------------------------------------------------
LEMMA SameRow == ASSUME NEW j \in Jobs, row'[j] = row[j] PROVE RowStep(j)
  BY DEF RowStep

LEMMA SameLocal ==
  ASSUME UNCHANGED local
  PROVE  /\ \A w \in Workers : LocalStep(w)
         /\ \A j \in Jobs : RipeStep(j)
  BY DEF local, LocalStep, RipeStep, Ripe

(* A worker gives up what it holds, or keeps its place in the loop of pop. *)
LEMMA OneWorker ==
  ASSUME NEW w \in Workers, LocalStep(w),
         \A v \in Workers \ {w} : /\ pc'[v] = pc[v] /\ seen'[v] = seen[v]
                                  /\ job'[v] = job[v] /\ copy'[v] = copy[v],
         NEW A \in SUBSET Jobs, job'[w] \in A /\ Ripe(w) => Ripe(w)'
  PROVE  /\ \A v \in Workers : LocalStep(v)
         /\ \A j \in A : RipeStep(j)
<1>1. \A v \in Workers \ {w} : LocalStep(v) /\ (Ripe(v) => Ripe(v)')
  BY DEF LocalStep, Ripe
<1> QED
  BY <1>1 DEF RipeStep

LEMMA SkipLocal ==
  ASSUME LocalOK, NEW w \in Workers, NEW j \in Jobs, Skip(w, j), ~Holds(w),
         UNCHANGED <<job, copy>>, NEW A \in SUBSET Jobs
  PROVE  /\ \A v \in Workers : LocalStep(v)
         /\ \A i \in A : RipeStep(i)
<1>1. /\ \A i \in Jobs : seen'[w][i] \in {seen[w][i], NoRow}
      /\ pc'[w] \in {"idle", "poll"} /\ pc[w] # "push" /\ job[w] \notin Jobs
      /\ \A v \in Workers \ {w} : seen'[v] = seen[v] /\ pc'[v] = pc[v]
  BY IdentifiersAssumption DEF Skip, LocalOK, Holds
<1>2. LocalStep(w)
  BY <1>1 DEF LocalStep
<1> QED
  BY <1>1, <1>2, OneWorker

LEMMA ReleaseLocal ==
  ASSUME LocalOK, NEW w \in Workers, Release(w), UNCHANGED seen, NEW A \in SUBSET Jobs
  PROVE  /\ job'[w] = NoJob
         /\ \A v \in Workers : LocalStep(v)
         /\ \A i \in A : RipeStep(i)
<1>1. /\ pc'[w] = "idle" /\ job'[w] = NoJob
      /\ \A v \in Workers \ {w} : /\ pc'[v] = pc[v] /\ job'[v] = job[v] /\ copy'[v] = copy[v]
  BY DEF Release, LocalOK
<1>2. LocalStep(w)
  BY <1>1 DEF LocalStep
<1>3. job'[w] \notin A
  BY <1>1, IdentifiersAssumption
<1> QED
  BY <1>1, <1>2, <1>3, OneWorker

(* The writes of a holder, row by row. *)
LEMMA HolderWrites ==
  ASSUME BInv, NEW w \in Workers, Holds(w), Write(job[w], copy[w], Home[w]),
         \/ copy[w].state = "running"
         \/ /\ copy[w].state \in {"completed", "dead", "retrying"}
            /\ job'[w] = NoJob \/ (pc'[w] = "push" /\ copy[w].state = "retrying")
  PROVE  \A j \in Jobs : RowStep(j)
<1>1. LocalOK /\ TableOK /\ job[w] \in Jobs
  BY HeldJob DEF BInv, OInv, TypeOK
<1>2. row'[job[w]] = copy[w] /\ \A i \in Jobs \ {job[w]} : row'[i] = row[i]
  BY <1>1, WriteRow
<1>3. RowStep(job[w])
  BY <1>2 DEF RowStep
<1> QED
  BY <1>2, <1>3, SameRow

LEMMA UndisturbedStep ==
  ASSUME LongBackoff, KInv, [Next]_vars
  PROVE  \A j \in Jobs : Calm(j)' => Undisturbed(j)'
<1>0. /\ BInv /\ TypeOK /\ LocalOK /\ TableOK /\ RestOK /\ Origin /\ Lapses /\ RetryCopies
  BY DEF KInv, BInv, OInv, TypeOK
<1> PICK A \in SUBSET Jobs : \A j \in Jobs : j \in A <=> Calm(j)'
  <2> DEFINE B == {j \in Jobs : Calm(j)'}
  <2>1. B \in SUBSET Jobs /\ \A j \in Jobs : j \in B <=> Calm(j)'
    OBVIOUS
  <2> HIDE DEF B
  <2> QED
    BY <2>1
<1>1. \A j \in A : /\ Parent[j] \in A \cup {NoJob} /\ Undisturbed(j)
                   /\ j \notin lapsed' \cup revived' \cup repeated' /\ j \notin lapsed
  <2>1. ASSUME NEW j \in A PROVE /\ Undisturbed(j) /\ j \notin lapsed
                                 /\ j \notin lapsed' \cup revived' \cup repeated'
    BY CalmBefore, CalmJobs DEF KInv, Calm
  <2>2. ASSUME NEW j \in A PROVE Parent[j] \in A \cup {NoJob}
    BY IdentifiersAssumption DEF Calm
  <2> QED
    BY <2>1, <2>2
<1> HIDE DEF Undisturbed
<1> SUFFICES \A j \in A : Undisturbed(j)'
  OBVIOUS
<1>2. pushed \subseteq pushed'
  BY HistoryGrows
(* Steps that leave the workers alone. *)
<1>3. ASSUME UNCHANGED local, \A j \in A : RowStep(j)
      PROVE  \A j \in A : Undisturbed(j)'
  BY <1>0, <1>1, <1>2, <1>3, SameLocal, QuietStep
<1>4. ASSUME UNCHANGED local, UNCHANGED row PROVE \A j \in A : Undisturbed(j)'
  BY <1>3, <1>4, SameRow
<1>5. ASSUME NEW k \in Jobs, Push(k) PROVE \A j \in A : Undisturbed(j)'
  <2>1. /\ row'[k] = [NoRow EXCEPT !.state = IF Parent[k] = NoJob THEN "pending" ELSE "waiting"]
        /\ \A i \in Jobs \ {k} : row'[i] = row[i]
    BY <1>0, <1>5, WriteRow DEF Push
  <2>2. RowStep(k)
    BY <1>5, <2>1 DEF Push, RowStep, NoRow
  <2> QED
    BY <1>3, <1>5, <2>1, <2>2, SameRow DEF Push
<1>6. ASSUME NEW k \in Jobs, BecomeDue(k) PROVE \A j \in A : Undisturbed(j)'
  <2>1. /\ row'[k].state = row[k].state /\ row'[k].retries = row[k].retries
        /\ \A i \in Jobs \ {k} : row'[i] = row[i]
    BY <1>0, <1>6 DEF BecomeDue, TableOK, RowType
  <2>2. RowStep(k)
    BY <1>6, <2>1 DEF BecomeDue, RowStep
  <2> QED
    BY <1>3, <1>6, <2>1, <2>2, SameRow DEF BecomeDue
<1>7. ASSUME NEW k \in Jobs, Expire(k) \/ CancelRead(k) \/ RetryRead(k) \/ SweepRead(k)
      PROVE  \A j \in A : Undisturbed(j)'
  BY <1>4, <1>7 DEF Expire, CancelRead, RetryRead, SweepRead, Read, table
<1>8. CASE SweepCheck \/ UNCHANGED vars \/ \E w \in Workers : Heartbeat(w)
  BY <1>4, <1>8 DEF SweepCheck, vars, Heartbeat, table
<1>9. ASSUME NEW p \in Processes, ReclaimScan(p) PROVE \A j \in A : Undisturbed(j)'
  BY <1>4, <1>9 DEF ReclaimScan, table
<1>10. ASSUME NEW p \in Processes, NEW k \in Jobs, Reclaim(p, k)
       PROVE  \A j \in A : Undisturbed(j)'
  <2>1. k \notin A
    BY <1>0, <1>1, <1>10 DEF Reclaim, Lapses
  <2>2. UNCHANGED local /\ \E c : Write(k, c, NoProcess)
    BY <1>10 DEF Reclaim
  <2>3. \A j \in A : row'[j] = row[j]
    BY <1>0, <2>1, <2>2, WriteRow
  <2> QED
    BY <1>3, <2>2, <2>3, SameRow
<1>11. ASSUME NEW st \in {"cancelled", "failed"}, NEW kind \in {"cancel", "fail"},
              WriteBack(kind, st)
       PROVE  \A j \in A : Undisturbed(j)'
  <2>1. /\ client.job \in Jobs /\ client.copy \in RowType /\ UNCHANGED local
        /\ Write(client.job, [client.copy EXCEPT !.state = st], NoProcess)
    BY <1>0, <1>11 DEF WriteBack, RestOK, Idle
  <2>2. /\ row'[client.job].state = st
        /\ \A i \in Jobs \ {client.job} : row'[i] = row[i]
    BY <1>0, <2>1, WriteRow DEF RowType
  <2>3. RowStep(client.job)
    BY <2>2 DEF RowStep, Broken
  <2> QED
    BY <1>3, <2>1, <2>2, <2>3, SameRow
<1>12. CASE CancelWrite \/ SweepWrite
  BY <1>11, <1>12 DEF CancelWrite, SweepWrite
<1>13. CASE RetryWrite
  <2>1. /\ client.job \in Jobs /\ UNCHANGED local /\ client.job \in revived'
        /\ \E c : Write(client.job, c, NoProcess)
    BY <1>0, <1>13 DEF RetryWrite, WriteBack, RestOK, Idle
  <2>2. \A j \in A : row'[j] = row[j]
    BY <1>0, <1>1, <2>1, WriteRow
  <2> QED
    BY <1>3, <2>1, <2>2, SameRow
<1>14. ASSUME NEW S \in SUBSET Jobs, Delete(S) PROVE \A j \in A : Undisturbed(j)'
  <2>1. \A j \in Jobs : row'[j] = NoRow \/ row'[j] = row[j]
    BY <1>14 DEF Delete
  <2>2. \A j \in Jobs : RowStep(j)
    BY <2>1, SameRow DEF RowStep, NoRow
  <2> QED
    BY <1>3, <1>14, <2>2 DEF Delete
<1>15. CASE Cleanup \/ Flush
  BY <1>14, <1>15 DEF Cleanup, Flush
(* Steps of a worker that is polling. *)
<1>16. ASSUME NEW w \in Workers, NEW k \in Jobs, Skip(w, k), ~Holds(w),
              UNCHANGED <<job, copy>>, \A j \in A : RowStep(j)
       PROVE  \A j \in A : Undisturbed(j)'
  BY <1>0, <1>1, <1>2, <1>16, SkipLocal, QuietStep
<1>17. ASSUME NEW w \in Workers, NEW k \in Jobs, LoseClaim(w, k)
       PROVE  \A j \in A : Undisturbed(j)'
  BY <1>16, <1>17, SameRow DEF LoseClaim, MayClaim, Holds, table
<1>18. ASSUME NEW w \in Workers, Scan(w) PROVE \A j \in A : Undisturbed(j)'
  <2>1. /\ pc'[w] = "poll" /\ ~Holds(w) /\ ~Holds(w)'
        /\ \A v \in Workers \ {w} : pc'[v] = pc[v] /\ seen'[v] = seen[v]
        /\ \A i \in Jobs : seen'[w][i] = NoRow \/ (seen'[w][i] = row[i] /\ row[i].due)
    BY <1>0, <1>18 DEF Scan, Scanned, Ready, LocalOK, Holds
  <2> QED
    BY <1>0, <1>1, <1>18, <2>1, ReadStep DEF Scan, table
<1>19. ASSUME NEW w \in Workers, NEW k \in Jobs, IsNext(w, k), ~Holds(w),
              NEW to \in {"orphan", "claim", "park", "fail"}, pc' = [pc EXCEPT ![w] = to],
              UNCHANGED <<row, pushed, seen, job, copy>>,
              to = "claim" => Parent[k] # NoJob /\ Done(Parent[k]),
              to = "park" => /\ Parent[k] # NoJob /\ ~Lost(Parent[k]) /\ ~Done(Parent[k])
                             /\ seen[w][k].state # "waiting"
       PROVE  \A j \in A : Undisturbed(j)'
  <2>1. pc'[w] = to /\ \A v \in Workers \ {w} : pc'[v] = pc[v]
    BY <1>0, <1>19 DEF LocalOK
  <2>2. \A i \in Jobs : IsNext(w, i)' => i = k
    BY <1>19, NumbersAssumption DEF IsNext, Candidates
  <2>3. seen[w][k].state \in Claimable /\ ~Holds(w)'
    BY <1>0, <1>19, <2>1 DEF IsNext, Candidates, Origin, Holds
  <2>4. to = "park" => seen[w][k].state = "pending" \/ seen[w][k].state = "retrying"
    BY <1>19, <2>3 DEF Claimable
  <2>5. /\ \A i \in Jobs : pc'[w] = "claim" /\ IsNext(w, i)' =>
             Parent[i] # NoJob /\ Done(Parent[i])
        /\ \A i \in Jobs : pc'[w] = "park" /\ IsNext(w, i)' =>
             /\ Parent[i] # NoJob /\ ~Lost(Parent[i]) /\ ~Done(Parent[i])
             /\ seen[w][i].state = "pending" \/ seen[w][i].state = "retrying"
    BY <1>19, <2>1, <2>2, <2>4
  <2> QED
    BY <1>0, <1>1, <1>19, <2>1, <2>3, <2>5, ReadStep
<1>20. ASSUME NEW w \in Workers, NEW k \in Jobs, CheckParent(w, k) \/ CheckOrphan(w, k)
       PROVE  \A j \in A : Undisturbed(j)'
  <2>1. /\ ~Holds(w) /\ IsNext(w, k)
        /\ UNCHANGED <<row, pushed, job, copy>>
    BY <1>20 DEF CheckParent, CheckOrphan, Holds, table
  <2>2. CASE Skip(w, k)
    BY <1>16, <2>1, <2>2, SameRow
  <2>3. CASE /\ pc' = [pc EXCEPT ![w] = "orphan"] \/ pc' = [pc EXCEPT ![w] = "fail"]
             /\ UNCHANGED seen
    BY <1>19, <2>1, <2>3
  <2>4. CASE /\ pc' = [pc EXCEPT ![w] = "claim"] /\ UNCHANGED seen
             /\ Parent[k] # NoJob /\ Done(Parent[k])
    BY <1>19, <2>1, <2>4
  <2>5. CASE /\ pc' = [pc EXCEPT ![w] = "park"] /\ UNCHANGED seen
             /\ Parent[k] # NoJob /\ ~Lost(Parent[k]) /\ ~Done(Parent[k])
             /\ seen[w][k].state # "waiting"
    BY <1>19, <2>1, <2>5
  <2> QED
    BY <1>20, <2>2, <2>3, <2>4, <2>5 DEF CheckParent, CheckOrphan
<1>21. ASSUME NEW w \in Workers, NEW k \in Jobs, Park(w, k)
       PROVE  \A j \in A : Undisturbed(j)'
  <2>1. /\ pc[w] = "park" /\ IsNext(w, k) /\ Skip(w, k) /\ ~Holds(w) /\ UNCHANGED <<job, copy>>
        /\ \E c : Write(k, c, NoProcess)
    BY <1>21 DEF Park, Holds
  <2>2. k \notin A
    BY <1>1, <2>1 DEF Undisturbed, NoPark
  <2>3. \A j \in A : row'[j] = row[j]
    BY <1>0, <2>1, <2>2, WriteRow
  <2> QED
    BY <1>16, <2>1, <2>3, SameRow
<1>22. ASSUME NEW w \in Workers, NEW k \in Jobs, FailOrphan(w, k)
       PROVE  \A j \in A : Undisturbed(j)'
  <2>1. /\ Skip(w, k) /\ ~Holds(w) /\ UNCHANGED <<job, copy>> /\ seen[w][k] \in RowType
        /\ Write(k, [seen[w][k] EXCEPT !.state = "failed"], NoProcess)
    BY <1>0, <1>22 DEF FailOrphan, Holds, LocalOK
  <2>2. row'[k].state = "failed" /\ \A i \in Jobs \ {k} : row'[i] = row[i]
    BY <1>0, <2>1, WriteRow DEF RowType
  <2>3. \A j \in A : RowStep(j)
    BY <2>2, SameRow DEF RowStep, Broken
  <2> QED
    BY <1>16, <2>1, <2>3
<1>23. ASSUME NEW w \in Workers, NEW k \in Jobs, Claim(w, k)
       PROVE  \A j \in A : Undisturbed(j)'
  BY <1>0, <1>1, <1>23, ClaimStep
(* Steps of a worker that holds a job, and crashes. *)
<1>24. ASSUME \A j \in A : RowStep(j) /\ RipeStep(j), \A w \in Workers : LocalStep(w)
       PROVE  \A j \in A : Undisturbed(j)'
  BY <1>0, <1>1, <1>2, <1>24, QuietStep
<1>25. ASSUME NEW w \in Workers, Holds(w), NEW to, pc' = [pc EXCEPT ![w] = to],
              to \notin {"claim", "park", "push"}, pc[w] # "push", UNCHANGED <<seen, job>>,
              \A v \in Workers \ {w} : copy'[v] = copy[v],
              job[w] \in A /\ Ripe(w) => Ripe(w)', \A j \in A : RowStep(j)
       PROVE  \A j \in A : Undisturbed(j)'
  <2>1. pc'[w] = to /\ \A v \in Workers \ {w} : pc'[v] = pc[v]
    BY <1>0, <1>25 DEF LocalOK
  <2>2. LocalStep(w)
    BY <1>25, <2>1 DEF LocalStep
  <2> QED
    BY <1>24, <1>25, <2>1, <2>2, OneWorker
<1>26. ASSUME NEW w \in Workers, FinishPop(w) \/ StartBody(w)
       PROVE  \A j \in A : Undisturbed(j)'
  <2>1. PICK to \in {"popped", "body"} :
          /\ pc[w] \in InHand /\ Holds(w) /\ pc' = [pc EXCEPT ![w] = to]
          /\ Write(job[w], copy[w], Home[w]) /\ UNCHANGED <<seen, job, copy>>
    BY <1>26 DEF FinishPop, StartBody, WriteRunning, InHand, Holds
  <2>2. copy[w].state = "running"
    BY <1>0, <2>1 DEF Origin
  <2>3. \A j \in A : RowStep(j)
    BY <1>0, <2>1, <2>2, HolderWrites
  <2>4. Ripe(w) => Ripe(w)'
    BY <1>0, <2>1 DEF Ripe, LocalOK
  <2> QED
    BY <1>25, <2>1, <2>3, <2>4 DEF InHand
<1>27. ASSUME NEW w \in Workers, Finish(w) PROVE \A j \in A : Undisturbed(j)'
  <2>1. Holds(w) /\ pc[w] = "body" /\ UNCHANGED <<row, seen>>
    BY <1>27 DEF Finish, Holds, table
  <2>2. CASE EpochHolds(w)
    <3>1. PICK c \in Results(job[w], copy[w]) :
            /\ copy' = [copy EXCEPT ![w] = c] /\ pc' = [pc EXCEPT ![w] = "store"]
            /\ UNCHANGED job
      BY <1>27, <2>2 DEF Finish
    <3>2. /\ job[w] \in Jobs /\ copy[w] \in RowType /\ copy[w].retries \in Nat
          /\ copy'[w] = c /\ pc'[w] = "store"
          /\ \A v \in Workers \ {w} : copy'[v] = copy[v]
      BY <1>0, <2>1, <3>1, HeldJob DEF LocalOK, RowType
    <3>3. /\ c.state = "retrying" => c.retries = copy[w].retries + 1
          /\ c.retries \in {copy[w].retries, copy[w].retries + 1}
      BY <3>2, ResultFacts
    <3>4. Ripe(w) => Ripe(w)'
      BY <3>2, <3>3 DEF Ripe
    <3> QED
      BY <1>25, <2>1, <3>1, <3>2, <3>4, SameRow
  <2>3. CASE ~EpochHolds(w)
    <3>1. Release(w)
      BY <1>27, <2>3 DEF Finish
    <3> QED
      BY <1>0, <1>24, <2>1, <3>1, ReleaseLocal, SameRow
  <2> QED
    BY <2>2, <2>3
<1>28. ASSUME NEW w \in Workers, Store(w) \/ PushAgain(w) PROVE \A j \in A : Undisturbed(j)'
  <2>1. /\ Holds(w) /\ pc[w] \in {"store", "push"} /\ UNCHANGED seen /\ job[w] \in Jobs
        /\ Write(job[w], copy[w], Home[w])
        /\ copy[w].state \in {"completed", "dead", "retrying"}
    BY <1>0, <1>28, HeldJob DEF Store, PushAgain, Holds, RetryCopies
  <2>2. CASE Release(w)
    <3>1. /\ job'[w] = NoJob
          /\ \A v \in Workers : LocalStep(v)
          /\ \A i \in A : RipeStep(i)
      BY <1>0, <2>1, <2>2, ReleaseLocal
    <3>2. \A j \in A : RowStep(j)
      BY <1>0, <2>1, <3>1, HolderWrites
    <3> QED
      BY <1>24, <3>1, <3>2
  <2>3. CASE ~Release(w)
    <3>1. /\ pc[w] = "store" /\ copy[w].state = "retrying"
          /\ pc' = [pc EXCEPT ![w] = "push"] /\ UNCHANGED <<job, copy>>
          /\ copy[w].retries > 1 => job[w] \in repeated'
      BY <1>28, <2>3 DEF Store, PushAgain
    <3>2. pc'[w] = "push" /\ \A v \in Workers \ {w} : pc'[v] = pc[v]
      BY <1>0, <3>1 DEF LocalOK
    <3>3. \A j \in A : RowStep(j)
      BY <1>0, <2>1, <3>1, <3>2, HolderWrites
    <3>4. job'[w] \in A => ~Ripe(w)
      BY <1>1, <3>1 DEF Ripe
    <3>5. LocalStep(w)
      BY <2>1, <3>1, <3>2 DEF LocalStep
    <3>6. /\ \A v \in Workers : LocalStep(v)
          /\ \A i \in A : RipeStep(i)
      BY <2>1, <3>1, <3>2, <3>4, <3>5, OneWorker
    <3> QED
      BY <1>24, <3>3, <3>6
  <2> QED
    BY <2>2, <2>3
<1>29. ASSUME NEW p \in Processes, Crash(p) PROVE \A j \in A : Undisturbed(j)'
  <2>1. \A w \in Workers :
          \/ /\ pc'[w] = "idle" /\ seen'[w] = NoSeen /\ job'[w] = NoJob
          \/ /\ pc'[w] = pc[w] /\ seen'[w] = seen[w]
             /\ job'[w] = job[w] /\ copy'[w] = copy[w]
    BY <1>29 DEF Crash
  <2>2. \A w \in Workers : LocalStep(w)
    BY <2>1 DEF LocalStep, NoSeen
  <2>3. \A j \in A : RipeStep(j)
    BY <2>1, IdentifiersAssumption DEF RipeStep, Ripe
  <2>4. \A j \in A : RowStep(j)
    BY <1>29, SameRow DEF Crash, table
  <2> QED
    BY <1>24, <2>2, <2>3, <2>4
<1> QED
  BY StepCases, <1>5, <1>6, <1>7, <1>8, <1>9, <1>10, <1>12, <1>13, <1>15, <1>17, <1>18,
     <1>20, <1>21, <1>22, <1>23, <1>26, <1>27, <1>28, <1>29

-----------------------------------------------------------------------------
LEMMA InitKInv == Init => Lapses /\ RetryCopies /\ \A j \in Jobs : Undisturbed(j)
<1> SUFFICES ASSUME Init PROVE Lapses /\ RetryCopies /\ \A j \in Jobs : Undisturbed(j)
  OBVIOUS
<1>1. Lapses
  BY DEF Init, Lapses, NoSeen
<1>2. \A w \in Workers : ~Holds(w) /\ pc[w] = "idle" /\ job[w] = NoJob
  BY DEF Init, Holds
<1>3. \A j \in Jobs : /\ j # NoJob /\ row[j].state = "absent"
                      /\ \A w \in Workers : seen[w][j].state = "absent"
  BY IdentifiersAssumption DEF Init, NoSeen, NoRow
<1>4. RetryCopies
  BY <1>2 DEF RetryCopies
<1>5. \A j \in Jobs : OneHolder(j) /\ RowOfHeld(j) /\ Before(j) /\ NoPark(j) /\ FirstRetry(j)
  BY <1>2, <1>3 DEF OneHolder, RowOfHeld, Before, NoPark, FirstRetry
<1> QED
  BY <1>1, <1>4, <1>5 DEF Undisturbed

LEMMA CalmInvariance == LongBackoff => (Spec => []KInv)
<1> SUFFICES ASSUME LongBackoff PROVE Spec => []KInv
  OBVIOUS
<1>1. Init => Origin
  BY DEF Init, Origin, NoSeen, NoRow, Holds, InHand
<1>2. OInv /\ OInv' /\ Init => KInv
  BY <1>1, InitKInv DEF KInv, BInv
<1>3. OInv /\ OInv' /\ KInv /\ [Next]_vars => KInv'
  <2> SUFFICES ASSUME OInv', KInv, [Next]_vars PROVE KInv'
    OBVIOUS
  <2>1. BInv'
    BY OriginStep DEF KInv, BInv
  <2>2. Lapses' /\ RetryCopies'
    BY LapsesStep, RetryCopiesStep DEF KInv
  <2> QED
    BY <2>1, <2>2, UndisturbedStep DEF KInv
<1> QED
  BY Invariance, <1>2, <1>3, PTL DEF Spec

(* Two workers never hold one job, as long as neither it nor a job it waits for has
   had a lease run out, was retried by hand or failed twice, and a retry is not due
   before it is pushed. *)
THEOREM CalmJobsHaveOneHolder == LongBackoff => (Spec => []Exclusive)
<1>1. KInv => Exclusive
  <2> SUFFICES ASSUME KInv, NEW v \in Workers, NEW w \in Workers,
                      v # w, Holds(v), Holds(w), job[v] = job[w], Calm(job[w])
               PROVE  FALSE
    BY DEF Exclusive
  <2>1. job[w] \in Jobs
    BY HeldJob DEF KInv, BInv, OInv, TypeOK
  <2> QED
    BY <2>1 DEF KInv, Undisturbed, OneHolder
<1> QED
  BY CalmInvariance, <1>1, PTL

(* Who may write the row of a calm job that says COMPLETED. *)
LEMMA CompletedStep ==
  ASSUME KInv, [Next]_vars, NEW j \in Jobs, row[j].state = "completed", Calm(j),
         ~WriteBackPending(j)
  PROVE  row'[j].state \in {"completed", "absent"}
<1>0. /\ BInv /\ TypeOK /\ LocalOK /\ TableOK /\ RestOK /\ Origin /\ Lapses
      /\ j \in pushed /\ j \notin lapsed /\ client.job # j
  BY CalmJobs DEF KInv, BInv, OInv, TypeOK, Origin, WriteBackPending
<1>1. \A w \in Workers : Holds(w) => job[w] # j
  BY <1>0 DEF KInv, Undisturbed, RowOfHeld
<1>2. CASE UNCHANGED row
  BY <1>2
<1>3. ASSUME NEW k \in Jobs, NEW c, NEW p, Write(k, c, p), k # j
      PROVE  row'[j].state \in {"completed", "absent"}
  BY <1>0, <1>3, WriteRow
<1>4. ASSUME NEW k \in Jobs, Push(k) PROVE row'[j].state \in {"completed", "absent"}
  <2>1. k # j /\ \E c : Write(k, c, NoProcess)
    BY <1>0, <1>4 DEF Push
  <2> QED
    BY <1>3, <2>1
<1>5. ASSUME NEW k \in Jobs, BecomeDue(k) PROVE row'[j].state \in {"completed", "absent"}
  BY <1>0, <1>5 DEF BecomeDue, TableOK, RowType
<1>6. ASSUME NEW w \in Workers, NEW k \in Jobs, Park(w, k) \/ FailOrphan(w, k)
      PROVE  row'[j].state \in {"completed", "absent"}
  <2>1. k # j /\ \E c : Write(k, c, NoProcess)
    BY <1>6 DEF Park, FailOrphan, WriteBackPending
  <2> QED
    BY <1>3, <2>1
<1>7. ASSUME NEW w \in Workers, NEW k \in Jobs, Claim(w, k)
      PROVE  row'[j].state \in {"completed", "absent"}
  <2>1. row[k].state \in Claimable
    BY <1>0, <1>7 DEF Claim, MayClaim, Unclaimed, IsNext, Candidates, Origin
  <2> QED
    BY <1>0, <1>7, <2>1 DEF Claim, Claimable, TableOK
<1>8. ASSUME NEW w \in Workers, FinishPop(w) \/ StartBody(w) \/ Store(w) \/ PushAgain(w)
      PROVE  row'[j].state \in {"completed", "absent"}
  <2>1. Holds(w) /\ Write(job[w], copy[w], Home[w])
    BY <1>8 DEF FinishPop, StartBody, WriteRunning, Store, PushAgain, Holds
  <2> QED
    BY <1>0, <1>1, <1>3, <2>1, HeldJob
<1>9. ASSUME NEW p \in Processes, NEW k \in Jobs, Reclaim(p, k)
      PROVE  row'[j].state \in {"completed", "absent"}
  <2>1. k # j /\ \E c : Write(k, c, NoProcess)
    BY <1>0, <1>9 DEF Reclaim, Lapses
  <2> QED
    BY <1>3, <2>1
<1>10. ASSUME NEW kind \in {"cancel", "fail", "retry"}, NEW st, WriteBack(kind, st)
       PROVE  row'[j].state \in {"completed", "absent"}
  <2>1. client.job \in Jobs /\ \E c : Write(client.job, c, NoProcess)
    BY <1>0, <1>10 DEF WriteBack, RestOK, Idle
  <2> QED
    BY <1>0, <1>3, <2>1
<1>11. CASE CancelWrite \/ SweepWrite \/ RetryWrite
  BY <1>10, <1>11 DEF CancelWrite, SweepWrite, RetryWrite
<1>12. CASE Cleanup \/ Flush
  <2>1. row'[j] = NoRow \/ row'[j] = row[j]
    BY <1>12 DEF Cleanup, Flush, Delete
  <2> QED
    BY <2>1 DEF NoRow
<1>13. ASSUME NEW w \in Workers,
              \/ Scan(w) \/ Finish(w) \/ Heartbeat(w)
              \/ \E k \in Jobs : CheckParent(w, k) \/ CheckOrphan(w, k) \/ LoseClaim(w, k)
       PROVE  UNCHANGED row
  BY <1>13 DEF Scan, Finish, Heartbeat, CheckParent, CheckOrphan, LoseClaim, table
<1>14. ASSUME \/ \E k \in Jobs : Expire(k) \/ CancelRead(k) \/ RetryRead(k) \/ SweepRead(k)
              \/ \E p \in Processes : ReclaimScan(p) \/ Crash(p)
              \/ SweepCheck \/ UNCHANGED vars
       PROVE  UNCHANGED row
  BY <1>14 DEF Expire, CancelRead, RetryRead, SweepRead, Read, ReclaimScan, Crash,
               SweepCheck, vars, table
<1> QED
  BY StepCases, <1>2, <1>4, <1>5, <1>6, <1>7, <1>8, <1>9, <1>11, <1>12, <1>13, <1>14

(* A result that was stored stays: only a decision taken before it was stored, to
   cancel, to sweep or to park the job, is written over it. *)
THEOREM ResultsAreKept == LongBackoff => (Spec => ResultKept)
<1>1. KInv /\ [Next]_vars =>
        [\A j \in Jobs :
           /\ row[j].state = "completed"
           /\ row'[j].state \notin {"completed", "absent"}
           => ~Calm(j) \/ WriteBackPending(j)]_vars
  BY CompletedStep
<1> QED
  BY CalmInvariance, <1>1, PTL DEF Spec, ResultKept

(* Only a job with a budget of three attempts or more fails twice and comes back. *)
LEMMA RepeatedStep ==
  ASSUME BInv, RetryCopies, [Next]_vars,
         \A j \in repeated : MaxRetries[j] > 2
  PROVE  \A j \in repeated' : MaxRetries[j] > 2
<1> USE DEF history
<1>1. ASSUME NEW w \in Workers, Store(w) PROVE \A j \in repeated' : MaxRetries[j] > 2
  <2>1. Holds(w) /\ LocalOK
    BY <1>1 DEF Store, Holds, BInv, OInv, TypeOK
  <2>2. /\ job[w] \in Jobs /\ MaxRetries[job[w]] \in Nat
        /\ copy[w] \in RowType /\ copy[w].retries \in Nat
    BY <2>1, HeldJob, NumbersAssumption DEF RowType
  <2>3. copy[w].state = "retrying" /\ copy[w].retries > 1 => MaxRetries[job[w]] > 2
    BY <2>1, <2>2 DEF RetryCopies
  <2> QED
    BY <1>1, <2>3 DEF Store
<1>2. CASE UNCHANGED repeated
  BY <1>2
<1>3. ASSUME NEW j \in Jobs, Push(j) \/ BecomeDue(j) \/ Expire(j) \/ CancelRead(j)
                             \/ RetryRead(j) \/ SweepRead(j)
      PROVE  UNCHANGED repeated
  BY <1>3 DEF Push, BecomeDue, Expire, CancelRead, RetryRead, SweepRead, Read
<1>4. ASSUME NEW w \in Workers, NEW j \in Jobs,
             CheckParent(w, j) \/ Park(w, j) \/ CheckOrphan(w, j) \/ FailOrphan(w, j)
               \/ Claim(w, j) \/ LoseClaim(w, j)
      PROVE  UNCHANGED repeated
  BY <1>4 DEF CheckParent, Park, CheckOrphan, FailOrphan, Claim, LoseClaim
<1>5. ASSUME NEW w \in Workers,
             Scan(w) \/ FinishPop(w) \/ StartBody(w) \/ Heartbeat(w) \/ Finish(w) \/ PushAgain(w)
      PROVE  UNCHANGED repeated
  BY <1>5 DEF Scan, FinishPop, StartBody, WriteRunning, Heartbeat, Finish, PushAgain
<1>6. ASSUME NEW p \in Processes,
             ReclaimScan(p) \/ Crash(p) \/ \E j \in Jobs : Reclaim(p, j)
      PROVE  UNCHANGED repeated
  BY <1>6 DEF ReclaimScan, Crash, Reclaim
<1>7. CASE \/ SweepCheck \/ CancelWrite \/ SweepWrite \/ RetryWrite \/ Cleanup \/ Flush
           \/ UNCHANGED vars
  BY <1>2, <1>7 DEF SweepCheck, CancelWrite, SweepWrite, RetryWrite, WriteBack, Cleanup,
                    Flush, Delete, vars
<1> QED
  BY StepCases, <1>1, <1>2, <1>3, <1>4, <1>5, <1>6, <1>7

(* Where what pop says of itself is true: among jobs that depend on no other and have
   at most two attempts, concurrent workers never both claim one job without a
   lapse or a manual retry. *)
THEOREM TwoAttemptsAreClaimedOnce ==
  ASSUME LongBackoff, \A j \in Jobs : Parent[j] = NoJob /\ MaxRetries[j] <= 2
  PROVE  Spec => []NeverBothClaim
<1> DEFINE R == \A j \in repeated : MaxRetries[j] > 2
<1>1. Init => R
  BY DEF Init
<1>2. KInv /\ R /\ [Next]_vars => R'
  BY RepeatedStep DEF KInv
<1>3. KInv /\ R => NeverBothClaim
  <2> SUFFICES ASSUME KInv, R, NEW v \in Workers, NEW w \in Workers,
                      v # w, Holds(v), Holds(w), job[v] = job[w],
                      job[w] \notin lapsed \cup revived
               PROVE  FALSE
    BY DEF NeverBothClaim
  <2>1. job[w] \in Jobs /\ MaxRetries[job[w]] \in Nat
    BY HeldJob, NumbersAssumption DEF KInv, BInv, OInv, TypeOK
  <2>2. job[w] \notin repeated
    BY <2>1
  <2>3. Calm(job[w])
    <3>1. {job[w]} \in SUBSET Jobs /\ \A i \in {job[w]} : Parent[i] \in {job[w]} \cup {NoJob}
      BY <2>1
    <3>2. {job[w]} \cap (lapsed \cup revived \cup repeated) = {}
      BY <2>2
    <3> QED
      BY <3>1, <3>2 DEF Calm
  <2> QED
    BY <2>1, <2>3 DEF KInv, Undisturbed, OneHolder
<1> QED
  BY CalmInvariance, <1>1, <1>2, <1>3, PTL DEF Spec
=============================================================================
