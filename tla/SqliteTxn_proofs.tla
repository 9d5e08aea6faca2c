--------------------------- MODULE SqliteTxn_proofs ---------------------------
(* Proofs about SqliteTxn, for every set of tasks and all bounds. *)
EXTENDS SqliteTxn, SequenceTheorems, TLAPS

Working == {"auto", "begin", "block", "commit", "rollback"}
Places  == {"idle", "wait"} \cup Working

(* The parts of TypeOK: types, who waits, and what a wake-up says. *)
Typed ==
  /\ locked \in BOOLEAN /\ woken \in BOOLEAN /\ opened \in BOOLEAN /\ flag \in BOOLEAN
  /\ queue \in Seq(Tasks) /\ untimed \subseteq Tasks
  /\ dirty \subseteq Writes /\ durable \subseteq Writes
  /\ late \subseteq Writes \X (Statements \ {"none"}) /\ pinned \subseteq Tasks
  /\ pc \in [Tasks -> Places]
  /\ statement \in [Tasks -> Statements]
  /\ kind \in [Tasks -> Kinds]
  /\ calls \in [Tasks -> Nat] /\ faults \in 0..MaxFaults
  /\ acked \subseteq Writes /\ undone \subseteq Writes /\ crossed \subseteq Writes
  /\ strays \subseteq Tasks /\ leaked \in BOOLEAN
Waiting == \A t \in Tasks : pc[t] = "wait" <=> \E i \in DOMAIN queue : queue[i] = t
Awake == woken => ~locked /\ queue # <<>>

(* Nobody waits twice. *)
InTurn == \A i, j \in DOMAIN queue : queue[i] = queue[j] => i = j

(* What a task may be awaiting. *)
Awaited(p) == CASE p = "auto"     -> {"none", "write", "autocommit", "commit"}
                [] p = "begin"    -> {"none", "begin"}
                [] p = "block"    -> {"none", "write"}
                [] p = "commit"   -> {"none", "commit"}
                [] p = "rollback" -> {"none", "rollback"}
                [] OTHER          -> {"none"}
Awaits == \A t \in Tasks : statement[t] \in Awaited(pc[t])

(* The write of a call is nowhere before its statement has run. *)
Unmade(t) == pc[t] \in {"wait", "begin"} \/ statement[t] \in {"write", "autocommit"}
Made == acked \cup undone \cup durable \cup dirty \cup {j[1] : j \in late}
Fresh == \A w \in Made : /\ w[2] <= calls[w[1]]
                         /\ Unmade(w[1]) => w[2] # calls[w[1]]

(* The COMMIT or the ROLLBACK of the block has run. *)
Ended(t) == pc[t] \in {"commit", "rollback"} /\ statement[t] = "none"

(* Where the write of a task is, by how far its call has come. *)
Story(t) ==
  /\ t \in pinned <=> Inside(t)
  /\ pc[t] = "auto" =>
       statement[t] # "write" /\ (statement[t] # "autocommit" => Write(t) \in durable)
  /\ pc[t] = "begin" /\ statement[t] = "none" => opened \/ Write(t) \in crossed
  /\ pc[t] = "block" /\ statement[t] = "none" => Write(t) \in dirty \cup durable
  /\ pc[t] = "commit" => /\ Write(t) \in dirty \cup durable
                         /\ statement[t] = "none" => Write(t) \in durable
  /\ Inside(t) /\ Write(t) \notin crossed =>
       /\ ~Ended(t) => opened
       /\ Write(t) \in durable => pc[t] = "commit" /\ statement[t] = "none"

(* Who may have a transaction open on the connection. *)
Opener(t) == \/ Inside(t) /\ ~Ended(t)
             \/ pc[t] = "begin" /\ statement[t] = "none"

(* While no COMMIT or ROLLBACK has failed, the lock, the context variable, the
   flag of the connection and sqlite's own transaction tell the same story, and
   what was left to threads touches no write but its own and its victims'. *)
Lock ==
  /\ \A s, t \in Tasks : s # t /\ Using(s) => ~Using(t)
  /\ locked <=> leaked \/ \E t \in Tasks : Using(t)
  /\ leaked => \A t \in Tasks : ~Using(t)
  /\ flag <=> \E t \in Tasks : Inside(t)
Data ==
  /\ opened => leaked \/ \E t \in Tasks : Opener(t)
  /\ dirty # {} => opened
  /\ \A w \in dirty \ crossed : \E t \in Tasks : Inside(t) /\ w = Write(t)
Left == \A j \in late : /\ j[1] \in crossed
                        /\ j[2] # "rollback"
                        /\ j[2] = "begin" => leaked
OneStory == strays = {} => Lock /\ Data /\ Left /\ \A t \in Tasks : Story(t)

IInv == Typed /\ Waiting /\ Awake /\ InTurn /\ Awaits /\ Fresh /\ OneStory /\ OutcomeIsTrue

LEMMA TypedIs == TypeOK <=> Typed /\ Waiting /\ Awake
  BY DEF TypeOK, Typed, Waiting, Awake, Places, Working

LEMMA RemoveAtIs ==
  ASSUME NEW S, NEW s \in Seq(S), NEW i \in DOMAIN s
  PROVE  /\ RemoveAt(s, i) \in Seq(S)
         /\ Len(RemoveAt(s, i)) = Len(s) - 1
         /\ \A k \in 1..(Len(s) - 1) :
              RemoveAt(s, i)[k] = IF k < i THEN s[k] ELSE s[k + 1]
<1>1. i \in 1..Len(s) /\ Len(s) \in Nat
  OBVIOUS
<1> DEFINE a == SubSeq(s, 1, i - 1)
           b == SubSeq(s, i + 1, Len(s))
<1>2. /\ a \in Seq(S) /\ Len(a) = i - 1
      /\ \A k \in 1..(i - 1) : a[k] = s[k]
  BY <1>1, SubSeqProperties
<1>3. /\ b \in Seq(S) /\ Len(b) = Len(s) - i
      /\ \A k \in 1..(Len(s) - i) : b[k] = s[k + i]
  BY <1>1, SubSeqProperties
<1>4. RemoveAt(s, i) = a \o b
  BY DEF RemoveAt
<1> HIDE DEF a, b
<1> QED
  BY <1>1, <1>2, <1>3, <1>4, ConcatProperties
-----------------------------------------------------------------------------
(* One step of a task that has the writer, and that then awaits s; Release may be
   part of it. *)
Works(t, to, s) ==
  /\ pc[t] \in Working /\ to \in Places \ {"wait"} /\ s \in Awaited(to)
  /\ pc' = [pc EXCEPT ![t] = to] /\ statement' = [statement EXCEPT ![t] = s]
  /\ queue' = queue /\ untimed' = untimed /\ calls' = calls
  /\ (locked' = locked /\ woken' = woken) \/ Release

LEMMA AwaitedIs ==
  ASSUME NEW p
  PROVE  /\ Awaited(p) \subseteq Statements
         /\ p \in Places => "none" \in Awaited(p)
  BY DEF Awaited, Statements, Places, Working

LEMMA WorksQueue ==
  ASSUME IInv, NEW t \in Tasks, NEW to, NEW s, Works(t, to, s)
  PROVE  /\ Waiting' /\ Awake' /\ InTurn' /\ Awaits'
         /\ pc' \in [Tasks -> Places] /\ statement' \in [Tasks -> Statements]
         /\ \A u \in Tasks : /\ pc'[u] = IF u = t THEN to ELSE pc[u]
                             /\ statement'[u] = IF u = t THEN s ELSE statement[u]
         /\ Write(t)' = Write(t)
<1>1. s \in Statements
  BY AwaitedIs DEF Works
<1>2. pc' \in [Tasks -> Places] /\ statement' \in [Tasks -> Statements]
  BY <1>1 DEF IInv, Typed, Works
<1>3. \A u \in Tasks : /\ pc'[u] = IF u = t THEN to ELSE pc[u]
                       /\ statement'[u] = IF u = t THEN s ELSE statement[u]
  BY DEF IInv, Typed, Works
<1>4. Waiting'
  BY <1>3 DEF IInv, Waiting, Works, Working
<1>5. Awake'
  BY DEF IInv, Typed, Awake, Works, Release
<1>6. InTurn'
  BY DEF IInv, InTurn, Works
<1>7. Awaits'
  <2>1. ASSUME NEW u \in Tasks PROVE statement'[u] \in Awaited(pc'[u])
    BY <1>3 DEF IInv, Awaits, Works
  <2> QED
    BY <2>1 DEF Awaits, Awaited
<1>8. Write(t)' = Write(t)
  BY DEF Write, Works
<1> QED
  BY <1>2, <1>3, <1>4, <1>5, <1>6, <1>7, <1>8

LEMMA MadeAreWrites ==
  ASSUME IInv
  PROVE  /\ Made \subseteq Writes /\ \A t \in Tasks : Write(t) \in Writes
         /\ \A t \in Tasks : Write(t)[1] = t /\ Write(t)[2] = calls[t] /\ calls[t] \in Nat
<1>1. \A t \in Tasks : calls[t] \in Nat
  BY DEF IInv, Typed
<1>2. \A j \in late : j[1] \in Writes
  BY DEF IInv, Typed
<1> QED
  BY <1>1, <1>2 DEF IInv, Typed, Made, Writes, Write

LEMMA WorksFresh ==
  ASSUME IInv, NEW t \in Tasks, NEW to, NEW s, Works(t, to, s),
         \/ /\ Made' \subseteq Made \cup {Write(t)}
            /\ to # "begin" /\ s \notin {"write", "autocommit"}
         \/ Made' \subseteq Made /\ pc[t] = "begin"
  PROVE  Fresh'
<1>1. calls' = calls /\ to # "wait"
  BY DEF Works
<1>2. \A u \in Tasks : u # t => (Unmade(u)' <=> Unmade(u))
  BY WorksQueue DEF Unmade
<1>3. to # "begin" /\ s \notin {"write", "autocommit"} => ~Unmade(t)'
  BY <1>1, WorksQueue DEF Unmade
<1>4. pc[t] = "begin" => Unmade(t)
  BY DEF Unmade
<1>5. \A w \in Made : /\ w[1] \in Tasks /\ w[2] <= calls[w[1]]
                      /\ Unmade(w[1]) => w[2] # calls[w[1]]
  BY MadeAreWrites DEF IInv, Fresh, Writes
<1>6. Write(t)[1] = t /\ Write(t)[2] = calls[t] /\ calls[t] \in Nat
  BY MadeAreWrites
<1>7. ASSUME NEW w \in Made'
      PROVE  w[2] <= calls[w[1]] /\ (Unmade(w[1])' => w[2] # calls[w[1]])
  BY <1>2, <1>3, <1>4, <1>5, <1>6, <1>7 DEF Unmade
<1> QED
  BY <1>1, <1>7 DEF Fresh

(* From here on nothing is claimed of the story: a COMMIT or a ROLLBACK failed. *)
LEMMA StrayStep ==
  ASSUME IInv, NEW t \in Tasks, NEW to, NEW s, Works(t, to, s), t \in strays', Typed',
         Made' \subseteq Made \cup {Write(t)},
         to # "begin", s \notin {"write", "autocommit"}
  PROVE  IInv'
<1>1. OneStory' /\ OutcomeIsTrue'
  BY DEF OneStory, OutcomeIsTrue
<1> QED
  BY <1>1, WorksQueue, WorksFresh DEF IInv
-----------------------------------------------------------------------------
(* While all went well, who has the writer has it alone. *)
LEMMA Alone ==
  ASSUME IInv, strays = {}, NEW t \in Tasks, Using(t)
  PROVE  /\ locked /\ ~leaked
         /\ \A s \in Tasks \ {t} : ~Using(s) /\ pc[s] \in {"idle", "wait"}
         /\ pinned = IF Inside(t) THEN {t} ELSE {}
         /\ flag <=> Inside(t)
         /\ opened => Opener(t)
         /\ dirty # {} => opened
         /\ \A w \in dirty \ crossed : Inside(t) /\ w = Write(t)
         /\ Story(t) /\ Left
<1>1. Lock /\ Data /\ Left /\ \A s \in Tasks : Story(s)
  BY DEF IInv, OneStory
<1>2. \A s \in Tasks \ {t} : ~Using(s) /\ ~Inside(s) /\ ~Opener(s) /\ pc[s] \in {"idle", "wait"}
  BY <1>1 DEF Lock, Using, Inside, Opener, IInv, Typed, Places, Working
<1>3. pinned = IF Inside(t) THEN {t} ELSE {}
  BY <1>1, <1>2 DEF Story, IInv, Typed
<1>4. locked /\ ~leaked /\ (flag <=> Inside(t))
  BY <1>1, <1>2 DEF Lock
<1>5. (opened => Opener(t)) /\ (dirty # {} => opened)
  BY <1>1, <1>2, <1>4 DEF Data
<1>6. \A w \in dirty \ crossed : Inside(t) /\ w = Write(t)
  BY <1>1, <1>2 DEF Data
<1> QED
  BY <1>1, <1>2, <1>3, <1>4, <1>5, <1>6

(* Who has no part in the writer has no story. *)
LEMMA NoStory ==
  ASSUME NEW t, pc[t] \in {"idle", "wait"}, t \notin pinned
  PROVE  Story(t) /\ ~Using(t) /\ ~Inside(t) /\ ~Opener(t)
  BY DEF Story, Using, Inside, Opener

(* A task goes on with the writer. *)
LEMMA StaysStory ==
  ASSUME IInv, strays = {}, NEW t \in Tasks, NEW to \in Working, NEW s, Using(t), Works(t, to, s),
         locked' = locked, leaked' = leaked,
         flag' <=> Inside(t)', pinned' = IF Inside(t)' THEN {t} ELSE {},
         opened' => Opener(t)', dirty' # {} => opened',
         \A w \in dirty' \ crossed' : Inside(t)' /\ w = Write(t)', Left', Story(t)'
  PROVE  OneStory'
<1>1. locked' /\ ~leaked' /\ Using(t)'
  BY Alone, WorksQueue DEF Using, Inside, Working
<1>2. \A u \in Tasks \ {t} : pc'[u] \in {"idle", "wait"} /\ u \notin pinned'
  BY Alone, WorksQueue
<1>3. \A u \in Tasks \ {t} : Story(u)' /\ ~Using(u)' /\ ~Inside(u)' /\ ~Opener(u)'
  BY <1>2 DEF Story, Using, Inside, Opener
<1>4. Lock'
  BY <1>1, <1>3 DEF Lock
<1>5. Data'
  BY DEF Data
<1> QED
  BY <1>3, <1>4, <1>5 DEF OneStory

(* A task leaves the writer as it was before anybody had it. *)
LEMMA DoneStory ==
  ASSUME IInv, strays = {}, NEW t \in Tasks, Using(t), Works(t, "idle", "none"),
         locked' = FALSE, leaked' = leaked, flag' = FALSE, pinned' = pinned \ {t},
         opened' = FALSE, dirty' = {}, Left'
  PROVE  OneStory'
<1>1. \A u \in Tasks : pc'[u] \in {"idle", "wait"} /\ u \notin pinned'
  BY Alone, WorksQueue
<1>2. \A u \in Tasks : Story(u)' /\ ~Using(u)' /\ ~Inside(u)' /\ ~Opener(u)'
  BY <1>1 DEF Story, Using, Inside, Opener
<1>3. Lock' /\ Data'
  BY <1>2, Alone DEF Lock, Data
<1> QED
  BY <1>2, <1>3 DEF OneStory

(* An await that ends in an exception leaves no ROLLBACK behind, and a BEGIN only
   with the lock. *)
LEMMA StillLeft ==
  ASSUME Left, NEW t \in Tasks, Settled(t) \/ Abandoned(t), leaked => leaked',
         statement[t] # "rollback", statement[t] = "begin" => leaked'
  PROVE  Left'
  BY DEF Left, Settled, Abandoned

LEMMA EndedAwait ==
  ASSUME IInv, NEW t \in Tasks, Settled(t) \/ Abandoned(t)
  PROVE  /\ late' \subseteq Writes \X (Statements \ {"none"}) /\ crossed' \subseteq Writes
         /\ {j[1] : j \in late'} \subseteq {j[1] : j \in late} \cup {Write(t)}
         /\ crossed \subseteq crossed' /\ crossed' \subseteq crossed \cup {Write(t)}
  BY MadeAreWrites DEF Settled, Abandoned, IInv, Typed
-----------------------------------------------------------------------------
LEMMA RunStep ==
  ASSUME IInv, NEW t \in Tasks, Run(t)
  PROVE  IInv'
<1> DEFINE r == Rest(statement[t])
<1>1. /\ Perform(statement[t], Write(t)) /\ statement' = [statement EXCEPT ![t] = r]
      /\ UNCHANGED <<locked, queue, woken, untimed, flag, late, pinned, pc, kind, calls, faults,
                     acked, undone, crossed, strays, leaked>>
  BY DEF Run, lock, history
<1>2. /\ statement[t] \in Awaited(pc[t]) /\ pc[t] \in Places
      /\ statement[t] \in {"write", "autocommit", "begin", "commit", "rollback"}
  BY <1>1 DEF Perform, IInv, Awaits, Typed
<1>3. Works(t, pc[t], r)
  <2>1. pc[t] \in Working /\ r \in Awaited(pc[t])
    BY <1>2 DEF Awaited, Rest, Places, Working
  <2>2. pc' = [pc EXCEPT ![t] = pc[t]]
    BY <1>1 DEF IInv, Typed
  <2> QED
    BY <1>1, <2>1, <2>2 DEF Works, Places, Working
<1>4. /\ opened' \in BOOLEAN
      /\ dirty' \cup durable' \subseteq dirty \cup durable \cup {Write(t)}
      /\ statement[t] \notin {"write", "autocommit"} => dirty' \cup durable' \subseteq dirty \cup durable
  BY <1>1 DEF Perform, Store, IInv, Typed
<1>5. Typed'
  BY <1>1, <1>3, <1>4, WorksQueue, MadeAreWrites DEF IInv, Typed
<1>6. Fresh'
  <2>1. r \notin {"write", "autocommit"} /\ (pc[t] = "begin" => statement[t] = "begin")
    BY <1>2 DEF Rest, Awaited
  <2>2. /\ Made' \subseteq Made \cup {Write(t)}
        /\ pc[t] = "begin" => Made' \subseteq Made
    BY <1>1, <1>4, <2>1 DEF Made
  <2> QED
    BY <1>3, <2>1, <2>2, WorksFresh
<1>7. ASSUME strays = {}
      PROVE  OneStory' /\ OutcomeIsTrue'
  <2>1. pc[t] \in Working /\ Using(t)
    BY <1>3 DEF Works, Working, Using, Inside
  <2>2. pc'[t] = pc[t] /\ statement'[t] = r /\ Write(t)' = Write(t)
    BY <1>1, <1>3, WorksQueue
  <2>3. /\ Story(t) /\ Left /\ (opened => Opener(t)) /\ (dirty # {} => opened) /\ ~leaked
        /\ \A w \in dirty \ crossed : Inside(t) /\ w = Write(t)
        /\ (flag <=> Inside(t))
        /\ pinned = IF Inside(t) THEN {t} ELSE {}
    BY <1>7, <2>1, Alone
  <2>4. Left'
    BY <1>1, <2>3 DEF Left
  <2>5. statement[t] \in {"write", "autocommit"} => Write(t) \notin durable \cup undone \cup acked
    BY <2>1, MadeAreWrites DEF IInv, Fresh, Made, Unmade
  <2>6. Inside(t)' <=> Inside(t)
    BY <2>2 DEF Inside
  <2>7. /\ Story(t)' /\ (opened' => Opener(t)') /\ (dirty' # {} => opened')
        /\ \A w \in dirty' \ crossed' : Inside(t)' /\ w = Write(t)'
        /\ acked \subseteq durable' /\ undone \cap (durable' \cup dirty') \subseteq crossed
    <3>1. acked \subseteq durable /\ undone \cap (durable \cup dirty) \subseteq crossed
      BY <1>7 DEF IInv, OutcomeIsTrue
    <3>2. CASE pc[t] = "auto"
      <4>1. ~opened /\ dirty = {} /\ statement[t] \in {"autocommit", "commit"} /\ ~Inside(t)
        BY <1>2, <2>3, <3>2 DEF Story, Opener, Inside, Awaited
      <4>2. /\ ~opened' /\ dirty' = {} /\ Write(t) \in durable'
            /\ \/ durable' = durable
               \/ durable' = durable \cup {Write(t)} /\ statement[t] = "autocommit"
        BY <1>1, <2>3, <3>2, <4>1 DEF Perform, Store, Story
      <4>3. Story(t)'
        BY <1>1, <2>2, <2>3, <2>6, <3>2, <4>1, <4>2 DEF Story, Inside, Rest
      <4> QED
        BY <2>5, <3>1, <4>2, <4>3
    <3>3. CASE pc[t] = "begin"
      <4>1. statement[t] = "begin" /\ ~Inside(t) /\ r = "none"
        BY <1>2, <3>3 DEF Inside, Awaited, Rest
      <4>2. opened' /\ dirty' = dirty /\ durable' = durable
        BY <1>1, <4>1 DEF Perform
      <4> QED
        BY <1>1, <2>2, <2>3, <2>6, <3>1, <3>3, <4>1, <4>2 DEF Story, Inside, Opener
    <3>4. CASE pc[t] = "block"
      <4>1. statement[t] = "write" /\ Inside(t) /\ r = "none"
        BY <1>2, <3>4 DEF Inside, Awaited, Rest
      <4>2. Store(Write(t))
        BY <1>1, <4>1 DEF Perform
      <4>3. Write(t) \notin crossed => opened
        BY <2>3, <3>4, <4>1 DEF Story, Ended
      <4>4. \/ opened /\ opened' /\ dirty' = dirty \cup {Write(t)} /\ durable' = durable
            \/ /\ ~opened /\ ~opened' /\ dirty' = {} /\ durable' = durable \cup {Write(t)}
               /\ Write(t) \in crossed
        BY <2>3, <4>2, <4>3 DEF Store
      <4>5. Story(t)'
        BY <1>1, <2>2, <2>3, <2>6, <3>4, <4>1, <4>4 DEF Story, Ended
      <4>6. (opened' => Opener(t)') /\ (dirty' # {} => opened')
        BY <1>1, <2>2, <2>6, <3>4, <4>1, <4>4 DEF Opener, Ended
      <4>7. \A w \in dirty' \ crossed' : Inside(t)' /\ w = Write(t)'
        BY <1>1, <2>2, <2>3, <2>6, <4>1, <4>4
      <4>8. acked \subseteq durable' /\ undone \cap (durable' \cup dirty') \subseteq crossed
        BY <2>5, <3>1, <4>1, <4>4
      <4> QED
        BY <4>5, <4>6, <4>7, <4>8
    <3>5. CASE pc[t] = "commit"
      <4>1. statement[t] = "commit" /\ Inside(t) /\ r = "none"
        BY <1>2, <3>5 DEF Inside, Awaited, Rest
      <4>2. ~opened' /\ dirty' = {} /\ durable' = durable \cup dirty
        BY <1>1, <4>1 DEF Perform
      <4> QED
        BY <1>1, <2>2, <2>3, <2>6, <3>1, <3>5, <4>1, <4>2 DEF Story, Inside, Opener, Ended
    <3>6. CASE pc[t] = "rollback"
      <4>1. statement[t] = "rollback" /\ Inside(t) /\ r = "none"
        BY <1>2, <3>6 DEF Inside, Awaited, Rest
      <4>2. ~opened' /\ dirty' = {} /\ durable' = durable
        BY <1>1, <4>1 DEF Perform
      <4> QED
        BY <1>1, <2>2, <2>3, <2>6, <3>1, <3>6, <4>1, <4>2 DEF Story, Inside, Opener, Ended
    <3> QED
      BY <2>1, <3>2, <3>3, <3>4, <3>5, <3>6 DEF Working
  <2>8. OneStory'
    BY <1>1, <1>3, <1>7, <2>1, <2>3, <2>4, <2>6, <2>7, StaysStory
  <2> QED
    BY <1>1, <2>7, <2>8 DEF OutcomeIsTrue
<1>8. OneStory' /\ OutcomeIsTrue'
  BY <1>1, <1>7 DEF OneStory, OutcomeIsTrue
<1> QED
  BY <1>3, <1>5, <1>6, <1>8, WorksQueue DEF IInv

(* What a statement nobody awaits may do to the calls of others. *)
LEMMA RunLateStep ==
  ASSUME IInv, NEW j \in late, RunLate(j[1], j[2])
  PROVE  IInv'
<1> DEFINE w == j[1]
           s == j[2]
<1>1. /\ <<w, s>> \in late /\ w \in Writes /\ s \in Statements \ {"none"} /\ j = <<w, s>>
      /\ Perform(s, w) \/ (s = "begin" /\ opened /\ UNCHANGED data)
      /\ late' = (late \ {<<w, s>>}) \cup {<<w, r>> : r \in {Rest(s)} \ {"none"}}
      /\ crossed' = crossed \cup Victims(s)
      /\ UNCHANGED <<locked, queue, woken, untimed, flag, pinned, pc, statement, kind, calls, faults,
                     acked, undone, strays, leaked>>
  BY DEF RunLate, lock, IInv, Typed
<1>2. Victims(s) \subseteq Writes
  BY MadeAreWrites DEF Victims
<1>3. \A i \in late' : i \in late \/ (i = <<w, "commit">> /\ s = "autocommit")
  BY <1>1 DEF Rest
<1>4. /\ opened' \in BOOLEAN /\ dirty' \cup durable' \subseteq dirty \cup durable \cup {w}
      /\ {i[1] : i \in late'} \subseteq {i[1] : i \in late}
  <2>1. \A i \in late' : i[1] \in {k[1] : k \in late}
    BY <1>1, <1>3
  <2>2. opened' \in BOOLEAN /\ dirty' \cup durable' \subseteq dirty \cup durable \cup {w}
    BY <1>1 DEF Perform, Store, data, IInv, Typed
  <2> QED
    BY <2>1, <2>2
<1>5. Typed'
  <2>1. late' \subseteq Writes \X (Statements \ {"none"})
    BY <1>1, <1>3 DEF IInv, Typed, Statements
  <2> QED
    BY <1>1, <1>2, <1>4, <2>1 DEF IInv, Typed
<1>6. Fresh'
  <2>1. w \in {i[1] : i \in late}
    BY <1>1
  <2>2. Made' \subseteq Made
    BY <1>1, <1>4, <2>1 DEF Made
  <2> QED
    BY <1>1, <2>2 DEF IInv, Fresh, Unmade
<1>7. Waiting' /\ Awake' /\ InTurn' /\ Awaits'
  BY <1>1 DEF IInv, Waiting, Awake, InTurn, Awaits
<1>8. ASSUME strays = {}
      PROVE  OneStory' /\ OutcomeIsTrue'
  <2>1. Lock /\ Data /\ Left /\ \A t \in Tasks : Story(t)
    BY <1>8 DEF IInv, OneStory
  <2>2. /\ w \in crossed /\ s # "rollback" /\ (s = "begin" => leaked)
        /\ crossed \subseteq crossed'
    BY <1>1, <2>1 DEF Left
  <2>3. Left'
    BY <1>1, <1>3, <2>1, <2>2 DEF Left
  <2>4. Lock'
    BY <1>1, <2>1 DEF Lock, Using, Inside
  <2>5. acked \subseteq durable /\ undone \cap (durable \cup dirty) \subseteq crossed
    BY <1>8 DEF IInv, OutcomeIsTrue
  <2>6. \A t \in Tasks : /\ Write(t)' = Write(t) /\ (Inside(t)' <=> Inside(t)) /\ (Using(t)' <=> Using(t))
                         /\ (Ended(t)' <=> Ended(t)) /\ (Opener(t)' <=> Opener(t))
    BY <1>1 DEF Write, Inside, Using, Ended, Opener
  <2>7. CASE s \in {"write", "autocommit"}
    <3>1. Store(w) /\ crossed' = crossed
      BY <1>1, <2>7 DEF Perform, Victims
    <3>2. ASSUME NEW t \in Tasks PROVE Story(t)'
      BY <1>1, <2>1, <2>2, <2>6, <3>1 DEF Story, Store
    <3>3. Data'
      BY <1>1, <2>1, <2>2, <2>6, <3>1 DEF Data, Store
    <3>4. OutcomeIsTrue'
      BY <1>1, <2>2, <2>5, <3>1 DEF OutcomeIsTrue, Store
    <3> QED
      BY <2>3, <2>4, <3>2, <3>3, <3>4 DEF OneStory
  <2>8. CASE s = "begin"
    <3>1. leaked /\ opened' = TRUE /\ UNCHANGED <<dirty, durable, crossed>>
      BY <1>1, <2>2, <2>8 DEF Perform, Victims, data, IInv, Typed
    <3>2. ASSUME NEW t \in Tasks PROVE Story(t)'
      BY <1>1, <2>1, <2>6, <3>1 DEF Story, Lock, Using, Inside
    <3>3. Data' /\ OutcomeIsTrue'
      BY <1>1, <2>1, <2>5, <2>6, <3>1 DEF Data, OutcomeIsTrue
    <3> QED
      BY <2>3, <2>4, <3>2, <3>3 DEF OneStory
  <2>9. CASE s = "commit"
    <3>1. opened' = FALSE /\ dirty' = {} /\ durable' = durable \cup dirty
      BY <1>1, <2>9 DEF Perform
    <3>2. \A t \in Tasks : opened /\ Using(t) => Write(t) \in crossed'
      BY <1>1, <2>9 DEF Victims
    <3>3. ~opened => dirty = {}
      BY <2>1 DEF Data
    <3>4. ASSUME NEW t \in Tasks PROVE Story(t)'
      <4>1. CASE opened /\ Using(t)
        BY <1>1, <2>1, <2>6, <3>1, <3>2, <4>1 DEF Story
      <4>2. CASE ~opened
        BY <1>1, <2>1, <2>2, <2>6, <3>1, <3>3, <4>2 DEF Story
      <4>3. CASE ~Using(t)
        BY <1>1, <2>1, <2>6, <4>3 DEF Story, Using, Inside
      <4> QED
        BY <4>1, <4>2, <4>3
    <3>5. Data' /\ OutcomeIsTrue'
      BY <1>1, <2>2, <2>5, <3>1 DEF Data, OutcomeIsTrue
    <3> QED
      BY <2>3, <2>4, <3>4, <3>5 DEF OneStory
  <2> QED
    BY <1>1, <2>2, <2>7, <2>8, <2>9 DEF Statements
<1>9. OneStory' /\ OutcomeIsTrue'
  BY <1>1, <1>8 DEF OneStory, OutcomeIsTrue
<1> QED
  BY <1>5, <1>6, <1>7, <1>9 DEF IInv
-----------------------------------------------------------------------------
LEMMA AutoStep ==
  ASSUME IInv, NEW t \in Tasks, AutoReturns(t) \/ AutoFails(t)
  PROVE  IInv'
<1>1. /\ pc[t] = "auto" /\ Return(t) /\ LeavePool(t) /\ (Settled(t) \/ Abandoned(t))
      /\ UNCHANGED <<opened, dirty, durable, flag, pinned, calls, faults, strays, leaked>>
  BY DEF AutoReturns, AutoFails, data, Settled
<1>2. Works(t, "idle", "none") /\ kind' \in [Tasks -> Kinds]
  BY <1>1 DEF Works, Working, Places, Awaited, Return, Enter, Goto, LeavePool, Release, lock,
              Kinds, IInv, Typed
<1>3. acked' \in {acked, acked \cup {Write(t)}} /\ undone' \in {undone, undone \cup {Write(t)}}
  BY DEF AutoReturns, AutoFails
<1>4. Typed'
  <2>1. locked' \in BOOLEAN /\ woken' \in BOOLEAN
    BY <1>1 DEF LeavePool, Release, lock, IInv, Typed
  <2>2. acked' \subseteq Writes /\ undone' \subseteq Writes
    BY <1>3, MadeAreWrites DEF IInv, Typed
  <2> QED
    <3>1. /\ late' \subseteq Writes \X (Statements \ {"none"}) /\ crossed' \subseteq Writes
          /\ pc' \in [Tasks -> Places] /\ statement' \in [Tasks -> Statements]
          /\ queue' = queue /\ untimed' = untimed
      BY <1>1, <1>2, EndedAwait, WorksQueue DEF Works
    <3> QED
      BY <1>1, <1>2, <2>1, <2>2, <3>1 DEF IInv, Typed
<1>5. Fresh'
  <2>1. Made' \subseteq Made \cup {Write(t)}
    BY <1>1, <1>3, EndedAwait DEF Made
  <2> QED
    BY <1>2, <2>1, WorksFresh
<1>6. ASSUME strays = {}
      PROVE  OneStory' /\ OutcomeIsTrue'
  <2>1. Using(t) /\ ~Inside(t)
    BY <1>1 DEF Using, Inside
  <2>2. /\ locked /\ ~leaked /\ t \notin pinned /\ ~flag /\ ~opened /\ dirty = {} /\ Story(t) /\ Left
    BY <1>1, <1>6, <2>1, Alone DEF Opener
  <2>3. locked' = FALSE /\ flag' = FALSE /\ opened' = FALSE /\ pinned' = pinned \ {t}
    BY <1>1, <2>2 DEF LeavePool, Release, IInv, Typed
  <2>4. Left'
    <3>1. statement[t] \in Awaited("auto")
      BY <1>1 DEF IInv, Awaits
    <3>2. statement[t] # "rollback" /\ statement[t] # "begin"
      BY <3>1 DEF Awaited
    <3> QED
      BY <1>1, <2>2, <3>2, StillLeft
  <2>5. OneStory'
    BY <1>1, <1>2, <1>6, <2>1, <2>2, <2>3, <2>4, DoneStory
  <2>6. acked \subseteq durable /\ undone \cap (durable \cup dirty) \subseteq crossed
    BY <1>6 DEF IInv, OutcomeIsTrue
  <2>7. acked' \subseteq durable'
    <3>1. CASE AutoReturns(t)
      <4>1. Write(t) \in durable
        BY <1>1, <2>2, <3>1 DEF AutoReturns, Story
      <4> QED
        BY <1>1, <1>3, <2>6, <4>1
    <3>2. CASE AutoFails(t)
      BY <1>1, <2>6, <3>2 DEF AutoFails
    <3> QED
      BY <3>1, <3>2
  <2>8. undone' \cap durable' \subseteq crossed'
    <3>1. CASE undone' = undone
      BY <1>1, <2>6, <3>1, EndedAwait
    <3>2. CASE undone' # undone
      <4>1. statement[t] \in {"write", "autocommit"} /\ undone' = undone \cup {Write(t)}
        BY <3>2 DEF AutoReturns, AutoFails
      <4>2. Write(t) \notin durable
        BY <4>1, MadeAreWrites DEF IInv, Fresh, Made, Unmade
      <4> QED
        BY <1>1, <2>6, <4>1, <4>2, EndedAwait
    <3> QED
      BY <3>1, <3>2
  <2> QED
    BY <1>1, <2>2, <2>5, <2>7, <2>8 DEF OutcomeIsTrue
<1>7. OneStory' /\ OutcomeIsTrue'
  BY <1>1, <1>6 DEF OneStory, OutcomeIsTrue
<1> QED
  BY <1>2, <1>4, <1>5, <1>7, WorksQueue DEF IInv

LEMMA BeginReturnsStep ==
  ASSUME IInv, NEW t \in Tasks, BeginReturns(t)
  PROVE  IInv'
<1>1. /\ pc[t] = "begin" /\ statement[t] = "none" /\ flag' = TRUE /\ pinned' = pinned \cup {t}
      /\ Goto(t, "block", "write")
      /\ UNCHANGED <<locked, queue, woken, untimed, opened, dirty, durable, late, kind, calls, faults,
                     acked, undone, crossed, strays, leaked>>
  BY DEF BeginReturns, lock, data, history
<1>2. Works(t, "block", "write")
  BY <1>1 DEF Works, Working, Places, Awaited, Goto
<1>3. Typed'
  BY <1>1, <1>2, WorksQueue DEF IInv, Typed
<1>4. Fresh'
  <2>1. Made' = Made
    BY <1>1 DEF Made
  <2> QED
    BY <1>1, <1>2, <2>1, WorksFresh
<1>5. OutcomeIsTrue'
  BY <1>1 DEF IInv, OutcomeIsTrue
<1>6. OneStory'
  <2> SUFFICES ASSUME strays = {} PROVE OneStory'
    BY <1>1 DEF OneStory
  <2>1. Using(t) /\ ~Inside(t)
    BY <1>1 DEF Using, Inside
  <2>2. /\ pinned = {} /\ (dirty # {} => opened) /\ Story(t) /\ Left
        /\ \A w \in dirty \ crossed : FALSE
    BY <2>1, Alone
  <2>3. pc'[t] = "block" /\ statement'[t] = "write" /\ Write(t)' = Write(t)
    BY <1>2, WorksQueue
  <2>4. Inside(t)' /\ Opener(t)' /\ ~Ended(t)'
    BY <2>3 DEF Inside, Opener, Ended
  <2>5. opened \/ Write(t) \in crossed
    BY <1>1, <2>2 DEF Story
  <2>6. Write(t) \notin durable
    BY <1>1, MadeAreWrites DEF IInv, Fresh, Made, Unmade
  <2>7. Story(t)'
    BY <1>1, <2>3, <2>4, <2>5, <2>6 DEF Story
  <2>8. Left'
    BY <1>1, <2>2 DEF Left
  <2> QED
    BY <1>1, <1>2, <2>1, <2>2, <2>4, <2>7, <2>8, StaysStory DEF Working
<1> QED
  BY <1>2, <1>3, <1>4, <1>5, <1>6, WorksQueue DEF IInv

LEMMA BeginFailsStep ==
  ASSUME IInv, NEW t \in Tasks, BeginFails(t)
  PROVE  IInv'
<1>1. /\ pc[t] = "begin" /\ (Settled(t) \/ Abandoned(t)) /\ leaked' = TRUE /\ Return(t)
      /\ UNCHANGED <<locked, queue, woken, untimed, opened, dirty, durable, flag, pinned, calls,
                     acked, undone, strays>>
  BY DEF BeginFails, lock, data
<1>2. Works(t, "idle", "none") /\ kind' \in [Tasks -> Kinds]
  BY <1>1 DEF Works, Working, Places, Awaited, Return, Enter, Goto, Kinds, IInv, Typed
<1>3. Typed'
  <2>1. faults' \in 0..MaxFaults
    BY BoundsAssumption DEF BeginFails, IInv, Typed
  <2> QED
    BY <1>1, <1>2, <2>1, EndedAwait, WorksQueue DEF IInv, Typed
<1>4. Fresh'
  <2>1. Made' \subseteq Made \cup {Write(t)}
    BY <1>1, EndedAwait DEF Made
  <2> QED
    BY <1>2, <2>1, WorksFresh
<1>5. OutcomeIsTrue'
  BY <1>1, EndedAwait DEF IInv, OutcomeIsTrue
<1>6. OneStory'
  <2> SUFFICES ASSUME strays = {} PROVE OneStory'
    BY <1>1 DEF OneStory
  <2>1. Using(t) /\ ~Inside(t)
    BY <1>1 DEF Using, Inside
  <2>2. /\ locked /\ pinned = {} /\ ~flag /\ (dirty # {} => opened) /\ Left
        /\ \A w \in dirty \ crossed : FALSE
        /\ \A u \in Tasks \ {t} : pc[u] \in {"idle", "wait"}
    BY <2>1, Alone
  <2>3. \A u \in Tasks : pc'[u] \in {"idle", "wait"} /\ u \notin pinned'
    BY <1>1, <1>2, <2>2, WorksQueue
  <2>4. \A u \in Tasks : Story(u)' /\ ~Using(u)' /\ ~Inside(u)' /\ ~Opener(u)'
    BY <2>3 DEF Story, Using, Inside, Opener
  <2>5. statement[t] \in Awaited("begin")
    BY <1>1 DEF IInv, Awaits
  <2>6. statement[t] # "rollback"
    BY <2>5 DEF Awaited
  <2>7. Left'
    BY <1>1, <2>2, <2>6, StillLeft
  <2>8. Lock'
    BY <1>1, <2>2, <2>4 DEF Lock
  <2>9. Data'
    <3>1. dirty' \ crossed' = {}
      BY <1>1, <2>2, EndedAwait
    <3> QED
      BY <1>1, <2>2, <3>1 DEF Data
  <2> QED
    BY <2>4, <2>7, <2>8, <2>9 DEF OneStory
<1> QED
  BY <1>2, <1>3, <1>4, <1>5, <1>6, WorksQueue DEF IInv

LEMMA BlockStep ==
  ASSUME IInv, NEW t \in Tasks, BlockReturns(t) \/ BlockFails(t)
  PROVE  IInv'
<1>1. PICK to \in {"commit", "rollback"} :
        /\ pc[t] = "block" /\ Goto(t, to, to)
        /\ to = "commit" => statement[t] = "none"
        /\ Settled(t) \/ Abandoned(t)
        /\ UNCHANGED <<locked, queue, woken, untimed, opened, dirty, durable, flag, pinned, kind,
                       calls, faults, acked, undone, strays, leaked>>
  BY DEF BlockReturns, BlockFails, lock, data, history, Settled
<1>2. Works(t, to, to)
  BY <1>1 DEF Works, Working, Places, Awaited, Goto
<1>3. Typed'
  BY <1>1, <1>2, EndedAwait, WorksQueue DEF IInv, Typed
<1>4. Fresh'
  <2>1. Made' \subseteq Made \cup {Write(t)}
    BY <1>1, EndedAwait DEF Made
  <2> QED
    BY <1>2, <2>1, WorksFresh
<1>5. OutcomeIsTrue'
  BY <1>1, EndedAwait DEF IInv, OutcomeIsTrue
<1>6. OneStory'
  <2> SUFFICES ASSUME strays = {} PROVE OneStory'
    BY <1>1 DEF OneStory
  <2>1. Using(t) /\ Inside(t)
    BY <1>1 DEF Using, Inside
  <2>2. /\ pinned = {t} /\ flag /\ (dirty # {} => opened) /\ Story(t) /\ Left
        /\ \A w \in dirty \ crossed : w = Write(t)
    BY <2>1, Alone
  <2>3. pc'[t] = to /\ statement'[t] = to /\ Write(t)' = Write(t) /\ to # "none"
    BY <1>2, WorksQueue
  <2>4. Inside(t)' /\ Opener(t)' /\ ~Ended(t)' /\ ~Ended(t)
    BY <1>1, <2>3 DEF Inside, Opener, Ended
  <2>5. Story(t)'
    <3>1. crossed \subseteq crossed'
      BY <1>1, EndedAwait
    <3> QED
      BY <1>1, <2>1, <2>2, <2>3, <2>4, <3>1 DEF Story
  <2>6. Left'
    <3>1. statement[t] \in Awaited("block")
      BY <1>1 DEF IInv, Awaits
    <3>2. statement[t] # "rollback" /\ statement[t] # "begin"
      BY <3>1 DEF Awaited
    <3> QED
      BY <1>1, <2>2, <3>2, StillLeft
  <2>7. \A w \in dirty' \ crossed' : w = Write(t)'
    BY <1>1, <2>2, <2>3, EndedAwait
  <2> QED
    BY <1>1, <1>2, <2>1, <2>2, <2>4, <2>5, <2>6, <2>7, StaysStory DEF Working
<1> QED
  BY <1>2, <1>3, <1>4, <1>5, <1>6, WorksQueue DEF IInv

(* A block whose COMMIT or ROLLBACK has returned. *)
LEMMA EndStep ==
  ASSUME IInv, NEW t \in Tasks, CommitReturns(t) \/ RollbackReturns(t)
  PROVE  IInv'
<1>1. /\ pc[t] \in {"commit", "rollback"} /\ statement[t] = "none" /\ Return(t)
      /\ flag' = FALSE /\ pinned' \subseteq pinned
      /\ (locked' = locked /\ woken' = woken) \/ Release
      /\ locked => locked' = FALSE /\ pinned' = pinned \ {t}
      /\ UNCHANGED <<queue, untimed, opened, dirty, durable, late, calls, faults, crossed, strays, leaked>>
      /\ \/ pc[t] = "commit" /\ acked' = acked \cup {Write(t)} /\ undone' = undone
         \/ pc[t] = "rollback" /\ undone' = undone \cup {Write(t)} /\ acked' = acked
  BY DEF CommitReturns, RollbackReturns, Release, Unpin, lock, data
<1>2. Works(t, "idle", "none") /\ kind' \in [Tasks -> Kinds]
  BY <1>1 DEF Works, Working, Places, Awaited, Return, Enter, Goto, Kinds, IInv, Typed
<1>3. Typed'
  <2>1. locked' \in BOOLEAN /\ woken' \in BOOLEAN
    BY <1>1 DEF Release, IInv, Typed
  <2>2. acked' \subseteq Writes /\ undone' \subseteq Writes
    BY <1>1, MadeAreWrites DEF IInv, Typed
  <2> QED
    BY <1>1, <1>2, <2>1, <2>2, WorksQueue DEF IInv, Typed
<1>4. Fresh'
  <2>1. Made' \subseteq Made \cup {Write(t)}
    BY <1>1 DEF Made
  <2> QED
    BY <1>2, <2>1, WorksFresh
<1>5. ASSUME strays = {}
      PROVE  OneStory' /\ OutcomeIsTrue'
  <2>1. Using(t) /\ Inside(t) /\ Ended(t) /\ ~Opener(t)
    BY <1>1 DEF Using, Inside, Ended, Opener
  <2>2. locked /\ ~opened /\ dirty = {} /\ Story(t) /\ Left
    BY <1>5, <2>1, Alone
  <2>3. Left'
    BY <1>1, <2>2 DEF Left
  <2>4. OneStory'
    BY <1>1, <1>2, <1>5, <2>1, <2>2, <2>3, DoneStory DEF IInv, Typed
  <2>5. acked \subseteq durable /\ undone \cap durable \subseteq crossed
    BY <1>5 DEF IInv, OutcomeIsTrue
  <2>6. /\ pc[t] = "commit" => Write(t) \in durable
        /\ pc[t] = "rollback" => Write(t) \in crossed \/ Write(t) \notin durable
    BY <1>1, <2>1, <2>2 DEF Story
  <2> QED
    BY <1>1, <2>2, <2>4, <2>5, <2>6 DEF OutcomeIsTrue
<1>6. OneStory' /\ OutcomeIsTrue'
  BY <1>1, <1>5 DEF OneStory, OutcomeIsTrue
<1> QED
  BY <1>2, <1>3, <1>4, <1>6, WorksQueue DEF IInv

LEMMA FailureStep ==
  ASSUME IInv, NEW t \in Tasks, CommitFails(t) \/ CommitUnheld(t) \/ RollbackFails(t)
  PROVE  IInv'
<1>1. /\ pc[t] \in {"commit", "rollback"} /\ (Settled(t) \/ Abandoned(t))
      /\ (locked' = locked /\ woken' = woken) \/ Release
      /\ t \in strays' /\ strays' = strays \cup {t} /\ flag' \in {flag, FALSE}
      /\ UNCHANGED <<queue, untimed, opened, dirty, durable, pinned, calls, acked, undone, leaked>>
  BY DEF CommitFails, CommitUnheld, RollbackFails, AfterCommitFailed, Settled, Release, lock, data
<1>2. Goto(t, "rollback", "rollback") \/ Goto(t, "idle", "none")
  BY DEF CommitFails, CommitUnheld, RollbackFails, AfterCommitFailed, Return, Enter
<1>3. PICK to, s : /\ pc' = [pc EXCEPT ![t] = to] /\ statement' = [statement EXCEPT ![t] = s]
                   /\ (to = "rollback" /\ s = "rollback") \/ (to = "idle" /\ s = "none")
  BY <1>2 DEF Goto
<1>4. Works(t, to, s)
  <2>1. s \in Awaited(to)
    BY <1>3 DEF Awaited
  <2> QED
    BY <1>1, <1>3, <2>1 DEF Works, Working, Places
<1>5. Typed'
  <2>1. kind' \in [Tasks -> Kinds]
    BY DEF CommitFails, CommitUnheld, RollbackFails, AfterCommitFailed, Goto, Return, Enter, Kinds,
           IInv, Typed
  <2>2. faults' \in 0..MaxFaults
    BY BoundsAssumption DEF CommitFails, CommitUnheld, RollbackFails, IInv, Typed
  <2>3. locked' \in BOOLEAN /\ woken' \in BOOLEAN
    BY <1>1 DEF Release, IInv, Typed
  <2> QED
    BY <1>1, <1>4, <2>1, <2>2, <2>3, EndedAwait, WorksQueue DEF IInv, Typed
<1>6. Made' \subseteq Made \cup {Write(t)}
  BY <1>1, EndedAwait DEF Made
<1> QED
  BY <1>1, <1>3, <1>4, <1>5, <1>6, StrayStep
-----------------------------------------------------------------------------
(* Calls and waiters. *)
LEMMA ProceedTo ==
  ASSUME IInv, NEW t \in Tasks, NEW k \in Kinds, Proceed(t, k)
  PROVE  /\ kind' \in [Tasks -> Kinds]
         /\ \E to \in {"auto", "begin"} : \E s \in Awaited(to) \ {"none", "commit"} :
              /\ pc' = [pc EXCEPT ![t] = to] /\ statement' = [statement EXCEPT ![t] = s]
              /\ to = "auto" /\ ~flag => s # "write"
<1>1. CASE k = "auto"
  BY <1>1 DEF Proceed, Enter, Goto, AutoStatement, Awaited, IInv, Typed
<1>2. CASE k # "auto"
  BY <1>2 DEF Proceed, Enter, Goto, Awaited, IInv, Typed
<1> QED
  BY <1>1, <1>2

LEMMA CallStep ==
  ASSUME IInv, NEW t \in Tasks, NEW k \in Kinds, Call(t, k)
  PROVE  IInv'
<1>1. /\ pc[t] = "idle" /\ calls' = [calls EXCEPT ![t] = @ + 1]
      /\ UNCHANGED <<opened, dirty, durable, flag, late, pinned, faults, acked, undone, crossed,
                     strays, leaked, woken>>
  BY DEF Call, TakeLock, lock, data, history
<1>2. statement[t] = "none"
  BY <1>1 DEF IInv, Awaits, Awaited
<1>3. PICK to \in {"idle", "wait", "auto", "begin"}, s \in Statements :
        /\ pc' = [pc EXCEPT ![t] = to] /\ statement' = [statement EXCEPT ![t] = s]
        /\ s \in Awaited(to)
        /\ to \in {"auto", "begin"} => s # "none"
        /\ to = "auto" => s # "commit" /\ (~flag => s # "write")
        /\ kind' \in [Tasks -> Kinds]
        /\ to = "wait" => locked' = locked /\ queue' = Append(queue, t)
        /\ to # "wait" => queue' = queue
        /\ to = "idle" => locked' = locked /\ t \in pinned
        /\ to \in {"auto", "begin"} =>
             \/ t \in pinned /\ locked' = locked
             \/ t \notin pinned /\ ~locked /\ queue = <<>> /\ locked' = TRUE
        /\ untimed' \subseteq untimed \cup {t}
  <2>1. CASE t \notin pinned /\ ~locked /\ queue = <<>>
    <3>1. Proceed(t, k) /\ locked' = TRUE /\ queue' = queue /\ untimed' = untimed
      BY <2>1 DEF Call, TakeLock
    <3> QED
      BY <2>1, <3>1, ProceedTo, AwaitedIs
  <2>2. CASE t \notin pinned /\ ~(~locked /\ queue = <<>>)
    <3>1. /\ pc' = [pc EXCEPT ![t] = "wait"] /\ statement' = [statement EXCEPT ![t] = "none"]
          /\ kind' \in [Tasks -> Kinds] /\ locked' = locked /\ queue' = Append(queue, t)
          /\ untimed' \subseteq untimed \cup {t}
      BY <2>2 DEF Call, TakeLock, Enter, Goto, IInv, Typed
    <3>2. "none" \in Awaited("wait") /\ "none" \in Statements
      BY DEF Awaited, Statements
    <3> QED
      BY <3>1, <3>2
  <2>3. CASE t \in pinned /\ k = "auto"
    <3>1. Proceed(t, k) /\ UNCHANGED <<locked, queue, untimed>>
      BY <2>3 DEF Call, lock
    <3> QED
      BY <2>3, <3>1, ProceedTo, AwaitedIs
  <2>4. CASE t \in pinned /\ k # "auto"
    <3>1. pc' = [pc EXCEPT ![t] = "idle"] /\ statement' = [statement EXCEPT ![t] = "none"]
      BY <1>1, <1>2, <2>4 DEF Call, IInv, Typed
    <3>2. "none" \in Awaited("idle") /\ "none" \in Statements
      BY DEF Awaited, Statements
    <3> QED
      BY <2>4, <3>1, <3>2 DEF Call, lock, IInv, Typed
  <2> QED
    BY <2>1, <2>2, <2>3, <2>4
<1>4. \A u \in Tasks : /\ pc'[u] = IF u = t THEN to ELSE pc[u]
                       /\ statement'[u] = IF u = t THEN s ELSE statement[u]
  BY <1>3 DEF IInv, Typed
<1>5. \A i \in DOMAIN queue : queue[i] # t
  BY <1>1 DEF IInv, Waiting
<1>6. Typed'
  <2>1. /\ pc' \in [Tasks -> Places] /\ calls' \in [Tasks -> Nat]
        /\ statement' \in [Tasks -> Statements]
    BY <1>1, <1>3 DEF IInv, Typed, Places, Working
  <2>3. queue' \in Seq(Tasks)
    <3>1. queue \in Seq(Tasks) /\ Append(queue, t) \in Seq(Tasks)
      BY AppendProperties DEF IInv, Typed
    <3> QED
      BY <1>3, <3>1
  <2>2. locked' \in BOOLEAN /\ woken' \in BOOLEAN /\ untimed' \subseteq Tasks
    BY <1>1, <1>3 DEF IInv, Typed
  <2> QED
    BY <1>1, <1>3, <2>1, <2>2, <2>3 DEF IInv, Typed
<1>7. Waiting' /\ InTurn'
  <2>1. CASE to = "wait"
    <3>1. /\ DOMAIN queue' = 1..(Len(queue) + 1) /\ DOMAIN queue = 1..Len(queue)
          /\ Len(queue) \in Nat
          /\ \A i \in 1..(Len(queue) + 1) :
               queue'[i] = IF i = Len(queue) + 1 THEN t ELSE queue[i]
      <4>1. queue \in Seq(Tasks) /\ queue' = Append(queue, t)
        BY <1>3, <2>1 DEF IInv, Typed
      <4>2. /\ queue' \in Seq(Tasks) /\ Len(queue') = Len(queue) + 1
            /\ \A i \in 1..Len(queue) : queue'[i] = queue[i]
            /\ queue'[Len(queue) + 1] = t
        BY <4>1, AppendProperties
      <4> QED
        BY <4>1, <4>2
    <3>2. Waiting'
      BY <1>4, <2>1, <3>1 DEF IInv, Waiting
    <3>3. InTurn'
      BY <1>5, <3>1 DEF IInv, InTurn
    <3> QED
      BY <3>2, <3>3
  <2>2. CASE to # "wait"
    BY <1>1, <1>3, <1>4, <2>2 DEF IInv, Waiting, InTurn
  <2> QED
    BY <2>1, <2>2
<1>8. Awake' /\ Awaits'
  <2>1. Awake'
    BY <1>1, <1>3 DEF IInv, Awake, Typed
  <2>2. \A u \in Tasks : statement'[u] \in Awaited(pc'[u])
    BY <1>3, <1>4 DEF IInv, Awaits
  <2> QED
    BY <2>1, <2>2 DEF Awaits, Awaited
<1>9. Fresh'
  <2>1. /\ \A w \in Made : /\ w[1] \in Tasks /\ w[2] \in Nat /\ w[2] <= calls[w[1]]
                           /\ Unmade(w[1]) => w[2] # calls[w[1]]
        /\ Made' = Made
    BY <1>1, MadeAreWrites DEF IInv, Fresh, Made, Writes
  <2>2. \A u \in Tasks : /\ u # t => (Unmade(u)' <=> Unmade(u)) /\ calls'[u] = calls[u]
                         /\ u = t => calls'[u] = calls[u] + 1
                         /\ calls[u] \in Nat
    BY <1>1, <1>4 DEF Unmade, IInv, Typed
  <2> QED
    BY <2>1, <2>2 DEF Fresh, Unmade
<1>10. OutcomeIsTrue'
  BY <1>1 DEF IInv, OutcomeIsTrue
<1>11. OneStory'
  <2> SUFFICES ASSUME strays = {} PROVE OneStory'
    BY <1>1 DEF OneStory
  <2>0. Lock /\ Data /\ Left /\ \A u \in Tasks : Story(u)
    BY DEF IInv, OneStory
  <2>1. t \notin pinned
    BY <1>1, <2>0 DEF Story, Inside
  <2>2. \A u \in Tasks : /\ (Inside(u)' <=> Inside(u)) /\ (Opener(u)' <=> Opener(u))
                         /\ u # t => (Using(u)' <=> Using(u)) /\ Write(u)' = Write(u)
    <3>1. ASSUME NEW u \in Tasks \ {t}
          PROVE  /\ (Inside(u)' <=> Inside(u)) /\ (Opener(u)' <=> Opener(u))
                 /\ (Using(u)' <=> Using(u)) /\ Write(u)' = Write(u)
      BY <1>1, <1>4 DEF Inside, Opener, Ended, Using, Write, IInv, Typed
    <3>2. ~Inside(t) /\ ~Inside(t)' /\ ~Opener(t) /\ ~Opener(t)'
      BY <1>1, <1>3, <1>4 DEF Inside, Opener
    <3> QED
      BY <3>1, <3>2
  <2>3. ~Using(t) /\ (Using(t)' <=> to \in {"auto", "begin"})
    BY <1>1, <1>3, <1>4 DEF Using, Inside
  <2>4. to \in {"auto", "begin"} => ~locked /\ locked' = TRUE /\ ~flag
    <3>1. ~locked => ~flag
      BY <2>0 DEF Lock, Using
    <3> QED
      BY <1>3, <2>1, <3>1
  <2>5. to \in {"idle", "wait"} => locked' = locked
    BY <1>3
  <2>6. Lock'
    <3>1. CASE to \in {"idle", "wait"}
      BY <1>1, <2>0, <2>2, <2>3, <2>5, <3>1 DEF Lock
    <3>2. CASE to \in {"auto", "begin"}
      BY <1>1, <2>0, <2>2, <2>3, <2>4, <3>2 DEF Lock
    <3> QED
      BY <3>1, <3>2
  <2>7. Data'
    <3>1. \A u \in Tasks : Inside(u) => u # t
      BY <1>1 DEF Inside
    <3> QED
      BY <1>1, <2>0, <2>2, <3>1 DEF Data
  <2>8. Left'
    BY <1>1, <2>0 DEF Left
  <2>9. ASSUME NEW u \in Tasks PROVE Story(u)'
    <3>1. CASE u = t
      BY <1>1, <1>3, <1>4, <2>1, <2>4, <3>1 DEF Story, Inside, Awaited
    <3>2. CASE u # t
      <4>1. pc'[u] = pc[u] /\ statement'[u] = statement[u] /\ Write(u)' = Write(u)
        BY <1>4, <2>2, <3>2
      <4> QED
        BY <1>1, <2>0, <4>1 DEF Story, Inside, Ended
    <3> QED
      BY <3>1, <3>2
  <2> QED
    BY <2>6, <2>7, <2>8, <2>9 DEF OneStory
<1> QED
  BY <1>6, <1>7, <1>8, <1>9, <1>10, <1>11 DEF IInv

(* A waiter leaves the queue: it has got the lock, or it has given up. *)
LEMMA LeaveQueue ==
  ASSUME IInv, NEW t \in Tasks, NEW i \in DOMAIN queue, queue[i] = t, NEW to \in Places \ {"wait"},
         pc' = [pc EXCEPT ![t] = to], queue' = RemoveAt(queue, i)
  PROVE  Waiting' /\ InTurn' /\ queue' \in Seq(Tasks)
<1>1. /\ queue \in Seq(Tasks) /\ Len(queue) \in Nat /\ i \in 1..Len(queue) /\ queue' \in Seq(Tasks)
      /\ DOMAIN queue = 1..Len(queue) /\ DOMAIN queue' = 1..(Len(queue) - 1)
      /\ \A n \in 1..(Len(queue) - 1) : queue'[n] = IF n < i THEN queue[n] ELSE queue[n + 1]
  <2>1. queue \in Seq(Tasks)
    BY DEF IInv, Typed
  <2>2. /\ queue' \in Seq(Tasks) /\ Len(queue') = Len(queue) - 1
        /\ \A n \in 1..(Len(queue) - 1) : queue'[n] = IF n < i THEN queue[n] ELSE queue[n + 1]
    BY <2>1, RemoveAtIs
  <2>3. DOMAIN queue = 1..Len(queue) /\ Len(queue) \in Nat /\ i \in 1..Len(queue)
    BY <2>1
  <2>4. DOMAIN queue' = 1..(Len(queue) - 1)
    BY <2>2
  <2> QED
    BY <2>1, <2>2, <2>3, <2>4
<1>2. \A s \in Tasks : pc'[s] = IF s = t THEN to ELSE pc[s]
  BY DEF IInv, Typed
<1>3. \A m, n \in DOMAIN queue : queue[m] = queue[n] => m = n
  BY DEF IInv, InTurn
<1> DEFINE before(n) == IF n < i THEN n ELSE n + 1
<1>0. \A n \in DOMAIN queue' : before(n) \in DOMAIN queue \ {i} /\ queue'[n] = queue[before(n)]
  BY <1>1
<1>4. InTurn'
  <2> SUFFICES ASSUME NEW m \in DOMAIN queue', NEW n \in DOMAIN queue', queue'[m] = queue'[n]
               PROVE  m = n
    BY DEF InTurn
  <2>1. before(m) = before(n)
    BY <1>0, <1>3
  <2> QED
    BY <1>1, <2>1
<1>5. \A n \in DOMAIN queue' : queue'[n] # t
  BY <1>0, <1>3
<1>6. ASSUME NEW s \in Tasks \ {t}
      PROVE  (\E n \in DOMAIN queue : queue[n] = s) <=> (\E n \in DOMAIN queue' : queue'[n] = s)
  <2>1. ASSUME NEW n \in DOMAIN queue, queue[n] = s
        PROVE  \E m \in DOMAIN queue' : queue'[m] = s
    <3>1. n # i
      BY <1>6, <2>1
    <3>2. CASE n < i
      BY <1>1, <2>1, <3>2
    <3>3. CASE n > i
      <4>1. n - 1 \in DOMAIN queue' /\ queue'[n - 1] = s
        BY <1>1, <2>1, <3>3
      <4> QED
        BY <4>1
    <3> QED
      BY <1>1, <3>1, <3>2, <3>3
  <2>2. ASSUME NEW m \in DOMAIN queue', queue'[m] = s
        PROVE  \E n \in DOMAIN queue : queue[n] = s
    BY <1>0, <2>2
  <2> QED
    BY <2>1, <2>2
<1>7. Waiting'
  BY <1>2, <1>5, <1>6 DEF IInv, Waiting
<1> QED
  BY <1>1, <1>4, <1>7

LEMMA TailIsRemoveAt ==
  ASSUME NEW S, NEW s \in Seq(S), s # <<>>
  PROVE  1 \in DOMAIN s /\ Head(s) = s[1] /\ Tail(s) = RemoveAt(s, 1)
<1>1. 1 \in DOMAIN s /\ Head(s) = s[1]
  OBVIOUS
<1>2. /\ Tail(s) \in Seq(S) /\ Len(Tail(s)) = Len(s) - 1
      /\ \A k \in 1..(Len(s) - 1) : Tail(s)[k] = s[k + 1]
  OBVIOUS
<1>3. Tail(s) = RemoveAt(s, 1)
  BY <1>1, <1>2, RemoveAtIs, SeqEqual
<1> QED
  BY <1>1, <1>3

LEMMA ResumeStep ==
  ASSUME IInv, NEW t \in Tasks, Resume(t)
  PROVE  IInv'
<1>1. /\ woken /\ Head(queue) = t /\ locked' = TRUE /\ queue' = Tail(queue) /\ woken' = FALSE
      /\ untimed' = untimed \ {t} /\ Proceed(t, kind[t])
      /\ UNCHANGED <<opened, dirty, durable, flag, late, pinned, calls, faults, acked, undone,
                     crossed, strays, leaked>>
  BY DEF Resume, data, history
<1>2. queue \in Seq(Tasks) /\ queue # <<>> /\ ~locked /\ kind[t] \in Kinds
  BY <1>1 DEF IInv, Awake, Typed
<1>3. 1 \in DOMAIN queue /\ queue[1] = t /\ queue' = RemoveAt(queue, 1)
  BY <1>1, <1>2, TailIsRemoveAt
<1>4. pc[t] = "wait"
  BY <1>3 DEF IInv, Waiting
<1>5. PICK to \in {"auto", "begin"} : \E s \in Awaited(to) \ {"none", "commit"} :
        /\ pc' = [pc EXCEPT ![t] = to] /\ statement' = [statement EXCEPT ![t] = s]
        /\ to = "auto" /\ ~flag => s # "write"
        /\ kind' \in [Tasks -> Kinds]
  BY <1>1, <1>2, ProceedTo
<1>6. PICK s \in Awaited(to) \ {"none", "commit"} :
        /\ pc' = [pc EXCEPT ![t] = to] /\ statement' = [statement EXCEPT ![t] = s]
        /\ to = "auto" /\ ~flag => s # "write"
        /\ kind' \in [Tasks -> Kinds]
  BY <1>5
<1>7. \A u \in Tasks : /\ pc'[u] = IF u = t THEN to ELSE pc[u]
                       /\ statement'[u] = IF u = t THEN s ELSE statement[u]
                       /\ Write(u)' = Write(u)
  BY <1>1, <1>6 DEF IInv, Typed, Write
<1>8. Waiting' /\ InTurn' /\ queue' \in Seq(Tasks)
  BY <1>3, <1>6, LeaveQueue DEF Places, Working
<1>9. Typed' /\ Awake' /\ Awaits'
  <2>1. pc' \in [Tasks -> Places] /\ statement' \in [Tasks -> Statements]
    <3>1. s \in Statements
      BY AwaitedIs
    <3> QED
      BY <1>6, <3>1 DEF IInv, Typed, Places, Working
  <2>2. \A u \in Tasks : statement'[u] \in Awaited(pc'[u])
    BY <1>6, <1>7 DEF IInv, Awaits
  <2>3. Awaits'
    BY <2>2 DEF Awaits, Awaited
  <2>4. Awake'
    BY <1>1 DEF Awake
  <2> QED
    BY <1>1, <1>6, <1>8, <2>1, <2>3, <2>4 DEF IInv, Typed
<1>10. Fresh'
  <2>1. Made' = Made /\ \A w \in Made : w[1] \in Tasks
    BY <1>1, MadeAreWrites DEF Made, Writes
  <2>2. \A u \in Tasks : Unmade(u)' => Unmade(u)
    BY <1>4, <1>7 DEF Unmade
  <2> QED
    BY <1>1, <2>1, <2>2 DEF IInv, Fresh, Unmade
<1>11. OutcomeIsTrue'
  BY <1>1 DEF IInv, OutcomeIsTrue
<1>12. OneStory'
  <2> SUFFICES ASSUME strays = {} PROVE OneStory'
    BY <1>1 DEF OneStory
  <2>1. Lock /\ Data /\ Left /\ \A u \in Tasks : Story(u)
    BY DEF IInv, OneStory
  <2>2. ~leaked /\ ~flag /\ \A u \in Tasks : ~Using(u) /\ ~Inside(u) /\ ~Opener(u)
    BY <1>2, <2>1 DEF Lock, Using, Opener
  <2>3. ~opened /\ dirty = {}
    BY <2>1, <2>2 DEF Data
  <2>4. \A u \in Tasks : (Using(u)' <=> u = t) /\ ~Inside(u)'
    BY <1>7, <2>2 DEF Using, Inside
  <2>5. Lock' /\ Data' /\ Left'
    BY <1>1, <2>1, <2>2, <2>3, <2>4 DEF Lock, Data, Left
  <2>6. ASSUME NEW u \in Tasks PROVE Story(u)'
    <3>1. u \notin pinned
      BY <2>1, <2>2 DEF Story
    <3>2. CASE u = t
      BY <1>1, <1>6, <1>7, <2>2, <2>4, <3>1, <3>2 DEF Story, Inside, Awaited
    <3>3. CASE u # t
      BY <1>1, <1>7, <2>2, <2>4, <3>1, <3>3 DEF Story, Using, Inside
    <3> QED
      BY <3>2, <3>3
  <2> QED
    BY <2>5, <2>6 DEF OneStory
<1> QED
  BY <1>8, <1>9, <1>10, <1>11, <1>12 DEF IInv

LEMMA GiveUpStep ==
  ASSUME IInv, NEW t \in Tasks, GiveUp(t)
  PROVE  IInv'
<1>1. /\ pc[t] = "wait" /\ untimed' = untimed \ {t} /\ Return(t)
      /\ UNCHANGED <<locked, opened, dirty, durable, flag, late, pinned, calls, faults, acked,
                     undone, crossed, strays, leaked>>
  BY DEF GiveUp, data, history
<1>2. PICK i \in DOMAIN queue :
        queue[i] = t /\ queue' = RemoveAt(queue, i) /\ WakeNext(t, queue')
  BY DEF GiveUp
<1>3. /\ pc' = [pc EXCEPT ![t] = "idle"] /\ statement' = [statement EXCEPT ![t] = "none"]
      /\ kind' \in [Tasks -> Kinds]
  BY <1>1 DEF Return, Enter, Goto, IInv, Typed, Kinds
<1>4. Waiting' /\ InTurn' /\ queue' \in Seq(Tasks)
  BY <1>2, <1>3, LeaveQueue DEF Places, Working
<1>5. \A u \in Tasks : /\ pc'[u] = IF u = t THEN "idle" ELSE pc[u]
                       /\ statement'[u] = IF u = t THEN "none" ELSE statement[u]
                       /\ Write(u)' = Write(u)
  BY <1>1, <1>3 DEF IInv, Typed, Write
<1>6. Typed'
  <2>1. /\ pc' \in [Tasks -> Places] /\ woken' \in BOOLEAN
        /\ statement' \in [Tasks -> Statements]
    BY <1>2, <1>3 DEF IInv, Typed, Places, Working, Statements, WakeNext
  <2> QED
    BY <1>1, <1>3, <1>4, <2>1 DEF IInv, Typed
<1>7. Awake'
  <2> SUFFICES ASSUME woken' PROVE ~locked' /\ queue' # <<>>
    BY DEF Awake
  <2>1. woken /\ (Head(queue) # t \/ queue' # <<>>)
    BY <1>2 DEF WakeNext
  <2>2. ~locked /\ queue # <<>> /\ queue \in Seq(Tasks)
    BY <2>1 DEF IInv, Awake, Typed
  <2>3. ASSUME Head(queue) # t PROVE queue' # <<>>
    <3>1. i # 1 /\ i \in 1..Len(queue) /\ Len(queue) \in Nat
      BY <1>2, <2>2, <2>3, TailIsRemoveAt
    <3>2. Len(queue') = Len(queue) - 1
      BY <1>2, <2>2, RemoveAtIs
    <3> QED
      BY <3>1, <3>2
  <2> QED
    BY <1>1, <2>1, <2>2, <2>3
<1>8. Awaits'
  <2>1. \A u \in Tasks : statement'[u] \in Awaited(pc'[u])
    BY <1>5 DEF IInv, Awaits, Awaited
  <2> QED
    BY <2>1 DEF Awaits, Awaited
<1>9. Fresh'
  <2>1. Made' = Made /\ \A w \in Made : w[1] \in Tasks
    BY <1>1, MadeAreWrites DEF Made, Writes
  <2>2. \A u \in Tasks : Unmade(u)' => Unmade(u)
    BY <1>5 DEF Unmade
  <2> QED
    BY <1>1, <2>1, <2>2 DEF IInv, Fresh, Unmade
<1>10. OutcomeIsTrue'
  BY <1>1 DEF IInv, OutcomeIsTrue
<1>11. OneStory'
  <2> SUFFICES ASSUME strays = {} PROVE OneStory'
    BY <1>1 DEF OneStory
  <2>1. Lock /\ Data /\ Left /\ \A u \in Tasks : Story(u)
    BY DEF IInv, OneStory
  <2>2. \A u \in Tasks : /\ (Using(u)' <=> Using(u)) /\ (Inside(u)' <=> Inside(u))
                         /\ (Opener(u)' <=> Opener(u))
    BY <1>1, <1>5 DEF Using, Inside, Opener, Ended
  <2>3. Lock' /\ Data' /\ Left'
    BY <1>1, <1>5, <2>1, <2>2 DEF Lock, Data, Left
  <2>4. ASSUME NEW u \in Tasks PROVE Story(u)'
    <3>1. CASE u = t
      BY <1>1, <1>5, <2>1, <2>2, <3>1 DEF Story, Inside
    <3>2. CASE u # t
      BY <1>1, <1>5, <2>1, <3>2 DEF Story, Inside, Ended
    <3> QED
      BY <3>1, <3>2
  <2> QED
    BY <2>3, <2>4 DEF OneStory
<1> QED
  BY <1>4, <1>6, <1>7, <1>8, <1>9, <1>10, <1>11 DEF IInv
-----------------------------------------------------------------------------
LEMMA InitInv == Init => IInv
<1> SUFFICES ASSUME Init PROVE IInv
  OBVIOUS
<1>1. Typed
  <2>1. faults \in 0..MaxFaults /\ queue \in Seq(Tasks)
    BY BoundsAssumption DEF Init
  <2>2. /\ pc \in [Tasks -> Places] /\ statement \in [Tasks -> Statements] /\ kind \in [Tasks -> Kinds] /\ calls \in [Tasks -> Nat]
    BY DEF Init, Places, Statements, Kinds
  <2> QED
    BY <2>1, <2>2 DEF Init, Typed
<1>2. Waiting /\ Awake /\ InTurn /\ Awaits
  BY DEF Init, Waiting, Awake, InTurn, Awaits, Awaited
<1>3. Fresh /\ OutcomeIsTrue
  BY DEF Init, Fresh, Made, OutcomeIsTrue
<1>4. OneStory
  BY DEF Init, OneStory, Lock, Data, Left, Story, Using, Inside, Opener
<1> QED
  BY <1>1, <1>2, <1>3, <1>4 DEF IInv

LEMMA NextInv == IInv /\ [Next]_vars => IInv'
<1> SUFFICES ASSUME IInv, [Next]_vars PROVE IInv'
  OBVIOUS
<1>1. ASSUME NEW t \in Tasks, NEW k \in Kinds, Call(t, k) PROVE IInv'
  BY <1>1, CallStep
<1>2. ASSUME NEW t \in Tasks, GiveUp(t) PROVE IInv'
  BY <1>2, GiveUpStep
<1>3. ASSUME NEW t \in Tasks, Progress(t) PROVE IInv'
  BY <1>3, ResumeStep, RunStep, AutoStep, BeginReturnsStep, BeginFailsStep, BlockStep, EndStep,
     FailureStep DEF Progress
<1>4. ASSUME NEW j \in late, RunLate(j[1], j[2]) PROVE IInv'
  BY <1>4, RunLateStep
<1>5. CASE UNCHANGED vars
  <2>1. UNCHANGED <<locked, queue, woken, untimed, opened, dirty, durable, flag, late, pinned, pc,
                    statement, kind, calls, faults, acked, undone, crossed, strays, leaked>>
    BY <1>5 DEF vars, lock, data, history
  <2>2. Typed' /\ Waiting' /\ Awake' /\ InTurn' /\ Awaits' /\ Fresh' /\ OutcomeIsTrue'
    BY <2>1 DEF IInv, Typed, Waiting, Awake, InTurn, Awaits, Fresh, Made, Unmade, OutcomeIsTrue
  <2>3. /\ \A t \in Tasks : /\ (Using(t)' <=> Using(t)) /\ (Inside(t)' <=> Inside(t))
                            /\ (Opener(t)' <=> Opener(t)) /\ Write(t)' = Write(t)
    BY <2>1 DEF Using, Inside, Opener, Ended, Write
  <2>4. ASSUME OneStory, strays = {} PROVE Lock' /\ Data' /\ Left' /\ \A t \in Tasks : Story(t)'
    <3>1. Lock /\ Data /\ Left /\ \A t \in Tasks : Story(t)
      BY <2>4 DEF OneStory
    <3>2. Lock' /\ Data' /\ Left'
      BY <2>1, <2>3, <3>1 DEF Lock, Data, Left
    <3>3. \A t \in Tasks : Story(t)'
      BY <2>1, <2>3, <3>1 DEF Story, Inside, Ended
    <3> QED
      BY <3>2, <3>3
  <2> QED
    BY <2>1, <2>2, <2>4 DEF IInv, OneStory
<1> QED
  BY <1>1, <1>2, <1>3, <1>4, <1>5 DEF Next

LEMMA Invariant == Spec => []IInv
  BY InitInv, NextInv, PTL DEF Spec

(* Types of the state, and the lock's queue through every race of a timeout or a
   cancellation with a wake-up: who waits is in it, once, and a wake-up is pending
   only while the lock is free and somebody is there to be woken. *)
THEOREM TypeInvariant == Spec => []TypeOK
  BY Invariant, TypedIs, PTL DEF IInv

(* While no COMMIT or ROLLBACK has failed, one call at a time has the writer, it
   holds the lock, and no write but its own is in its transaction, unless it is one
   that a cancelled call left to its thread. *)
THEOREM WritesSerialized == Spec => []WriterSerialized
<1>1. IInv => WriterSerialized
  BY DEF IInv, OneStory, Lock, Data, WriterSerialized
<1> QED
  BY Invariant, <1>1, PTL

(* The calls that returned have their writes committed, even when abandoned
   statements ran meanwhile; those that raised have none, but for the writes such a
   statement reached; while no COMMIT or ROLLBACK has failed. *)
THEOREM OutcomesAreTrue == Spec => []OutcomeIsTrue
  BY Invariant, PTL DEF IInv
=============================================================================
