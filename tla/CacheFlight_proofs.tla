-------------------------- MODULE CacheFlight_proofs --------------------------
(* Proofs about CacheFlight, for every finite set of callers, every set of
   processes and every bound. *)
EXTENDS CacheFlight, FiniteSetTheorems, TLAPS

Spots   == {"lookup", "done", "cancelled", "dead"} \cup Joins \cup Computes
Answers == {"pending", "value", "error", "cancelled"}
Results == {"value", "error", "cancelled"}

(* The parts of TypeOK: the flights, and all that surrounds them. *)
FlightTyped ==
  /\ inflight \in [Processes -> Callers \cup {NoCaller}]
  /\ \A p \in Processes : inflight[p] # NoCaller => Home[inflight[p]] = p
  /\ answer \in [Callers -> Answers]
  /\ pc \in [Callers -> Spots]
  /\ awaits \in [Callers -> Callers \cup {NoCaller}]
  /\ \A c \in Callers : pc[c] \in Joins => awaits[c] \in CallersOf(Home[c]) \ {c}
  /\ down \subseteq Processes /\ strays \subseteq Callers
OtherTyped ==
  /\ distributed \in BOOLEAN /\ entry \in BOOLEAN
  /\ lock \in Callers \cup {NoCaller} /\ token \subseteq Callers /\ lapsed \subseteq Callers
  /\ result \in [Callers -> {"none"} \cup Results]
  /\ upsets \in 0..MaxUpsets

(* A call that computes without being registered is accounted for: by a stray, that
   computes so itself or has removed the entry of another when it ended, or by the
   shutdown that emptied the map. *)
Unregistered(p) == {c \in CallersOf(p) : Computing(c) /\ inflight[p] # c}
Strays(p) == strays \cap CallersOf(p)
Counted ==
  \A p \in Processes :
    Cardinality(Unregistered(p)) <= Cardinality(Strays(p)) + (IF p \in down THEN 1 ELSE 0)

(* A caller computes beside others once at most, and a lock is given back with the
   end of the call decided. *)
StraysOnce == \A c \in strays : pc[c] \notin Joins \cup {"lookup"}
Decided == \A c \in Callers : pc[c] = "release" => result[c] # "none"

Flights == FlightTyped /\ WaitsForSomebody /\ Counted /\ StraysOnce
Lease   == OtherTyped /\ LockIsHeld /\ Decided
IInv    == Flights /\ Lease
-----------------------------------------------------------------------------
LEMMA TypedIs == TypeOK <=> FlightTyped /\ OtherTyped
  BY DEF TypeOK, FlightTyped, OtherTyped, Spots, Answers, Results

LEMMA OneMore ==
  ASSUME NEW S, IsFiniteSet(S), NEW x, NEW T, T \subseteq S \cup {x}
  PROVE  IsFiniteSet(T) /\ Cardinality(T) <= Cardinality(S) + 1
<1>0. Cardinality(S) \in Nat
  BY FS_CardinalityType
<1>1. IsFiniteSet(S \cup {x}) /\ Cardinality(S \cup {x}) <= Cardinality(S) + 1
  BY <1>0, FS_AddElement
<1>2. IsFiniteSet(T) /\ Cardinality(T) <= Cardinality(S \cup {x})
  BY <1>1, FS_Subset
<1>3. Cardinality(T) \in Nat /\ Cardinality(S \cup {x}) \in Nat
  BY <1>1, <1>2, FS_CardinalityType
<1> QED
  BY <1>0, <1>1, <1>2, <1>3

LEMMA OneForAnother ==
  ASSUME NEW S, IsFiniteSet(S), NEW c \in S, NEW x, NEW T, T \subseteq (S \ {c}) \cup {x}
  PROVE  Cardinality(T) <= Cardinality(S)
<1>1. IsFiniteSet(S \ {c}) /\ Cardinality(S \ {c}) = Cardinality(S) - 1
  BY FS_RemoveElement
<1>2. Cardinality(T) <= Cardinality(S \ {c}) + 1
  BY <1>1, OneMore
<1> QED
  BY <1>1, <1>2, FS_CardinalityType

LEMMA Finiteness ==
  /\ \A p : IsFiniteSet(Unregistered(p)) /\ Cardinality(Unregistered(p)) \in Nat
  /\ \A p : IsFiniteSet(Strays(p)) /\ Cardinality(Strays(p)) \in Nat
<1>1. \A p : Unregistered(p) \in SUBSET Callers /\ Strays(p) \in SUBSET Callers
  BY DEF Unregistered, Strays, CallersOf
<1> QED
  BY <1>1, CallersAssumption, FS_Subset, FS_CardinalityType

LEMMA FinitenessNext ==
  /\ \A p : IsFiniteSet(Unregistered(p)') /\ Cardinality(Unregistered(p)') \in Nat
  /\ \A p : IsFiniteSet(Strays(p)') /\ Cardinality(Strays(p)') \in Nat
<1>1. \A p : Unregistered(p)' \in SUBSET Callers /\ Strays(p)' \in SUBSET Callers
  BY DEF Unregistered, Strays, CallersOf
<1> QED
  BY <1>1, CallersAssumption, FS_Subset, FS_CardinalityType

(* How the account of a process is kept. *)
LEMMA NoMore ==
  ASSUME Flights, NEW p \in Processes, Unregistered(p)' \subseteq Unregistered(p),
         Strays(p) \subseteq Strays(p)', p \in down => p \in down'
  PROVE  Cardinality(Unregistered(p)') <= Cardinality(Strays(p)') + (IF p \in down' THEN 1 ELSE 0)
<1>1. Cardinality(Unregistered(p)') <= Cardinality(Unregistered(p))
  BY Finiteness, FS_Subset
<1>2. Cardinality(Strays(p)) <= Cardinality(Strays(p)')
  BY FinitenessNext, FS_Subset
<1> QED
  BY <1>1, <1>2, Finiteness, FinitenessNext DEF Flights, Counted

LEMMA Exchange ==
  ASSUME Flights, NEW p \in Processes, NEW c \in Unregistered(p), NEW x,
         Unregistered(p)' \subseteq (Unregistered(p) \ {c}) \cup {x},
         Strays(p)' = Strays(p), p \in down <=> p \in down'
  PROVE  Cardinality(Unregistered(p)') <= Cardinality(Strays(p)') + (IF p \in down' THEN 1 ELSE 0)
<1>1. Cardinality(Unregistered(p)') <= Cardinality(Unregistered(p))
  BY Finiteness, OneForAnother
<1> QED
  BY <1>1, Finiteness, FinitenessNext DEF Flights, Counted

(* Who is registered computes. *)
LEMMA RegisteredComputes ==
  ASSUME Flights, NEW p \in Processes, inflight[p] # NoCaller
  PROVE  inflight[p] \in Callers /\ pc[inflight[p]] \in Computes
<1>1. inflight[p] \in Callers
  BY DEF Flights, FlightTyped
<1>2. Computing(inflight[p])
  BY DEF Flights, WaitsForSomebody
<1> QED
  BY <1>1, <1>2 DEF Computing
-----------------------------------------------------------------------------
(* What a step does to the flights, of six kinds. *)
Moves(c, to) ==
  /\ Computing(c) /\ to \in Computes
  /\ pc' = [pc EXCEPT ![c] = to]
  /\ UNCHANGED <<inflight, awaits, answer, strays, down>>

Ends(c, r) ==
  /\ Computing(c) /\ r \in Results
  /\ pc' = [pc EXCEPT ![c] = IF r = "cancelled" THEN r ELSE "done"]
  /\ Resolve(c, r) /\ Deregister(c, r)
  /\ UNCHANGED <<awaits, strays, down>>

Leaves(c, to) ==
  /\ pc[c] \in Joins \cup {"lookup"} /\ to \in {"done", "cancelled"}
  /\ pc' = [pc EXCEPT ![c] = to]
  /\ StopWaiting(c) \/ UNCHANGED <<awaits, answer>>
  /\ UNCHANGED <<inflight, strays, down>>

Follows(c, at) ==
  /\ pc[c] \in Joins \cup {"lookup"} /\ at \in Joins
  /\ inflight[Home[c]] # NoCaller /\ Join(c, at) /\ UNCHANGED down

Leads(c, to) ==
  /\ pc[c] \in Joins \cup {"lookup"} /\ to \in Computes
  /\ inflight[Home[c]] = NoCaller
  /\ inflight' = [inflight EXCEPT ![Home[c]] = c]
  /\ pc' = [pc EXCEPT ![c] = to] /\ StopWaiting(c)
  /\ UNCHANGED <<strays, down>>

Goes(c, to) ==
  /\ pc[c] \in Joins /\ to \in Computes
  /\ pc' = [pc EXCEPT ![c] = to] /\ StopWaiting(c)
  /\ strays' = strays \cup {c} /\ UNCHANGED <<inflight, down>>

LEMMA MovesStep ==
  ASSUME Flights, NEW c \in Callers, NEW to, Moves(c, to)
  PROVE  Flights'
<1> USE DEF Moves, Computing, Computes, Joins
<1>1. FlightTyped'
  BY DEF Flights, FlightTyped, Spots
<1>2. \A j \in Callers : (Computing(j)' <=> Computing(j)) /\ (pc'[j] = "cancelled" <=> pc[j] = "cancelled")
                         /\ \A at \in Joins \cup {"lookup"} : pc'[j] = at <=> pc[j] = at
  BY DEF Flights, FlightTyped
<1>3. WaitsForSomebody'
  <2>1. \A p \in Processes : inflight'[p] # NoCaller => pc'[inflight'[p]] \in Computes
    <3>1. \A p \in Processes : inflight[p] # NoCaller =>
            inflight[p] \in Callers /\ pc[inflight[p]] \in Computes
      BY RegisteredComputes
    <3> QED
      BY <1>2, <3>1
  <2>2. ASSUME NEW j \in Callers, pc'[j] \in Joins, answer'[j] = "pending"
        PROVE  pc'[awaits'[j]] \in Computes \/ pc'[awaits'[j]] = "cancelled"
    <3>1. pc[j] \in Joins /\ answer[j] = "pending" /\ awaits'[j] = awaits[j]
      BY <1>2, <2>2
    <3>2. awaits[j] \in Callers
      BY <3>1 DEF Flights, FlightTyped, CallersOf
    <3> QED
      BY <1>2, <3>1, <3>2 DEF Flights, WaitsForSomebody
  <2> QED
    BY <2>1, <2>2 DEF WaitsForSomebody
<1>4. \A p \in Processes : Unregistered(p)' = Unregistered(p) /\ Strays(p)' = Strays(p)
  BY <1>2 DEF Unregistered, Strays, CallersOf
<1>5. Counted'
  BY <1>4, NoMore DEF Counted
<1>6. StraysOnce'
  BY <1>2 DEF Flights, StraysOnce, FlightTyped
<1> QED
  BY <1>1, <1>3, <1>5, <1>6 DEF Flights

LEMMA EndsStep ==
  ASSUME Flights, NEW c \in Callers, NEW r, Ends(c, r)
  PROVE  Flights'
<1> USE HomeAssumption, NoCallerAssumption DEF Computing, Computes, Joins
<1>1. /\ Computing(c) /\ r \in Results /\ UNCHANGED <<awaits, strays, down>>
      /\ inflight' = [inflight EXCEPT ![Home[c]] = NoCaller]
      /\ \A j \in Callers : pc'[j] = IF j = c THEN IF r = "cancelled" THEN r ELSE "done" ELSE pc[j]
  BY DEF Ends, Deregister, Flights, FlightTyped
<1>2. \A j \in Callers : answer'[j] =
        IF r # "cancelled" /\ pc[j] \in Joins /\ awaits[j] = c /\ answer[j] = "pending"
        THEN r ELSE answer[j]
  <2>1. answer \in [Callers -> Answers]
    BY DEF Flights, FlightTyped
  <2>2. CASE r = "cancelled"
    BY <2>1, <2>2 DEF Ends, Resolve
  <2>3. CASE r # "cancelled"
    BY <2>1, <2>3 DEF Ends, Resolve, Tell
  <2> QED
    BY <2>2, <2>3
<1>3. FlightTyped'
  <2>1. answer' \in [Callers -> Answers]
    <3>1. answer' = answer \/ answer' = [j \in Callers |->
             IF pc[j] \in Joins /\ awaits[j] = c /\ answer[j] = "pending" THEN r ELSE answer[j]]
      BY DEF Ends, Resolve, Tell
    <3>2. r \in Answers /\ answer \in [Callers -> Answers]
      BY <1>1 DEF Flights, FlightTyped, Results, Answers
    <3> QED
      BY <3>1, <3>2
  <2>2. pc' \in [Callers -> Spots]
    BY <1>1 DEF Ends, Results, Spots, Flights, FlightTyped
  <2>3. /\ inflight' \in [Processes -> Callers \cup {NoCaller}]
        /\ \A p \in Processes : inflight'[p] # NoCaller => Home[inflight'[p]] = p
    BY <1>1 DEF Flights, FlightTyped
  <2>4. \A j \in Callers : pc'[j] \in Joins => awaits[j] \in CallersOf(Home[j]) \ {j}
    <3>1. \A j \in Callers : pc'[j] \in Joins => pc[j] \in Joins
      BY <1>1 DEF Results
    <3> QED
      BY <3>1 DEF Flights, FlightTyped
  <2> QED
    BY <1>1, <2>1, <2>2, <2>3, <2>4 DEF Flights, FlightTyped
<1>4. WaitsForSomebody'
  <2>1. ASSUME NEW p \in Processes, inflight'[p] # NoCaller
        PROVE  pc'[inflight'[p]] \in Computes
    <3>1. inflight'[p] = inflight[p] /\ p # Home[c]
      BY <1>1, <2>1 DEF Flights, FlightTyped
    <3>2. inflight[p] \in Callers /\ pc[inflight[p]] \in Computes
      BY <2>1, <3>1, RegisteredComputes
    <3>3. Home[inflight[p]] = p
      BY <2>1, <3>1 DEF Flights, FlightTyped
    <3> QED
      BY <1>1, <3>1, <3>2, <3>3
  <2>2. ASSUME NEW j \in Callers, pc'[j] \in Joins, answer'[j] = "pending"
        PROVE  pc'[awaits'[j]] \in Computes \/ pc'[awaits'[j]] = "cancelled"
    <3>1. pc[j] \in Joins /\ answer[j] = "pending" /\ awaits'[j] = awaits[j]
      BY <1>1, <1>2, <2>2 DEF Results
    <3>2. awaits[j] \in Callers /\ (pc[awaits[j]] \in Computes \/ pc[awaits[j]] = "cancelled")
      BY <3>1 DEF Flights, FlightTyped, CallersOf, WaitsForSomebody
    <3>3. awaits[j] = c => r = "cancelled"
      BY <1>1, <1>2, <2>2, <3>1 DEF Results
    <3> QED
      BY <1>1, <3>1, <3>2, <3>3
  <2> QED
    BY <2>1, <2>2 DEF WaitsForSomebody
<1>5. Counted'
  <2> SUFFICES ASSUME NEW p \in Processes
               PROVE  Cardinality(Unregistered(p)')
                        <= Cardinality(Strays(p)') + (IF p \in down' THEN 1 ELSE 0)
    BY DEF Counted
  <2>1. Strays(p)' = Strays(p) /\ down' = down
    BY <1>1 DEF Strays, CallersOf
  <2>2. \A j \in CallersOf(p) : Computing(j)' <=> j # c /\ Computing(j)
    BY <1>1 DEF CallersOf, Results
  <2>3. CASE p # Home[c] \/ inflight[p] = c \/ inflight[p] = NoCaller
    <3>1. Unregistered(p)' \subseteq Unregistered(p)
      BY <1>1, <2>2, <2>3 DEF Unregistered, CallersOf, Flights, FlightTyped
    <3> QED
      BY <2>1, <3>1, NoMore
  <2>4. CASE p = Home[c] /\ inflight[p] # c
    <3>1. c \in Unregistered(p)
      BY <1>1, <2>4 DEF Unregistered, CallersOf
    <3>2. Unregistered(p)' \subseteq (Unregistered(p) \ {c}) \cup {inflight[p]}
      BY <2>2 DEF Unregistered, CallersOf
    <3> QED
      BY <2>1, <3>1, <3>2, Exchange
  <2> QED
    BY <2>3, <2>4
<1>6. StraysOnce'
  BY <1>1 DEF Flights, FlightTyped, StraysOnce, Results
<1> QED
  BY <1>3, <1>4, <1>5, <1>6 DEF Flights

(* A caller that does not compute is awaited by nobody and registered nowhere, so
   that it may go where it likes. *)
LEMMA FreeToGo ==
  ASSUME Flights, NEW c \in Callers, pc[c] \in Joins \cup {"lookup"}, NEW to \in Spots,
         pc' = [pc EXCEPT ![c] = to],
         \A j \in Callers \ {c} : awaits'[j] = awaits[j] /\ answer'[j] = answer[j],
         awaits' \in [Callers -> Callers \cup {NoCaller}], answer' \in [Callers -> Answers]
  PROVE  /\ pc' \in [Callers -> Spots] /\ pc'[c] = to
         /\ \A j \in Callers : pc'[j] = IF j = c THEN to ELSE pc[j]
         /\ \A j \in Callers \ {c} : pc'[j] \in Joins => awaits'[j] \in CallersOf(Home[j]) \ {j}
         /\ \A p \in Processes : inflight[p] # NoCaller =>
              inflight[p] \in Callers \ {c} /\ pc'[inflight[p]] \in Computes
         /\ \A j \in Callers \ {c} : pc'[j] \in Joins /\ answer'[j] = "pending" =>
              pc'[awaits'[j]] \in Computes \/ pc'[awaits'[j]] = "cancelled"
<1> USE DEF Computing, Computes, Joins
<1>1. /\ pc' \in [Callers -> Spots] /\ pc'[c] = to
      /\ \A j \in Callers : pc'[j] = IF j = c THEN to ELSE pc[j]
  BY DEF Flights, FlightTyped
<1>2. \A j \in Callers \ {c} : pc'[j] \in Joins => awaits'[j] \in CallersOf(Home[j]) \ {j}
  BY <1>1 DEF Flights, FlightTyped
<1>3. ASSUME NEW p \in Processes, inflight[p] # NoCaller
      PROVE  inflight[p] \in Callers \ {c} /\ pc'[inflight[p]] \in Computes
  <2>1. inflight[p] \in Callers /\ pc[inflight[p]] \in Computes
    BY <1>3, RegisteredComputes
  <2>2. inflight[p] # c
    BY <2>1
  <2> QED
    BY <1>1, <2>1, <2>2
<1>4. ASSUME NEW j \in Callers \ {c}, pc'[j] \in Joins, answer'[j] = "pending"
      PROVE  pc'[awaits'[j]] \in Computes \/ pc'[awaits'[j]] = "cancelled"
  <2>1. awaits'[j] = awaits[j] /\ pc[j] \in Joins /\ answer[j] = "pending"
    BY <1>1, <1>4
  <2>2. awaits[j] \in Callers /\ (pc[awaits[j]] \in Computes \/ pc[awaits[j]] = "cancelled")
    BY <2>1 DEF Flights, FlightTyped, CallersOf, WaitsForSomebody
  <2> QED
    BY <1>1, <2>1, <2>2
<1> QED
  BY <1>1, <1>2, <1>3, <1>4

LEMMA TypedAgain ==
  ASSUME inflight' \in [Processes -> Callers \cup {NoCaller}],
         \A p \in Processes : inflight'[p] # NoCaller => Home[inflight'[p]] = p,
         answer' \in [Callers -> Answers], pc' \in [Callers -> Spots],
         awaits' \in [Callers -> Callers \cup {NoCaller}], NEW c \in Callers,
         pc'[c] \in Joins => awaits'[c] \in CallersOf(Home[c]) \ {c},
         \A j \in Callers \ {c} : pc'[j] \in Joins => awaits'[j] \in CallersOf(Home[j]) \ {j},
         down' \subseteq Processes, strays' \subseteq Callers
  PROVE  FlightTyped'
  BY DEF FlightTyped

LEMMA StopWaitingIs ==
  ASSUME Flights, NEW c \in Callers, StopWaiting(c)
  PROVE  /\ awaits' \in [Callers -> Callers \cup {NoCaller}] /\ answer' \in [Callers -> Answers]
         /\ \A j \in Callers \ {c} : awaits'[j] = awaits[j] /\ answer'[j] = answer[j]
  BY DEF StopWaiting, Flights, FlightTyped, Answers

LEMMA LeavesStep ==
  ASSUME Flights, NEW c \in Callers, NEW to, Leaves(c, to)
  PROVE  Flights'
<1> USE DEF Computing, Computes, Joins
<1>1. /\ awaits' \in [Callers -> Callers \cup {NoCaller}] /\ answer' \in [Callers -> Answers]
      /\ \A j \in Callers \ {c} : awaits'[j] = awaits[j] /\ answer'[j] = answer[j]
  BY StopWaitingIs DEF Leaves, Flights, FlightTyped
<1>2. /\ pc[c] \in Joins \cup {"lookup"} /\ to \in {"done", "cancelled"}
      /\ pc' = [pc EXCEPT ![c] = to]
      /\ inflight' = inflight /\ strays' = strays /\ down' = down
  BY DEF Leaves
<1>3. /\ pc' \in [Callers -> Spots] /\ pc'[c] = to
      /\ \A j \in Callers : pc'[j] = IF j = c THEN to ELSE pc[j]
      /\ \A j \in Callers \ {c} : pc'[j] \in Joins => awaits'[j] \in CallersOf(Home[j]) \ {j}
      /\ \A p \in Processes : inflight[p] # NoCaller =>
           inflight[p] \in Callers \ {c} /\ pc'[inflight[p]] \in Computes
      /\ \A j \in Callers \ {c} : pc'[j] \in Joins /\ answer'[j] = "pending" =>
           pc'[awaits'[j]] \in Computes \/ pc'[awaits'[j]] = "cancelled"
  BY <1>1, <1>2, FreeToGo DEF Spots
<1>4. FlightTyped'
  <2>1. pc'[c] \notin Joins
    BY <1>2, <1>3
  <2> QED
    BY <1>1, <1>2, <1>3, <2>1, TypedAgain DEF Flights, FlightTyped
<1>5. WaitsForSomebody'
  BY <1>2, <1>3 DEF WaitsForSomebody
<1>6. Counted'
  <2>1. \A p \in Processes : Unregistered(p)' = Unregistered(p) /\ Strays(p)' = Strays(p)
    <3>1. \A j \in Callers : pc'[j] \in Computes <=> pc[j] \in Computes
      BY <1>2, <1>3
    <3> HIDE DEF Computes
    <3> QED
      BY <1>2, <3>1 DEF Unregistered, Strays, CallersOf
  <2> QED
    BY <1>2, <2>1, NoMore DEF Counted
<1>7. StraysOnce'
  BY <1>2, <1>3 DEF Flights, FlightTyped, StraysOnce
<1> QED
  BY <1>4, <1>5, <1>6, <1>7 DEF Flights

LEMMA FollowsStep ==
  ASSUME Flights, NEW c \in Callers, NEW at, Follows(c, at)
  PROVE  Flights'
<1> USE HomeAssumption DEF Computing, Computes, Joins
<1> DEFINE leader == inflight[Home[c]]
<1>1. /\ pc[c] \in Joins \cup {"lookup"} /\ at \in Joins /\ leader # NoCaller
      /\ awaits' = [awaits EXCEPT ![c] = leader] /\ answer' = [answer EXCEPT ![c] = "pending"]
      /\ pc' = [pc EXCEPT ![c] = at]
      /\ inflight' = inflight /\ strays' = strays /\ down' = down
  BY DEF Follows, Join, Goto
<1>2. leader \in CallersOf(Home[c]) \ {c} /\ pc[leader] \in Computes
  <2>1. leader \in Callers /\ pc[leader] \in Computes /\ Home[leader] = Home[c]
    BY <1>1, RegisteredComputes DEF Flights, FlightTyped
  <2>2. leader # c
    BY <1>1, <2>1
  <2> QED
    BY <2>1, <2>2 DEF CallersOf
<1>3. /\ awaits' \in [Callers -> Callers \cup {NoCaller}] /\ answer' \in [Callers -> Answers]
      /\ \A j \in Callers \ {c} : awaits'[j] = awaits[j] /\ answer'[j] = answer[j]
      /\ awaits'[c] = leader
  BY <1>1, <1>2 DEF Flights, FlightTyped, Answers, CallersOf
<1>4. /\ pc' \in [Callers -> Spots] /\ pc'[c] = at
      /\ \A j \in Callers : pc'[j] = IF j = c THEN at ELSE pc[j]
      /\ \A j \in Callers \ {c} : pc'[j] \in Joins => awaits'[j] \in CallersOf(Home[j]) \ {j}
      /\ \A p \in Processes : inflight[p] # NoCaller =>
           inflight[p] \in Callers \ {c} /\ pc'[inflight[p]] \in Computes
      /\ \A j \in Callers \ {c} : pc'[j] \in Joins /\ answer'[j] = "pending" =>
           pc'[awaits'[j]] \in Computes \/ pc'[awaits'[j]] = "cancelled"
  BY <1>1, <1>3, FreeToGo DEF Spots
<1>5. FlightTyped'
  <2>1. awaits'[c] \in CallersOf(Home[c]) \ {c}
    BY <1>2, <1>3
  <2>2. /\ inflight \in [Processes -> Callers \cup {NoCaller}]
        /\ \A p \in Processes : inflight[p] # NoCaller => Home[inflight[p]] = p
        /\ down \subseteq Processes /\ strays \subseteq Callers
    BY DEF Flights, FlightTyped
  <2> QED
    BY <1>1, <1>3, <1>4, <2>1, <2>2, TypedAgain
<1>9. \A j \in Callers : pc'[j] = IF j = c THEN at ELSE pc[j]
  BY <1>4
<1>6. WaitsForSomebody'
  <2>1. pc'[awaits'[c]] \in Computes
    <3>1. leader \in Callers /\ leader # c /\ pc[leader] \in Computes /\ awaits'[c] = leader
      BY <1>2, <1>3 DEF CallersOf
    <3> QED
      BY <1>9, <3>1
  <2> QED
    BY <1>1, <1>4, <2>1 DEF WaitsForSomebody
<1>7. Counted'
  <2>1. \A p \in Processes : Unregistered(p)' = Unregistered(p) /\ Strays(p)' = Strays(p)
    <3>1. \A j \in Callers : pc'[j] \in Computes <=> pc[j] \in Computes
      BY <1>1, <1>9
    <3> HIDE DEF Computes
    <3> QED
      BY <1>1, <3>1 DEF Unregistered, Strays, CallersOf
  <2> QED
    BY <1>1, <2>1, NoMore DEF Counted
<1>8. StraysOnce'
  BY <1>1, <1>4 DEF Flights, FlightTyped, StraysOnce
<1> QED
  BY <1>5, <1>6, <1>7, <1>8 DEF Flights

LEMMA LeadsStep ==
  ASSUME Flights, NEW c \in Callers, NEW to, Leads(c, to)
  PROVE  Flights'
<1> USE HomeAssumption, NoCallerAssumption DEF Computing, Computes, Joins
<1>1. /\ pc[c] \in Joins \cup {"lookup"} /\ to \in Computes /\ inflight[Home[c]] = NoCaller
      /\ inflight' = [inflight EXCEPT ![Home[c]] = c]
      /\ pc' = [pc EXCEPT ![c] = to]
      /\ strays' = strays /\ down' = down
  BY DEF Leads
<1>2. /\ awaits' \in [Callers -> Callers \cup {NoCaller}] /\ answer' \in [Callers -> Answers]
      /\ \A j \in Callers \ {c} : awaits'[j] = awaits[j] /\ answer'[j] = answer[j]
  BY StopWaitingIs DEF Leads
<1>3. /\ pc' \in [Callers -> Spots] /\ pc'[c] = to
      /\ \A j \in Callers : pc'[j] = IF j = c THEN to ELSE pc[j]
      /\ \A j \in Callers \ {c} : pc'[j] \in Joins => awaits'[j] \in CallersOf(Home[j]) \ {j}
      /\ \A p \in Processes : inflight[p] # NoCaller =>
           inflight[p] \in Callers \ {c} /\ pc'[inflight[p]] \in Computes
      /\ \A j \in Callers \ {c} : pc'[j] \in Joins /\ answer'[j] = "pending" =>
           pc'[awaits'[j]] \in Computes \/ pc'[awaits'[j]] = "cancelled"
  BY <1>1, <1>2, FreeToGo DEF Spots
<1>4. \A p \in Processes : inflight'[p] = IF p = Home[c] THEN c ELSE inflight[p]
  BY <1>1 DEF Flights, FlightTyped
<1>5. FlightTyped'
  <2>1. inflight' \in [Processes -> Callers \cup {NoCaller}]
    BY <1>1 DEF Flights, FlightTyped
  <2>2. pc'[c] \notin Joins
    BY <1>1, <1>3
  <2>3. \A p \in Processes : inflight'[p] # NoCaller => Home[inflight'[p]] = p
    BY <1>4 DEF Flights, FlightTyped
  <2> QED
    BY <1>1, <1>2, <1>3, <2>1, <2>2, <2>3, TypedAgain DEF Flights, FlightTyped
<1>6. WaitsForSomebody'
  <2>1. pc'[c] \in Computes /\ pc'[c] \notin Joins
    BY <1>1, <1>3
  <2>2. \A p \in Processes : inflight'[p] # NoCaller => pc'[inflight'[p]] \in Computes
    BY <1>3, <1>4, <2>1
  <2>3. \A j \in Callers : pc'[j] \in Joins /\ answer'[j] = "pending" =>
          pc'[awaits'[j]] \in Computes \/ pc'[awaits'[j]] = "cancelled"
    BY <1>3, <2>1
  <2> QED
    BY <2>2, <2>3 DEF WaitsForSomebody
<1>7. Counted'
  <2>1. ASSUME NEW p \in Processes PROVE Unregistered(p)' \subseteq Unregistered(p)
    <3>1. \A j \in Callers \ {c} : pc'[j] = pc[j]
      BY <1>3
    <3>2. \A j \in Callers : pc'[j] \in Computes /\ inflight'[p] # j =>
            j = c \/ (pc[j] \in Computes /\ inflight[p] # j)
      BY <1>1, <1>4, <3>1
    <3>3. p = Home[c] => inflight'[p] = c
      BY <1>4
    <3> HIDE DEF Computes
    <3> QED
      BY <3>2, <3>3 DEF Unregistered, CallersOf
  <2>2. \A p \in Processes : Strays(p)' = Strays(p)
    BY <1>1 DEF Strays, CallersOf
  <2> QED
    BY <1>1, <2>1, <2>2, NoMore DEF Counted
<1>8. StraysOnce'
  BY <1>1, <1>3 DEF Flights, FlightTyped, StraysOnce
<1> QED
  BY <1>5, <1>6, <1>7, <1>8 DEF Flights

LEMMA GoesStep ==
  ASSUME Flights, NEW c \in Callers, NEW to, Goes(c, to)
  PROVE  Flights'
<1> USE HomeAssumption DEF Computing, Computes, Joins
<1>1. /\ pc[c] \in Joins /\ to \in Computes
      /\ pc' = [pc EXCEPT ![c] = to]
      /\ strays' = strays \cup {c} /\ inflight' = inflight /\ down' = down
  BY DEF Goes
<1>2. /\ awaits' \in [Callers -> Callers \cup {NoCaller}] /\ answer' \in [Callers -> Answers]
      /\ \A j \in Callers \ {c} : awaits'[j] = awaits[j] /\ answer'[j] = answer[j]
  BY StopWaitingIs DEF Goes
<1>3. /\ pc' \in [Callers -> Spots] /\ pc'[c] = to
      /\ \A j \in Callers : pc'[j] = IF j = c THEN to ELSE pc[j]
      /\ \A j \in Callers \ {c} : pc'[j] \in Joins => awaits'[j] \in CallersOf(Home[j]) \ {j}
      /\ \A p \in Processes : inflight[p] # NoCaller =>
           inflight[p] \in Callers \ {c} /\ pc'[inflight[p]] \in Computes
      /\ \A j \in Callers \ {c} : pc'[j] \in Joins /\ answer'[j] = "pending" =>
           pc'[awaits'[j]] \in Computes \/ pc'[awaits'[j]] = "cancelled"
  BY <1>1, <1>2, FreeToGo DEF Spots
<1>4. FlightTyped'
  <2>1. pc'[c] \notin Joins
    BY <1>1, <1>3
  <2>2. /\ inflight \in [Processes -> Callers \cup {NoCaller}]
        /\ \A p \in Processes : inflight[p] # NoCaller => Home[inflight[p]] = p
        /\ down \subseteq Processes /\ strays \cup {c} \subseteq Callers
    BY DEF Flights, FlightTyped
  <2> QED
    BY <1>1, <1>2, <1>3, <2>1, <2>2, TypedAgain
<1>5. WaitsForSomebody'
  <2>1. pc'[c] \notin Joins
    BY <1>1, <1>3
  <2> QED
    BY <1>1, <1>3, <2>1 DEF WaitsForSomebody
<1>6. Counted'
  <2> SUFFICES ASSUME NEW p \in Processes
               PROVE  Cardinality(Unregistered(p)')
                        <= Cardinality(Strays(p)') + (IF p \in down' THEN 1 ELSE 0)
    BY DEF Counted
  <2>1. CASE p # Home[c]
    <3>1. Unregistered(p)' = Unregistered(p) /\ Strays(p)' = Strays(p)
      <4>1. \A j \in CallersOf(p) : j \in Callers /\ j # c /\ pc'[j] = pc[j]
        BY <1>3, <2>1 DEF CallersOf
      <4> QED
        BY <1>1, <4>1 DEF Unregistered, Strays
    <3> QED
      BY <1>1, <3>1, NoMore
  <2>2. CASE p = Home[c]
    <3>1. Unregistered(p)' \subseteq Unregistered(p) \cup {c}
      <4>1. \A j \in CallersOf(p) : j = c \/ pc'[j] = pc[j]
        BY <1>3 DEF CallersOf
      <4> QED
        BY <1>1, <4>1 DEF Unregistered
    <3>2. Strays(p)' = Strays(p) \cup {c} /\ c \notin Strays(p)
      BY <1>1, <2>2 DEF Strays, CallersOf, Flights, StraysOnce
    <3>3. Cardinality(Strays(p)') = Cardinality(Strays(p)) + 1
      BY <3>2, Finiteness, FS_AddElement
    <3>4. Cardinality(Unregistered(p)') <= Cardinality(Unregistered(p)) + 1
      BY <3>1, Finiteness, OneMore
    <3> QED
      <4>1. Cardinality(Unregistered(p)) <= Cardinality(Strays(p)) + (IF p \in down THEN 1 ELSE 0)
        BY DEF Flights, Counted
      <4>2. /\ Cardinality(Unregistered(p)) \in Nat /\ Cardinality(Unregistered(p)') \in Nat
            /\ Cardinality(Strays(p)) \in Nat
        BY Finiteness, FinitenessNext
      <4>3. down' = down
        BY <1>1
      <4> QED
        BY <3>3, <3>4, <4>1, <4>2, <4>3
  <2> QED
    BY <2>1, <2>2
<1>7. StraysOnce'
  <2>1. \A j \in strays : j \in Callers /\ pc[j] \notin Joins \cup {"lookup"}
    BY DEF Flights, FlightTyped, StraysOnce
  <2> QED
    BY <1>1, <1>3, <2>1 DEF StraysOnce
<1> QED
  BY <1>4, <1>5, <1>6, <1>7 DEF Flights

LEMMA ShutdownStep ==
  ASSUME Flights, NEW p \in Processes, Shutdown(p)
  PROVE  Flights'
<1> DEFINE Told(j) == pc[j] \in Joins /\ awaits[j] = inflight[p] /\ answer[j] = "pending"
<1>1. /\ p \notin down /\ down' = down \cup {p} /\ pc' = pc /\ awaits' = awaits /\ strays' = strays
      /\ inflight' = [inflight EXCEPT ![p] = NoCaller]
      /\ answer' = [j \in Callers |-> IF Told(j) THEN "cancelled" ELSE answer[j]]
  BY DEF Shutdown, Tell, own, history
<1>2. \A q \in Processes : inflight'[q] = IF q = p THEN NoCaller ELSE inflight[q]
  BY <1>1 DEF Flights, FlightTyped
<1>3. FlightTyped'
  <2>1. answer' \in [Callers -> Answers]
    BY <1>1 DEF Flights, FlightTyped, Answers
  <2>2. inflight' \in [Processes -> Callers \cup {NoCaller}] /\ down' \subseteq Processes
    BY <1>1 DEF Flights, FlightTyped
  <2> QED
    BY <1>1, <1>2, <2>1, <2>2 DEF Flights, FlightTyped
<1>4. WaitsForSomebody'
  <2>1. \A q \in Processes : inflight'[q] # NoCaller => pc'[inflight'[q]] \in Computes
    BY <1>1, <1>2 DEF Flights, WaitsForSomebody, Computing
  <2>2. ASSUME NEW j \in Callers, pc'[j] \in Joins, answer'[j] = "pending"
        PROVE  pc'[awaits'[j]] \in Computes \/ pc'[awaits'[j]] = "cancelled"
    <3>1. pc[j] \in Joins /\ answer[j] = "pending"
      BY <1>1, <2>2
    <3> QED
      BY <1>1, <3>1 DEF Flights, WaitsForSomebody, Computing
  <2> QED
    BY <2>1, <2>2 DEF WaitsForSomebody, Computing
<1>5. ASSUME NEW q \in Processes
      PROVE  Cardinality(Unregistered(q)') <= Cardinality(Strays(q)') + (IF q \in down' THEN 1 ELSE 0)
  <2>1. Strays(q)' = Strays(q)
    BY <1>1 DEF Strays, CallersOf
  <2>2. CASE q # p
    <3>1. Unregistered(q)' \subseteq Unregistered(q)
      BY <1>1, <1>2, <2>2 DEF Unregistered, Computing, CallersOf
    <3> QED
      BY <1>1, <2>1, <3>1, NoMore
  <2>3. CASE q = p
    <3>1. Unregistered(p)' \subseteq Unregistered(p) \cup {inflight[p]}
      BY <1>1 DEF Unregistered, Computing, CallersOf
    <3>2. Cardinality(Unregistered(p)') <= Cardinality(Unregistered(p)) + 1
      BY <3>1, Finiteness, OneMore
    <3>3. Cardinality(Unregistered(p)) <= Cardinality(Strays(p))
      BY <1>1, Finiteness DEF Flights, Counted
    <3>4. /\ Cardinality(Unregistered(p)) \in Nat /\ Cardinality(Unregistered(p)') \in Nat
          /\ Cardinality(Strays(p)) \in Nat
      BY Finiteness, FinitenessNext
    <3>5. p \in down'
      BY <1>1
    <3> QED
      BY <2>1, <2>3, <3>2, <3>3, <3>4, <3>5
  <2> QED
    BY <2>2, <2>3
<1>6. StraysOnce'
  BY <1>1 DEF Flights, StraysOnce
<1> QED
  BY <1>3, <1>4, <1>5, <1>6 DEF Flights, Counted

LEMMA CrashStep ==
  ASSUME Flights, NEW p \in Processes, Crash(p)
  PROVE  Flights'
<1>1. /\ down' = down \cup {p} /\ answer' = answer /\ awaits' = awaits /\ strays' = strays
      /\ inflight' = [inflight EXCEPT ![p] = NoCaller]
      /\ pc' = [c \in Callers |-> IF Home[c] = p THEN "dead" ELSE pc[c]]
  BY DEF Crash, history
<1>2. /\ \A q \in Processes : inflight'[q] = IF q = p THEN NoCaller ELSE inflight[q]
      /\ \A c \in Callers : pc'[c] = IF Home[c] = p THEN "dead" ELSE pc[c]
  BY <1>1 DEF Flights, FlightTyped
<1>3. "dead" \notin Joins \cup Computes
  BY DEF Joins, Computes
<1>4. FlightTyped'
  <2>1. pc' \in [Callers -> Spots]
    BY <1>1 DEF Flights, FlightTyped, Spots
  <2>2. inflight' \in [Processes -> Callers \cup {NoCaller}] /\ down' \subseteq Processes
    BY <1>1 DEF Flights, FlightTyped
  <2> QED
    BY <1>1, <1>2, <1>3, <2>1, <2>2 DEF Flights, FlightTyped
<1>5. WaitsForSomebody'
  <2>1. ASSUME NEW q \in Processes, inflight'[q] # NoCaller
        PROVE  pc'[inflight'[q]] \in Computes
    <3>1. /\ q # p /\ inflight'[q] = inflight[q] /\ inflight[q] \in Callers /\ Home[inflight[q]] = q
          /\ pc[inflight[q]] \in Computes
      BY <1>2, <2>1 DEF Flights, FlightTyped, WaitsForSomebody, Computing
    <3> QED
      BY <1>2, <3>1
  <2>2. ASSUME NEW j \in Callers, pc'[j] \in Joins, answer'[j] = "pending"
        PROVE  pc'[awaits'[j]] \in Computes \/ pc'[awaits'[j]] = "cancelled"
    <3>1. Home[j] # p /\ pc[j] \in Joins /\ answer[j] = "pending"
      BY <1>1, <1>2, <1>3, <2>2
    <3>2. awaits[j] \in Callers /\ Home[awaits[j]] = Home[j]
      BY <3>1 DEF Flights, FlightTyped, CallersOf
    <3>3. pc[awaits[j]] \in Computes \/ pc[awaits[j]] = "cancelled"
      BY <3>1 DEF Flights, WaitsForSomebody, Computing
    <3> QED
      BY <1>1, <1>2, <3>1, <3>2, <3>3
  <2> QED
    BY <2>1, <2>2 DEF WaitsForSomebody, Computing
<1>6. ASSUME NEW q \in Processes
      PROVE  Cardinality(Unregistered(q)') <= Cardinality(Strays(q)') + (IF q \in down' THEN 1 ELSE 0)
  <2>1. Strays(q) \subseteq Strays(q)' /\ (q \in down => q \in down')
    BY <1>1 DEF Strays, CallersOf
  <2>2. \A c \in CallersOf(q) : c \in Callers /\ Home[c] = q
    BY DEF CallersOf
  <2>3. Unregistered(q)' \subseteq Unregistered(q)
    BY <1>2, <1>3, <2>2 DEF Unregistered, Computing
  <2> QED
    BY <2>1, <2>3, NoMore
<1>7. StraysOnce'
  <2>1. \A c \in strays : c \in Callers /\ pc[c] \notin Joins \cup {"lookup"}
    BY DEF Flights, FlightTyped, StraysOnce
  <2> QED
    BY <1>1, <1>2, <1>3, <2>1 DEF StraysOnce
<1> QED
  BY <1>4, <1>5, <1>6, <1>7 DEF Flights, Counted
-----------------------------------------------------------------------------
(* What every action of a caller does to the flights. *)
LEMMA RegisterIs ==
  ASSUME NEW c, Register(c), pc[c] \in Joins \cup {"lookup"}, UNCHANGED down
  PROVE  Follows(c, "join again") \/ \E to \in Computes : Leads(c, to)
<1>1. CASE inflight[Home[c]] # NoCaller
  BY <1>1 DEF Register, Follows, Joins
<1>2. CASE inflight[Home[c]] = NoCaller
  <2>1. PICK to \in Computes : Goto(c, to)
    BY <1>2 DEF Register, StartCompute, Computes
  <2>2. Leads(c, to)
    BY <1>2, <2>1 DEF Register, Leads, Goto
  <2> QED
    BY <2>2
<1> QED
  BY <1>1, <1>2

LEMMA MoveOnIs ==
  ASSUME NEW c, MoveOn(c), UNCHANGED down
  PROVE  Follows(c, "join again") \/ \E to \in Computes : Leads(c, to) \/ Goes(c, to)
<1>1. CASE pc[c] = "join" /\ Register(c)
  BY <1>1, RegisterIs DEF Joins
<1>2. CASE pc[c] = "join again" /\ StartCompute(c) /\ StopWaiting(c)
           /\ strays' = strays \cup {c} /\ UNCHANGED inflight
  <2>1. PICK to \in Computes : Goto(c, to)
    BY <1>2 DEF StartCompute, Computes
  <2>2. Goes(c, to)
    BY <1>2, <2>1 DEF Goes, Goto, Joins
  <2> QED
    BY <2>2
<1> QED
  BY <1>1, <1>2 DEF MoveOn

LEMMA FinishIs ==
  ASSUME NEW c, NEW r \in Results, Computing(c), Finish(c, r), UNCHANGED <<awaits, strays, down>>
  PROVE  Ends(c, r)
  BY DEF Finish, End, Goto, Ends

LEMMA LeaveIs ==
  ASSUME NEW c, NEW r \in Results, Computing(c), Leave(c, r), UNCHANGED <<awaits, strays, down>>
  PROVE  Ends(c, r) \/ Moves(c, "release")
<1>1. CASE c \in token
  BY <1>1 DEF Leave, Goto, Moves, Computes
<1>2. CASE c \notin token
  BY <1>2, FinishIs DEF Leave
<1> QED
  BY <1>1, <1>2

LEMMA LookupFlight ==
  ASSUME Flights, NEW c \in Callers, Lookup(c)
  PROVE  Flights'
<1>1. pc[c] = "lookup" /\ UNCHANGED down
  BY DEF Lookup
<1>2. CASE End(c, "value") /\ UNCHANGED <<inflight, awaits, answer, strays, upsets>>
  <2>1. Leaves(c, "done")
    BY <1>1, <1>2 DEF End, Goto, Leaves
  <2> QED
    BY <2>1, LeavesStep
<1>3. CASE inflight[Home[c]] # NoCaller /\ Join(c, "join")
  <2>1. Follows(c, "join")
    BY <1>1, <1>3 DEF Follows, Joins
  <2> QED
    BY <2>1, FollowsStep
<1>4. CASE Register(c)
  BY <1>1, <1>4, RegisterIs, FollowsStep, LeadsStep
<1> QED
  BY <1>2, <1>3, <1>4 DEF Lookup

LEMMA AnsweredFlight ==
  ASSUME Flights, NEW c \in Callers, Answered(c) \/ GiveUp(c)
  PROVE  Flights'
<1>1. pc[c] \in Joins /\ UNCHANGED down
  BY DEF Answered, GiveUp
<1>2. CASE End(c, "value") /\ StopWaiting(c) /\ UNCHANGED <<inflight, strays>>
  <2>1. Leaves(c, "done")
    BY <1>1, <1>2 DEF End, Goto, Leaves
  <2> QED
    BY <2>1, LeavesStep
<1>3. CASE MoveOn(c)
  BY <1>1, <1>3, MoveOnIs, FollowsStep, LeadsStep, GoesStep
<1> QED
  BY <1>2, <1>3 DEF Answered, GiveUp

LEMMA ComputingFlight ==
  ASSUME Flights, Decided, OtherTyped, NEW c \in Callers,
         TryLock(c) \/ Poll(c) \/ Load(c) \/ Store(c) \/ Release(c)
  PROVE  Flights'
<1>1. CASE TryLock(c)
  <2>1. Moves(c, "load") \/ Moves(c, "poll")
    BY <1>1 DEF TryLock, Goto, Moves, Computing, Computes, history
  <2> QED
    BY <2>1, MovesStep
<1>2. CASE Poll(c)
  <2>1. Computing(c) /\ UNCHANGED <<awaits, strays, down>>
    BY <1>2 DEF Poll, Computing, Computes, history
  <2>2. Ends(c, "value") \/ Moves(c, "load")
    BY <1>2, <2>1, FinishIs DEF Poll, Goto, Moves, Computes, Results
  <2> QED
    BY <2>2, MovesStep, EndsStep
<1>3. CASE Load(c)
  <2>1. Computing(c) /\ UNCHANGED <<awaits, strays, down>>
    BY <1>3 DEF Load, Computing, Computes, history
  <2>2. Ends(c, "error") \/ Moves(c, "release") \/ Moves(c, "store")
    BY <1>3, <2>1, LeaveIs DEF Load, Goto, Moves, Computes, Results
  <2> QED
    BY <2>2, MovesStep, EndsStep
<1>4. CASE Store(c)
  <2>1. Computing(c) /\ UNCHANGED <<awaits, strays, down>> /\ Leave(c, "value")
    BY <1>4 DEF Store, Computing, Computes, history
  <2>2. Ends(c, "value") \/ Moves(c, "release")
    BY <2>1, LeaveIs DEF Results
  <2> QED
    BY <2>2, MovesStep, EndsStep
<1>5. CASE Release(c)
  <2>1. Computing(c) /\ UNCHANGED <<awaits, strays, down>> /\ Finish(c, result[c])
    BY <1>5 DEF Release, Computing, Computes, history
  <2>2. result[c] \in Results
    BY <1>5 DEF Release, Decided, OtherTyped
  <2> QED
    BY <2>1, <2>2, FinishIs, EndsStep
<1> QED
  BY <1>1, <1>2, <1>3, <1>4, <1>5

LEMMA CancelFlight ==
  ASSUME Flights, NEW c \in Callers, Cancel(c)
  PROVE  Flights'
<1>1. UNCHANGED <<awaits, strays, down>> /\ "cancelled" \in Results
  BY DEF Cancel, history, Results
<1>2. CASE pc[c] = "lookup"
  <2>1. Leaves(c, "cancelled")
    BY <1>1, <1>2 DEF Cancel, End, Goto, Leaves
  <2> QED
    BY <2>1, LeavesStep
<1>3. CASE pc[c] \in Computes
  <2>1. Computing(c) /\ (Finish(c, "cancelled") \/ Leave(c, "cancelled"))
    BY <1>3 DEF Cancel, Computing, Computes
  <2> QED
    BY <1>1, <2>1, FinishIs, LeaveIs, EndsStep, MovesStep
<1> QED
  BY <1>2, <1>3 DEF Cancel, Computes
-----------------------------------------------------------------------------
(* What every action does to the lock and to the result of a call. *)
LEMMA UpsetsType ==
  ASSUME OtherTyped, NEW c, Upset \/ Fault(c) \/ UNCHANGED upsets
  PROVE  upsets' \in 0..MaxUpsets
  BY MaxUpsetsAssumption DEF OtherTyped, Upset, Fault

(* A call ends, or goes on to give its lock back. *)
LEMMA ResultIs ==
  ASSUME OtherTyped, Decided, NEW c \in Callers, NEW r \in Results,
         pc \in [Callers -> Spots], End(c, r) \/ Leave(c, r)
  PROVE  Decided' /\ result' \in [Callers -> {"none"} \cup Results]
<1>1. \/ result' = [result EXCEPT ![c] = "none"] /\ \E to \in {"cancelled", "done"} : Goto(c, to)
      \/ result' = [result EXCEPT ![c] = r] /\ Goto(c, "release")
  BY DEF End, Leave, Finish
<1>2. result' \in [Callers -> {"none"} \cup Results]
  BY <1>1 DEF OtherTyped
<1>3. \A j \in Callers : j # c => pc'[j] = pc[j] /\ result'[j] = result[j]
  BY <1>1 DEF Goto, OtherTyped
<1>4. pc'[c] = "release" => result'[c] # "none"
  BY <1>1 DEF Goto, OtherTyped, Results
<1> QED
  BY <1>2, <1>3, <1>4 DEF Decided

LEMMA PassOn ==
  ASSUME Decided, NEW c \in Callers, NEW to, to # "release", Goto(c, to), UNCHANGED result,
         pc \in [Callers -> Spots]
  PROVE  Decided'
  BY DEF Decided, Goto

LEMMA WaitingLease ==
  ASSUME Lease, pc \in [Callers -> Spots], NEW c \in Callers, Lookup(c) \/ Answered(c) \/ GiveUp(c)
  PROVE  Lease'
<1>1. UNCHANGED <<distributed, entry, lock, token, lapsed>>
  BY DEF Lookup, Answered, GiveUp
<1>2. upsets' \in 0..MaxUpsets
  BY UpsetsType DEF Lookup, Answered, GiveUp, Lease
<1>3. \/ End(c, "value")
      \/ UNCHANGED result /\ \E to \in Joins \cup {"try", "load"} : Goto(c, to)
  BY DEF Lookup, Answered, GiveUp, MoveOn, Register, Join, StartCompute, Joins
<1>4. result' \in [Callers -> {"none"} \cup Results] /\ Decided'
  BY <1>3, ResultIs, PassOn DEF Lease, OtherTyped, Results, Joins
<1> QED
  BY <1>1, <1>2, <1>4 DEF Lease, OtherTyped, LockIsHeld

LEMMA TryLockLease ==
  ASSUME Lease, pc \in [Callers -> Spots], NEW c \in Callers, TryLock(c)
  PROVE  Lease'
<1>1. /\ UNCHANGED <<distributed, entry, lapsed>> /\ result' = result
      /\ Goto(c, "load") \/ Goto(c, "poll")
      /\ \/ lock = NoCaller /\ lock' = c /\ token' \in {token, token \cup {c}}
         \/ lock' = lock /\ token' = token
  BY DEF TryLock, history
<1>2. upsets' \in 0..MaxUpsets
  BY UpsetsType DEF TryLock, Lease
<1>3. Decided'
  BY <1>1, PassOn DEF Lease
<1>4. LockIsHeld'
  BY <1>1, NoCallerAssumption DEF Lease, LockIsHeld, OtherTyped
<1> QED
  BY <1>1, <1>2, <1>3, <1>4 DEF Lease, OtherTyped

LEMMA ComputingLease ==
  ASSUME Lease, pc \in [Callers -> Spots], NEW c \in Callers, Poll(c) \/ Load(c) \/ Store(c)
  PROVE  Lease'
<1>1. UNCHANGED <<distributed, lock, token, lapsed>> /\ entry' \in BOOLEAN
  BY DEF Poll, Load, Store, history, Lease, OtherTyped
<1>2. upsets' \in 0..MaxUpsets
  BY UpsetsType DEF Poll, Load, Store, Lease
<1>3. \/ \E r \in Results : End(c, r) \/ Leave(c, r)
      \/ UNCHANGED result /\ \E to \in {"load", "store"} : Goto(c, to)
  BY DEF Poll, Load, Store, Finish, Results
<1>4. result' \in [Callers -> {"none"} \cup Results] /\ Decided'
  BY <1>3, ResultIs, PassOn DEF Lease, OtherTyped
<1> QED
  BY <1>1, <1>2, <1>4 DEF Lease, OtherTyped, LockIsHeld

LEMMA UnlockIs ==
  ASSUME Lease, NEW c \in Callers, Unlock(c) \/ UNCHANGED lock, token' = token \ {c},
         UNCHANGED lapsed
  PROVE  LockIsHeld' /\ lock' \in Callers \cup {NoCaller} /\ token' \subseteq Callers
  BY DEF Unlock, Lease, LockIsHeld, OtherTyped

LEMMA ReleaseLease ==
  ASSUME Lease, pc \in [Callers -> Spots], NEW c \in Callers, Release(c)
  PROVE  Lease'
<1>1. /\ UNCHANGED <<distributed, entry, lapsed>> /\ token' = token \ {c}
      /\ Unlock(c) \/ UNCHANGED lock
      /\ End(c, result[c])
  BY DEF Release, Finish, history
<1>2. result[c] \in Results
  BY DEF Release, Lease, Decided, OtherTyped
<1>3. upsets' \in 0..MaxUpsets
  BY UpsetsType DEF Release, Lease
<1>4. result' \in [Callers -> {"none"} \cup Results] /\ Decided'
  BY <1>1, <1>2, ResultIs DEF Lease
<1> QED
  BY <1>1, <1>3, <1>4, UnlockIs DEF Lease, OtherTyped

LEMMA CancelLease ==
  ASSUME Lease, pc \in [Callers -> Spots], NEW c \in Callers, Cancel(c)
  PROVE  Lease'
<1>1. /\ UNCHANGED <<distributed, lapsed>> /\ entry' \in BOOLEAN
      /\ End(c, "cancelled") \/ Leave(c, "cancelled")
      /\ \/ lock = NoCaller /\ lock' = c /\ token' = token
         \/ lock' = lock /\ token' = token
         \/ (Unlock(c) \/ UNCHANGED lock) /\ token' = token \ {c}
  BY DEF Cancel, Finish, history, Lease, OtherTyped
<1>2. upsets' \in 0..MaxUpsets
  BY UpsetsType DEF Cancel, Lease
<1>3. result' \in [Callers -> {"none"} \cup Results] /\ Decided'
  BY <1>1, ResultIs DEF Lease, Results
<1>4. LockIsHeld' /\ lock' \in Callers \cup {NoCaller} /\ token' \subseteq Callers
  BY <1>1, UnlockIs, NoCallerAssumption DEF Lease, LockIsHeld, OtherTyped
<1> QED
  BY <1>1, <1>2, <1>3, <1>4 DEF Lease, OtherTyped

LEMMA WorldLease ==
  ASSUME Lease, pc \in [Callers -> Spots],
         Forget \/ LeaseEnds \/ \E p \in Processes : Shutdown(p) \/ Crash(p)
  PROVE  Lease'
<1>1. upsets' \in 0..MaxUpsets
  BY UpsetsType DEF Forget, LeaseEnds, Shutdown, Crash, Lease
<1>2. distributed' = distributed /\ entry' \in BOOLEAN /\ result' = result
  BY DEF Forget, LeaseEnds, Shutdown, Crash, own, Lease, OtherTyped
<1>3. \/ lock' = lock /\ token' \subseteq token /\ lapsed' = lapsed
      \/ lock' = NoCaller /\ token' = token /\ lapsed' = lapsed \cup {lock} /\ lock # NoCaller
  BY DEF Forget, LeaseEnds, Shutdown, Crash, history
<1>4. \A c \in Callers : pc'[c] = "release" => pc[c] = "release"
  BY DEF Forget, LeaseEnds, Shutdown, Crash, own
<1> QED
  BY <1>1, <1>2, <1>3, <1>4 DEF Lease, OtherTyped, LockIsHeld, Decided
-----------------------------------------------------------------------------
LEMMA InitInv == Init => IInv
<1> SUFFICES ASSUME Init PROVE IInv
  OBVIOUS
<1> USE DEF Init
<1>1. FlightTyped /\ StraysOnce /\ WaitsForSomebody
  BY DEF FlightTyped, Spots, Answers, Joins, Computes, StraysOnce, WaitsForSomebody
<1>2. Counted
  <2>1. \A p \in Processes : Unregistered(p) = {} /\ Strays(p) = {}
    BY DEF Unregistered, Strays, Computing, Computes, CallersOf
  <2> QED
    BY <2>1, FS_EmptySet DEF Counted
<1>3. Lease
  <2>1. upsets \in 0..MaxUpsets
    BY MaxUpsetsAssumption
  <2>2. LockIsHeld /\ Decided
    BY DEF LockIsHeld, Decided
  <2> QED
    BY <2>1, <2>2 DEF Lease, OtherTyped
<1> QED
  BY <1>1, <1>2, <1>3 DEF IInv, Flights

LEMMA NextInv == IInv /\ [Next]_vars => IInv'
<1> SUFFICES ASSUME IInv, [Next]_vars PROVE IInv'
  OBVIOUS
<1>1. Flights /\ Lease /\ Decided /\ OtherTyped /\ pc \in [Callers -> Spots]
  BY DEF IInv, Flights, Lease, FlightTyped
<1>2. ASSUME NEW c \in Callers, Lookup(c) \/ Answered(c) \/ GiveUp(c) PROVE IInv'
  BY <1>1, <1>2, LookupFlight, AnsweredFlight, WaitingLease DEF IInv
<1>3. ASSUME NEW c \in Callers, TryLock(c) \/ Poll(c) \/ Load(c) \/ Store(c) \/ Release(c)
      PROVE  IInv'
  BY <1>1, <1>3, ComputingFlight, TryLockLease, ComputingLease, ReleaseLease DEF IInv
<1>4. ASSUME NEW c \in Callers, Cancel(c) PROVE IInv'
  BY <1>1, <1>4, CancelFlight, CancelLease DEF IInv
<1>5. ASSUME NEW p \in Processes, Shutdown(p) \/ Crash(p) PROVE IInv'
  BY <1>1, <1>5, ShutdownStep, CrashStep, WorldLease DEF IInv
<1>6. CASE Forget \/ LeaseEnds \/ UNCHANGED vars
  <2>1. UNCHANGED <<inflight, own, down, strays>>
    BY <1>6 DEF Forget, LeaseEnds, vars, history
  <2>2. Flights'
    BY <1>1, <2>1 DEF own, Flights, FlightTyped, WaitsForSomebody, Counted, StraysOnce,
                      Unregistered, Strays, Computing
  <2>3. Lease'
    <3>1. CASE UNCHANGED vars
      BY <1>1, <3>1 DEF vars, own, history, Lease, OtherTyped, LockIsHeld, Decided
    <3> QED
      BY <1>1, <1>6, <3>1, WorldLease
  <2> QED
    BY <2>2, <2>3 DEF IInv
<1> QED
  BY <1>2, <1>3, <1>4, <1>5, <1>6 DEF Next, Step

LEMMA Invariant == Spec => []IInv
  BY InitInv, NextInv, PTL DEF Spec

(* Types of the state: a caller waits only for another caller of its process. *)
THEOREM TypeInvariant == Spec => []TypeOK
  BY Invariant, TypedIs, PTL DEF IInv, Flights, Lease

(* get_or_set computes once at a time in a process, except beside strays and after
   a shutdown, by the account of unregistered computations. *)
THEOREM ComputedOnce == Spec => []SingleFlight
<1>1. IInv => SingleFlight
  <2> SUFFICES ASSUME IInv, NEW p \in Processes
               PROVE  Cardinality({c \in CallersOf(p) : Computing(c)})
                        <= 1 + Cardinality(strays \cap CallersOf(p)) + (IF p \in down THEN 1 ELSE 0)
    BY DEF SingleFlight
  <2>1. {c \in CallersOf(p) : Computing(c)} \subseteq Unregistered(p) \cup {inflight[p]}
    BY DEF Unregistered
  <2>2. /\ Cardinality({c \in CallersOf(p) : Computing(c)}) <= Cardinality(Unregistered(p)) + 1
        /\ Cardinality({c \in CallersOf(p) : Computing(c)}) \in Nat
    BY <2>1, Finiteness, OneMore, FS_CardinalityType
  <2>3. Cardinality(Unregistered(p)) <= Cardinality(Strays(p)) + (IF p \in down THEN 1 ELSE 0)
    BY DEF IInv, Flights, Counted
  <2> QED
    BY <2>2, <2>3, Finiteness DEF Strays
<1> QED
  BY Invariant, <1>1, PTL

(* The distributed lock belongs to who was given its token, until the token is given
   back or the lease runs out: a late release by an earlier owner takes nothing. *)
THEOREM LockHeldByToken == Spec => []LockIsHeld
  BY Invariant, PTL DEF IInv, Lease

(* A registered caller computes, and a caller that waits is answered by somebody who
   still computes, or was cancelled. *)
THEOREM WaitingForSomebody == Spec => []WaitsForSomebody
  BY Invariant, PTL DEF IInv, Flights
=============================================================================
