----------------------------- MODULE CacheFlight -----------------------------
(***************************************************************************)
(* CacheService.get_or_set (cache/service.py) for one key that several     *)
(* processes ask for: one load at a time in a process, through the map     *)
(* _inflight, and one in the fleet, through a lock with a lease on the     *)
(* backend (cache/backends/redis.py).                                      *)
(*                                                                         *)
(* The callers of a process switch only where they wait for the backend,   *)
(* for the loader or for the future of another caller; the blocks under    *)
(* _inflight_lock hold no await and are part of the step they occur in.    *)
(* Each caller makes one call, which the initial state has made: its first *)
(* look at the backend may take any time.                                  *)
(***************************************************************************)
EXTENDS Naturals, FiniteSets

CONSTANTS
  Callers,    \* the calls of get_or_set
  Processes,
  Home,       \* caller -> its process
  NoCaller,
  MaxUpsets   \* bound: errors of the backend, timeouts, cancellations, lapsed
              \* leases and entries, shutdowns, crashes

ASSUME CallersAssumption == IsFiniteSet(Callers)
ASSUME HomeAssumption == Home \in [Callers -> Processes]
ASSUME NoCallerAssumption == NoCaller \notin Callers
ASSUME MaxUpsetsAssumption == MaxUpsets \in Nat

VARIABLES
  distributed,  \* distributed_stampede_lock, and the backend has such a lock
  entry,        \* the backend holds a value for the key
  lock,         \* who owns the lock on the backend, or NoCaller
  inflight,     \* process -> the caller registered in _inflight, or NoCaller
  pc,           \* caller -> where it is
  awaits,       \* caller -> whose future it waits for
  answer,       \* caller -> what that future holds
  token,        \* the callers that were given a token by try_acquire_lock
  result,       \* caller -> how its call will end, once the lock is given back
  down,         \* the processes that have shut the service down
  upsets

(* History, read by properties and by no guard. *)
VARIABLES
  strays,       \* the callers that compute without being registered
  lapsed        \* the callers whose lease ran out while they held the lock

own     == <<pc, awaits, answer, result>>
history == <<strays, lapsed>>
vars    == <<distributed, entry, lock, inflight, own, token, down, history, upsets>>

Joins     == {"join", "join again"}
Computes  == {"try", "poll", "load", "store", "release"}
Computing(c) == pc[c] \in Computes
Up(c) == Home[c] \notin down
Upset == upsets < MaxUpsets /\ upsets' = upsets + 1
(* A call of the backend fails: always once the service is shut down. *)
Fault(c) == IF Up(c) THEN Upset ELSE UNCHANGED upsets
Goto(c, to) == pc' = [pc EXCEPT ![c] = to]
-----------------------------------------------------------------------------
Init ==
  /\ distributed \in BOOLEAN
  /\ entry = FALSE
  /\ lock = NoCaller
  /\ inflight = [p \in Processes |-> NoCaller]
  /\ pc = [c \in Callers |-> "lookup"]
  /\ awaits = [c \in Callers |-> NoCaller]
  /\ answer = [c \in Callers |-> "pending"]
  /\ token = {}
  /\ result = [c \in Callers |-> "none"]
  /\ down = {} /\ upsets = 0
  /\ strays = {} /\ lapsed = {}

End(c, r) ==
  /\ Goto(c, IF r = "cancelled" THEN r ELSE "done")
  /\ result' = [result EXCEPT ![c] = "none"]

StopWaiting(c) ==
  /\ awaits' = [awaits EXCEPT ![c] = NoCaller]
  /\ answer' = [answer EXCEPT ![c] = "pending"]

StartCompute(c) == Goto(c, IF distributed THEN "try" ELSE "load")

Join(c, at) ==
  /\ awaits' = [awaits EXCEPT ![c] = inflight[Home[c]]]
  /\ answer' = [answer EXCEPT ![c] = "pending"]
  /\ Goto(c, at)
  /\ UNCHANGED <<inflight, strays>>

(* Mutant of Register: who finds nobody to join waits all the same. *)
JoinOnly(c) == Join(c, "join again")

(* Mutant of Register: the second look at _inflight is left out. *)
RegisterBlindly(c) ==
  /\ inflight' = [inflight EXCEPT ![Home[c]] = c]
  /\ StartCompute(c)
  /\ StopWaiting(c)
  /\ UNCHANGED strays

(* The check and the registration are one block: a caller that finds another
   registered joins it. *)
Register(c) ==
  IF inflight[Home[c]] # NoCaller
  THEN Join(c, "join again")
  ELSE /\ inflight' = [inflight EXCEPT ![Home[c]] = c]
       /\ StartCompute(c)
       /\ StopWaiting(c)
       /\ UNCHANGED strays

(* _get_entry; an error of the backend is a miss. *)
Lookup(c) ==
  /\ pc[c] = "lookup"
  /\ \/ /\ entry /\ Up(c)
        /\ End(c, "value")
        /\ UNCHANGED <<inflight, awaits, answer, strays, upsets>>
     \/ /\ IF inflight[Home[c]] # NoCaller THEN Join(c, "join") ELSE Register(c)
        /\ IF entry THEN Fault(c) ELSE UNCHANGED upsets
        /\ UNCHANGED result
  /\ UNCHANGED <<distributed, entry, lock, token, down, lapsed>>

(* What follows a wait that brought no value: register, and after the second
   wait compute beside whoever is registered. *)
MoveOn(c) ==
  \/ pc[c] = "join" /\ Register(c)
  \/ /\ pc[c] = "join again"
     /\ StartCompute(c)
     /\ StopWaiting(c)
     /\ strays' = strays \cup {c}
     /\ UNCHANGED inflight

Answered(c) ==
  /\ pc[c] \in Joins /\ answer[c] # "pending"
  /\ \/ /\ answer[c] = "value"
        /\ End(c, "value")
        /\ StopWaiting(c)
        /\ UNCHANGED <<inflight, strays>>
     \/ /\ answer[c] # "value"
        /\ MoveOn(c)
        /\ UNCHANGED result
  /\ UNCHANGED <<distributed, entry, lock, token, down, lapsed, upsets>>

(* stampede_timeout; a cancellation of the waiting call is taken for one. *)
GiveUp(c) ==
  /\ Upset
  /\ pc[c] \in Joins
  /\ MoveOn(c)
  /\ UNCHANGED <<distributed, entry, lock, result, token, down, lapsed>>
-----------------------------------------------------------------------------
Tell(c, r) ==
  answer' = [j \in Callers |->
               IF pc[j] \in Joins /\ awaits[j] = c /\ answer[j] = "pending" THEN r ELSE answer[j]]

(* Mutant of Resolve: the exception of the loader is not passed on. *)
ResolveValue(c, r) == IF r = "value" THEN Tell(c, r) ELSE UNCHANGED answer

(* CancelledError is not an Exception: it resolves no future. *)
Resolve(c, r) == IF r # "cancelled" THEN Tell(c, r) ELSE UNCHANGED answer

(* Mutant of Deregister: only a call that ends with a result cleans up. *)
DeregisterUnlessCancelled(c, r) ==
  inflight' = IF r = "cancelled" THEN inflight ELSE [inflight EXCEPT ![Home[c]] = NoCaller]

(* The finally of get_or_set removes the entry of the key, whoever made it. *)
Deregister(c, r) == inflight' = [inflight EXCEPT ![Home[c]] = NoCaller]

(* The call ends: what waits on its future runs after the entry is removed. *)
Finish(c, r) ==
  /\ End(c, r)
  /\ Resolve(c, r)
  /\ Deregister(c, r)

(* SET NX PX; an error reads as held elsewhere, even when the lock was taken. *)
TryLock(c) ==
  /\ pc[c] = "try"
  /\ \/ /\ lock = NoCaller /\ Up(c)
        /\ lock' = c
        /\ \/ token' = token \cup {c} /\ Goto(c, "load") /\ UNCHANGED upsets
           \/ UNCHANGED token /\ Goto(c, "poll") /\ Fault(c)
     \/ /\ IF lock = NoCaller THEN Fault(c) ELSE UNCHANGED upsets
        /\ Goto(c, "poll")
        /\ UNCHANGED <<lock, token>>
  /\ UNCHANGED <<distributed, entry, inflight, answer, awaits, result, down, history>>

(* _await_peer_value returns an entry, or nothing after stampede_timeout. *)
Poll(c) ==
  /\ pc[c] = "poll"
  /\ \/ entry /\ Up(c) /\ Finish(c, "value")
     \/ Goto(c, "load") /\ UNCHANGED <<inflight, answer, result>>
  /\ UNCHANGED <<distributed, entry, lock, awaits, token, down, history, upsets>>

(* The inner finally runs if there is a token to give back. *)
Leave(c, r) ==
  IF c \in token
  THEN /\ Goto(c, "release")
       /\ result' = [result EXCEPT ![c] = r]
       /\ UNCHANGED <<inflight, answer>>
  ELSE Finish(c, r)

Load(c) ==
  /\ pc[c] = "load"
  /\ \/ Goto(c, "store") /\ UNCHANGED <<inflight, answer, result>>
     \/ Leave(c, "error")
  /\ UNCHANGED <<distributed, entry, lock, awaits, token, down, history, upsets>>

(* set() swallows the errors of the backend. *)
Store(c) ==
  /\ pc[c] = "store"
  /\ \/ Up(c) /\ entry' = TRUE /\ UNCHANGED upsets
     \/ Fault(c) /\ UNCHANGED entry
  /\ Leave(c, "value")
  /\ UNCHANGED <<distributed, lock, awaits, token, down, history>>

(* Mutant of Unlock: "a naive DEL" in the words of redis.py. *)
NaiveUnlock(c) == lock' = NoCaller
Unlock(c) == lock' = IF lock = c THEN NoCaller ELSE lock

(* The script deletes the lock of this token only; its errors are swallowed. *)
Release(c) ==
  /\ pc[c] = "release"
  /\ \/ Up(c) /\ Unlock(c) /\ UNCHANGED upsets
     \/ Fault(c) /\ UNCHANGED lock
  /\ token' = token \ {c}
  /\ Finish(c, result[c])
  /\ UNCHANGED <<distributed, entry, awaits, down, history>>

(* The task of the call is cancelled; what it waited for may have happened. *)
Cancel(c) ==
  /\ Upset
  /\ \/ /\ pc[c] = "lookup"
        /\ End(c, "cancelled")
        /\ UNCHANGED <<entry, lock, inflight, answer, token>>
     \/ /\ pc[c] = "try"
        /\ lock' \in {lock} \cup IF lock = NoCaller /\ Up(c) THEN {c} ELSE {}
        /\ Finish(c, "cancelled")
        /\ UNCHANGED <<entry, token>>
     \/ /\ pc[c] = "poll"
        /\ Finish(c, "cancelled")
        /\ UNCHANGED <<entry, lock, token>>
     \/ /\ pc[c] \in {"load", "store"}
        /\ entry' \in {entry} \cup IF pc[c] = "store" /\ Up(c) THEN {TRUE} ELSE {}
        /\ Leave(c, "cancelled")
        /\ UNCHANGED <<lock, token>>
     \/ /\ pc[c] = "release"
        /\ Unlock(c) \/ UNCHANGED lock
        /\ token' = token \ {c}
        /\ Finish(c, "cancelled")
        /\ UNCHANGED entry
  /\ UNCHANGED <<distributed, awaits, down, history>>
-----------------------------------------------------------------------------
(* The entry is deleted, invalidated or expires. *)
Forget ==
  /\ Upset
  /\ entry /\ entry' = FALSE
  /\ UNCHANGED <<distributed, lock, inflight, own, token, down, history>>

(* stampede_lock_ttl has passed. *)
LeaseEnds ==
  /\ Upset
  /\ lock # NoCaller
  /\ lock' = NoCaller
  /\ lapsed' = lapsed \cup {lock}
  /\ UNCHANGED <<distributed, entry, inflight, own, token, down, strays>>

(* CacheService.shutdown: the registered futures are cancelled, their callers
   go on. *)
Shutdown(p) ==
  /\ Upset
  /\ p \notin down
  /\ down' = down \cup {p}
  /\ Tell(inflight[p], "cancelled")
  /\ inflight' = [inflight EXCEPT ![p] = NoCaller]
  /\ UNCHANGED <<distributed, entry, lock, own, token, history>>

(* The process dies with all its callers. *)
Crash(p) ==
  /\ Upset
  /\ \E c \in Callers : Home[c] = p /\ Computing(c)
  /\ down' = down \cup {p}
  /\ pc' = [c \in Callers |-> IF Home[c] = p THEN "dead" ELSE pc[c]]
  /\ inflight' = [inflight EXCEPT ![p] = NoCaller]
  /\ token' = {c \in token : Home[c] # p}
  /\ UNCHANGED <<distributed, entry, lock, answer, awaits, result, history>>

Step(c) == Lookup(c) \/ Answered(c) \/ TryLock(c) \/ Poll(c) \/ Load(c) \/ Store(c) \/ Release(c)

Next ==
  \/ \E c \in Callers : Step(c) \/ GiveUp(c) \/ Cancel(c)
  \/ \E p \in Processes : Shutdown(p) \/ Crash(p)
  \/ Forget \/ LeaseEnds

Spec == Init /\ [][Next]_vars

(* The backend answers, loaders end, and the poll has a deadline.  The timer of
   a caller that joined is not counted on. *)
FairSpec == Spec /\ \A c \in Callers : WF_vars(Step(c))
-----------------------------------------------------------------------------
CallersOf(p) == {c \in Callers : Home[c] = p}

(* Types of the state. *)
TypeOK ==
  /\ distributed \in BOOLEAN /\ entry \in BOOLEAN
  /\ lock \in Callers \cup {NoCaller}
  /\ inflight \in [Processes -> Callers \cup {NoCaller}]
  /\ \A p \in Processes : inflight[p] # NoCaller => Home[inflight[p]] = p
  /\ answer \in [Callers -> {"pending", "value", "error", "cancelled"}]
  /\ pc \in [Callers -> {"lookup", "done", "cancelled", "dead"} \cup Joins \cup Computes]
  /\ awaits \in [Callers -> Callers \cup {NoCaller}]
  /\ \A c \in Callers : pc[c] \in Joins => awaits[c] \in CallersOf(Home[c]) \ {c}
  /\ token \subseteq Callers
  /\ result \in [Callers -> {"none", "value", "error", "cancelled"}]
  /\ down \subseteq Processes /\ upsets \in 0..MaxUpsets
  /\ strays \subseteq Callers /\ lapsed \subseteq Callers

(* "only ONE concurrent caller computes the value" (get_or_set), plus one for each
   caller of the process that waited twice in vain, and one for a shutdown in
   between. *)
SingleFlight ==
  \A p \in Processes :
    Cardinality({c \in CallersOf(p) : Computing(c)})
      <= 1 + Cardinality(strays \cap CallersOf(p)) + (IF p \in down THEN 1 ELSE 0)

(* "only one worker in the whole fleet recomputes": who was given a token holds
   the lock until it gives it back or its lease runs out, whatever the owners of
   earlier leases release late. *)
LockIsHeld ==
  \A c \in token \ lapsed : lock = c

(* Nobody waits for a call that has gone: it is computing, or has left its result,
   or was cancelled, which only the timer of the joiner ends. *)
WaitsForSomebody ==
  /\ \A p \in Processes : inflight[p] # NoCaller => Computing(inflight[p])
  /\ \A c \in Callers : pc[c] \in Joins /\ answer[c] = "pending" =>
       Computing(awaits[c]) \/ pc[awaits[c]] = "cancelled"

(* Every call ends, without the timer of a join unless the call it joined was
   cancelled. *)
CallsEnd ==
  \A c \in Callers :
    pc[c] = "lookup" ~>
      \/ pc[c] \in {"done", "cancelled", "dead"}
      \/ pc[c] \in Joins /\ pc[awaits[c]] = "cancelled"
=============================================================================
