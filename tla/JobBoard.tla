------------------------------- MODULE JobBoard -------------------------------
(***************************************************************************)
(* What a TaskBackend promises the TaskManager (aquilia/tasks/engine.py,   *)
(* class TaskBackend), whatever it keeps its jobs in: a board from which   *)
(* workers take jobs.                                                      *)
(*                                                                         *)
(* A job is on the board, or in the hands of workers, or neither.  Only    *)
(* three things put a job on the board: it is pushed for the first time,   *)
(* the worker that holds it gives it back, or somebody returns a job that  *)
(* was posted before.  A worker takes a job only from the board, and only  *)
(* when a run of everything the job needs has finished; nothing finishes   *)
(* except in a worker's hand.                                              *)
(***************************************************************************)
CONSTANTS
  Jobs,     \* the job ids
  Workers,  \* those who run jobs
  NoJob,    \* an empty hand
  Needs     \* job -> the set of jobs that have to finish before it starts

VARIABLES
  posted,   \* the jobs ever pushed
  board,    \* the jobs a worker may take
  hand,     \* worker -> the job it runs
  finished  \* the jobs of which some run returned

vars == <<posted, board, hand, finished>>

Init ==
  /\ posted = {}
  /\ board = {}
  /\ hand = [w \in Workers |-> NoJob]
  /\ finished = {}

(* push() of a new job. *)
Post(j) ==
  /\ j \notin posted
  /\ posted' = posted \cup {j}
  /\ board' = board \cup {j}
  /\ UNCHANGED <<hand, finished>>

(* pop(); on the way to its job a poll may take others off the board. *)
Take(w, j) ==
  /\ hand[w] = NoJob
  /\ j \in board /\ Needs[j] \subseteq finished
  /\ hand' = [hand EXCEPT ![w] = j]
  /\ board' \subseteq board \ {j}
  /\ UNCHANGED <<posted, finished>>

(* The run returned: update_if_epoch with a result. *)
Finish(w) ==
  /\ hand[w] # NoJob
  /\ hand' = [hand EXCEPT ![w] = NoJob]
  /\ finished' = finished \cup {hand[w]}
  /\ board' \subseteq board
  /\ UNCHANGED posted

(* The run failed and is to be retried: back on the board. *)
GiveBack(w) ==
  /\ hand[w] # NoJob
  /\ hand' = [hand EXCEPT ![w] = NoJob]
  /\ board' = board \cup {hand[w]}
  /\ UNCHANGED <<posted, finished>>

(* Runs that end without a result: the last failure, a shutdown, a crash. *)
Drop(S) ==
  /\ hand' = [w \in Workers |-> IF w \in S THEN NoJob ELSE hand[w]]
  /\ board' \subseteq board
  /\ UNCHANGED <<posted, finished>>

(* retry() by hand, or a lease that ran out. *)
Return(j) ==
  /\ j \in posted
  /\ board' = board \cup {j}
  /\ UNCHANGED <<posted, hand, finished>>

(* cancel(), cleanup(), flush(), and jobs whose dependencies are lost. *)
Withdraw ==
  /\ board' \subseteq board
  /\ UNCHANGED <<posted, hand, finished>>

Next ==
  \/ \E j \in Jobs : Post(j) \/ Return(j)
  \/ \E w \in Workers : Finish(w) \/ GiveBack(w) \/ \E j \in Jobs : Take(w, j)
  \/ \E S \in SUBSET Workers : Drop(S)
  \/ Withdraw

Spec == Init /\ [][Next]_vars
=============================================================================
