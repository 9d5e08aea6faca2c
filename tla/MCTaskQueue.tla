---------------------------- MODULE MCTaskQueue ----------------------------
(* Instances of TaskQueue for TLC.  "step" depends on "root"; "twin" does the
   same work as "root" (same fingerprint), later and with a higher priority. *)
EXTENDS TaskQueue, TLC

CONSTANTS root, step, twin, key

MCJobs       == {root, step, twin}
MCKeys       == {key}
MCPriority   == root :> 2 @@ step :> 1 @@ twin :> 1
MCDependsOn  == root :> <<>> @@ step :> <<root>> @@ twin :> <<>>
MCDedupKey   == root :> key @@ step :> NoKey @@ twin :> key
MCDelayed    == {twin}
MCMaxRetries == root :> 2 @@ step :> 1 @@ twin :> 0
MCWorkers    == Permutations(Workers)

(* A chain "twin" -> "root" -> "step" for liveness. *)
MCChain      == root :> <<twin>> @@ step :> <<root>> @@ twin :> <<>>
MCNoKey      == [j \in MCJobs |-> NoKey]
=============================================================================
