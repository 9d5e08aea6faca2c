----------------------------- MODULE MCSqlQueue -----------------------------
(* Instances of SqlQueue for TLC: one job, or a workflow whose "child" comes before
   its "parent" in the order of the scan, and two processes with a worker each, or
   one worker. *)
EXTENDS SqlQueue, TLC

CONSTANTS parent, child, p1, p2, w1, w2

MCHome        == w1 :> p1 @@ w2 :> p2
MCOneHome     == w1 :> p1
MCSwap        == {p1 :> p2 @@ p2 :> p1 @@ w1 :> w2 @@ w2 :> w1}

MCSolo        == {parent}
MCSoloParent  == parent :> NoJob
MCSoloRank    == parent :> 1
MCSoloRetries == parent :> 3

MCJobs        == {parent, child}
MCParent      == parent :> NoJob @@ child :> parent
MCRank        == parent :> 2 @@ child :> 1
MCMaxRetries  == parent :> 1 @@ child :> 3
=============================================================================
