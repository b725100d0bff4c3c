----------------------------- MODULE MCGapQueue -----------------------------
(* Instances of GapQueue: up to two live handlers (the fast and grace orders *)
(* run posts side by side), the sweeper and the release worker.              *)
EXTENDS GapQueue, TLC

CONSTANTS live, live2, sweep, release

RoleOf == [r \in Workers |->
             CASE r \in {live, live2} -> "live"
               [] r = sweep -> "sweep"
               [] OTHER -> "release"]
=============================================================================
