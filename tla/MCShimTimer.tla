----------------------------- MODULE MCShimTimer -----------------------------
(* Instances of ShimTimer for TLC.                                         *)
EXTENDS ShimTimer, TLC

CONSTANTS tim, lo, isr

\* esp_shim_cfg.h: the timer task is more urgent than the tasks of the blobs.
MCPrio == (tim :> 2) @@ (lo :> 3)

MCOps == (tim :> {"setfn"})
      @@ (lo  :> {"setfn", "arm", "disarm", "done", "critical"})
      @@ (isr :> {"arm"})
=============================================================================
