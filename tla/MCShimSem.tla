------------------------------ MODULE MCShimSem ------------------------------
(* Instances of ShimSem for TLC.                                           *)
EXTENDS ShimSem, TLC

CONSTANTS hi, lo, isr

MCPrio == (hi :> 1) @@ (lo :> 2)

\* The least urgent task owns the semaphores, so that a delete meets no
\* preempted flush; the others use them.
OwnerOps == (hi  :> {"take", "give", "critical"})
         @@ (lo  :> {"create", "delete", "give", "critical"})
         @@ (isr :> {"give", "critical"})

\* The more urgent task (say the timer task, in a callback) owns them.
PreemptOps == (hi :> {"create", "delete"}) @@ (lo :> {"give", "critical"})
           @@ (isr :> {})
=============================================================================
