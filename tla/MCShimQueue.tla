----------------------------- MODULE MCShimQueue -----------------------------
(***************************************************************************)
(* Small instances of ShimQueue: who runs, with which priority, and what   *)
(* each context calls.                                                     *)
(***************************************************************************)
EXTENDS ShimQueue

CONSTANTS ta, tb, isr

\* A receiver task above a sender task.
MCPrio == [t \in Tasks |-> IF t = ta THEN 1 ELSE 2]

\* Two tasks that may be preempted by each other anywhere.
MCEqualPrio == [t \in Tasks |-> 1]

\* Ordinary use: a receiver, a sender and a handler that posts.
PlainOps == [p \in Procs |-> CASE p = ta  -> {"recv"}
                               [] p = tb  -> {"send", "send_from_isr"}
                               [] p = isr -> {"send_from_isr"}]

\* The sender also sends from inside critical sections.
LiveOps == [p \in Procs |-> CASE p = ta  -> {"recv"}
                              [] p = tb  -> {"send", "critical"}
                              [] p = isr -> {"send_from_isr"}]

\* A single sender, in the open and under both ways of masking interrupts.
OrderOps == [p \in Procs |-> IF p = ta THEN {"recv"}
                             ELSE {"send", "critical", "int_disable"}]

\* Everything, the calls meant for tasks made by a handler too.
FullOps == [p \in Procs |-> CASE p = ta  -> {"recv", "reset", "send_from_isr"}
                              [] p = tb  -> {"send", "critical", "int_disable"}
                              [] p = isr -> {"send", "reset", "send_from_isr"}]
=============================================================================
