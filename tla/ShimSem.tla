------------------------------- MODULE ShimSem -------------------------------
(***************************************************************************)
(* The semaphore pool of the OS-adapter shim                               *)
(* (src/esp/common/wifi/esp_shim_core.c, esp_shim_sem_*; take and give are *)
(* in src/esp/c3/wifi/esp_shim.c).                                         *)
(*                                                                         *)
(* A pool semaphore is a kernel semaphore that is created once and lent to *)
(* one user after another.  A give made with interrupts masked cannot call *)
(* sig_sem: it is counted in shim_sem_pend and repaid by the flush that    *)
(* the outermost esp_shim_exit_critical runs.                              *)
(*                                                                         *)
(* Scheduling is that of ShimQueue: one core, a region under SHIM_LOCK or  *)
(* one kernel call is one action, and only more urgent contexts preempt.   *)
(***************************************************************************)
EXTENDS Integers, FiniteSets

CONSTANTS
  Tasks, Isrs,
  Prio,       \* [Tasks -> Int], smaller is more urgent
  Ops,        \* [Procs -> SUBSET OpNames]: what each context calls
  NumSem,     \* ESP_SHIM_NUM_SEM
  MaxInit,    \* bound: initial counts callers ask for
  MaxCreate,  \* bound: number of create calls
  MaxGive,    \* bound: number of give calls
  MaxNest,    \* bound: nesting of the critical section
  NoProc

Procs   == Tasks \cup Isrs
Sems    == 1..NumSem
NoSem   == 0
OpNames == {"create", "delete", "give", "take", "critical"}

ASSUME PoolAssumption  == NumSem \in Nat \ {0}
ASSUME ProcsAssumption == /\ IsFiniteSet(Procs)
                          /\ Tasks \cap Isrs = {}
                          /\ NoProc \notin Procs
ASSUME CallsAssumption == /\ Prio \in [Tasks -> Int]
                          /\ Ops \in [Procs -> SUBSET OpNames]
ASSUME BoundsAssumption ==
  MaxInit \in Nat /\ MaxCreate \in Nat /\ MaxGive \in Nat /\ MaxNest \in Nat

VARIABLES
  cnt,        \* count of each kernel semaphore
  used,       \* shim_sem_used
  pend,       \* shim_sem_pend
  total,      \* shim_sem_pend_total
  pc,         \* where each context is in its call
  on,         \* the semaphore its call is about, or the flush's loop index
  left,       \* initial gives a creator still has to make
  owner,      \* the context that runs with mstatus.MIE = 0, or NoProc
  nest,       \* esp_shim_crit_nest
  credit,     \* history: gives made to the present user, less its takes
  creates,    \* history: number of create calls
  gives       \* history: number of give calls

svars    == <<cnt, used, pend, total>>
pvars    == <<pc, on, left>>
critvars == <<owner, nest>>
hvars    == <<credit, creates, gives>>
vars     == <<svars, pvars, critvars, hvars>>

Labels == {"idle", "drain", "init", "wait", "wait_timed", "flush", "pop", "sig"}
Waiting == {"wait", "wait_timed"}

TypeOK ==
  /\ cnt \in [Sems -> Nat] /\ used \in [Sems -> BOOLEAN]
  /\ pend \in [Sems -> Nat] /\ total \in Nat
  /\ pc \in [Procs -> Labels]
  /\ on \in [Procs -> Sems \cup {NoSem}]
  /\ left \in [Procs -> 0..MaxInit]
  /\ owner \in Procs \cup {NoProc} /\ nest \in 0..MaxNest
  /\ credit \in [Sems -> Int]
  /\ creates \in 0..MaxCreate /\ gives \in 0..MaxGive

Init ==
  /\ cnt = [s \in Sems |-> 0] /\ used = [s \in Sems |-> FALSE]
  /\ pend = [s \in Sems |-> 0] /\ total = 0
  /\ pc = [p \in Procs |-> "idle"]
  /\ on = [p \in Procs |-> NoSem]
  /\ left = [p \in Procs |-> 0]
  /\ owner = NoProc /\ nest = 0
  /\ credit = [s \in Sems |-> 0]
  /\ creates = 0 /\ gives = 0

-----------------------------------------------------------------------------
(* Scheduling and the context rules of the kernel.                         *)

Suspended(q) == pc[q] = "idle" \/ pc[q] \in Waiting

CanRun(p) ==
  /\ owner \in {p, NoProc}
  /\ p \in Tasks =>
       /\ \A i \in Isrs : pc[i] = "idle"
       /\ \A q \in Tasks : Prio[q] < Prio[p] => Suspended(q)

At(p, l) == pc[p] = l /\ CanRun(p)
Go(p, l) == pc' = [pc EXCEPT ![p] = l]

Masked(p) == owner = p
TaskCallRefused(p) == Masked(p) \/ p \in Isrs

Waiters(s) == {w \in Tasks : pc[w] \in Waiting /\ on[w] = s}

\* A semaphore some user holds the handle of: created, and create has returned.
Live(s) == used[s] /\ \A p \in Procs : pc[p] \in {"drain", "init"} => on[p] # s

\* sig_sem(s) succeeding in context p, which continues at l with on[p] = o.  A
\* waiting task is handed the count; the kernel's limit is not reached.
SigSem(p, s, l, o) ==
  \/ /\ \E w \in Waiters(s) :
          /\ pc' = [pc EXCEPT ![w] = "idle", ![p] = l]
          /\ on' = [on EXCEPT ![w] = NoSem, ![p] = o]
     /\ UNCHANGED cnt
  \/ /\ Waiters(s) = {}
     /\ cnt' = [cnt EXCEPT ![s] = @ + 1]
     /\ Go(p, l)
     /\ on' = [on EXCEPT ![p] = o]

\* What sig_sem takes from the credit of s: a waiter's take completes.
Handed(s) == IF Waiters(s) = {} THEN 0 ELSE 1

-----------------------------------------------------------------------------
(* esp_shim_sem_create: claim a pool entry, drain it, give it init times.  *)
(* It is called by tasks with interrupts enabled.                          *)

FirstFree(s) == ~used[s] /\ \A r \in Sems : r < s => used[r]

\* The stale pending gives of the last user are dropped with the claim.
Create(p) ==
  /\ At(p, "idle") /\ "create" \in Ops[p] /\ ~TaskCallRefused(p)
  /\ creates < MaxCreate
  /\ creates' = creates + 1
  /\ \E s \in Sems, n \in 0..MaxInit :
       /\ FirstFree(s)
       /\ used' = [used EXCEPT ![s] = TRUE]
       /\ total' = total - pend[s]
       /\ pend' = [pend EXCEPT ![s] = 0]
       /\ on' = [on EXCEPT ![p] = s]
       /\ left' = [left EXCEPT ![p] = n]
       /\ credit' = [credit EXCEPT ![s] = n]
  /\ Go(p, "drain")
  /\ UNCHANGED <<cnt, critvars, gives>>

\* Mutant: the counts the last user left behind are kept.
DrainNothing(p) ==
  /\ At(p, "drain")
  /\ Go(p, "init")
  /\ UNCHANGED <<svars, on, left, critvars, hvars>>

\* pol_sem until it fails.
Drain(p) ==
  /\ At(p, "drain")
  /\ \/ /\ cnt[on[p]] > 0
        /\ cnt' = [cnt EXCEPT ![on[p]] = @ - 1]
        /\ UNCHANGED pc
     \/ /\ cnt[on[p]] = 0
        /\ Go(p, "init")
        /\ UNCHANGED cnt
  /\ UNCHANGED <<used, pend, total, on, left, critvars, hvars>>

\* sig_sem, with no waiter yet.
InitialGive(p) ==
  /\ At(p, "init") /\ left[p] > 0
  /\ left' = [left EXCEPT ![p] = @ - 1]
  /\ cnt' = [cnt EXCEPT ![on[p]] = @ + 1]
  /\ UNCHANGED <<used, pend, total, pc, on, critvars, hvars>>

CreateReturn(p) ==
  /\ At(p, "init") /\ left[p] = 0
  /\ Go(p, "idle")
  /\ on' = [on EXCEPT ![p] = NoSem]
  /\ UNCHANGED <<svars, left, critvars, hvars>>

\* Mutants: esp_shim_sem_delete takes the pending gives off the total only, or
\* off the entry only.
DeleteKeepsPend(p) ==
  /\ At(p, "idle") /\ "delete" \in Ops[p]
  /\ \E s \in Sems :
       /\ Live(s) /\ Waiters(s) = {}
       /\ used' = [used EXCEPT ![s] = FALSE]
       /\ total' = total - pend[s]
  /\ UNCHANGED <<cnt, pend, pvars, critvars, hvars>>

DeleteKeepsTotal(p) ==
  /\ At(p, "idle") /\ "delete" \in Ops[p]
  /\ \E s \in Sems :
       /\ Live(s) /\ Waiters(s) = {}
       /\ used' = [used EXCEPT ![s] = FALSE]
       /\ pend' = [pend EXCEPT ![s] = 0]
  /\ UNCHANGED <<cnt, total, pvars, critvars, hvars>>

\* esp_shim_sem_delete by the user, when no task waits on the semaphore.
Delete(p) ==
  /\ At(p, "idle") /\ "delete" \in Ops[p]
  /\ \E s \in Sems :
       /\ Live(s) /\ Waiters(s) = {}
       /\ used' = [used EXCEPT ![s] = FALSE]
       /\ total' = total - pend[s]
       /\ pend' = [pend EXCEPT ![s] = 0]
  /\ UNCHANGED <<cnt, pvars, critvars, hvars>>

-----------------------------------------------------------------------------
(* esp_shim_sem_give and esp_shim_sem_take                                 *)

CountGive(s, n) ==
  /\ gives < MaxGive
  /\ gives' = gives + 1
  /\ credit' = [credit EXCEPT ![s] = @ + 1 - n]

\* sig_sem succeeds.
Give(p) ==
  /\ At(p, "idle") /\ "give" \in Ops[p] /\ ~Masked(p)
  /\ \E s \in Sems :
       /\ Live(s)
       /\ CountGive(s, Handed(s))
       /\ SigSem(p, s, "idle", NoSem)
  /\ UNCHANGED <<used, pend, total, left, critvars, creates>>

\* sig_sem returns E_CTX: the give is pending, and reported as made.
GiveMasked(p) ==
  /\ At(p, "idle") /\ "give" \in Ops[p] /\ Masked(p)
  /\ \E s \in Sems :
       /\ Live(s)
       /\ CountGive(s, 0)
       /\ pend' = [pend EXCEPT ![s] = @ + 1]
  /\ total' = total + 1
  /\ UNCHANGED <<cnt, used, pvars, critvars, creates>>

\* twai_sem takes a count or starts to wait.  A take that returns at once with
\* E_TMOUT or E_CTX changes nothing.
Take(p) ==
  /\ At(p, "idle") /\ "take" \in Ops[p] /\ ~TaskCallRefused(p)
  /\ \E s \in Sems :
       /\ Live(s)
       /\ \/ /\ cnt[s] > 0
             /\ cnt' = [cnt EXCEPT ![s] = @ - 1]
             /\ credit' = [credit EXCEPT ![s] = @ - 1]
             /\ UNCHANGED <<pc, on>>
          \/ /\ cnt[s] = 0
             /\ \E l \in Waiting : Go(p, l)
             /\ on' = [on EXCEPT ![p] = s]
             /\ UNCHANGED <<cnt, credit>>
  /\ UNCHANGED <<used, pend, total, left, critvars, creates, gives>>

TakeTimeout(p) ==
  /\ At(p, "wait_timed")
  /\ Go(p, "idle")
  /\ on' = [on EXCEPT ![p] = NoSem]
  /\ UNCHANGED <<svars, left, critvars, hvars>>

-----------------------------------------------------------------------------
(* Critical sections and esp_shim_sem_flush_pending.                       *)

EnterCritical(p) ==
  /\ At(p, "idle") /\ "critical" \in Ops[p]
  /\ nest < MaxNest
  /\ nest' = nest + 1
  /\ owner' = p
  /\ UNCHANGED <<svars, pvars, hvars>>

\* Mutant: the outermost exit does not flush.
ExitCriticalNoFlush(p) ==
  /\ At(p, "idle") /\ Masked(p)
  /\ nest' = nest - 1
  /\ owner' = IF nest = 1 THEN NoProc ELSE owner
  /\ UNCHANGED <<svars, pvars, hvars>>

\* Every caller entered with interrupts enabled, so the outermost exit restores
\* MIE and flushes.
ExitCritical(p) ==
  /\ At(p, "idle") /\ Masked(p)
  /\ nest' = nest - 1
  /\ \/ /\ nest = 1
        /\ owner' = NoProc
        /\ Go(p, "flush")
     \/ /\ nest > 1
        /\ UNCHANGED <<owner, pc>>
  /\ UNCHANGED <<svars, on, left, hvars>>

\* The fast path reads shim_sem_pend_total without the lock.
FlushStart(p) ==
  /\ At(p, "flush")
  /\ \/ /\ total = 0
        /\ Go(p, "idle")
        /\ UNCHANGED on
     \/ /\ total > 0
        /\ Go(p, "pop")
        /\ on' = [on EXCEPT ![p] = 1]
  /\ UNCHANGED <<svars, left, critvars, hvars>>

\* One entry of the loop: a pending give is taken off under the lock.
FlushPop(p) ==
  /\ At(p, "pop") /\ pend[on[p]] > 0
  /\ pend' = [pend EXCEPT ![on[p]] = @ - 1]
  /\ total' = total - 1
  /\ Go(p, "sig")
  /\ UNCHANGED <<cnt, used, on, left, critvars, hvars>>

FlushNext(p) ==
  /\ At(p, "pop") /\ pend[on[p]] = 0
  /\ \/ /\ on[p] < NumSem
        /\ on' = [on EXCEPT ![p] = @ + 1]
        /\ UNCHANGED pc
     \/ /\ on[p] = NumSem
        /\ on' = [on EXCEPT ![p] = NoSem]
        /\ Go(p, "idle")
  /\ UNCHANGED <<svars, left, critvars, hvars>>

\* Mutant: at most one pending give of each semaphore is repaid.
FlushSignalOnce(p) ==
  /\ At(p, "sig")
  /\ credit' = [credit EXCEPT ![on[p]] = @ - Handed(on[p])]
  /\ IF on[p] < NumSem THEN SigSem(p, on[p], "pop", on[p] + 1)
                       ELSE SigSem(p, on[p], "idle", NoSem)
  /\ UNCHANGED <<used, pend, total, left, critvars, creates, gives>>

\* ... and repaid with sig_sem after the lock was released.
FlushSignal(p) ==
  /\ At(p, "sig")
  /\ credit' = [credit EXCEPT ![on[p]] = @ - Handed(on[p])]
  /\ SigSem(p, on[p], "pop", on[p])
  /\ UNCHANGED <<used, pend, total, left, critvars, creates, gives>>

-----------------------------------------------------------------------------
Work(p) ==
  \/ Drain(p) \/ InitialGive(p) \/ CreateReturn(p)
  \/ TakeTimeout(p)
  \/ FlushStart(p) \/ FlushPop(p) \/ FlushNext(p) \/ FlushSignal(p)

Call(p) ==
  \/ Create(p) \/ Delete(p) \/ Give(p) \/ GiveMasked(p) \/ Take(p)
  \/ EnterCritical(p)

Next == \E p \in Procs : Work(p) \/ ExitCritical(p) \/ Call(p)

Spec == Init /\ [][Next]_vars

\* Code inside a call does not stop, a critical section does not nest for ever,
\* and interrupts do not come so fast that a ready context never runs.
Fairness ==
  \A p \in Procs : /\ SF_vars(Work(p))
                   /\ WF_vars(ExitCritical(p))
                   /\ SF_vars(nest = 1 /\ ExitCritical(p))

FairSpec == Spec /\ Fairness

-----------------------------------------------------------------------------
(* Properties.                                                             *)

\* Gives taken off shim_sem_pend that have not reached the kernel semaphore yet.
InFlight(s) == Cardinality({p \in Procs : pc[p] = "sig" /\ on[p] = s})

\* shim_sem_pend_total is the number of pending gives, so that the flush's
\* unlocked fast path skips the loop only when there is nothing to repay.
PendingGives == UNION {{s} \X (1..pend[s]) : s \in Sems}
TotalIsSum   == total = Cardinality(PendingGives)

\* Every give reported as made, and no other, is in the kernel count, pending,
\* or about to be repaid: nothing given is lost and nothing is carried over
\* from an earlier user of the entry, whichever contexts give, take and flush.
GiveConservation ==
  \A s \in Sems : Live(s) => credit[s] = cnt[s] + pend[s] + InFlight(s)

\* A pending give always has somebody who will repay it: the section that made
\* it pending is open, or a flush has not passed its entry yet.
NoStrandedGive ==
  \A s \in Sems : pend[s] > 0 =>
    \/ owner # NoProc
    \/ \E p \in Procs : \/ pc[p] = "flush"
                        \/ pc[p] \in {"pop", "sig"} /\ on[p] <= s

\* A task that alone waits on a semaphore with a pending give does not sleep on:
\* the give is repaid and wakes it (the lost ACL packet of esp_shim_core.c:284).
PendedGiveWakes ==
  \A w \in Tasks, s \in Sems :
    (Waiters(s) = {w} /\ pend[s] > 0) ~> pc[w] \notin Waiting

\* esp_shim_core.c:305 and :335-337: a reused entry brings no ghost give of
\* its last user into its new user's count.  See the README.
NoGhostGive ==
  \A s \in Sems : Live(s) => cnt[s] + pend[s] <= credit[s]
=============================================================================
