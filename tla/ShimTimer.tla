------------------------------ MODULE ShimTimer ------------------------------
(***************************************************************************)
(* The ets_timers of the OS-adapter shim and the task that runs them       *)
(* (src/esp/common/wifi/esp_shim_core.c, esp_shim_timer_*, with            *)
(* esp_shim_signal_or_pend and esp_shim_wakeup_flush_pending).             *)
(*                                                                         *)
(* A timer is known by its key, the address of the caller's ETSTimer; its  *)
(* node is found or created in a linked list in two locked regions with an *)
(* allocation between them.  The timer task looks for an expired node      *)
(* under the lock, calls its function outside it, and otherwise sleeps on  *)
(* SHIM_TIMER_SEM until the nearest deadline.  An arm wakes it; an arm     *)
(* with interrupts masked leaves the wakeup to esp_shim_exit_critical.     *)
(*                                                                         *)
(* Scheduling is that of ShimQueue.  Time is counted in a unit shorter     *)
(* than the shortest sleep and passes while a timer waits for it.          *)
(***************************************************************************)
EXTENDS Integers, Sequences, FiniteSets, SequencesExt

CONSTANTS
  TimerTask,  \* SHIM_TIMER_TSK
  Tasks,      \* the tasks, TimerTask among them
  Isrs,
  Prio,       \* [Tasks -> Int], smaller is more urgent
  Ops,        \* [Procs -> SUBSET OpNames]: what each context calls; TimerTask
              \* calls it from a timer's function
  Keys,       \* the callers' timers
  Nodes,      \* the nodes the heap has room for
  Delays,     \* the delays timers are armed with
  MinSleep,   \* the 1000 microseconds a wait is raised to
  MaxSleep,   \* TMAX_RELTIM, a wait is cut down to
  MaxTime,    \* bound: time stops when no timer due by MaxTime is left
  MaxCalls,   \* bound: number of calls
  NoProc, NoKey, NoNode

Procs   == Tasks \cup Isrs
OpNames == {"setfn", "arm", "arm_unset", "disarm", "done", "critical"}

ASSUME ProcsAssumption == /\ IsFiniteSet(Procs) /\ IsFiniteSet(Nodes)
                          /\ TimerTask \in Tasks /\ Tasks \cap Isrs = {}
                          /\ NoProc \notin Procs
                          /\ NoKey \notin Keys /\ NoNode \notin Nodes
ASSUME CallsAssumption == /\ Prio \in [Tasks -> Int]
                          /\ Ops \in [Procs -> SUBSET OpNames]
                          /\ Delays \subseteq Nat \ {0}
ASSUME BoundsAssumption == /\ MinSleep \in Nat \ {0} /\ MaxSleep \in Nat
                           /\ MinSleep <= MaxSleep
                           /\ MaxTime \in Nat /\ MaxCalls \in Nat

VARIABLES
  list,       \* shim_timer_list, from its head
  node,       \* the fields of each node: key, fn # NULL, deadline, period
  sem,        \* count of SHIM_TIMER_SEM, at most 1
  wpend,      \* SHIM_TIMER_SEM is in shim_wakeup_pend
  pc,         \* where each context is in its call
  job,        \* the call: operation, key, delay, repeat
  ptr,        \* the node the call has found or allocated
  owner,      \* the context that runs with mstatus.MIE = 0, or NoProc
  time,       \* esp_shim_time_us()
  tnow,       \* the timer task's now
  sleep,      \* the timeout it passes to twai_sem
  wake,       \* when that timeout ends
  due,        \* history: when the callers expect each timer, 0 for never
  calls       \* history: number of calls

tvars    == <<list, node>>
semvars  == <<sem, wpend>>
pvars    == <<pc, job, ptr>>
clock    == <<time, tnow, sleep, wake>>
hvars    == <<due, calls>>
vars     == <<tvars, semvars, pvars, owner, clock, hvars>>

Forever == 0
NoJob   == [op |-> "none", key |-> NoKey, us |-> 0, repeat |-> FALSE]
Unused  == [key |-> NoKey, fn |-> FALSE, dl |-> 0, per |-> 0]
Labels  == {"idle", "now", "scan", "sleep", "wait", "call", "find", "alloc",
            "insert", "setfn", "arm", "disarm", "signal", "wpop", "wsig"}

Listed == Range(list)

TypeOK ==
  /\ list \in Seq(Nodes)
  /\ node \in [Nodes -> [key : Keys \cup {NoKey}, fn : BOOLEAN, dl : Nat, per : Nat]]
  /\ sem \in 0..1 /\ wpend \in BOOLEAN
  /\ pc \in [Procs -> Labels]
  /\ job \in [Procs -> [op : OpNames \cup {"none"}, key : Keys \cup {NoKey},
                        us : Delays \cup {0}, repeat : BOOLEAN]]
  /\ ptr \in [Procs -> Nodes \cup {NoNode}]
  /\ owner \in Procs \cup {NoProc}
  /\ time \in 1..(MaxTime + MaxSleep) /\ tnow \in 0..(MaxTime + MaxSleep)
  /\ sleep \in 0..MaxSleep /\ wake \in Nat
  /\ due \in [Keys -> Nat] /\ calls \in 0..MaxCalls

Init ==
  /\ list = <<>> /\ node = [n \in Nodes |-> Unused]
  /\ sem = 0 /\ wpend = FALSE
  /\ pc = [p \in Procs |-> IF p = TimerTask THEN "now" ELSE "idle"]
  /\ job = [p \in Procs |-> NoJob]
  /\ ptr = [p \in Procs |-> NoNode]
  /\ owner = NoProc
  /\ time = 1 /\ tnow = 0 /\ sleep = Forever /\ wake = 0
  /\ due = [k \in Keys |-> 0] /\ calls = 0

-----------------------------------------------------------------------------
(* Scheduling.                                                             *)

Suspended(q) == pc[q] \in {"idle", "wait"}

CanRun(p) ==
  /\ owner \in {p, NoProc}
  /\ p \in Tasks =>
       /\ \A i \in Isrs : pc[i] = "idle"
       /\ \A q \in Tasks : Prio[q] < Prio[p] => Suspended(q)

At(p, l) == pc[p] = l /\ CanRun(p)
Go(p, l) == pc' = [pc EXCEPT ![p] = l]
Masked(p) == owner = p

\* Where a context is between two calls; the timer task is in a timer's function.
Rest(p) == IF p = TimerTask THEN "call" ELSE "idle"

\* sig_sem(SHIM_TIMER_SEM) succeeding in context p, which continues at l.
SigSem(p, l) ==
  \/ /\ pc[TimerTask] = "wait"
     /\ pc' = [pc EXCEPT ![TimerTask] = "now", ![p] = l]
     /\ UNCHANGED sem
  \/ /\ pc[TimerTask] # "wait"
     /\ sem' = 1
     /\ Go(p, l)

-----------------------------------------------------------------------------
(* The calls, and esp_shim_timer_find.                                     *)

\* No other context is in the middle of a call about timer k.
Alone(p, k) == \A q \in Procs \ {p} : job[q].key # k

HasFunction(k) == \E n \in Listed : node[n].key = k /\ node[n].fn

Start(p, op, k, us, repeat) ==
  /\ At(p, Rest(p)) /\ op \in Ops[p]
  /\ calls < MaxCalls
  /\ calls' = calls + 1
  /\ job' = [job EXCEPT ![p] = [op |-> op, key |-> k, us |-> us, repeat |-> repeat]]
  /\ Go(p, "find")
  /\ UNCHANGED <<tvars, semvars, ptr, owner, clock, due>>

SetFnCall(p)  == \E k \in Keys : Start(p, "setfn", k, 0, FALSE)
DisarmCall(p) == \E k \in Keys : Start(p, "disarm", k, 0, FALSE)

\* A caller gives a timer its function before it arms it, but need not.
ArmCall(p) ==
  \E k \in Keys, us \in Delays, repeat \in BOOLEAN :
    /\ HasFunction(k) \/ "arm_unset" \in Ops[p]
    /\ Start(p, "arm", k, us, repeat)

Return(p) ==
  /\ Go(p, Rest(p))
  /\ job' = [job EXCEPT ![p] = NoJob]
  /\ ptr' = [ptr EXCEPT ![p] = NoNode]

\* The first node of the list with key k.
Match(k) == SelectInSeq(list, LAMBDA n : node[n].key = k)

\* The first locked scan: found, not found and not to be created, or to be
\* created.
Find(p) ==
  /\ At(p, "find")
  /\ LET i == Match(job[p].key)
     IN \/ /\ i # 0
           /\ ptr' = [ptr EXCEPT ![p] = list[i]]
           /\ Go(p, job[p].op)
           /\ UNCHANGED job
        \/ /\ i = 0 /\ job[p].op = "disarm"
           /\ Return(p)
        \/ /\ i = 0 /\ job[p].op # "disarm"
           /\ Go(p, "alloc")
           /\ UNCHANGED <<job, ptr>>
  /\ UNCHANGED <<tvars, semvars, owner, clock, hvars>>

Allocated == Listed \cup {ptr[p] : p \in {q \in Procs : pc[q] = "insert"}}

\* esp_shim_calloc outside the lock; the rest of the program may have taken all
\* the heap.
Alloc(p) ==
  /\ At(p, "alloc")
  /\ \/ /\ Return(p)
        /\ UNCHANGED node
     \/ /\ \lnot Nodes \subseteq Allocated
        /\ LET n == CHOOSE m \in Nodes : m \notin Allocated
           IN /\ node' = [node EXCEPT ![n] = Unused]
              /\ ptr' = [ptr EXCEPT ![p] = n]
        /\ Go(p, "insert")
        /\ UNCHANGED job
  /\ UNCHANGED <<list, semvars, owner, clock, hvars>>

\* Mutant: the list is not scanned again.
InsertBlind(p) ==
  /\ At(p, "insert")
  /\ node' = [node EXCEPT ![ptr[p]].key = job[p].key]
  /\ list' = <<ptr[p]>> \o list
  /\ Go(p, job[p].op)
  /\ UNCHANGED <<semvars, job, ptr, owner, clock, hvars>>

\* The second locked scan: the node another context has inserted meanwhile is
\* used and the new one freed; else the new one is inserted.
Insert(p) ==
  /\ At(p, "insert")
  /\ LET i == Match(job[p].key)
     IN \/ /\ i # 0
           /\ ptr' = [ptr EXCEPT ![p] = list[i]]
           /\ UNCHANGED tvars
        \/ /\ i = 0
           /\ node' = [node EXCEPT ![ptr[p]].key = job[p].key]
           /\ list' = <<ptr[p]>> \o list
           /\ UNCHANGED ptr
  /\ Go(p, job[p].op)
  /\ UNCHANGED <<semvars, job, owner, clock, hvars>>

-----------------------------------------------------------------------------
(* The second halves of the calls, through the pointer.                    *)

SetDue(k, d) == due' = [due EXCEPT ![k] = d]

SetFn(p) ==
  /\ At(p, "setfn")
  /\ node' = [node EXCEPT ![ptr[p]].fn = TRUE, ![ptr[p]].dl = 0]
  /\ SetDue(job[p].key, 0)
  /\ Return(p)
  /\ UNCHANGED <<list, semvars, owner, clock, calls>>

Disarm(p) ==
  /\ At(p, "disarm")
  /\ node' = [node EXCEPT ![ptr[p]].dl = 0]
  /\ SetDue(job[p].key, 0)
  /\ Return(p)
  /\ UNCHANGED <<list, semvars, owner, clock, calls>>

Arm(p) ==
  /\ At(p, "arm")
  /\ node' = [node EXCEPT ![ptr[p]].dl = time + job[p].us,
                          ![ptr[p]].per = IF job[p].repeat THEN job[p].us ELSE 0]
  /\ SetDue(job[p].key, time + job[p].us)
  /\ Go(p, "signal")
  /\ UNCHANGED <<list, semvars, job, ptr, owner, clock, calls>>

\* Mutant: the wakeup is lost when sig_sem returns E_CTX.
SignalOrLose(p) ==
  /\ At(p, "signal")
  /\ IF Masked(p) THEN Go(p, Rest(p)) /\ UNCHANGED sem ELSE SigSem(p, Rest(p))
  /\ job' = [job EXCEPT ![p] = NoJob]
  /\ ptr' = [ptr EXCEPT ![p] = NoNode]
  /\ UNCHANGED <<tvars, wpend, owner, clock, hvars>>

\* esp_shim_signal_or_pend.  The pend array has room: two semaphores use it.
SignalOrPend(p) ==
  /\ At(p, "signal")
  /\ \/ /\ ~Masked(p)
        /\ SigSem(p, Rest(p))
        /\ UNCHANGED wpend
     \/ /\ Masked(p)
        /\ wpend' = TRUE
        /\ Go(p, Rest(p))
        /\ UNCHANGED sem
  /\ job' = [job EXCEPT ![p] = NoJob]
  /\ ptr' = [ptr EXCEPT ![p] = NoNode]
  /\ UNCHANGED <<tvars, owner, clock, hvars>>

\* Unlink and free.  A caller ends a timer it is the only one to use.
Done(p) ==
  /\ At(p, Rest(p)) /\ "done" \in Ops[p]
  /\ calls < MaxCalls
  /\ calls' = calls + 1
  /\ \E k \in Keys :
       /\ Alone(p, k)
       /\ Match(k) # 0
       /\ list' = RemoveAt(list, Match(k))
       /\ node' = [node EXCEPT ![list[Match(k)]] = Unused]
       /\ SetDue(k, 0)
  /\ UNCHANGED <<semvars, pvars, owner, clock>>

-----------------------------------------------------------------------------
(* esp_shim_timer_task                                                     *)

\* A new round: the last timeout is forgotten.
ReadTime ==
  /\ At(TimerTask, "now")
  /\ tnow' = time
  /\ sleep' = Forever /\ wake' = 0
  /\ Go(TimerTask, "scan")
  /\ UNCHANGED <<tvars, semvars, job, ptr, owner, time, hvars>>

Armed(n)   == node[n].dl # 0
Expired(n) == Armed(n) /\ node[n].dl <= tnow
FirstExpired == SelectInSeq(list, Expired)

\* The nearest of deadlines D.
Nearest(D) == CHOOSE d \in D : \A e \in D : d <= e

\* A wait w, raised to the shortest sleep or cut down to the longest.
Clamp(w) ==
  IF w < MinSleep THEN MinSleep ELSE IF w > MaxSleep THEN MaxSleep ELSE w

\* The timeout for deadlines D, which are all after tnow.
\* Mutants: a long one is not cut down; it is left to the last of them.
TimeoutUnclamped(D) ==
  IF D = {} THEN Forever
  ELSE LET w == Nearest(D) - tnow IN IF w < MinSleep THEN MinSleep ELSE w

TimeoutLast(D) ==
  IF D = {} THEN Forever
  ELSE Clamp((CHOOSE d \in D : \A e \in D : e <= d) - tnow)

Timeout(D) ==
  IF D = {} THEN Forever ELSE Clamp(Nearest(D) - tnow)

\* The armed deadlines among the first i nodes of the list.
Deadlines(i) == {node[list[j]].dl : j \in {m \in 1..i : Armed(list[m])}}

\* Mutant: a timer that is called stays armed.
ScanExpiredKeeps ==
  /\ At(TimerTask, "scan")
  /\ FirstExpired # 0
  /\ SetDue(node[list[FirstExpired]].key, 0)
  /\ Go(TimerTask, "call")
  /\ UNCHANGED <<tvars, semvars, job, ptr, owner, clock, calls>>

\* The locked scan stops at an expired node and disarms it, or rearms it when it
\* is periodic.  Its function is called after the lock is released; when it has
\* none the task goes to sleep for the deadlines it has met so far.
ScanExpired ==
  /\ At(TimerTask, "scan")
  /\ FirstExpired # 0
  /\ LET n == list[FirstExpired]
         d == IF node[n].per # 0 THEN tnow + node[n].per ELSE 0
     IN /\ node' = [node EXCEPT ![n].dl = d]
        /\ SetDue(node[n].key, d)
        /\ Go(TimerTask, IF node[n].fn THEN "call" ELSE "sleep")
        /\ sleep' = IF node[n].fn THEN sleep ELSE Timeout(Deadlines(FirstExpired - 1))
  /\ UNCHANGED <<list, semvars, job, ptr, owner, time, tnow, wake, calls>>

ScanNothing ==
  /\ At(TimerTask, "scan")
  /\ FirstExpired = 0
  /\ sleep' = Timeout(Deadlines(Len(list)))
  /\ Go(TimerTask, "sleep")
  /\ UNCHANGED <<tvars, semvars, job, ptr, owner, time, tnow, wake, hvars>>

\* The function of the timer returns.
FunctionReturns ==
  /\ At(TimerTask, "call") /\ ~Masked(TimerTask)
  /\ Go(TimerTask, "now")
  /\ UNCHANGED <<tvars, semvars, job, ptr, owner, clock, hvars>>

\* twai_sem(SHIM_TIMER_SEM, ...)
Sleep ==
  /\ At(TimerTask, "sleep")
  /\ \/ /\ sem = 1
        /\ sem' = 0
        /\ Go(TimerTask, "now")
        /\ UNCHANGED wake
     \/ /\ sem = 0
        /\ wake' = time + sleep
        /\ Go(TimerTask, "wait")
        /\ UNCHANGED sem
  /\ UNCHANGED <<tvars, wpend, job, ptr, owner, time, tnow, sleep, hvars>>

\* The kernel's timer interrupt ends the wait.
SleepEnds ==
  /\ pc[TimerTask] = "wait" /\ owner = NoProc
  /\ sleep # Forever /\ time >= wake
  /\ Go(TimerTask, "now")
  /\ UNCHANGED <<tvars, semvars, job, ptr, owner, clock, hvars>>

\* Time passes while a timer due by MaxTime is ahead or the task sleeps over it.
Tick ==
  /\ \E n \in Listed :
       /\ Armed(n) /\ node[n].dl <= MaxTime
       /\ \/ node[n].dl > time
          \/ pc[TimerTask] = "wait" /\ sleep # Forever /\ wake > time
  /\ time' = time + 1
  /\ UNCHANGED <<tvars, semvars, pvars, owner, tnow, sleep, wake, hvars>>

-----------------------------------------------------------------------------
(* Critical sections and esp_shim_wakeup_flush_pending.                    *)

EnterCritical(p) ==
  /\ At(p, Rest(p)) /\ "critical" \in Ops[p]
  /\ ~Masked(p)
  /\ owner' = p
  /\ UNCHANGED <<tvars, semvars, pvars, clock, hvars>>

\* Mutant: the pending wakeup is not flushed.
ExitCriticalNoFlush(p) ==
  /\ At(p, Rest(p)) /\ Masked(p)
  /\ owner' = NoProc
  /\ UNCHANGED <<tvars, semvars, pvars, clock, hvars>>

\* The outermost exit restores MIE and flushes.  Inner sections change only
\* esp_shim_crit_nest (see ShimSem) and are left out.
ExitCritical(p) ==
  /\ At(p, Rest(p)) /\ Masked(p)
  /\ owner' = NoProc
  /\ Go(p, "wpop")
  /\ UNCHANGED <<tvars, semvars, job, ptr, clock, hvars>>

WakeupPop(p) ==
  /\ At(p, "wpop")
  /\ wpend' = FALSE
  /\ Go(p, IF wpend THEN "wsig" ELSE Rest(p))
  /\ UNCHANGED <<tvars, sem, job, ptr, owner, clock, hvars>>

WakeupSignal(p) ==
  /\ At(p, "wsig")
  /\ SigSem(p, "wpop")
  /\ UNCHANGED <<tvars, wpend, job, ptr, owner, clock, hvars>>

-----------------------------------------------------------------------------
Work(p) ==
  \/ Find(p) \/ Alloc(p) \/ Insert(p)
  \/ SetFn(p) \/ Disarm(p) \/ Arm(p) \/ SignalOrPend(p)
  \/ WakeupPop(p) \/ WakeupSignal(p)

TaskWork ==
  \/ ReadTime \/ ScanExpired \/ ScanNothing \/ Sleep \/ SleepEnds
  \/ FunctionReturns

Call(p) ==
  \/ SetFnCall(p) \/ ArmCall(p) \/ DisarmCall(p) \/ Done(p) \/ EnterCritical(p)

Next ==
  \/ \E p \in Procs : Work(p) \/ ExitCritical(p) \/ Call(p)
  \/ TaskWork
  \/ Tick

Spec == Init /\ [][Next]_vars

\* Calls, critical sections and timer functions end, interrupts do not come so
\* fast that a ready context never runs, and time passes.
Fairness ==
  /\ \A p \in Procs : SF_vars(Work(p)) /\ WF_vars(ExitCritical(p))
  /\ SF_vars(TaskWork /\ pc[TimerTask] # "call")
  /\ SF_vars(FunctionReturns)
  /\ WF_vars(Tick)

FairSpec == Spec /\ Fairness

-----------------------------------------------------------------------------
(* Properties.                                                             *)

\* The list says of every timer what its users last asked: one node at most per
\* key, whoever creates it, and a disarmed, ended or fired timer is in no node
\* armed.  Two nodes of one key would fire a timer after it was disarmed.
ListMatchesDue ==
  \A k \in Keys :
    LET mine == {n \in Listed : node[n].key = k}
    IN /\ Cardinality(mine) <= 1
       /\ {node[n].dl : n \in mine} \cup {0} = {due[k], 0}

\* A timer is never called before its deadline or without having been armed
\* since it was last called, disarmed or ended.
FiresWhenDue ==
  [][ScanExpired => LET k == node[list[FirstExpired]].key
                    IN due[k] # 0 /\ due[k] <= time]_vars

\* When the task will call a timer, by the list.
ListDue(k) ==
  IF Match(k) # 0 THEN node[list[Match(k)]].dl ELSE 0

\* To its callers the list with its task is an alarm clock, whichever contexts search,
\* insert, arm and end timers between the steps of the task's scan and of each other: a
\* timer changes only by a call about it or by going off, goes off when it is due, one at
\* a time, and the functions' own calls count like anyone's.
Clock == INSTANCE AlarmClock WITH
           Timers <- Keys, now <- time, due <- [k \in Keys |-> ListDue(k)],
           ringing <- pc[TimerTask] \notin {"now", "scan", "sleep", "wait"}
IsAlarmClock == Clock!Spec

WakeComing ==
  \/ sem = 1
  \/ wpend
  \/ \E p \in Procs : pc[p] \in {"signal", "wsig"}

\* The timer task does not sleep past a deadline by more than its shortest sleep:
\* it sleeps no longer than from the time it read to the nearest one, or the 1000
\* microseconds a shorter wait is raised to, or a wakeup is on its way to it.
SleepCovered ==
  pc[TimerTask] \in {"sleep", "wait"} =>
    \A n \in Listed : Armed(n) =>
      \/ WakeComing
      \/ sleep # Forever /\ (tnow + sleep <= node[n].dl \/ sleep = MinSleep)

\* A pending wakeup has somebody who will deliver it.
WakeupNotStranded ==
  wpend => owner # NoProc \/ \E p \in Procs : pc[p] \in {"wpop", "wsig"}

\* A timer whose time has come does not stay so: it is called, disarmed, ended
\* or armed anew, even if it was armed in the middle of a critical section.
OverdueIsServed ==
  \A k \in Keys :
    (due[k] \in 1..MaxTime /\ due[k] <= time) ~> (due[k] = 0 \/ due[k] > time)
=============================================================================
