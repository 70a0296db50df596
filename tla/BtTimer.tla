------------------------------- MODULE BtTimer -------------------------------
(***************************************************************************)
(* The esp_timers of the Bluetooth shim and the task that runs them        *)
(* (src/esp/c3/bt/bt_shim.c; the C5 and C6 have the same code).            *)
(*                                                                         *)
(* A pool of BT_TIMER_NUM slots.  Every access but the filling of a new    *)
(* slot is a region with interrupts disabled, one action here.  The task   *)
(* picks one expired timer in a locked scan, calls it outside the lock and *)
(* scans again; with none expired it sleeps on BT_TIMER_SEM until the      *)
(* nearest deadline.  A start wakes it, and a start made with interrupts   *)
(* masked leaves the wakeup to the end of the caller's critical section    *)
(* (ShimTimer has the steps of that hand-over).  Contexts interleave       *)
(* freely where interrupts are enabled: priorities are left open.          *)
(***************************************************************************)
EXTENDS Integers, FiniteSets, FiniteSetsExt

CONSTANTS
  BtTask,     \* BT_TIMER_TSK
  BtHost,     \* the task that creates and deletes timers
  BtIsr,      \* an interrupt handler that starts timers
  BtTimers,   \* the timers of the callers, each with its callback
  BT_TIMER_NUM,
  BtDelays,   \* the delays and periods asked for
  BtMaxSleep, \* TMAX_RELTIM
  BtMaxTime,  \* bound: time stops
  BtMaxCalls, \* bound: number of calls
  BtNone

BtProcs == {BtTask, BtHost, BtIsr}
BtSlots == 0 .. BT_TIMER_NUM - 1

ASSUME BtAssumption == /\ Cardinality(BtProcs) = 3 /\ BtNone \notin BtProcs \cup BtTimers
                       /\ BT_TIMER_NUM \in Nat \ {0} /\ BtDelays \subseteq Nat \ {0}
                       /\ BtMaxSleep \in Nat \ {0}
                       /\ BtMaxTime \in Nat /\ BtMaxCalls \in Nat

VARIABLES
  btSlot,    \* bt_timer_pool
  btSem,     \* count of BT_TIMER_SEM, at most 1
  btPend,    \* BT_TIMER_SEM waits in the shim's table of pended wakeups
  btPc,      \* where each context is in its call
  btJob,     \* the timer whose callback the task calls, or that is created
  btOwner,   \* the context that runs with mstatus.MIE = 0, or BtNone
  btTime,    \* esp_shim_time_us()
  btNow,     \* the task's now
  btNear,    \* its nearest: Never, or a deadline
  btTmo,     \* the timeout it passes to twai_sem
  btWake,    \* when that timeout ends
  btHandle,  \* the slot each caller holds for its timer, or -1
  btDue,     \* history: when the callers expect each timer, 0 for never
  btCalls    \* history: number of calls

btWakes == <<btSem, btPend>>
btClock == <<btTime, btNow, btNear, btTmo, btWake>>
btHist  == <<btDue, btCalls>>
btVars  == <<btSlot, btWakes, btPc, btJob, btOwner, btClock, btHandle, btHist>>

BtNever  == -1     \* nearest < 0, and TMO_FEVR
BtLabels == {"idle", "fill", "signal", "flush", "now", "scan", "call", "nap",
             "twai", "wait"}
BtUnused == [used |-> FALSE, active |-> FALSE, dl |-> 0, per |-> 0, cb |-> BtNone]

BtTypeOK ==
  /\ btSlot \in [BtSlots -> [used : BOOLEAN, active : BOOLEAN, dl : Nat,
                             per : BtDelays \cup {0}, cb : BtTimers \cup {BtNone}]]
  /\ btSem \in 0..1 /\ btPend \in BOOLEAN
  /\ btPc \in [BtProcs -> BtLabels]
  /\ btJob \in [BtProcs -> BtTimers \cup {BtNone}]
  /\ btOwner \in BtProcs \cup {BtNone}
  /\ btTime \in Nat /\ btNow \in Nat /\ btWake \in Nat
  /\ btNear \in Nat \cup {BtNever} /\ btTmo \in 0..BtMaxSleep \cup {BtNever}
  /\ btHandle \in [BtTimers -> BtSlots \cup {-1}]
  /\ btDue \in [BtTimers -> Nat] /\ btCalls \in 0..BtMaxCalls

BtInit ==
  /\ btSlot = [s \in BtSlots |-> BtUnused]
  /\ btSem = 0 /\ btPend = FALSE
  /\ btPc = [p \in BtProcs |-> IF p = BtTask THEN "now" ELSE "idle"]
  /\ btJob = [p \in BtProcs |-> BtNone]
  /\ btOwner = BtNone
  /\ btTime = 1 /\ btNow = 0 /\ btNear = BtNever /\ btTmo = 0 /\ btWake = 0
  /\ btHandle = [k \in BtTimers |-> -1]
  /\ btDue = [k \in BtTimers |-> 0] /\ btCalls = 0

-----------------------------------------------------------------------------
(* The calls.  The task makes them from a callback.                        *)

BtAt(p, l) == btPc[p] = l /\ btOwner \in {p, BtNone}
BtGo(p, l) == btPc' = [btPc EXCEPT ![p] = l]
BtRest(p)  == IF p = BtTask THEN "call" ELSE "idle"

BtCall(p) ==
  /\ BtAt(p, BtRest(p))
  /\ btCalls < BtMaxCalls /\ btCalls' = btCalls + 1

BtHeld(k) == btHandle[k] # -1
BtFree    == {s \in BtSlots : ~btSlot[s].used}

\* The locked search of esp_timer_create, which fails when no slot is free ...
BtCreate(k) ==
  /\ BtCall(BtHost) /\ ~BtHeld(k)
  /\ \/ BtFree = {} /\ UNCHANGED <<btSlot, btPc, btJob, btHandle>>
     \/ /\ BtFree # {}
        /\ btSlot' = [btSlot EXCEPT ![Min(BtFree)].used = TRUE]
        /\ btHandle' = [btHandle EXCEPT ![k] = Min(BtFree)]
        /\ btJob' = [btJob EXCEPT ![BtHost] = k]
        /\ BtGo(BtHost, "fill")
  /\ UNCHANGED <<btWakes, btOwner, btClock, btDue>>

\* ... and the fields, set after the unlock; the handle is returned with them.
BtFill ==
  /\ BtAt(BtHost, "fill")
  /\ LET k == btJob[BtHost]
     IN btSlot' = [btSlot EXCEPT ![btHandle[k]] =
                     [@ EXCEPT !.active = FALSE, !.cb = k, !.per = 0]]
  /\ btJob' = [btJob EXCEPT ![BtHost] = BtNone]
  /\ BtGo(BtHost, "idle")
  /\ UNCHANGED <<btWakes, btOwner, btClock, btHandle, btHist>>

\* A handle is usable once esp_timer_create has returned it.
BtUsable(k) == BtHeld(k) /\ btJob[BtHost] # k

BtDelete(k) ==
  /\ BtCall(BtHost) /\ BtUsable(k)
  /\ btSlot' = [btSlot EXCEPT ![btHandle[k]].active = FALSE,
                              ![btHandle[k]].used = FALSE]
  /\ btHandle' = [btHandle EXCEPT ![k] = -1]
  /\ btDue' = [btDue EXCEPT ![k] = 0]
  /\ UNCHANGED <<btWakes, btPc, btJob, btOwner, btClock>>

BtStop(p, k) ==
  /\ BtCall(p) /\ BtUsable(k)
  /\ btSlot' = [btSlot EXCEPT ![btHandle[k]].active = FALSE]
  /\ btDue' = [btDue EXCEPT ![k] = 0]
  /\ UNCHANGED <<btWakes, btPc, btJob, btOwner, btClock, btHandle>>

\* timer_start, to the unlock; period 0 is esp_timer_start_once.
BtStart(p, k, delay, period) ==
  /\ BtCall(p) /\ BtUsable(k)
  /\ btSlot' = [btSlot EXCEPT ![btHandle[k]] =
                  [@ EXCEPT !.dl = btTime + delay, !.per = period, !.active = TRUE]]
  /\ btDue' = [btDue EXCEPT ![k] = btTime + delay]
  /\ BtGo(p, "signal")
  /\ UNCHANGED <<btWakes, btJob, btOwner, btClock, btHandle>>

\* sig_sem(BT_TIMER_SEM), after which p continues at l.
BtSigSem(p, l) ==
  \/ /\ btPc[BtTask] = "wait"
     /\ btPc' = [btPc EXCEPT ![BtTask] = "now", ![p] = l]
     /\ UNCHANGED btSem
  \/ /\ btPc[BtTask] # "wait"
     /\ btSem' = 1
     /\ BtGo(p, l)

\* esp_shim_signal_or_pend at the end of timer_start.
BtSignal(p) ==
  /\ BtAt(p, "signal")
  /\ \/ btOwner # p /\ BtSigSem(p, BtRest(p)) /\ UNCHANGED btPend
     \/ btOwner = p /\ btPend' = TRUE /\ BtGo(p, BtRest(p)) /\ UNCHANGED btSem
  /\ UNCHANGED <<btSlot, btJob, btOwner, btClock, btHandle, btHist>>

\* A critical section of the caller around its calls; it ends with the flush.
BtEnter ==
  /\ BtCall(BtHost) /\ btOwner = BtNone
  /\ btOwner' = BtHost
  /\ UNCHANGED <<btSlot, btWakes, btPc, btJob, btClock, btHandle, btDue>>

BtExit ==
  /\ BtAt(BtHost, "idle") /\ btOwner = BtHost
  /\ btOwner' = BtNone
  /\ BtGo(BtHost, IF btPend THEN "flush" ELSE "idle")
  /\ UNCHANGED <<btSlot, btWakes, btJob, btClock, btHandle, btHist>>

BtFlush ==
  /\ BtAt(BtHost, "flush")
  /\ btPend' = FALSE
  /\ BtSigSem(BtHost, "idle")
  /\ UNCHANGED <<btSlot, btJob, btOwner, btClock, btHandle, btHist>>

-----------------------------------------------------------------------------
(* bt_timer_task                                                           *)

BtReadNow ==
  /\ BtAt(BtTask, "now")
  /\ btNow' = btTime
  /\ btNear' = BtNever /\ btTmo' = 0 /\ btWake' = 0
  /\ BtGo(BtTask, "scan")
  /\ UNCHANGED <<btSlot, btWakes, btJob, btOwner, btTime, btHandle, btHist>>

BtActive  == {s \in BtSlots : btSlot[s].used /\ btSlot[s].active}
BtExpired == {s \in BtActive : btSlot[s].dl <= btNow}

\* The locked scan picks the first expired slot: a periodic timer is due again
\* one period later, another one is no longer active.
BtPick ==
  /\ BtAt(BtTask, "scan") /\ BtExpired # {}
  /\ LET s == Min(BtExpired)
         k == btSlot[s].cb
         d == btSlot[s].dl + btSlot[s].per
     IN /\ btSlot' = IF btSlot[s].per # 0 THEN [btSlot EXCEPT ![s].dl = d]
                                          ELSE [btSlot EXCEPT ![s].active = FALSE]
        /\ btDue' = [btDue EXCEPT ![k] = IF btSlot[s].per # 0 THEN d ELSE 0]
        /\ btJob' = [btJob EXCEPT ![BtTask] = k]
  /\ BtGo(BtTask, "call")
  /\ UNCHANGED <<btWakes, btOwner, btClock, btHandle, btCalls>>

\* Mutant: a timer without a period is made inactive after its callback.
BtCalledDeactivates ==
  /\ BtAt(BtTask, "call")
  /\ LET s == btHandle[btJob[BtTask]]
     IN btSlot' = IF s # -1 /\ btSlot[s].per = 0
                  THEN [btSlot EXCEPT ![s].active = FALSE] ELSE btSlot
  /\ btJob' = [btJob EXCEPT ![BtTask] = BtNone]
  /\ BtGo(BtTask, "now")
  /\ UNCHANGED <<btWakes, btOwner, btClock, btHandle, btHist>>

\* The callback, called outside the lock, returns: the task scans again.
BtCalled ==
  /\ BtAt(BtTask, "call")
  /\ btJob' = [btJob EXCEPT ![BtTask] = BtNone]
  /\ BtGo(BtTask, "now")
  /\ UNCHANGED <<btSlot, btWakes, btOwner, btClock, btHandle, btHist>>

BtNearest == IF BtActive = {} THEN BtNever ELSE Min({btSlot[s].dl : s \in BtActive})

BtScanned ==
  /\ BtAt(BtTask, "scan") /\ BtExpired = {}
  /\ btNear' = BtNearest
  /\ BtGo(BtTask, "nap")
  /\ UNCHANGED <<btSlot, btWakes, btJob, btOwner, btTime, btNow, btTmo, btWake,
                 btHandle, btHist>>

\* The second reading of the time and the timeout, kept within 0..TMAX_RELTIM.
BtNap ==
  /\ BtAt(BtTask, "nap")
  /\ btNow' = btTime
  /\ btTmo' = IF btNear = BtNever THEN BtNever
              ELSE Max({0, Min({btNear - btTime, BtMaxSleep})})
  /\ BtGo(BtTask, "twai")
  /\ UNCHANGED <<btSlot, btWakes, btJob, btOwner, btTime, btNear, btWake, btHandle,
                 btHist>>

\* twai_sem: the count is taken, timeout 0 only polls, else the task waits.
BtTwai ==
  /\ BtAt(BtTask, "twai")
  /\ btSem' = 0
  /\ btWake' = IF btTmo > 0 THEN btTime + btTmo ELSE 0
  /\ BtGo(BtTask, IF btSem = 1 \/ btTmo = 0 THEN "now" ELSE "wait")
  /\ UNCHANGED <<btSlot, btPend, btJob, btOwner, btTime, btNow, btNear, btTmo,
                 btHandle, btHist>>

BtTimeout ==
  /\ btPc[BtTask] = "wait" /\ btTmo # BtNever /\ btWake <= btTime
  /\ BtGo(BtTask, "now")
  /\ UNCHANGED <<btSlot, btWakes, btJob, btOwner, btClock, btHandle, btHist>>

BtTick ==
  /\ btTime < BtMaxTime
  /\ btTime' = btTime + 1
  /\ UNCHANGED <<btSlot, btWakes, btPc, btJob, btOwner, btNow, btNear, btTmo, btWake,
                 btHandle, btHist>>

BtStartAny(p) == \E k \in BtTimers, d \in BtDelays, per \in BtDelays \cup {0} :
                   /\ per \in {0, d}
                   /\ BtStart(p, k, d, per)

BtNext ==
  \/ \E k \in BtTimers : BtCreate(k) \/ BtDelete(k)
  \/ \E p \in BtProcs : BtStartAny(p) \/ BtSignal(p)
  \/ \E p \in {BtTask, BtHost}, k \in BtTimers : BtStop(p, k)
  \/ BtFill \/ BtEnter \/ BtExit \/ BtFlush
  \/ BtReadNow \/ BtPick \/ BtCalled \/ BtScanned \/ BtNap \/ BtTwai \/ BtTimeout
  \/ BtTick

BtSpec == BtInit /\ [][BtNext]_btVars

-----------------------------------------------------------------------------
(* Properties                                                              *)

\* The slot of every timer is as its callers last asked for, through expiries
\* that overlap new starts and stops: bt_timer_task never silently kills a timer
\* that was started again while its callback was on its way (the comment at
\* bt_shim.c:246), and no slot is left with another caller's callback.
BtArmedAsAsked ==
  \A k \in BtTimers : BtUsable(k) =>
    LET t == btSlot[btHandle[k]]
    IN /\ t.used /\ t.cb = k
       /\ t.active <=> btDue[k] # 0
       /\ t.active => t.dl = btDue[k]

\* When the task will call a timer, by the pool.
BtSlotDue(k) ==
  IF BtUsable(k) /\ btSlot[btHandle[k]].active THEN btSlot[btHandle[k]].dl ELSE 0

\* To its callers the pool with its task is an alarm clock too: the deadline of a timer
\* changes by a call about it or when it goes off, and only then, also when the callback of
\* an earlier expiry is on its way or the slot has been another timer's.
BtClockSpec == INSTANCE AlarmClock WITH
                 Timers <- BtTimers, now <- btTime, due <- [k \in BtTimers |-> BtSlotDue(k)],
                 ringing <- btPc[BtTask] \in {"call", "signal"}
BtIsAlarmClock == BtClockSpec!Spec

\* No start is slept through: while the timer task waits and no wakeup for it is
\* on its way, the timeout it computed ends no later than every active deadline.
BtSleepCovered ==
  (/\ btPc[BtTask] = "wait" /\ btSem = 0 /\ ~btPend
   /\ \A p \in BtProcs : btPc[p] \notin {"signal", "flush"})
  => \A s \in BtActive : btTmo # BtNever /\ btNow + btTmo <= btSlot[s].dl

\* Both at once: a timer expires as it was last asked to, and in time.
BtTimersKept == BtArmedAsAsked /\ BtSleepCovered
=============================================================================
