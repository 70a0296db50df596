--------------------------------- MODULE Hrt ---------------------------------
(***************************************************************************)
(* The high-resolution timer driver of the C6 (target_timer.h and          *)
(* target_timer.c of esp32c6_espidf; the C3 and C5 have the same steps):   *)
(* target_hrt_set_event, target_hrt_raise_event and target_hrt_handler     *)
(* over a SYSTIMER comparator that keeps counting between their register   *)
(* accesses.                                                               *)
(*                                                                         *)
(* External: the comparator, of which the driver's comments say both that  *)
(* it does not fire for a target already past and that it latches again    *)
(* for one, so it may; and the kernel's time events, which call the driver *)
(* with the CPU locked.  An interrupt more urgent than the timer's may     *)
(* make such a call between two steps of the handler.                      *)
(***************************************************************************)
EXTENDS Integers, FiniteSets, FiniteSetsExt

CONSTANTS
  HRTCNT_BOUND,  \* the longest time the kernel asks for, in counts
  HrtDelays,     \* how far in the future new time events lie
  HrtMaxCnt,     \* bound: the counter stops
  HrtMaxCalls    \* bound: number of new time events

ASSUME HrtAssumption == /\ HRTCNT_BOUND \in Nat \ {0} /\ HrtDelays \subseteq Nat
                        /\ HrtMaxCnt \in Nat /\ HrtMaxCalls \in Nat

VARIABLES
  hrtCnt,     \* the SYSTIMER counter
  hrtAlarm,   \* the comparator: enabled, target; and its latched interrupt
  hrtForce,   \* FROM_CPU_0
  hrtUp,      \* the alarm's interrupt is enabled
  hrtPc,      \* where target_hrt_set_event is; CPU locked unless "idle"
  hrtReq,     \* its hrtcnt
  hrtTarget,  \* its target
  hrtHdl,     \* where target_hrt_handler is
  hrtEvents,  \* external: when the kernel's time events are due
  hrtCalls,   \* history: number of time events made
  hrtEmpty,   \* history: signal_time calls that found no event due
  hrtSpare    \* history: calls that may leave a stale alarm latched

hrtSet  == <<hrtPc, hrtReq, hrtTarget>>
hrtHist == <<hrtCalls, hrtEmpty, hrtSpare>>
hrtVars == <<hrtCnt, hrtAlarm, hrtForce, hrtUp, hrtSet, hrtHdl, hrtEvents, hrtHist>>

HrtTypeOK ==
  /\ hrtCnt \in 0..HrtMaxCnt
  /\ hrtAlarm \in [en : BOOLEAN, target : Nat, int : BOOLEAN]
  /\ hrtForce \in BOOLEAN /\ hrtUp \in BOOLEAN
  /\ hrtPc \in {"idle", "read", "off", "set", "on", "check"}
  /\ hrtReq \in 0..HRTCNT_BOUND /\ hrtTarget \in Nat
  /\ hrtHdl \in {"out", "disarm", "clear", "unforce", "signal"}
  /\ hrtEvents \subseteq Nat
  /\ hrtCalls \in 0..HrtMaxCalls /\ hrtEmpty \in Nat /\ hrtSpare \in Nat

\* After target_hrt_initialize, which leaves the alarm enabled for target 0; the
\* kernel starts with its first set_event, interrupts still masked.
HrtInit ==
  /\ hrtCnt = 0 /\ hrtAlarm = [en |-> TRUE, target |-> 0, int |-> FALSE]
  /\ hrtForce = FALSE /\ hrtUp = TRUE
  /\ hrtPc = "read" /\ hrtReq = HRTCNT_BOUND /\ hrtTarget = 0
  /\ hrtHdl = "out"
  /\ hrtEvents = {} /\ hrtCalls = 0 /\ hrtEmpty = 0 /\ hrtSpare = 1

-----------------------------------------------------------------------------
(* External: the counter, the comparator and the kernel's calls.           *)

HrtTick ==
  /\ hrtUp /\ hrtCnt < HrtMaxCnt
  /\ hrtCnt' = hrtCnt + 1
  /\ hrtAlarm' = IF hrtAlarm.en /\ hrtAlarm.target = hrtCnt'
                 THEN [hrtAlarm EXCEPT !.int = TRUE] ELSE hrtAlarm
  /\ UNCHANGED <<hrtForce, hrtUp, hrtSet, hrtHdl, hrtEvents, hrtHist>>

HrtRelatch ==
  /\ hrtUp /\ hrtAlarm.en /\ hrtAlarm.target <= hrtCnt /\ ~hrtAlarm.int
  /\ hrtAlarm' = [hrtAlarm EXCEPT !.int = TRUE]
  /\ UNCHANGED <<hrtCnt, hrtForce, hrtUp, hrtSet, hrtHdl, hrtEvents, hrtHist>>

\* set_hrt_event for the earliest of the events E, the kernel's part.
HrtSetHrtEvent(E) ==
  /\ hrtPc' = "read"
  /\ hrtReq' = Min({HRTCNT_BOUND} \cup {e - hrtCnt : e \in E})
  /\ UNCHANGED hrtTarget

\* A new time event; the driver is called when it is the earliest.  One that is
\* already due raises the interrupt (target_hrt_raise_event).
HrtNewEvent ==
  /\ hrtUp /\ hrtPc = "idle" /\ hrtCalls < HrtMaxCalls
  /\ hrtCalls' = hrtCalls + 1
  /\ \E d \in HrtDelays :
       /\ hrtEvents' = hrtEvents \cup {hrtCnt + d}
       /\ \/ d = 0 /\ hrtForce' = TRUE /\ UNCHANGED hrtSet
          \/ /\ d > 0 /\ hrtCnt + d = Min(hrtEvents')
             /\ HrtSetHrtEvent(hrtEvents')
             /\ UNCHANGED hrtForce
          \/ d > 0 /\ hrtCnt + d # Min(hrtEvents') /\ UNCHANGED <<hrtForce, hrtSet>>
  /\ hrtSpare' = IF hrtHdl = "out" THEN hrtSpare ELSE hrtSpare + 1
  /\ UNCHANGED <<hrtCnt, hrtAlarm, hrtUp, hrtHdl, hrtEmpty>>

-----------------------------------------------------------------------------
(* target_hrt_set_event, with the CPU locked.                              *)

HrtStep(l, m) == hrtPc = l /\ hrtPc' = m

HrtReadCurrent ==
  /\ HrtStep("read", "off")
  /\ hrtTarget' = hrtCnt + hrtReq /\ hrtReq' = 0
  /\ UNCHANGED <<hrtCnt, hrtAlarm, hrtForce, hrtUp, hrtHdl, hrtEvents, hrtHist>>

HrtSetAlarm(l, m, alarm) ==
  /\ HrtStep(l, m)
  /\ hrtAlarm' = alarm
  /\ UNCHANGED <<hrtCnt, hrtForce, hrtUp, hrtReq, hrtTarget, hrtHdl, hrtEvents, hrtHist>>

HrtRearm ==
  \/ HrtSetAlarm("off", "set", [hrtAlarm EXCEPT !.en = FALSE])
  \/ HrtSetAlarm("set", "on", [hrtAlarm EXCEPT !.target = hrtTarget])
  \/ HrtSetAlarm("on", "check", [hrtAlarm EXCEPT !.en = TRUE])

\* Mutant: the interrupt is forced only when the target is passed by a count.
HrtCheckLate ==
  /\ HrtStep("check", "idle")
  /\ hrtForce' = (hrtForce \/ hrtCnt > hrtTarget) /\ hrtTarget' = 0
  /\ UNCHANGED <<hrtCnt, hrtAlarm, hrtUp, hrtReq, hrtHdl, hrtEvents, hrtHist>>

\* The target passed while the alarm was being set: the interrupt is forced.
HrtCheck ==
  /\ HrtStep("check", "idle")
  /\ hrtForce' = (hrtForce \/ hrtCnt >= hrtTarget) /\ hrtTarget' = 0
  /\ UNCHANGED <<hrtCnt, hrtAlarm, hrtUp, hrtReq, hrtHdl, hrtEvents, hrtHist>>

-----------------------------------------------------------------------------
(* target_hrt_handler and target_hrt_terminate.                            *)

HrtEnter ==
  /\ hrtUp /\ hrtHdl = "out" /\ hrtPc = "idle"
  /\ hrtAlarm.int \/ hrtForce
  /\ hrtHdl' = "disarm"
  /\ UNCHANGED <<hrtCnt, hrtAlarm, hrtForce, hrtUp, hrtSet, hrtEvents, hrtHist>>

HrtHandler(l, m, alarm, force) ==
  /\ hrtHdl = l /\ hrtPc = "idle"
  /\ hrtHdl' = m
  /\ hrtAlarm' = alarm /\ hrtForce' = force
  /\ UNCHANGED <<hrtCnt, hrtUp, hrtSet, hrtEvents, hrtHist>>

HrtAck ==
  \/ HrtHandler("disarm", "clear", [hrtAlarm EXCEPT !.en = FALSE], hrtForce)
  \/ HrtHandler("clear", "unforce", [hrtAlarm EXCEPT !.int = FALSE], hrtForce)
  \/ HrtHandler("unforce", "signal", hrtAlarm, FALSE)

\* signal_time of the kernel: the events due, then the next set_hrt_event.
HrtSignalTime ==
  /\ hrtHdl = "signal" /\ hrtPc = "idle"
  /\ hrtHdl' = "out"
  /\ LET due == {e \in hrtEvents : e <= hrtCnt}
     IN /\ hrtEvents' = hrtEvents \ due
        /\ hrtEmpty' = IF due = {} THEN hrtEmpty + 1 ELSE hrtEmpty
        /\ HrtSetHrtEvent(hrtEvents \ due)
  /\ UNCHANGED <<hrtCnt, hrtAlarm, hrtForce, hrtUp, hrtCalls, hrtSpare>>

HrtTerminate ==
  /\ hrtUp /\ hrtPc = "idle" /\ hrtHdl = "out"
  /\ hrtUp' = FALSE
  /\ hrtAlarm' = [hrtAlarm EXCEPT !.int = FALSE]
  /\ hrtForce' = FALSE
  /\ UNCHANGED <<hrtCnt, hrtSet, hrtHdl, hrtEvents, hrtHist>>

HrtNext ==
  \/ HrtTick \/ HrtRelatch \/ HrtNewEvent
  \/ HrtReadCurrent \/ HrtRearm \/ HrtCheck
  \/ HrtEnter \/ HrtAck \/ HrtSignalTime \/ HrtTerminate

HrtSpec == HrtInit /\ [][HrtNext]_hrtVars

-----------------------------------------------------------------------------
(* Properties                                                              *)

\* No time event is lost to the counter running on while the alarm is set, or to
\* a call in the middle of the handler: whenever the driver is at rest and an
\* event is pending, its interrupt is pending or the comparator will still fire
\* (the forced interrupt at target_timer.h:145).
HrtEventCovered ==
  (hrtUp /\ hrtPc = "idle" /\ hrtHdl = "out" /\ hrtEvents # {})
  => \/ hrtAlarm.int \/ hrtForce
     \/ hrtAlarm.en /\ hrtCnt < hrtAlarm.target

\* No flood of "no time event" (the comments at target_timer.c:102 and
\* target_timer.h:133): signal_time finds no event due only when the alarm fires
\* at HRTCNT_BOUND, or once for a call that came in between the handler's entry
\* and its signal_time, or before the kernel started.
HrtNoFlood == hrtCnt < HRTCNT_BOUND => hrtEmpty <= hrtSpare

\* What the order of the writes in set_event and in the handler is for: neither a lost
\* time event nor a flood of interrupts without one.
HrtLossNorFlood == HrtEventCovered /\ HrtNoFlood
=============================================================================
