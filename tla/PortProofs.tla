------------------------------ MODULE PortProofs ------------------------------
(***************************************************************************)
(* Proofs about the components around the shim that MCShimParts checks one *)
(* beside the other.  Each has an inductive invariant of its own, named    *)
(* like its variables: Ser for the USB Serial/JTAG console, Hrt for the    *)
(* high-resolution timer, Clic for the interrupt levels of the ESP32-C5,   *)
(* Sys for the lwIP port, Net for the interface and its link, Bt for the   *)
(* Bluetooth timers.                                                       *)
(***************************************************************************)
EXTENDS ShimParts, ShimPartsProofs, SetLemmas, SequenceTheorems, TLAPS

(***************************************************************************)
(* The console.  What is buffered has its callback enabled, from the end   *)
(* of the call that buffered it; and an event that is no longer latched    *)
(* although its cause is there is in the hands of the handler.             *)
(***************************************************************************)
SerCallsOK ==
  /\ serBuf > 0 => serOpen /\ serPc \in {"idle", "ena_int", "ena_rcv", "ena_snd"}
  /\ serPc \in {"clear", "dis_int"} => ~serOpen
  /\ serPc = "ena_snd" => serIsr = "out"

SerEnabledOK ==
  /\ serBuf > 0 /\ serPc # "ena_snd" => serEna.snd
  /\ serOpen /\ serPc \in {"idle", "dis", "ena_snd"} => serEna.rcv

SerLatchedOK ==
  /\ serBuf > 0 /\ ~serTx => serRaw.snd \/ serIsr = "irdy_snd"
  /\ serOpen /\ serRx > 0 /\ ~serOld => serRaw.rcv \/ serIsr = "irdy_rcv"

SerInv == SerTypeOK /\ SerCallsOK /\ SerEnabledOK /\ SerLatchedOK

LEMMA SerBounds == SerMaxBuf \in Nat \ {0} /\ SerMaxRx \in Nat \ {0} /\ SerMaxCalls \in Nat \ {0}
  BY SerAssumption DEF SerAssumption

\* What a write to one of the two events of a register leaves.
LEMMA EventsOf ==
  /\ SerNoEvent \in SerEvents
  /\ \A e \in SerEvents, b \in BOOLEAN :
       /\ [e EXCEPT !.snd = b] = [snd |-> b, rcv |-> e.rcv]
       /\ [e EXCEPT !.rcv = b] = [snd |-> e.snd, rcv |-> b]
       /\ [snd |-> b, rcv |-> e.rcv] \in SerEvents
       /\ [snd |-> e.snd, rcv |-> b] \in SerEvents
<1>1. SerNoEvent \in SerEvents
  BY DEF SerEvents, SerNoEvent
<1>2. ASSUME NEW e \in SerEvents, NEW b \in BOOLEAN
      PROVE  /\ [e EXCEPT !.snd = b] = [snd |-> b, rcv |-> e.rcv]
             /\ [e EXCEPT !.rcv = b] = [snd |-> e.snd, rcv |-> b]
  BY SMT DEF SerEvents
<1>3. ASSUME NEW e \in SerEvents, NEW b \in BOOLEAN
      PROVE  /\ [snd |-> b, rcv |-> e.rcv] \in SerEvents
             /\ [snd |-> e.snd, rcv |-> b] \in SerEvents
  BY Zenon DEF SerEvents
<1> QED
  BY <1>1, <1>2, <1>3

LEMMA SerInitInv == SerInit => SerInv
<1> SUFFICES ASSUME SerInit PROVE SerInv
  OBVIOUS
<1>1. SerTypeOK
  <2>1. SerNoEvent \in SerEvents
    BY DEF SerNoEvent, SerEvents
  <2>2. 0 \in 0..SerMaxRx /\ 0 \in 0..SerMaxBuf /\ 0 \in 0..SerMaxCalls
    BY SerBounds
  <2> QED
    BY <2>1, <2>2 DEF SerInit, SerTypeOK
<1>2. SerCallsOK /\ SerEnabledOK /\ SerLatchedOK
  BY SerBounds DEF SerInit, SerCallsOK, SerEnabledOK, SerLatchedOK
<1> QED
  BY <1>1, <1>2 DEF SerInv

\* The host.
LEMMA SerHostInv ==
  ASSUME SerInv, SerHostReads \/ SerHostSends
  PROVE  SerInv'
<1> USE EventsOf DEF SerInv, SerTypeOK
<1>1. CASE SerHostReads
  <2>1. /\ serTx' = FALSE /\ serRaw' = [snd |-> TRUE, rcv |-> serRaw.rcv]
        /\ UNCHANGED <<serRx, serEna, serOpen, serIrq, serBuf, serPc, serIsr, serStat,
                       serOld, serCalls>>
    BY <1>1 DEF SerHostReads
  <2>2. SerTypeOK'
    BY <2>1
  <2>3. SerCallsOK' /\ SerEnabledOK' /\ SerLatchedOK'
    BY <2>1 DEF SerCallsOK, SerEnabledOK, SerLatchedOK
  <2> QED
    BY <2>2, <2>3
<1>2. CASE SerHostSends
  <2>1. PICK n \in 1 .. SerMaxRx - serRx : serRx' = serRx + n
    BY <1>2 DEF SerHostSends
  <2>2. /\ serRaw' = [snd |-> serRaw.snd, rcv |-> TRUE] /\ serCalls' = serCalls + 1
        /\ serCalls < SerMaxCalls
        /\ UNCHANGED <<serTx, serEna, serOpen, serIrq, serBuf, serPc, serIsr, serStat, serOld>>
    BY <1>2 DEF SerHostSends, SerCount
  <2>3. serRx' \in 0..SerMaxRx /\ serCalls' \in 0..SerMaxCalls
    BY <2>1, <2>2, SerBounds
  <2> QED
    BY <2>2, <2>3 DEF SerCallsOK, SerEnabledOK, SerLatchedOK
<1> QED
  BY <1>1, <1>2

\* Opening and closing.
LEMMA SerPortInv ==
  ASSUME SerInv, SerOpn \/ SerOpnClear \/ SerOpnEna \/ SerCls \/ SerClsDis
  PROVE  SerInv'
<1> USE EventsOf DEF SerInv, SerTypeOK
<1>1. CASE SerOpn
  <2>1. /\ serIsr = "out" /\ serPc = "idle"
        /\ serPc' = IF serOpen THEN "ena_int" ELSE "clear"
        /\ serEna' = IF serOpen THEN serEna ELSE SerNoEvent
        /\ serCalls' = serCalls + 1 /\ serCalls < SerMaxCalls
        /\ UNCHANGED <<serTx, serRx, serRaw, serOpen, serIrq, serBuf, serIsr, serStat, serOld>>
    BY <1>1 DEF SerOpn, SerTask, SerCount
  <2>2. serCalls' \in 0..SerMaxCalls
    BY <2>1, SerBounds
  <2>3. SerTypeOK'
    BY <2>1, <2>2
  <2> QED
    BY <2>1, <2>3 DEF SerCallsOK, SerEnabledOK, SerLatchedOK
<1>2. CASE SerOpnClear
  <2>1. /\ serIsr = "out" /\ serPc = "clear" /\ serPc' = "ena_int"
        /\ serRaw' = SerNoEvent /\ serOpen' = TRUE /\ serOld' = (serRx > 0)
        /\ UNCHANGED <<serTx, serRx, serEna, serIrq, serBuf, serIsr, serStat, serCalls>>
    BY <1>2 DEF SerOpnClear, SerTask
  <2>2. ~(serBuf > 0)
    BY <2>1 DEF SerCallsOK
  <2>3. SerTypeOK'
    <3>1. serOld' \in BOOLEAN
      BY <2>1
    <3> QED
      BY <2>1, <3>1
  <2>4. SerCallsOK' /\ SerEnabledOK' /\ SerLatchedOK'
    BY <2>1, <2>2 DEF SerCallsOK, SerEnabledOK, SerLatchedOK
  <2> QED
    BY <2>3, <2>4
<1>3. CASE SerOpnEna
  <2>1. /\ serIsr = "out" /\ \/ serPc = "ena_int" /\ serPc' = "ena_rcv" /\ serEna' = serEna
                                /\ serIrq' = TRUE
                             \/ serPc = "ena_rcv" /\ serPc' = "idle" /\ serIrq' = serIrq
                                /\ serEna' = [snd |-> serEna.snd, rcv |-> TRUE]
        /\ UNCHANGED <<serTx, serRx, serRaw, serOpen, serBuf, serIsr, serStat, serOld, serCalls>>
    BY <1>3 DEF SerOpnEna, SerTask
  <2>2. SerTypeOK'
    BY <2>1
  <2>3. SerCallsOK' /\ SerEnabledOK' /\ SerLatchedOK'
    BY <2>1 DEF SerCallsOK, SerEnabledOK, SerLatchedOK
  <2> QED
    BY <2>2, <2>3
<1>4. CASE SerCls
  <2>1. /\ serIsr = "out" /\ serPc = "idle" /\ serPc' = "dis" /\ serOpen /\ serBuf' = 0
        /\ serCalls' = serCalls + 1 /\ serCalls < SerMaxCalls
        /\ UNCHANGED <<serTx, serRx, serRaw, serEna, serOpen, serIrq, serIsr, serStat, serOld>>
    BY <1>4 DEF SerCls, SerTask, SerCount, serDev
  <2>2. serCalls' \in 0..SerMaxCalls /\ serBuf' \in 0..SerMaxBuf
    BY <2>1, SerBounds
  <2> QED
    BY <2>1, <2>2 DEF SerCallsOK, SerEnabledOK, SerLatchedOK
<1>5. CASE SerClsDis
  <2>1. /\ serIsr = "out"
        /\ \/ /\ serPc = "dis" /\ serPc' = "dis_int" /\ serOpen' = FALSE /\ serIrq' = serIrq
              /\ serEna' = SerNoEvent
           \/ /\ serPc = "dis_int" /\ serPc' = "idle" /\ serOpen' = serOpen /\ serIrq' = FALSE
              /\ serEna' = serEna
        /\ UNCHANGED <<serTx, serRx, serRaw, serBuf, serIsr, serStat, serOld, serCalls>>
    BY <1>5 DEF SerClsDis, SerTask
  <2>2. ~(serBuf > 0)
    BY <2>1 DEF SerCallsOK
  <2>3. serOpen' = FALSE
    BY <2>1 DEF SerCallsOK
  <2>4. SerTypeOK'
    BY <2>1, <2>3
  <2>5. SerCallsOK' /\ SerEnabledOK' /\ SerLatchedOK'
    BY <2>1, <2>2, <2>3 DEF SerCallsOK, SerEnabledOK, SerLatchedOK
  <2> QED
    BY <2>4, <2>5
<1> QED
  BY <1>1, <1>2, <1>3, <1>4, <1>5

\* Characters of a task, and of target_fput_log.
LEMMA SerSendInv ==
  ASSUME SerInv, SerWrite \/ SerWriteEna \/ SerFput
  PROVE  SerInv'
<1> USE EventsOf DEF SerInv, SerTypeOK
<1>1. CASE SerWrite
  <2>1. /\ serIsr = "out" /\ serPc = "idle" /\ serOpen
        /\ serCalls' = serCalls + 1 /\ serCalls < SerMaxCalls
        /\ UNCHANGED <<serRx, serRaw, serEna, serOpen, serIrq, serIsr, serStat, serOld>>
        /\ \/ /\ serPc' = "idle" /\ serBuf = 0 /\ serTx' = TRUE /\ serBuf' = serBuf
           \/ /\ serPc' = (IF serBuf = 0 THEN "ena_snd" ELSE "idle")
              /\ serBuf > 0 \/ serTx
              /\ serBuf < SerMaxBuf /\ serBuf' = serBuf + 1 /\ serTx' = serTx
    BY <1>1 DEF SerWrite, SerTask, SerCount, SerSndChr
  <2>2. serCalls' \in 0..SerMaxCalls /\ serBuf' \in 0..SerMaxBuf
    BY <2>1, SerBounds
  <2>3. SerTypeOK'
    BY <2>1, <2>2
  <2>4. SerCallsOK' /\ SerEnabledOK'
    BY <2>1, <2>2 DEF SerCallsOK, SerEnabledOK
  <2>5. SerLatchedOK'
    BY <2>1, <2>2 DEF SerLatchedOK
  <2> QED
    BY <2>3, <2>4, <2>5
<1>2. CASE SerWriteEna
  <2>1. /\ serIsr = "out" /\ serPc = "ena_snd" /\ serPc' = "idle"
        /\ serEna' = [snd |-> TRUE, rcv |-> serEna.rcv]
        /\ UNCHANGED <<serTx, serRx, serRaw, serOpen, serIrq, serBuf, serIsr, serStat,
                       serOld, serCalls>>
    BY <1>2 DEF SerWriteEna, SerTask
  <2> QED
    BY <2>1 DEF SerCallsOK, SerEnabledOK, SerLatchedOK
<1>3. CASE SerFput
  <2>1. /\ serCalls' = serCalls + 1 /\ serCalls < SerMaxCalls /\ serTx' = TRUE
        /\ UNCHANGED <<serRx, serRaw, serEna, serOpen, serIrq, serBuf, serPc, serIsr,
                       serStat, serOld>>
    BY <1>3 DEF SerFput, SerCount, SerSndChr
  <2>2. serCalls' \in 0..SerMaxCalls
    BY <2>1, SerBounds
  <2> QED
    BY <2>1, <2>2 DEF SerCallsOK, SerEnabledOK, SerLatchedOK
<1> QED
  BY <1>1, <1>2, <1>3

\* The interrupt handler.
LEMMA SerHandlerInv ==
  ASSUME SerInv, SerEnter \/ SerIsrSnd \/ SerIsrRcv
  PROVE  SerInv'
<1> USE EventsOf DEF SerInv, SerTypeOK
<1>1. CASE SerEnter
  <2>1. /\ serIsr = "out" /\ serPc # "ena_snd" /\ serIsr' \in {"clr_snd", "clr_rcv"}
        /\ serStat' \in SerEvents
        /\ UNCHANGED <<serTx, serRx, serRaw, serEna, serOpen, serIrq, serBuf, serPc, serOld,
                       serCalls>>
    BY <1>1 DEF SerEnter, SerPending, serDev
  <2> QED
    BY <2>1 DEF SerCallsOK, SerEnabledOK, SerLatchedOK
<1>2. SerIsrSnd \/ SerIsrRcv => serStat' \in SerEvents
  <2>2. SerIsrSnd \/ SerIsrRcv => serStat' \in {serStat, SerNoEvent}
    BY DEF SerIsrSnd, SerIsrRcv, SerInIsr
  <2> QED
    BY <2>2
<1>6. SerAfterSnd \in {"clr_rcv", "out"}
  BY DEF SerAfterSnd
<1>3. CASE SerIsrSnd /\ serIsr = "clr_snd"
  <2>1. /\ serIsr = "clr_snd" /\ serIsr' = "irdy_snd"
        /\ serRaw' = [snd |-> FALSE, rcv |-> serRaw.rcv]
        /\ UNCHANGED <<serTx, serRx, serEna, serOpen, serIrq, serBuf, serPc, serOld, serCalls>>
    BY <1>3 DEF SerIsrSnd, SerInIsr
  <2> QED
    BY <1>2, <1>3, <2>1 DEF SerCallsOK, SerEnabledOK, SerLatchedOK
<1>4. CASE SerIsrSnd /\ serIsr # "clr_snd"
  <2> USE <1>6
  <2>1. /\ serIsr = "irdy_snd" /\ serIsr' = SerAfterSnd
        /\ \/ /\ serBuf > 0 /\ serTx' = TRUE /\ serBuf' = serBuf - 1 /\ serEna' = serEna
           \/ /\ serBuf = 0 /\ serEna' = [snd |-> FALSE, rcv |-> serEna.rcv]
              /\ serTx' = serTx /\ serBuf' = serBuf
        /\ UNCHANGED <<serRx, serRaw, serOpen, serIrq, serPc, serOld, serCalls>>
    BY <1>4 DEF SerIsrSnd, SerInIsr, SerIrdySnd, SerSndChr
  <2>2. serBuf' \in 0..SerMaxBuf /\ (serBuf' > 0 => serBuf > 0 /\ serTx')
    BY <2>1, SerBounds
  <2>3. SerTypeOK'
    BY <1>2, <1>4, <2>1, <2>2
  <2>4. SerCallsOK' /\ SerLatchedOK'
    BY <1>2, <1>4, <2>1, <2>2 DEF SerCallsOK, SerLatchedOK
  <2>5. SerEnabledOK'
    BY <1>2, <1>4, <2>1, <2>2 DEF SerEnabledOK, SerCallsOK
  <2> QED
    BY <2>3, <2>4, <2>5
<1>5. CASE SerIsrRcv
  <2>1. \/ /\ serIsr = "clr_rcv" /\ serIsr' = "irdy_rcv"
           /\ serRaw' = [snd |-> serRaw.snd, rcv |-> FALSE]
           /\ UNCHANGED <<serRx, serOld>>
        \/ /\ serIsr = "irdy_rcv" /\ serIsr' = "irdy_rcv" /\ serRx > 0 /\ serRx' = serRx - 1
           /\ UNCHANGED <<serRaw, serOld>>
        \/ /\ serIsr = "irdy_rcv" /\ serIsr' = "out" /\ serRx = 0 /\ serOld' = FALSE
           /\ UNCHANGED <<serRaw, serRx>>
    BY <1>5 DEF SerIsrRcv, SerInIsr, serDev
  <2>2. UNCHANGED <<serTx, serEna, serOpen, serIrq, serBuf, serPc, serCalls>>
    BY <1>5 DEF SerIsrRcv, SerInIsr, serDev
  <2>3. serRx' \in 0..SerMaxRx
    BY <2>1, SerBounds
  <2>4. SerTypeOK'
    BY <1>2, <1>5, <2>1, <2>2, <2>3
  <2>5. SerCallsOK' /\ SerEnabledOK'
    BY <2>1, <2>2 DEF SerCallsOK, SerEnabledOK
  <2>6. SerLatchedOK'
    BY <2>1, <2>2, <2>3 DEF SerLatchedOK
  <2> QED
    BY <2>4, <2>5, <2>6
<1> QED
  BY <1>1, <1>3, <1>4, <1>5

LEMMA SerNextInv == SerInv /\ [SerNext]_serVars => SerInv'
<1> SUFFICES ASSUME SerInv, [SerNext]_serVars PROVE SerInv'
  OBVIOUS
<1>1. CASE UNCHANGED serVars
  BY <1>1 DEF serVars, serDev, SerInv, SerTypeOK, SerCallsOK, SerEnabledOK, SerLatchedOK
<1>2. CASE SerNext
  BY <1>2, SerHostInv, SerPortInv, SerSendInv, SerHandlerInv DEF SerNext
<1> QED
  BY <1>1, <1>2

\* The console stays within its types, and strands neither characters that wait
\* for the FIFO nor characters received: esp32c3_usbjtag_isr_siop clears an event
\* before it serves it (esp32c3_usbjtag_hal.c:204-231), with buffers and a FIFO of
\* any size.
THEOREM ConsoleStrandsNothing == SerSpec => [](SerTypeOK /\ SerNothingStranded)
<1>1. SerInv => SerTypeOK /\ SerNothingStranded
  BY DEF SerInv, SerTypeOK, SerEvents, SerCallsOK, SerEnabledOK, SerLatchedOK,
         SerNothingStranded, SerPending
<1> QED
  BY <1>1, SerInitInv, SerNextInv, PTL DEF SerSpec

(***************************************************************************)
(* The high-resolution timer.                                              *)
(***************************************************************************)
\* The alarm follows the target through the writes of target_hrt_set_event.
HrtArmOK ==
  /\ hrtPc \in {"set", "on"} => ~hrtAlarm.en
  /\ hrtPc \in {"on", "check"} => hrtAlarm.target = hrtTarget
  /\ hrtPc = "check" => hrtAlarm.en

HrtDue == \E e \in hrtEvents : e <= hrtCnt

\* An alarm for time x finds an event due, or fires at the bound.
HrtHonest(x) == x >= HRTCNT_BOUND \/ \E e \in hrtEvents : e <= x

\* No call came in since the handler was entered, and what its steps so far have
\* switched off is still off.
HrtClean ==
  /\ hrtPc = "idle"
  /\ hrtHdl \in {"clear", "unforce", "signal"} => ~hrtAlarm.en
  /\ hrtHdl \in {"unforce", "signal"} => ~hrtAlarm.int
  /\ hrtHdl = "signal" => ~hrtForce

\* Out of the handler, an interrupt that would find nothing due is one of those
\* that were announced.
HrtPromises ==
  /\ hrtAlarm.int \/ hrtForce => HrtDue
  /\ hrtAlarm.en => HrtHonest(hrtAlarm.target)
  /\ hrtPc = "read" => HrtHonest(hrtCnt + hrtReq)
  /\ hrtPc \in {"off", "set", "on", "check"} => HrtHonest(hrtTarget)

\* The account of the signal_time calls that found nothing due: one is left for
\* a handler that will find nothing, and one for a call in its middle.
HrtAccount ==
  /\ hrtEmpty <= hrtSpare
  /\ hrtHdl = "out" /\ hrtEmpty = hrtSpare => HrtPromises
  /\ hrtHdl # "out" /\ (~HrtClean \/ ~HrtDue) => hrtEmpty + 1 <= hrtSpare
  /\ hrtHdl # "out" /\ ~HrtClean /\ ~HrtDue => hrtEmpty + 2 <= hrtSpare

HrtInv == /\ HrtTypeOK /\ HrtArmOK /\ HrtEventCovered
          /\ hrtCnt < HRTCNT_BOUND => HrtAccount

LEMMA HrtBounds ==
  HRTCNT_BOUND \in Nat \ {0} /\ HrtDelays \subseteq Nat /\ HrtMaxCnt \in Nat /\ HrtMaxCalls \in Nat
  BY HrtAssumption DEF HrtAssumption

HrtAlarms == [en : BOOLEAN, target : Nat, int : BOOLEAN]

\* What is honest for a time is honest for a later one.
LEMMA HrtLaterHonest ==
  ASSUME NEW x \in Nat, NEW y \in Nat, x <= y, NEW r \in Nat, hrtEvents \subseteq Nat,
         HrtHonest(x + r)
  PROVE  HrtHonest(y + r)
<1>1. x + r \in Nat /\ y + r \in Nat /\ x + r <= y + r
  OBVIOUS
<1> QED
  BY <1>1, HrtBounds DEF HrtHonest

\* What a write to one register of the alarm leaves.
LEMMA HrtWrites ==
  ASSUME NEW a \in HrtAlarms, NEW w, NEW x \in Nat
  PROVE  /\ w = [a EXCEPT !.en = TRUE]
            => w \in HrtAlarms /\ w.en = TRUE /\ w.int = a.int /\ w.target = a.target
         /\ w = [a EXCEPT !.en = FALSE]
            => w \in HrtAlarms /\ w.en = FALSE /\ w.int = a.int /\ w.target = a.target
         /\ w = [a EXCEPT !.int = TRUE]
            => w \in HrtAlarms /\ w.int = TRUE /\ w.en = a.en /\ w.target = a.target
         /\ w = [a EXCEPT !.int = FALSE]
            => w \in HrtAlarms /\ w.int = FALSE /\ w.en = a.en /\ w.target = a.target
         /\ w = [a EXCEPT !.target = x]
            => w \in HrtAlarms /\ w.target = x /\ w.en = a.en /\ w.int = a.int
  BY DEF HrtAlarms

LEMMA HrtAlarmType ==
  ASSUME HrtInv
  PROVE  /\ hrtAlarm \in HrtAlarms /\ hrtAlarm.target \in Nat
         /\ hrtAlarm.en \in BOOLEAN /\ hrtAlarm.int \in BOOLEAN
  BY DEF HrtInv, HrtTypeOK, HrtAlarms

\* The time set_hrt_event asks for ends at the earliest event, or at the bound.
LEMMA HrtAsked ==
  ASSUME hrtCnt \in Nat, NEW E, E \subseteq Nat, \A e \in E : e > hrtCnt, HrtSetHrtEvent(E)
  PROVE  /\ hrtReq' \in 0..HRTCNT_BOUND
         /\ \/ hrtCnt + hrtReq' >= HRTCNT_BOUND
            \/ \E e \in E : e <= hrtCnt + hrtReq'
<1> DEFINE S == {HRTCNT_BOUND} \cup {e - hrtCnt : e \in E}
<1>1. S \subseteq Nat /\ HRTCNT_BOUND \in S
  <2>1. \A e \in E : e - hrtCnt \in Nat
    OBVIOUS
  <2> QED
    BY <2>1, HrtBounds
<1>2. hrtReq' = Min(S)
  BY DEF HrtSetHrtEvent
<1>3. hrtReq' \in S /\ hrtReq' <= HRTCNT_BOUND
  <2> HIDE DEF S
  <2> QED
    BY <1>1, <1>2, MinIsIn
<1>4. CASE hrtReq' = HRTCNT_BOUND
  BY <1>4, HrtBounds
<1>5. CASE \E e \in E : hrtReq' = e - hrtCnt
  <2>1. PICK e \in E : hrtReq' = e - hrtCnt
    BY <1>5
  <2>2. e \in Nat /\ hrtCnt + hrtReq' = e /\ hrtReq' \in Nat
    BY <2>1
  <2> QED
    BY <1>3, <2>1, <2>2, HrtBounds
<1> QED
  BY <1>3, <1>4, <1>5

LEMMA HrtInitInv == HrtInit => HrtInv
<1> SUFFICES ASSUME HrtInit PROVE HrtInv
  OBVIOUS
<1>1. HrtTypeOK
  <2>1. /\ 0 \in 0..HrtMaxCnt /\ 0 \in 0..HrtMaxCalls /\ HRTCNT_BOUND \in 0..HRTCNT_BOUND
        /\ [en |-> TRUE, target |-> 0, int |-> FALSE] \in [en : BOOLEAN, target : Nat, int : BOOLEAN]
    BY HrtBounds
  <2> QED
    BY <2>1 DEF HrtInit, HrtTypeOK
<1>2. HrtArmOK /\ HrtEventCovered /\ HrtAccount
  BY DEF HrtInit, HrtArmOK, HrtEventCovered, HrtAccount
<1> QED
  BY <1>1, <1>2 DEF HrtInv

\* The counter and the comparator.
LEMMA HrtTickInv ==
  ASSUME HrtInv, HrtTick \/ HrtRelatch
  PROVE  HrtInv'
<1> USE DEF HrtInv
<1>1. /\ hrtUp
      /\ UNCHANGED <<hrtForce, hrtUp, hrtPc, hrtReq, hrtTarget, hrtHdl, hrtEvents, hrtCalls,
                     hrtEmpty, hrtSpare>>
  BY DEF HrtTick, HrtRelatch, hrtSet, hrtHist
<1>0. hrtCnt' \in 0..HrtMaxCnt
  BY HrtBounds DEF HrtTick, HrtRelatch, HrtTypeOK
<1>2. hrtCnt \in Nat /\ hrtCnt <= hrtCnt' /\ hrtCnt' \in Nat
  BY HrtBounds DEF HrtTick, HrtRelatch, HrtTypeOK
<1>3. /\ hrtAlarm' \in HrtAlarms
      /\ hrtAlarm'.en = hrtAlarm.en /\ hrtAlarm'.target = hrtAlarm.target
      /\ hrtAlarm.int => hrtAlarm'.int
      /\ hrtAlarm'.int => hrtAlarm.int \/ (hrtAlarm.en /\ hrtAlarm.target <= hrtCnt')
      /\ hrtAlarm.en /\ hrtCnt < hrtAlarm.target => hrtAlarm'.int \/ hrtCnt' < hrtAlarm.target
  <2>1. CASE HrtTick
    <3>1. hrtCnt' = hrtCnt + 1 /\ hrtAlarm' = IF hrtAlarm.en /\ hrtAlarm.target = hrtCnt'
                                             THEN [hrtAlarm EXCEPT !.int = TRUE] ELSE hrtAlarm
      BY <2>1 DEF HrtTick
    <3>2. hrtAlarm \in HrtAlarms /\ hrtAlarm.target \in Nat /\ 0 \in Nat
      BY HrtAlarmType
    <3>3. CASE hrtAlarm.en /\ hrtAlarm.target = hrtCnt'
      <4>1. /\ hrtAlarm' \in HrtAlarms /\ hrtAlarm'.int = TRUE /\ hrtAlarm'.en = hrtAlarm.en
            /\ hrtAlarm'.target = hrtAlarm.target
        BY <3>1, <3>2, <3>3, HrtWrites
      <4> QED
        BY <1>2, <3>2, <3>3, <4>1
    <3>4. CASE ~(hrtAlarm.en /\ hrtAlarm.target = hrtCnt')
      BY <1>2, <3>1, <3>2, <3>4
    <3> QED
      BY <3>3, <3>4
  <2>2. CASE HrtRelatch
    <3>1. /\ hrtAlarm.en /\ hrtAlarm.target <= hrtCnt /\ hrtCnt' = hrtCnt
          /\ hrtAlarm' = [hrtAlarm EXCEPT !.int = TRUE]
      BY <2>2 DEF HrtRelatch
    <3>2. hrtAlarm \in HrtAlarms /\ hrtAlarm.target \in Nat /\ 0 \in Nat
      BY HrtAlarmType
    <3>3. /\ hrtAlarm' \in HrtAlarms /\ hrtAlarm'.int = TRUE /\ hrtAlarm'.en = hrtAlarm.en
          /\ hrtAlarm'.target = hrtAlarm.target
      BY <3>1, <3>2, HrtWrites
    <3> QED
      BY <1>2, <3>1, <3>2, <3>3
  <2> QED
    BY <2>1, <2>2
<1>4. HrtTypeOK' /\ HrtArmOK' /\ HrtEventCovered'
  BY <1>0, <1>1, <1>2, <1>3 DEF HrtTypeOK, HrtArmOK, HrtEventCovered, HrtAlarms
<1>5. ASSUME hrtCnt' < HRTCNT_BOUND PROVE HrtAccount'
  <2>1. HrtAccount
    BY <1>2, <1>5, HrtBounds
  <2>2. HrtDue => HrtDue'
    <3>1. hrtEvents' = hrtEvents /\ hrtEvents \subseteq Nat
      BY <1>1 DEF HrtTypeOK
    <3> QED
      BY <1>2, <3>1 DEF HrtDue
  <2>3. HrtClean => HrtClean'
    BY <1>1, <1>3 DEF HrtClean
  <2>4. HrtPromises => HrtPromises'
    <3>1. hrtEvents' = hrtEvents /\ hrtEvents \subseteq Nat
      BY <1>1 DEF HrtTypeOK
    <3>2. hrtReq \in Nat /\ hrtTarget \in Nat
      BY HrtBounds DEF HrtTypeOK
    <3>3. HrtHonest(hrtCnt + hrtReq) => HrtHonest(hrtCnt' + hrtReq')
      BY <1>1, <1>2, <3>1, <3>2, HrtLaterHonest
    <3>4. hrtAlarm.en /\ hrtAlarm.target <= hrtCnt' /\ HrtHonest(hrtAlarm.target) => HrtDue'
      BY <1>2, <1>5, <3>1, HrtBounds, HrtAlarmType DEF HrtHonest, HrtDue
    <3> QED
      BY <1>1, <1>3, <2>2, <3>1, <3>3, <3>4 DEF HrtPromises, HrtHonest
  <2> QED
    BY <1>1, <2>1, <2>2, <2>3, <2>4 DEF HrtAccount, HrtTypeOK
<1> QED
  BY <1>4, <1>5

\* A new event.
LEMMA HrtEventInv ==
  ASSUME HrtInv, HrtNewEvent
  PROVE  HrtInv'
<1> USE DEF HrtInv
<1>1. /\ hrtUp /\ hrtPc = "idle" /\ hrtCalls < HrtMaxCalls /\ hrtCalls' = hrtCalls + 1
      /\ hrtSpare' = (IF hrtHdl = "out" THEN hrtSpare ELSE hrtSpare + 1)
      /\ UNCHANGED <<hrtCnt, hrtAlarm, hrtUp, hrtHdl, hrtEmpty>>
  BY DEF HrtNewEvent
<1>2. PICK d \in HrtDelays :
       /\ hrtEvents' = hrtEvents \cup {hrtCnt + d}
       /\ \/ d = 0 /\ hrtForce' = TRUE /\ UNCHANGED hrtSet
          \/ /\ d > 0 /\ hrtCnt + d = Min(hrtEvents')
             /\ HrtSetHrtEvent(hrtEvents')
             /\ UNCHANGED hrtForce
          \/ d > 0 /\ hrtCnt + d # Min(hrtEvents') /\ UNCHANGED <<hrtForce, hrtSet>>
  BY DEF HrtNewEvent
<1>3. /\ hrtCnt \in Nat /\ d \in Nat /\ hrtEvents \subseteq Nat /\ hrtEvents' \subseteq Nat
      /\ hrtEmpty \in Nat /\ hrtSpare \in Nat /\ hrtCalls' \in 0..HrtMaxCalls
      /\ hrtSpare' \in Nat
  BY <1>1, <1>2, HrtBounds DEF HrtTypeOK
<1>4. \/ d = 0 /\ hrtForce' = TRUE /\ UNCHANGED <<hrtPc, hrtReq, hrtTarget>>
      \/ /\ d > 0 /\ hrtForce' = hrtForce /\ hrtPc' = "read" /\ hrtTarget' = hrtTarget
         /\ hrtReq' \in 0..HRTCNT_BOUND
         /\ HrtHonest(hrtCnt + hrtReq)'
      \/ /\ d > 0 /\ hrtEvents # {} /\ UNCHANGED <<hrtForce, hrtPc, hrtReq, hrtTarget>>
  <2>1. CASE d > 0 /\ hrtCnt + d = Min(hrtEvents') /\ HrtSetHrtEvent(hrtEvents')
             /\ UNCHANGED hrtForce
    <3>1. \A e \in hrtEvents' : hrtCnt + d <= e
      BY <1>2, <1>3, <2>1, MinIsIn
    <3>2. \A e \in hrtEvents' : e > hrtCnt
      BY <1>3, <2>1, <3>1
    <3>3. /\ hrtReq' \in 0..HRTCNT_BOUND
          /\ \/ hrtCnt + hrtReq' >= HRTCNT_BOUND
             \/ \E e \in hrtEvents' : e <= hrtCnt + hrtReq'
      BY <1>3, <2>1, <3>2, HrtAsked
    <3> QED
      BY <1>1, <2>1, <3>3 DEF HrtSetHrtEvent, HrtHonest
  <2>2. CASE d > 0 /\ hrtCnt + d # Min(hrtEvents') /\ UNCHANGED <<hrtForce, hrtSet>>
    <3>1. hrtEvents = {} => Min(hrtEvents') = hrtCnt + d
      BY <1>2, <1>3, MinIsIn
    <3> QED
      BY <2>2, <3>1 DEF hrtSet
  <2> QED
    BY <1>2, <2>1, <2>2 DEF hrtSet
<1>5. HrtTypeOK'
  BY <1>1, <1>3, <1>4 DEF HrtTypeOK
<1>6. HrtArmOK'
  BY <1>1, <1>4 DEF HrtArmOK
<1>7. HrtEventCovered'
  BY <1>1, <1>4 DEF HrtEventCovered
<1>8. ASSUME hrtCnt < HRTCNT_BOUND PROVE HrtAccount'
  <2>1. HrtAccount
    BY <1>8
  <2>2. /\ HrtDue => HrtDue'
        /\ \A x : HrtHonest(x) => HrtHonest(x)'
        /\ d = 0 => HrtDue'
    BY <1>1, <1>2, <1>3 DEF HrtDue, HrtHonest
  <2>3. CASE hrtHdl = "out"
    <3>1. HrtPromises => HrtPromises'
      BY <1>1, <1>4, <2>2 DEF HrtPromises, HrtHonest
    <3> QED
      BY <1>1, <2>1, <2>3, <3>1 DEF HrtAccount
  <2>4. CASE hrtHdl # "out"
    <3>1. hrtSpare' = hrtSpare + 1 /\ hrtEmpty' = hrtEmpty /\ hrtHdl' = hrtHdl
      BY <1>1, <2>4
    <3>2. ~HrtDue' => ~HrtDue
      BY <2>2
    <3> QED
      BY <1>3, <2>1, <2>4, <3>1, <3>2 DEF HrtAccount
  <2> QED
    BY <2>3, <2>4
<1> QED
  BY <1>1, <1>5, <1>6, <1>7, <1>8

\* target_hrt_set_event.
LEMMA HrtSetEventInv ==
  ASSUME HrtInv, HrtReadCurrent \/ HrtRearm \/ HrtCheck
  PROVE  HrtInv'
<1> USE DEF HrtInv
<1>1. /\ hrtPc # "idle"
      /\ UNCHANGED <<hrtCnt, hrtUp, hrtHdl, hrtEvents, hrtCalls, hrtEmpty, hrtSpare>>
  BY DEF HrtReadCurrent, HrtRearm, HrtSetAlarm, HrtCheck, HrtStep, hrtHist
<1>2. /\ hrtCnt \in Nat /\ hrtReq \in Nat /\ hrtTarget \in Nat /\ hrtEvents \subseteq Nat
      /\ hrtEmpty \in Nat /\ hrtSpare \in Nat
  BY HrtBounds DEF HrtTypeOK
<1>3. ASSUME hrtCnt < HRTCNT_BOUND, hrtHdl # "out" PROVE HrtAccount'
  <2>1. ~HrtClean /\ HrtAccount
    BY <1>1, <1>3 DEF HrtClean
  <2> QED
    BY <1>1, <1>2, <1>3, <2>1 DEF HrtAccount, HrtDue
<1>4. CASE HrtReadCurrent
  <2>1. /\ hrtPc = "read" /\ hrtPc' = "off" /\ hrtTarget' = hrtCnt + hrtReq /\ hrtReq' = 0
        /\ UNCHANGED <<hrtAlarm, hrtForce>>
    BY <1>4 DEF HrtReadCurrent, HrtStep
  <2>2. HrtTypeOK' /\ HrtArmOK' /\ HrtEventCovered'
    BY <1>1, <1>2, <2>1, HrtBounds DEF HrtTypeOK, HrtArmOK, HrtEventCovered
  <2>3. HrtPromises => HrtPromises'
    BY <1>1, <2>1 DEF HrtPromises, HrtHonest, HrtDue
  <2> QED
    BY <1>1, <1>3, <2>2, <2>3 DEF HrtAccount
<1>5. CASE HrtRearm
  <2>1. /\ \/ hrtPc = "off" /\ hrtPc' = "set" /\ hrtAlarm' = [hrtAlarm EXCEPT !.en = FALSE]
           \/ hrtPc = "set" /\ hrtPc' = "on" /\ hrtAlarm' = [hrtAlarm EXCEPT !.target = hrtTarget]
           \/ hrtPc = "on" /\ hrtPc' = "check" /\ hrtAlarm' = [hrtAlarm EXCEPT !.en = TRUE]
        /\ UNCHANGED <<hrtForce, hrtReq, hrtTarget>>
    BY <1>5 DEF HrtRearm, HrtSetAlarm, HrtStep
  <2>2. /\ hrtAlarm' \in HrtAlarms /\ hrtAlarm'.int = hrtAlarm.int
        /\ hrtPc = "off" => ~hrtAlarm'.en
        /\ hrtPc = "set" => hrtAlarm'.en = hrtAlarm.en /\ hrtAlarm'.target = hrtTarget
        /\ hrtPc = "on" => hrtAlarm'.en /\ hrtAlarm'.target = hrtAlarm.target
    <3>1. hrtAlarm \in HrtAlarms
      BY HrtAlarmType
    <3>2. CASE hrtPc = "off"
      BY <1>2, <2>1, <3>1, <3>2, HrtWrites, HrtBounds
    <3>3. CASE hrtPc = "set"
      <4>1. hrtAlarm' = [hrtAlarm EXCEPT !.target = hrtTarget] /\ hrtTarget \in Nat
        BY <1>2, <2>1, <3>3
      <4>2. /\ hrtAlarm' \in HrtAlarms /\ hrtAlarm'.target = hrtTarget
            /\ hrtAlarm'.en = hrtAlarm.en /\ hrtAlarm'.int = hrtAlarm.int
        BY <3>1, <4>1 DEF HrtAlarms
      <4> QED
        BY <3>3, <4>2
    <3>4. CASE hrtPc = "on"
      BY <1>2, <2>1, <3>1, <3>4, HrtWrites, HrtBounds
    <3>5. hrtPc \in {"off", "set", "on"}
      BY <2>1
    <3> QED
      BY <3>2, <3>3, <3>4, <3>5, Zenon
  <2>3. HrtTypeOK'
    BY <1>1, <2>1, <2>2 DEF HrtTypeOK, HrtAlarms
  <2>4. HrtArmOK' /\ HrtEventCovered'
    BY <1>1, <2>1, <2>2 DEF HrtArmOK, HrtEventCovered
  <2>5. HrtPromises => HrtPromises'
    BY <1>1, <2>1, <2>2 DEF HrtPromises, HrtHonest, HrtDue, HrtArmOK
  <2> QED
    BY <1>1, <1>3, <2>3, <2>4, <2>5 DEF HrtAccount
<1>6. CASE HrtCheck
  <2>1. /\ hrtPc = "check" /\ hrtPc' = "idle" /\ hrtForce' = (hrtForce \/ hrtCnt >= hrtTarget)
        /\ hrtTarget' = 0 /\ UNCHANGED <<hrtAlarm, hrtReq>>
    BY <1>6 DEF HrtCheck, HrtStep
  <2>2. hrtAlarm.en /\ hrtAlarm.target = hrtTarget
    BY <2>1 DEF HrtArmOK
  <2>3. HrtTypeOK'
    <3>1. hrtForce' \in BOOLEAN
      BY <2>1
    <3> QED
      BY <1>1, <2>1, <3>1 DEF HrtTypeOK
  <2>4. HrtArmOK' /\ HrtEventCovered'
    <3>1. CASE hrtCnt >= hrtTarget
      <4>1. hrtForce' = TRUE
        BY <2>1, <3>1
      <4> QED
        BY <1>1, <2>1, <4>1 DEF HrtArmOK, HrtEventCovered
    <3>2. CASE hrtCnt < hrtTarget
      BY <1>1, <2>1, <2>2, <3>2 DEF HrtArmOK, HrtEventCovered
    <3> QED
      BY <1>2, <3>1, <3>2
  <2>5. ASSUME hrtCnt < HRTCNT_BOUND, HrtPromises PROVE HrtPromises'
    <3>1. HrtHonest(hrtTarget)
      BY <2>1, <2>5 DEF HrtPromises
    <3>2. hrtCnt >= hrtTarget => HrtDue
      BY <1>2, <2>5, <3>1, HrtBounds DEF HrtHonest, HrtDue
    <3> QED
      BY <1>1, <2>1, <2>5, <3>2 DEF HrtPromises, HrtHonest, HrtDue
  <2>6. ASSUME hrtCnt < HRTCNT_BOUND, hrtHdl = "out" PROVE HrtAccount'
    BY <1>1, <2>5, <2>6 DEF HrtAccount
  <2> QED
    BY <1>1, <1>3, <2>3, <2>4, <2>6
<1> QED
  BY <1>4, <1>5, <1>6

\* The handler, to its call of signal_time; and the driver's end.
LEMMA HrtHandlerInv ==
  ASSUME HrtInv, HrtEnter \/ HrtAck \/ HrtTerminate
  PROVE  HrtInv'
<1> USE DEF HrtInv
<1>1. /\ hrtPc = "idle"
      /\ UNCHANGED <<hrtCnt, hrtPc, hrtReq, hrtTarget, hrtEvents, hrtCalls, hrtEmpty, hrtSpare>>
  BY DEF HrtEnter, HrtAck, HrtHandler, HrtTerminate, hrtSet, hrtHist
<1>2. hrtEmpty \in Nat /\ hrtSpare \in Nat
  BY DEF HrtTypeOK
<1>3. CASE HrtEnter
  <2>1. /\ hrtHdl = "out" /\ hrtHdl' = "disarm" /\ (hrtAlarm.int \/ hrtForce)
        /\ UNCHANGED <<hrtAlarm, hrtForce, hrtUp>>
    BY <1>3 DEF HrtEnter
  <2>2. HrtTypeOK' /\ HrtArmOK' /\ HrtEventCovered'
    BY <1>1, <2>1 DEF HrtTypeOK, HrtArmOK, HrtEventCovered
  <2>3. HrtClean'
    BY <1>1, <2>1 DEF HrtClean
  <2>4. ASSUME hrtCnt < HRTCNT_BOUND PROVE HrtAccount'
    BY <1>1, <1>2, <2>1, <2>3, <2>4 DEF HrtAccount, HrtPromises, HrtDue
  <2> QED
    BY <1>1, <2>2, <2>4
<1>4. CASE HrtAck
  <2>1. /\ hrtUp' = hrtUp
        /\ \/ /\ hrtHdl = "disarm" /\ hrtHdl' = "clear" /\ hrtForce' = hrtForce
              /\ hrtAlarm' = [hrtAlarm EXCEPT !.en = FALSE]
           \/ /\ hrtHdl = "clear" /\ hrtHdl' = "unforce" /\ hrtForce' = hrtForce
              /\ hrtAlarm' = [hrtAlarm EXCEPT !.int = FALSE]
           \/ /\ hrtHdl = "unforce" /\ hrtHdl' = "signal" /\ hrtForce' = FALSE
              /\ hrtAlarm' = hrtAlarm
    BY <1>4 DEF HrtAck, HrtHandler
  <2>2. /\ hrtAlarm' \in HrtAlarms
        /\ hrtHdl = "disarm" => ~hrtAlarm'.en
        /\ hrtHdl = "clear" => hrtAlarm'.en = hrtAlarm.en /\ ~hrtAlarm'.int
    <3>1. hrtAlarm \in HrtAlarms /\ 0 \in Nat
      BY HrtAlarmType
    <3>2. CASE hrtHdl = "disarm"
      BY <2>1, <3>1, <3>2, HrtWrites
    <3>3. CASE hrtHdl = "clear"
      BY <2>1, <3>1, <3>3, HrtWrites
    <3> QED
      BY <2>1, <3>1, <3>2, <3>3
  <2>3. HrtTypeOK'
    BY <1>1, <2>1, <2>2 DEF HrtTypeOK, HrtAlarms
  <2>4. HrtArmOK' /\ HrtEventCovered'
    BY <1>1, <2>1 DEF HrtArmOK, HrtEventCovered
  <2>5. HrtClean => HrtClean'
    BY <1>1, <2>1, <2>2 DEF HrtClean
  <2>6. ASSUME hrtCnt < HRTCNT_BOUND PROVE HrtAccount'
    BY <1>1, <2>1, <2>5, <2>6 DEF HrtAccount, HrtDue
  <2> QED
    BY <1>1, <2>3, <2>4, <2>6
<1>5. CASE HrtTerminate
  <2>1. /\ hrtHdl = "out" /\ hrtHdl' = hrtHdl /\ hrtUp' = FALSE /\ hrtForce' = FALSE
        /\ hrtAlarm' = [hrtAlarm EXCEPT !.int = FALSE]
    BY <1>5 DEF HrtTerminate
  <2>2. /\ hrtAlarm' \in HrtAlarms /\ ~hrtAlarm'.int
        /\ hrtAlarm'.en = hrtAlarm.en /\ hrtAlarm'.target = hrtAlarm.target
    <3>1. hrtAlarm \in HrtAlarms /\ 0 \in Nat
      BY HrtAlarmType
    <3> QED
      BY <2>1, <3>1, HrtWrites
  <2>3. HrtTypeOK'
    BY <1>1, <2>1, <2>2 DEF HrtTypeOK, HrtAlarms
  <2>4. HrtArmOK' /\ HrtEventCovered'
    BY <1>1, <2>1 DEF HrtArmOK, HrtEventCovered
  <2>5. HrtPromises => HrtPromises'
    BY <1>1, <2>1, <2>2 DEF HrtPromises, HrtHonest, HrtDue
  <2>6. ASSUME hrtCnt < HRTCNT_BOUND PROVE HrtAccount'
    BY <1>1, <2>1, <2>5, <2>6 DEF HrtAccount
  <2> QED
    BY <1>1, <2>3, <2>4, <2>6
<1> QED
  BY <1>3, <1>4, <1>5

\* signal_time: the one that finds nothing due is counted against a spare call,
\* and what the handler switched off is off again when the account is used up.
LEMMA HrtSignalInv ==
  ASSUME HrtInv, HrtSignalTime
  PROVE  HrtInv'
<1> USE DEF HrtInv
<1> DEFINE due == {e \in hrtEvents : e <= hrtCnt}
<1>1. /\ hrtHdl = "signal" /\ hrtPc = "idle" /\ hrtHdl' = "out" /\ hrtPc' = "read"
      /\ hrtEvents' = hrtEvents \ due
      /\ hrtEmpty' = (IF due = {} THEN hrtEmpty + 1 ELSE hrtEmpty)
      /\ HrtSetHrtEvent(hrtEvents \ due)
      /\ UNCHANGED <<hrtCnt, hrtAlarm, hrtForce, hrtUp, hrtTarget, hrtCalls, hrtSpare>>
  BY DEF HrtSignalTime, HrtSetHrtEvent
<1>2. /\ hrtCnt \in Nat /\ hrtEvents \subseteq Nat /\ hrtEvents' \subseteq Nat
      /\ hrtEmpty \in Nat /\ hrtSpare \in Nat /\ hrtEmpty' \in Nat
  <2>1. /\ hrtCnt \in Nat /\ hrtEvents \subseteq Nat /\ hrtEmpty \in Nat /\ hrtSpare \in Nat
    BY HrtBounds DEF HrtTypeOK
  <2>2. hrtEmpty' \in {hrtEmpty, hrtEmpty + 1}
    BY <1>1
  <2>3. hrtEvents' \subseteq hrtEvents
    BY <1>1
  <2> QED
    BY <2>1, <2>2, <2>3, HrtBounds
<1>3. /\ hrtReq' \in 0..HRTCNT_BOUND
      /\ \/ hrtCnt + hrtReq' >= HRTCNT_BOUND
         \/ \E e \in hrtEvents' : e <= hrtCnt + hrtReq'
  <2>1. \A e \in hrtEvents \ due : e > hrtCnt
    BY <1>2
  <2> QED
    BY <1>1, <1>2, <2>1, HrtAsked
<1>4. HrtTypeOK'
  BY <1>1, <1>2, <1>3 DEF HrtTypeOK
<1>5. HrtArmOK' /\ HrtEventCovered'
  BY <1>1 DEF HrtArmOK, HrtEventCovered
<1>6. ASSUME hrtCnt < HRTCNT_BOUND PROVE HrtAccount'
  <2>1. HrtAccount /\ (HrtDue <=> due # {})
    BY <1>6 DEF HrtDue
  <2>2. hrtEmpty' <= hrtSpare
    BY <1>1, <1>2, <2>1 DEF HrtAccount
  <2>3. hrtEmpty' = hrtSpare => HrtClean
    BY <1>1, <1>2, <2>1 DEF HrtAccount
  <2>4. HrtClean => HrtPromises'
    BY <1>1, <1>3 DEF HrtClean, HrtPromises, HrtHonest
  <2> QED
    BY <1>1, <2>2, <2>3, <2>4 DEF HrtAccount
<1> QED
  BY <1>1, <1>4, <1>5, <1>6

LEMMA HrtNextInv == HrtInv /\ [HrtNext]_hrtVars => HrtInv'
<1> SUFFICES ASSUME HrtInv, [HrtNext]_hrtVars PROVE HrtInv'
  OBVIOUS
<1>1. CASE UNCHANGED hrtVars
  BY <1>1 DEF hrtVars, hrtSet, hrtHist, HrtInv, HrtTypeOK, HrtArmOK, HrtEventCovered, HrtAccount,
              HrtPromises, HrtHonest, HrtDue, HrtClean
<1>2. CASE HrtNext
  BY <1>2, HrtTickInv, HrtEventInv, HrtSetEventInv, HrtHandlerInv, HrtSignalInv DEF HrtNext
<1> QED
  BY <1>1, <1>2

\* The driver loses no time event to a counter that runs on while the alarm is
\* set, or to a call in the middle of the handler, and does not flood the kernel
\* with interrupts without an event (target_timer.h:117-152, target_timer.c:87-116),
\* whatever the delays, the bound and the number of events.
THEOREM TimerNeitherLosesNorFloods == HrtSpec => [](HrtTypeOK /\ HrtLossNorFlood)
<1>1. HrtInv => HrtTypeOK /\ HrtLossNorFlood
  BY DEF HrtInv, HrtAccount, HrtLossNorFlood, HrtNoFlood
<1> QED
  BY <1>1, HrtInitInv, HrtNextInv, PTL DEF HrtSpec

(***************************************************************************)
(* Interrupt levels.                                                       *)
(***************************************************************************)
\* The mask that is in force above frame i.
ClicLevel(i) == IF clicFrames[i].line = ClicNone THEN clicFrames[i].saved
                ELSE clicCtl[clicFrames[i].line]

ClicTask == CLIC_NLBITS_TO_BYTE(clicIpm)

\* Each frame saved the mask that was in force below it.
ClicChain ==
  \A i \in DOMAIN clicFrames :
    clicFrames[i].saved = IF i = 1 THEN ClicTask ELSE ClicLevel(i - 1)

\* Masks only rise with the frames.
ClicRising ==
  \A j \in DOMAIN clicFrames :
    /\ clicFrames[j].saved >= ClicTask
    /\ clicFrames[j].line # ClicNone => clicCtl[clicFrames[j].line] > clicFrames[j].saved
    /\ \A i \in 1 .. j - 1 : clicFrames[j].saved >= ClicLevel(i)

ClicThreshOK ==
  clicThresh = IF clicFrames = <<>> THEN ClicTask
               ELSE IF clicPc = "leave" THEN ClicSaved
               ELSE ClicLevel(Len(clicFrames))

\* mil is 0 when no interrupt is being handled, and the exceptions that are will
\* bring back that 0.
ClicMilOK ==
  /\ (\A i \in DOMAIN clicFrames : clicFrames[i].line = ClicNone) => clicMil = 0 /\ clicMpil = 0
  /\ clicPc = "leave" => /\ clicFrames # <<>>
                         /\ clicFrames[Len(clicFrames)].line # ClicNone => clicMpil = 0

ClicBootOK == clicPc = "boot" => clicFrames = <<>>

ClicRouted == \A l \in ClicLines : clicSrcmask[l] = {s \in ClicSources : clicMap[s] = l}

ClicInv == /\ ClicTypeOK /\ ClicChain /\ ClicRising /\ ClicThreshOK /\ ClicMilOK
           /\ ClicBootOK /\ ClicRouted

ClicFrame == [line : ClicLines \cup {ClicNone}, saved : ClicBytes]

LEMMA ClicByteType ==
  /\ ClicBytes \subseteq Nat
  /\ \A n \in 0..7 : CLIC_NLBITS_TO_BYTE(n) \in ClicBytes /\ CLIC_BYTE_TO_NLBITS(CLIC_NLBITS_TO_BYTE(n)) = n
  BY DEF ClicBytes, CLIC_NLBITS_TO_BYTE, CLIC_BYTE_TO_NLBITS

LEMMA ClicLevelType ==
  ASSUME ClicTypeOK
  PROVE  /\ ClicTask \in ClicBytes /\ ClicTask \in Nat /\ clicThresh \in Nat
         /\ \A l \in ClicLines : clicCtl[l] \in ClicBytes /\ clicCtl[l] \in Nat
         /\ clicFrames \in Seq(ClicFrame) /\ Len(clicFrames) \in Nat
         /\ DOMAIN clicFrames = 1 .. Len(clicFrames)
         /\ \A i \in DOMAIN clicFrames :
              /\ clicFrames[i] \in ClicFrame
              /\ clicFrames[i].saved \in ClicBytes /\ clicFrames[i].saved \in Nat
              /\ clicFrames[i].line # ClicNone => clicFrames[i].line \in ClicLines
              /\ ClicLevel(i) \in Nat
<1>1. clicFrames \in Seq(ClicFrame) /\ clicThresh \in ClicBytes /\ clicIpm \in 0..7
  BY DEF ClicTypeOK, ClicFrame
<1>2. \A l \in ClicLines : clicCtl[l] \in ClicBytes
  BY DEF ClicTypeOK
<1>3. /\ Len(clicFrames) \in Nat /\ DOMAIN clicFrames = 1 .. Len(clicFrames)
      /\ \A i \in DOMAIN clicFrames : clicFrames[i] \in ClicFrame
  BY <1>1
<1>4. \A i \in DOMAIN clicFrames :
        /\ clicFrames[i].saved \in ClicBytes
        /\ clicFrames[i].line # ClicNone => clicFrames[i].line \in ClicLines
  BY <1>3 DEF ClicFrame
<1>5. \A i \in DOMAIN clicFrames : ClicLevel(i) \in ClicBytes
  BY <1>2, <1>4 DEF ClicLevel
<1> QED
  BY <1>1, <1>2, <1>3, <1>4, <1>5, ClicByteType DEF ClicTask

\* Out of an ending trap, the mask is at least that of every frame.
LEMMA ClicTopHighest ==
  ASSUME ClicInv, clicPc # "leave"
  PROVE  clicThresh >= ClicTask /\ \A i \in DOMAIN clicFrames : clicThresh >= ClicLevel(i)
<1> DEFINE n == Len(clicFrames)
<1>1. /\ ClicTask \in Nat /\ n \in Nat /\ DOMAIN clicFrames = 1 .. n
      /\ \A i \in DOMAIN clicFrames : clicFrames[i].saved \in Nat /\ ClicLevel(i) \in Nat
  BY ClicLevelType DEF ClicInv
<1>2. CASE clicFrames = <<>>
  BY <1>1, <1>2 DEF ClicInv, ClicThreshOK
<1>3. CASE clicFrames # <<>>
  <2>1. n \in DOMAIN clicFrames /\ clicThresh = ClicLevel(n)
    BY <1>3, ClicLevelType DEF ClicInv, ClicThreshOK
  <2>2. /\ clicFrames[n].saved >= ClicTask
        /\ \A i \in 1 .. n - 1 : clicFrames[n].saved >= ClicLevel(i)
        /\ ClicLevel(n) >= clicFrames[n].saved
    <3>1. clicFrames[n].line # ClicNone => clicCtl[clicFrames[n].line] > clicFrames[n].saved
      BY <2>1 DEF ClicInv, ClicRising
    <3>2. ClicLevel(n) >= clicFrames[n].saved
      BY <1>1, <2>1, <3>1 DEF ClicLevel
    <3> QED
      BY <2>1, <3>2 DEF ClicInv, ClicRising
  <2>3. \A i \in DOMAIN clicFrames : i = n \/ i \in 1 .. n - 1
    BY <1>1
  <2> QED
    BY <1>1, <2>1, <2>2, <2>3
<1> QED
  BY <1>2, <1>3

\* The steps that leave the levels and the frames alone.
LEMMA ClicLevelsStill ==
  ASSUME ClicInv, UNCHANGED <<clicCtl, clicFrames, clicIpm, clicThresh, clicMil, clicMpil>>,
         clicPc' = "leave" <=> clicPc = "leave", clicPc' = "boot" => clicPc = "boot"
  PROVE  ClicChain' /\ ClicRising' /\ ClicThreshOK' /\ ClicMilOK' /\ ClicBootOK'
  BY DEF ClicInv, ClicChain, ClicRising, ClicThreshOK, ClicMilOK, ClicBootOK, ClicLevel, ClicTask,
         ClicSaved

\* A trap puts a frame on top.
LEMMA ClicTrapLevels ==
  ASSUME ClicInv, clicPc = "run", clicPc' = "run", UNCHANGED <<clicCtl, clicIpm>>,
         NEW f \in ClicFrame, f.saved = clicThresh, clicFrames' = Append(clicFrames, f),
         f.line # ClicNone => clicCtl[f.line] > clicThresh,
         clicThresh' = IF f.line = ClicNone THEN clicThresh ELSE clicCtl[f.line]
  PROVE  ClicChain' /\ ClicRising' /\ ClicThreshOK' /\ ClicBootOK'
<1> DEFINE n == Len(clicFrames)
<1>1. /\ clicFrames \in Seq(ClicFrame) /\ n \in Nat /\ DOMAIN clicFrames = 1 .. n
      /\ ClicTask \in Nat /\ clicThresh \in Nat
      /\ \A i \in 1 .. n : ClicLevel(i) \in Nat
  BY ClicLevelType DEF ClicInv
<1>2. /\ DOMAIN clicFrames' = 1 .. n + 1 /\ Len(clicFrames') = n + 1
      /\ clicFrames'[n + 1] = f
      /\ \A i \in 1 .. n : clicFrames'[i] = clicFrames[i]
      /\ clicFrames' # <<>>
  BY <1>1
<1>3. ClicTask' = ClicTask /\ \A i \in 1 .. n : ClicLevel(i)' = ClicLevel(i)
  BY <1>2 DEF ClicTask, ClicLevel
<1>4. clicThresh >= ClicTask /\ \A i \in 1 .. n : clicThresh >= ClicLevel(i)
  BY <1>1, ClicTopHighest
<1>5. clicThresh' = ClicLevel(Len(clicFrames))'
  BY <1>2 DEF ClicLevel
<1>6. clicThresh = IF n = 0 THEN ClicTask ELSE ClicLevel(n)
  BY <1>1 DEF ClicInv, ClicThreshOK
<1>7. ClicChain'
  <2> SUFFICES ASSUME NEW i \in 1 .. n + 1
               PROVE  clicFrames'[i].saved = IF i = 1 THEN ClicTask' ELSE ClicLevel(i - 1)'
    BY <1>2 DEF ClicChain
  <2>1. CASE i = n + 1
    <3>1. i = 1 <=> n = 0
      BY <1>1, <2>1
    <3>2. i # 1 => i - 1 = n /\ n \in 1 .. n
      BY <1>1, <2>1
    <3> QED
      BY <1>2, <1>3, <1>6, <2>1, <3>1, <3>2
  <2>2. CASE i \in 1 .. n
    <3>1. clicFrames[i].saved = IF i = 1 THEN ClicTask ELSE ClicLevel(i - 1)
      BY <1>1, <2>2 DEF ClicInv, ClicChain
    <3>2. i # 1 => i - 1 \in 1 .. n
      BY <1>1, <2>2
    <3> QED
      BY <1>2, <1>3, <2>2, <3>1, <3>2
  <2> QED
    BY <1>1, <2>1, <2>2
<1>8. ClicRising'
  <2> SUFFICES ASSUME NEW j \in 1 .. n + 1
               PROVE  /\ clicFrames'[j].saved >= ClicTask'
                      /\ clicFrames'[j].line # ClicNone
                         => clicCtl'[clicFrames'[j].line] > clicFrames'[j].saved
                      /\ \A i \in 1 .. j - 1 : clicFrames'[j].saved >= ClicLevel(i)'
    BY <1>2 DEF ClicRising
  <2>1. CASE j = n + 1
    <3>1. 1 .. j - 1 = 1 .. n
      BY <1>1, <2>1
    <3> QED
      BY <1>2, <1>3, <1>4, <2>1, <3>1
  <2>2. CASE j \in 1 .. n
    <3>1. \A i \in 1 .. j - 1 : i \in 1 .. n
      BY <1>1, <2>2
    <3>2. /\ clicFrames[j].saved >= ClicTask
          /\ clicFrames[j].line # ClicNone => clicCtl[clicFrames[j].line] > clicFrames[j].saved
          /\ \A i \in 1 .. j - 1 : clicFrames[j].saved >= ClicLevel(i)
      BY <1>1, <2>2 DEF ClicInv, ClicRising
    <3> QED
      BY <1>2, <1>3, <2>2, <3>1, <3>2
  <2> QED
    BY <1>1, <2>1, <2>2
<1>9. ClicThreshOK' /\ ClicBootOK'
  BY <1>2, <1>5 DEF ClicThreshOK, ClicBootOK
<1> QED
  BY <1>7, <1>8, <1>9

LEMMA ClicAcceptInv ==
  ASSUME ClicInv, NEW l \in ClicLines, ClicAccept(l)
  PROVE  ClicInv'
<1> DEFINE f == [line |-> l, saved |-> clicThresh]
<1>1. /\ clicPc = "run" /\ clicPc' = "run" /\ Len(clicFrames) < ClicMaxDepth
      /\ clicCtl[l] > clicThresh /\ clicMpil' = clicMil /\ clicMil' = clicCtl[l]
      /\ clicFrames' = Append(clicFrames, f) /\ clicThresh' = clicCtl[l]
      /\ UNCHANGED <<clicMap, clicSrcmask, clicFromCpu, clicAsserted, clicIe, clicCtl, clicMie,
                     clicIpm, clicCalls>>
  BY DEF ClicAccept, ClicRunning, ClicIrcBeginInt, clicRouting
<1>2. ClicTypeOK
  BY DEF ClicInv
<1>3. f \in ClicFrame /\ l # ClicNone /\ clicThresh' \in ClicBytes /\ clicMil' \in ClicBytes
  BY <1>1, <1>2, ClicLevelType, ClicAssumption DEF ClicFrame, ClicAssumption, ClicTypeOK
<1>4. /\ clicFrames' \in Seq(ClicFrame) /\ Len(clicFrames') = Len(clicFrames) + 1
      /\ clicFrames'[Len(clicFrames')] = f /\ Len(clicFrames') \in DOMAIN clicFrames'
      /\ Len(clicFrames') <= ClicMaxDepth
  <2>1. clicFrames \in Seq(ClicFrame) /\ Len(clicFrames) \in Nat /\ ClicMaxDepth \in Nat
    BY <1>2, ClicLevelType, ClicAssumption DEF ClicAssumption
  <2> HIDE DEF f
  <2> QED
    BY <1>1, <1>3, <2>1
<1>5. ClicTypeOK'
  BY <1>1, <1>2, <1>3, <1>4 DEF ClicTypeOK, ClicFrame
<1>6. ClicChain' /\ ClicRising' /\ ClicThreshOK' /\ ClicBootOK'
  <2>1. f.line = l /\ f.saved = clicThresh
    OBVIOUS
  <2> HIDE DEF f
  <2> QED
    BY <1>1, <1>3, <2>1, ClicTrapLevels
<1>7. ClicMilOK'
  BY <1>1, <1>3, <1>4 DEF ClicMilOK
<1>8. ClicRouted'
  BY <1>1 DEF ClicInv, ClicRouted
<1> QED
  BY <1>5, <1>6, <1>7, <1>8 DEF ClicInv

LEMMA ClicExceptionInv ==
  ASSUME ClicInv, ClicException
  PROVE  ClicInv'
<1> DEFINE f == [line |-> ClicNone, saved |-> clicThresh]
<1>1. /\ clicPc = "run" /\ clicPc' = "run" /\ Len(clicFrames) < ClicMaxDepth
      /\ clicMpil' = clicMil /\ clicMil' = clicMil /\ clicThresh' = clicThresh
      /\ clicFrames' = Append(clicFrames, f)
      /\ clicCalls < ClicMaxCalls /\ clicCalls' = clicCalls + 1
      /\ UNCHANGED <<clicMap, clicSrcmask, clicFromCpu, clicAsserted, clicIe, clicCtl, clicMie,
                     clicIpm>>
  BY DEF ClicException, ClicRunning, ClicCall, clicRouting
<1>2. ClicTypeOK
  BY DEF ClicInv
<1>3. f \in ClicFrame /\ clicCalls' \in 0..ClicMaxCalls
  <2>1. clicThresh \in ClicBytes /\ clicCalls \in 0..ClicMaxCalls /\ ClicMaxCalls \in Nat
    BY <1>2, ClicAssumption DEF ClicTypeOK, ClicAssumption
  <2> QED
    BY <1>1, <2>1 DEF ClicFrame
<1>4. /\ clicFrames' \in Seq(ClicFrame) /\ Len(clicFrames') = Len(clicFrames) + 1
      /\ DOMAIN clicFrames \subseteq DOMAIN clicFrames'
      /\ \A i \in DOMAIN clicFrames : clicFrames'[i] = clicFrames[i]
      /\ Len(clicFrames') <= ClicMaxDepth
  <2>1. clicFrames \in Seq(ClicFrame) /\ Len(clicFrames) \in Nat /\ ClicMaxDepth \in Nat
    BY <1>2, ClicLevelType, ClicAssumption DEF ClicAssumption
  <2> HIDE DEF f
  <2> QED
    BY <1>1, <1>3, <2>1
<1>5. ClicTypeOK'
  BY <1>1, <1>2, <1>3, <1>4 DEF ClicTypeOK, ClicFrame
<1>6. ClicChain' /\ ClicRising' /\ ClicThreshOK' /\ ClicBootOK'
  <2>1. f.line = ClicNone /\ f.saved = clicThresh
    OBVIOUS
  <2> HIDE DEF f
  <2> QED
    BY <1>1, <1>3, <2>1, ClicTrapLevels
<1>7. ClicMilOK'
  BY <1>1, <1>4 DEF ClicInv, ClicMilOK
<1>8. ClicRouted'
  BY <1>1 DEF ClicInv, ClicRouted
<1> QED
  BY <1>5, <1>6, <1>7, <1>8 DEF ClicInv

\* The handler's end: the mask goes back to what the frame saved.
LEMMA ClicHandledInv ==
  ASSUME ClicInv, ClicHandled
  PROVE  ClicInv'
<1> DEFINE n == Len(clicFrames)
<1>1. /\ clicPc = "run" /\ clicPc' = "leave" /\ clicFrames # <<>> /\ clicThresh' = ClicSaved
      /\ clicMie' = FALSE
      /\ \/ clicFrames[n].line # ClicNone /\ clicMpil' = 0
         \/ clicFrames[n].line = ClicNone /\ clicMpil' = clicMpil
      /\ UNCHANGED <<clicMap, clicSrcmask, clicFromCpu, clicAsserted, clicIe, clicCtl, clicMil,
                     clicFrames, clicIpm, clicCalls>>
  BY DEF ClicHandled, ClicRunning, ClicIrcEndInt, ClicIrcEndExc, clicRouting
<1>2. ClicTypeOK /\ n \in DOMAIN clicFrames
  BY <1>1, ClicLevelType DEF ClicInv
<1>3. ClicTypeOK'
  <2>1. clicThresh' \in ClicBytes /\ clicMpil' \in {0} \cup ClicBytes
    BY <1>1, <1>2, ClicLevelType DEF ClicSaved, ClicTypeOK
  <2> QED
    BY <1>1, <1>2, <2>1 DEF ClicTypeOK
<1>4. ClicChain' /\ ClicRising' /\ ClicBootOK' /\ ClicRouted'
  BY <1>1 DEF ClicInv, ClicChain, ClicRising, ClicLevel, ClicTask, ClicBootOK, ClicRouted
<1>5. ClicThreshOK' /\ ClicMilOK'
  BY <1>1, <1>2 DEF ClicInv, ClicThreshOK, ClicSaved, ClicMilOK
<1> QED
  BY <1>3, <1>4, <1>5 DEF ClicInv

\* The mret.
LEMMA ClicLeaveInv ==
  ASSUME ClicInv, ClicLeave
  PROVE  ClicInv'
<1> DEFINE n == Len(clicFrames)
<1>1. /\ clicPc = "leave" /\ clicMil' = clicMpil /\ clicPc' \in {"run", "dispatch"}
      /\ clicMie' \in {TRUE, clicMie}
      /\ clicFrames' = SubSeq(clicFrames, 1, n - 1)
      /\ UNCHANGED <<clicMap, clicSrcmask, clicFromCpu, clicAsserted, clicIe, clicCtl, clicThresh,
                     clicMpil, clicIpm, clicCalls>>
  BY DEF ClicLeave, clicRouting
<1>2. /\ clicFrames # <<>> /\ clicFrames \in Seq(ClicFrame) /\ n \in Nat /\ n \in 1 .. n
      /\ DOMAIN clicFrames = 1 .. n /\ n <= ClicMaxDepth /\ ClicMaxDepth \in Nat
  BY <1>1, ClicLevelType, ClicAssumption DEF ClicInv, ClicMilOK, ClicTypeOK, ClicAssumption
<1>3. /\ clicFrames' \in Seq(ClicFrame) /\ Len(clicFrames') = n - 1
      /\ DOMAIN clicFrames' = 1 .. n - 1
      /\ \A i \in 1 .. n - 1 : clicFrames'[i] = clicFrames[i] /\ i \in 1 .. n
      /\ clicFrames' = <<>> <=> n = 1
  <2>1. 1 .. n - 1 \subseteq 1 .. n
    BY <1>2
  <2>2. /\ clicFrames' \in Seq(ClicFrame) /\ Len(clicFrames') = n - 1
        /\ \A i \in 1 .. n - 1 : clicFrames'[i] = clicFrames[i]
    BY <1>1, <1>2, SubSeqProperties
  <2> QED
    BY <1>2, <2>1, <2>2
<1>4. ClicTypeOK'
  <2>1. Len(clicFrames') <= ClicMaxDepth
    BY <1>2, <1>3
  <2> QED
    BY <1>1, <1>3, <2>1 DEF ClicInv, ClicTypeOK, ClicFrame
<1>5. ClicTask' = ClicTask /\ \A i \in 1 .. n - 1 : ClicLevel(i)' = ClicLevel(i)
  BY <1>1, <1>3 DEF ClicTask, ClicLevel
<1>6. ClicChain' /\ ClicRising'
  <2>1. \A i \in 1 .. n - 1 : i # 1 => i - 1 \in 1 .. n - 1
    BY <1>2
  <2>2. \A j \in 1 .. n - 1 : \A i \in 1 .. j - 1 : i \in 1 .. n - 1
    BY <1>2
  <2>3. ClicChain'
    BY <1>2, <1>3, <1>5, <2>1 DEF ClicInv, ClicChain
  <2>4. ClicRising'
    BY <1>1, <1>2, <1>3, <1>5, <2>2 DEF ClicInv, ClicRising
  <2> QED
    BY <2>3, <2>4
<1>7. ClicThreshOK'
  <2>1. clicThresh = IF n = 1 THEN ClicTask ELSE ClicLevel(n - 1)
    BY <1>1, <1>2 DEF ClicInv, ClicThreshOK, ClicSaved, ClicChain
  <2>2. n # 1 => ClicLevel(Len(clicFrames))' = ClicLevel(n - 1)
    <3>1. n # 1 => n - 1 \in 1 .. n - 1
      BY <1>2
    <3> QED
      BY <1>1, <1>3, <3>1 DEF ClicLevel
  <2> QED
    BY <1>1, <1>3, <1>5, <2>1, <2>2 DEF ClicThreshOK
<1>8. ClicMilOK'
  <2>1. CASE clicFrames[n].line # ClicNone
    BY <1>1, <2>1 DEF ClicInv, ClicMilOK
  <2>2. CASE clicFrames[n].line = ClicNone
    <3>0. n \in Nat
      BY <1>2
    <3>1. \A i \in 1 .. n : i = n \/ i \in 1 .. n - 1
      <4> HIDE DEF n
      <4> QED
        BY <3>0
    <3> QED
      BY <1>1, <1>2, <1>3, <2>2, <3>1 DEF ClicInv, ClicMilOK
  <2> QED
    BY <2>1, <2>2
<1>9. ClicBootOK' /\ ClicRouted'
  BY <1>1 DEF ClicInv, ClicBootOK, ClicRouted
<1> QED
  BY <1>4, <1>6, <1>7, <1>8, <1>9 DEF ClicInv

\* Start-up: nothing is handled yet.
LEMMA ClicBootInv ==
  ASSUME ClicInv, ClicStart \/ \E s \in ClicSources, l \in ClicLines : ClicRoute(s, l)
  PROVE  ClicInv'
<1>1. /\ clicPc = "boot" /\ clicFrames = <<>>
      /\ UNCHANGED <<clicAsserted, clicThresh, clicMil, clicMpil, clicFrames, clicIpm, clicCalls>>
  BY DEF ClicStart, ClicRoute, clicLevels, ClicInv, ClicBootOK
<1>2. ClicTypeOK /\ ClicPriorities \subseteq 1 .. 7 /\ ClicNone \notin ClicLines
  BY ClicAssumption DEF ClicInv, ClicAssumption
<1>3. CASE ClicStart
  <2>1. PICK p \in [ClicLines -> ClicPriorities] :
          clicCtl' = [l \in ClicLines |-> CLIC_NLBITS_TO_BYTE(p[l])]
    BY <1>3 DEF ClicStart
  <2>2. clicCtl' \in [ClicLines -> ClicBytes]
    <3>0. 1 .. 7 \subseteq 0 .. 7
      OBVIOUS
    <3>1. \A l \in ClicLines : p[l] \in 0 .. 7
      BY <1>2, <2>1, <3>0, Zenon
    <3>2. \A l \in ClicLines : CLIC_NLBITS_TO_BYTE(p[l]) \in ClicBytes
      BY <3>1, ClicByteType
    <3> QED
      BY <2>1, <3>2
  <2>3. /\ clicIe' = [l \in ClicLines |-> TRUE] /\ clicPc' = "run" /\ clicMie' = TRUE
        /\ UNCHANGED <<clicMap, clicSrcmask, clicFromCpu>>
    BY <1>3 DEF ClicStart, clicRouting
  <2>4. ClicTypeOK'
    BY <1>1, <1>2, <2>2, <2>3 DEF ClicTypeOK
  <2>5. ClicRouted' /\ ClicBootOK'
    BY <2>3 DEF ClicInv, ClicRouted, ClicBootOK
  <2>6. ClicChain' /\ ClicRising' /\ ClicThreshOK' /\ ClicMilOK'
    BY <1>1, <2>3 DEF ClicInv, ClicChain, ClicRising, ClicThreshOK, ClicMilOK, ClicTask
  <2> QED
    BY <2>4, <2>5, <2>6 DEF ClicInv
<1>4. CASE \E s \in ClicSources, l \in ClicLines : ClicRoute(s, l)
  <2>1. PICK s \in ClicSources, l \in ClicLines : ClicRoute(s, l)
    BY <1>4
  <2>2. /\ clicMap[s] = ClicNone /\ clicMap' = [clicMap EXCEPT ![s] = l]
        /\ clicSrcmask' = [clicSrcmask EXCEPT ![l] = @ \cup {s}]
        /\ clicFromCpu' = (IF s \in ClicFromCpus THEN [clicFromCpu EXCEPT ![l] = s]
                                                 ELSE clicFromCpu)
        /\ UNCHANGED <<clicIe, clicCtl, clicMie, clicPc>>
    BY <2>1 DEF ClicRoute, clicLevels
  <2>3. /\ clicMap' \in [ClicSources -> ClicLines \cup {ClicNone}]
        /\ clicSrcmask' \in [ClicLines -> SUBSET ClicSources]
        /\ clicFromCpu' \in [ClicLines -> ClicFromCpus \cup {ClicNone}]
    BY <1>2, <2>2 DEF ClicTypeOK
  <2>4. ClicTypeOK'
    BY <1>1, <1>2, <2>2, <2>3 DEF ClicTypeOK
  <2>5. ClicRouted'
    BY <1>2, <2>2 DEF ClicInv, ClicRouted, ClicTypeOK
  <2>6. ClicChain' /\ ClicRising' /\ ClicThreshOK' /\ ClicMilOK' /\ ClicBootOK'
    BY <1>1, <2>2, ClicLevelsStill
  <2> QED
    BY <2>4, <2>5, <2>6 DEF ClicInv
<1> QED
  BY <1>3, <1>4

\* The devices, the operations on the lines and the dispatcher.
LEMMA ClicLinesInv ==
  ASSUME ClicInv, \/ \E s \in ClicSources : ClicDevice(s)
                  \/ \E l \in ClicLines : ClicRasClr(l) \/ ClicDisEna(l)
                  \/ ClicAck \/ ClicDispatch
  PROVE  ClicInv'
<1>1. /\ UNCHANGED <<clicMap, clicSrcmask, clicFromCpu, clicCtl, clicThresh, clicMil, clicMpil,
                     clicFrames, clicIpm>>
      /\ clicPc' = clicPc \/ (clicPc = "dispatch" /\ clicPc' = "run")
      /\ clicMie' \in {TRUE, clicMie}
  BY DEF ClicDevice, ClicRasClr, ClicDisEna, ClicAck, ClicDispatch, clicRouting, clicLevels
<1>2. ClicTypeOK
  BY DEF ClicInv
<1>3. clicAsserted' \subseteq ClicSources /\ clicIe' \in [ClicLines -> BOOLEAN]
  <2>1. \A l \in ClicLines : clicFromCpu[l] # ClicNone => clicFromCpu[l] \in ClicSources
    BY <1>2, ClicAssumption DEF ClicAssumption, ClicTypeOK
  <2>2. CASE \E s \in ClicSources : ClicDevice(s)
    BY <1>2, <2>2 DEF ClicDevice, ClicTypeOK
  <2>3. CASE \E l \in ClicLines : ClicRasClr(l)
    BY <1>2, <2>1, <2>3 DEF ClicRasClr, ClicTypeOK
  <2>4. CASE \E l \in ClicLines : ClicDisEna(l)
    BY <1>2, <2>4 DEF ClicDisEna, ClicTypeOK
  <2>5. CASE ClicAck \/ ClicDispatch
    BY <1>2, <2>5 DEF ClicAck, ClicDispatch, ClicTypeOK
  <2> QED
    BY <2>2, <2>3, <2>4, <2>5
<1>4. clicCalls' \in 0 .. ClicMaxCalls
  <2>1. \/ clicCalls' = clicCalls
        \/ clicCalls < ClicMaxCalls /\ clicCalls' = clicCalls + 1
    BY DEF ClicDevice, ClicRasClr, ClicDisEna, ClicAck, ClicDispatch, ClicCall
  <2> QED
    BY <1>2, <2>1, ClicAssumption DEF ClicTypeOK, ClicAssumption
<1>5. ClicTypeOK'
  BY <1>1, <1>2, <1>3, <1>4 DEF ClicTypeOK
<1>6. ClicRouted'
  BY <1>1 DEF ClicInv, ClicRouted
<1>7. ClicChain' /\ ClicRising' /\ ClicThreshOK' /\ ClicMilOK' /\ ClicBootOK'
  BY <1>1, ClicLevelsStill
<1> QED
  BY <1>5, <1>6, <1>7 DEF ClicInv

LEMMA ClicSetThreshInv ==
  ASSUME ClicInv, ClicSetThresh
  PROVE  ClicInv'
<1>1. PICK m \in {0} \cup ClicPriorities : clicThresh' = CLIC_NLBITS_TO_BYTE(m) /\ clicIpm' = m
  BY DEF ClicSetThresh
<1>2. /\ clicPc = "run" /\ clicFrames = <<>>
      /\ clicCalls < ClicMaxCalls /\ clicCalls' = clicCalls + 1
      /\ UNCHANGED <<clicMap, clicSrcmask, clicFromCpu, clicAsserted, clicIe, clicCtl, clicMil,
                     clicMpil, clicMie, clicPc, clicFrames>>
  BY DEF ClicSetThresh, ClicRunning, ClicCall, clicRouting
<1>3. m \in 0 .. 7
  BY ClicAssumption DEF ClicAssumption
<1>4. ClicTypeOK'
  <2>1. clicThresh' \in ClicBytes
    BY <1>1, <1>3, ClicByteType
  <2>2. clicCalls' \in 0 .. ClicMaxCalls
    BY <1>2, ClicAssumption DEF ClicInv, ClicTypeOK, ClicAssumption
  <2> QED
    BY <1>1, <1>2, <1>3, <2>1, <2>2 DEF ClicInv, ClicTypeOK
<1>5. ClicThreshOK'
  BY <1>1, <1>2 DEF ClicThreshOK, ClicTask
<1>6. ClicChain' /\ ClicRising' /\ ClicMilOK' /\ ClicBootOK' /\ ClicRouted'
  BY <1>2 DEF ClicInv, ClicChain, ClicRising, ClicMilOK, ClicBootOK, ClicRouted
<1> QED
  BY <1>4, <1>5, <1>6 DEF ClicInv

LEMMA ClicInitInv == ClicInit => ClicInv
<1> SUFFICES ASSUME ClicInit PROVE ClicInv
  OBVIOUS
<1>1. ClicTypeOK
  <2>1. CLIC_NLBITS_TO_BYTE(0) \in ClicBytes /\ ClicMaxCalls \in Nat /\ ClicMaxDepth \in Nat
    BY ClicByteType, ClicAssumption DEF ClicAssumption
  <2>2. 0 \in 0 .. 7 /\ 0 \in 0 .. ClicMaxCalls
    BY <2>1
  <2>3. <<>> \in Seq(ClicFrame) /\ Len(<<>>) <= ClicMaxDepth
    BY <2>1
  <2>4. clicThresh \in ClicBytes /\ clicCtl \in [ClicLines -> ClicBytes]
    BY <2>1 DEF ClicInit
  <2> QED
    BY <2>2, <2>3, <2>4 DEF ClicInit, ClicTypeOK, ClicFrame
<1>2. ClicRouted
  BY ClicAssumption DEF ClicInit, ClicRouted, ClicAssumption
<1>3. ClicChain /\ ClicRising /\ ClicThreshOK /\ ClicMilOK /\ ClicBootOK
  BY DEF ClicInit, ClicChain, ClicRising, ClicThreshOK, ClicMilOK, ClicBootOK, ClicTask
<1> QED
  BY <1>1, <1>2, <1>3 DEF ClicInv

LEMMA ClicNextInv == ClicInv /\ [ClicNext]_clicVars => ClicInv'
<1> SUFFICES ASSUME ClicInv, [ClicNext]_clicVars PROVE ClicInv'
  OBVIOUS
<1>1. CASE UNCHANGED clicVars
  BY <1>1 DEF clicVars, clicRouting, clicLevels, ClicInv, ClicTypeOK, ClicChain, ClicRising,
              ClicThreshOK, ClicMilOK, ClicBootOK, ClicRouted, ClicLevel, ClicTask, ClicSaved
<1>2. CASE ClicNext
  BY <1>2, ClicBootInv, ClicLinesInv, ClicSetThreshInv, ClicExceptionInv, ClicHandledInv,
     ClicLeaveInv, ClicAcceptInv DEF ClicNext
<1> QED
  BY <1>1, <1>2

\* Handlers nest only upwards and never run below the mask of the task, the level and the
\* mask are those of the task again when the last one is done, and prb_int sees the
\* requests that are routed to the line (chip_support.S:63-162, clic_kernel_impl.h,
\* chip_kernel_impl.c), for any number of lines, sources and frames.
THEOREM LevelsRight == ClicSpec => [](ClicTypeOK /\ ClicLevelsRight)
<1>1. ClicInv => ClicTypeOK /\ ClicLevelsRight
  <2> SUFFICES ASSUME ClicInv PROVE ClicTypeOK /\ ClicLevelsRight
    OBVIOUS
  <2>1. ClicTypeOK
    BY DEF ClicInv
  <2>2. ClicNested
    <3> SUFFICES ASSUME NEW j \in DOMAIN clicFrames, clicFrames[j].line # ClicNone
                 PROVE  /\ clicCtl[clicFrames[j].line] > ClicTask
                        /\ \A i \in 1 .. j - 1 : clicFrames[i].line # ClicNone =>
                             clicCtl[clicFrames[i].line] < clicCtl[clicFrames[j].line]
      BY DEF ClicNested, ClicTask
    <3>1. /\ clicFrames[j].saved \in Nat /\ clicFrames[j].saved >= ClicTask
          /\ clicCtl[clicFrames[j].line] > clicFrames[j].saved
          /\ clicCtl[clicFrames[j].line] \in Nat /\ ClicTask \in Nat
      BY <2>1, ClicLevelType DEF ClicInv, ClicRising
    <3>2. \A i \in 1 .. j - 1 : clicFrames[i].line # ClicNone =>
            /\ clicFrames[j].saved >= clicCtl[clicFrames[i].line]
            /\ clicCtl[clicFrames[i].line] \in Nat
      <4>1. \A i \in 1 .. j - 1 : i \in DOMAIN clicFrames
        BY <2>1, ClicLevelType
      <4>2. \A i \in 1 .. j - 1 : clicFrames[j].saved >= ClicLevel(i)
        BY DEF ClicInv, ClicRising
      <4> QED
        BY <2>1, <4>1, <4>2, ClicLevelType DEF ClicLevel
    <3> QED
      BY <3>1, <3>2
  <2>3. ClicReopened
    <3> SUFFICES ASSUME clicFrames = <<>>
                 PROVE  clicMil = 0 /\ CLIC_BYTE_TO_NLBITS(clicThresh) = clicIpm
      BY DEF ClicReopened
    <3>1. clicMil = 0 /\ clicThresh = ClicTask
      BY DEF ClicInv, ClicMilOK, ClicThreshOK
    <3> QED
      BY <2>1, <3>1, ClicByteType DEF ClicTask, ClicTypeOK
  <2>4. ClicProbed
    BY <2>1 DEF ClicInv, ClicProbed, ClicProbe, ClicRouted, ClicTypeOK
  <2> QED
    BY <2>1, <2>2, <2>3, <2>4 DEF ClicLevelsRight
<1> QED
  BY <1>1, ClicInitInv, ClicNextInv, PTL DEF ClicSpec

(***************************************************************************)
(* The port of lwIP.                                                       *)
(***************************************************************************)
SysSemPcs == {"api", "select", "post", "wait", "waiting", "withdraw", "free"}

\* A client holds a semaphore from its sys_sem_new to its sys_sem_free, alone.
SysSemOK ==
  \A c \in SysClients :
    /\ sysSem[c] # 0 <=> sysPc[c] \in SysSemPcs
    /\ sysSem[c] # 0 => /\ sysSemUsed[sysSem[c]]
                        /\ \A d \in SysClients \ {c} : sysSem[d] # sysSem[c]

\* The same of its connection's mailbox.
SysConnOK ==
  \A c \in SysClients :
    /\ sysPc[c] \in {"ini", "close"} => sysConn[c] # 0
    /\ sysConn[c] # 0 => /\ sysMboxUsed[sysConn[c]]
                         /\ \A d \in SysClients \ {c} : sysConn[d] # sysConn[c]

\* A signal a client may take is the one it waits for.
SysWaitOK ==
  \A c \in SysClients :
    /\ sysPc[c] \in {"post", "wait", "waiting"} /\ sysCount[sysSem[c]] = 1 => sysServed[c]
    /\ sysPc[c] \in {"withdraw", "free"} => sysServed[c]

\* A mailbox holds messages of its connection only, once it has been emptied.
SysDtqOK ==
  \A c \in SysClients :
    /\ sysConn[c] # 0 /\ sysPc[c] # "ini"
       => \A i \in DOMAIN sysDtq[sysConn[c]] : sysDtq[sysConn[c]][i] = c
    /\ sysGot[c] = c

SysInv == SysTypeOK /\ SysSemOK /\ SysConnOK /\ SysWaitOK /\ SysDtqOK

LEMMA SysNumbers ==
  /\ 0 \notin SysSems /\ SysSems \subseteq Nat /\ 0 \notin SysMboxs /\ SysMboxs \subseteq Nat
  /\ SYS_ARCH_MBOX_DEPTH \in Nat /\ SysMaxCalls \in Nat
  BY SysAssumption DEF SysAssumption, SysSems, SysMboxs

LEMMA SysInitInv == SysInit => SysInv
<1> SUFFICES ASSUME SysInit PROVE SysInv
  OBVIOUS
<1>1. SysTypeOK
  <2>1. <<>> \in Seq(SysClients) /\ Len(<<>>) <= SYS_ARCH_MBOX_DEPTH /\ 0 \in 0..SysMaxCalls
    BY SysNumbers
  <2>2. /\ sysDtq \in [SysMboxs -> Seq(SysClients)]
        /\ \A b \in SysMboxs : Len(sysDtq[b]) <= SYS_ARCH_MBOX_DEPTH
    BY <2>1 DEF SysInit
  <2>3. /\ sysSem \in [SysClients -> SysSems \cup {0}]
        /\ sysConn \in [SysClients -> SysMboxs \cup {0}]
        /\ sysGot \in [SysClients -> SysClients] /\ sysServed \in [SysClients -> BOOLEAN]
    BY DEF SysInit
  <2>4. /\ sysSemUsed \in [SysSems -> BOOLEAN] /\ sysCount \in [SysSems -> 0..1]
        /\ sysMboxUsed \in [SysMboxs -> BOOLEAN]
    BY DEF SysInit
  <2> QED
    BY <2>1, <2>2, <2>3, <2>4 DEF SysInit, SysTypeOK
<1> QED
  BY <1>1 DEF SysInit, SysInv, SysSemOK, SysConnOK, SysWaitOK, SysDtqOK, SysSemPcs

LEMMA SysCallType ==
  ASSUME SysInv, SysCall
  PROVE  sysCalls' \in 0..SysMaxCalls
  BY SysNumbers DEF SysInv, SysTypeOK, SysCall

\* sys_sem_new: the semaphore taken was nobody's.
LEMMA SysSemNewInv ==
  ASSUME SysInv, NEW c \in SysClients, SysSemNew(c)
  PROVE  SysInv'
<1> USE SysNumbers DEF SysInv
<1> DEFINE free == {s \in SysSems : ~sysSemUsed[s]}
<1>1. /\ sysPc[c] = "idle" /\ SysCall
      /\ UNCHANGED <<sysUp, sysCount, sysMboxUsed, sysDtq, sysTcpip, sysSelect, sysConn,
                     sysServed, sysGot>>
  BY DEF SysSemNew, SysGo
<1>2. CASE free = {}
  <2>1. UNCHANGED <<sysSemUsed, sysSem, sysPc>>
    BY <1>2 DEF SysSemNew, SysGo, SysTypeOK
  <2>2. SysTypeOK'
    BY <1>1, <2>1, SysCallType DEF SysTypeOK
  <2> QED
    BY <1>1, <2>1, <2>2 DEF SysSemOK, SysConnOK, SysWaitOK, SysDtqOK
<1>3. CASE free # {}
  <2>1. PICK s \in SysSems, p \in {"api", "select"} :
          /\ ~sysSemUsed[s] /\ sysPc' = [sysPc EXCEPT ![c] = p]
          /\ sysSemUsed' = [sysSemUsed EXCEPT ![s] = TRUE]
          /\ sysSem' = [sysSem EXCEPT ![c] = s]
    <3>1. Min(free) \in free
      <4>1. free \subseteq Nat
        OBVIOUS
      <4> HIDE DEF free
      <4> QED
        BY <1>3, <4>1, MinIsIn
    <3> QED
      BY <1>3, <3>1 DEF SysSemNew, SysGo
  <2>2. SysTypeOK'
    BY <1>1, <2>1, SysCallType DEF SysTypeOK
  <2>3. /\ sysPc'[c] = p /\ sysSem'[c] = s /\ sysSemUsed'[s]
        /\ \A d \in SysClients \ {c} : sysPc'[d] = sysPc[d] /\ sysSem'[d] = sysSem[d]
        /\ \A t \in SysSems \ {s} : sysSemUsed'[t] = sysSemUsed[t]
    BY <2>1 DEF SysTypeOK
  <2>4. \A d \in SysClients : sysSem[d] # s
    BY <2>1 DEF SysSemOK
  <2>5. SysSemOK'
    <3> SUFFICES ASSUME NEW d \in SysClients
                 PROVE  /\ sysSem'[d] # 0 <=> sysPc'[d] \in SysSemPcs
                        /\ sysSem'[d] # 0 =>
                             /\ sysSemUsed'[sysSem'[d]]
                             /\ \A e \in SysClients \ {d} : sysSem'[e] # sysSem'[d]
      BY DEF SysSemOK
    <3>1. CASE d = c
      BY <2>3, <2>4, <3>1 DEF SysSemPcs
    <3>2. CASE d # c
      <4>1. /\ sysSem[d] # 0 <=> sysPc[d] \in SysSemPcs
            /\ sysSem[d] # 0 => /\ sysSem[d] \in SysSems /\ sysSemUsed[sysSem[d]]
                                /\ \A e \in SysClients \ {d} : sysSem[e] # sysSem[d]
        BY DEF SysSemOK, SysTypeOK
      <4> QED
        BY <2>3, <2>4, <3>2, <4>1
    <3> QED
      BY <3>1, <3>2
  <2>6. SysConnOK' /\ SysDtqOK'
    BY <1>1, <2>3 DEF SysConnOK, SysDtqOK
  <2>7. SysWaitOK'
    BY <1>1, <2>3 DEF SysWaitOK
  <2> QED
    BY <2>2, <2>5, <2>6, <2>7
<1> QED
  BY <1>2, <1>3

\* What a client does with its semaphore.
LEMMA SysSemUseInv ==
  ASSUME SysInv, NEW c \in SysClients,
         SysSemReady(c) \/ SysPost(c) \/ SysSemWait(c) \/ SysSemTimeout(c) \/ SysWithdraw(c)
  PROVE  SysInv'
<1> USE SysNumbers DEF SysInv
<1>1. /\ sysPc[c] \in SysSemPcs \ {"free"}
      /\ \E p \in SysSemPcs : sysPc' = [sysPc EXCEPT ![c] = p]
      /\ UNCHANGED <<sysUp, sysSemUsed, sysMboxUsed, sysDtq, sysSem, sysConn, sysGot, sysCalls>>
  BY DEF SysSemReady, SysPost, SysSemWait, SysSemTimeout, SysWithdraw, SysGo, SysSemPcs, sysPools,
         sysHist
<1>2. PICK p \in SysSemPcs : sysPc' = [sysPc EXCEPT ![c] = p]
  BY <1>1
<1>3. sysPc'[c] = p /\ \A d \in SysClients \ {c} : sysPc'[d] = sysPc[d]
  BY <1>2 DEF SysTypeOK
<1>4. sysSem[c] \in SysSems /\ \A d \in SysClients \ {c} : sysSem[d] # sysSem[c]
  BY <1>1 DEF SysSemOK, SysTypeOK
<1>5. SysSemOK' /\ SysConnOK' /\ SysDtqOK'
  BY <1>1, <1>3 DEF SysSemOK, SysConnOK, SysDtqOK, SysSemPcs
<1>6. /\ sysCount' \in [SysSems -> 0..1] /\ sysServed' \in [SysClients -> BOOLEAN]
      /\ \A s \in SysSems \ {sysSem[c]} : sysCount'[s] = sysCount[s]
      /\ \A d \in SysClients \ {c} : sysServed'[d] = sysServed[d]
  <2>1. /\ sysCount' = sysCount \/ sysCount' = [sysCount EXCEPT ![sysSem[c]] = 0]
        /\ sysServed' = sysServed \/ \E v \in BOOLEAN : sysServed' = [sysServed EXCEPT ![c] = v]
    BY DEF SysSemReady, SysPost, SysSemWait, SysSemTimeout, SysWithdraw, SysDrain, sysPools, sysHist
  <2>2. sysCount \in [SysSems -> 0..1] /\ sysServed \in [SysClients -> BOOLEAN]
    BY DEF SysTypeOK
  <2>3. sysCount' \in [SysSems -> 0..1] /\ \A s \in SysSems \ {sysSem[c]} : sysCount'[s] = sysCount[s]
    BY <2>1, <2>2
  <2>4. /\ sysServed' \in [SysClients -> BOOLEAN]
        /\ \A d \in SysClients \ {c} : sysServed'[d] = sysServed[d]
    BY <2>1, <2>2
  <2> QED
    BY <2>3, <2>4
<1>7. sysTcpip' \in Seq(SysClients) /\ sysSelect' \subseteq SysClients
  <2>1. sysTcpip' \in {sysTcpip, Append(sysTcpip, c)}
    BY DEF SysSemReady, SysPost, SysSemWait, SysSemTimeout, SysWithdraw
  <2>2. sysSelect' \in {sysSelect, sysSelect \cup {c}, sysSelect \ {c}}
    BY DEF SysSemReady, SysPost, SysSemWait, SysSemTimeout, SysWithdraw
  <2>3. sysTcpip \in Seq(SysClients) /\ sysSelect \subseteq SysClients
    BY DEF SysTypeOK
  <2> QED
    BY <2>1, <2>2, <2>3
<1>8. SysTypeOK'
  BY <1>1, <1>2, <1>6, <1>7 DEF SysTypeOK, SysSemPcs
<1>9. /\ p \in {"post", "wait", "waiting"} /\ sysCount'[sysSem[c]] = 1 => sysServed'[c]
      /\ p \in {"withdraw", "free"} => sysServed'[c]
  <2>1. CASE SysSemReady(c)
    BY <1>3, <1>4, <2>1 DEF SysSemReady, SysDrain, SysGo, SysTypeOK
  <2>2. CASE SysPost(c)
    BY <1>3, <2>2 DEF SysPost, SysGo, SysTypeOK, SysWaitOK, sysPools, sysHist
  <2>3. CASE SysSemWait(c)
    BY <1>3, <2>3 DEF SysSemWait, SysGo, SysTypeOK, SysWaitOK, sysHist
  <2>4. CASE SysSemTimeout(c)
    BY <1>3, <2>4 DEF SysSemTimeout, SysGo, SysTypeOK
  <2>5. CASE SysWithdraw(c)
    BY <1>3, <2>5 DEF SysWithdraw, SysGo, SysTypeOK, SysWaitOK, sysHist
  <2> QED
    BY <2>1, <2>2, <2>3, <2>4, <2>5
<1>10. SysWaitOK'
  <2> SUFFICES ASSUME NEW d \in SysClients
               PROVE  /\ sysPc'[d] \in {"post", "wait", "waiting"} /\ sysCount'[sysSem'[d]] = 1
                         => sysServed'[d]
                      /\ sysPc'[d] \in {"withdraw", "free"} => sysServed'[d]
    BY DEF SysWaitOK
  <2>1. CASE d = c
    BY <1>1, <1>3, <1>9, <2>1
  <2>2. CASE d # c
    <3>1. sysPc[d] \in {"post", "wait", "waiting"} => sysSem[d] \in SysSems \ {sysSem[c]}
      BY <1>4, <2>2 DEF SysSemOK, SysTypeOK, SysSemPcs
    <3> QED
      BY <1>1, <1>3, <1>6, <2>2, <3>1 DEF SysWaitOK
  <2> QED
    BY <2>1, <2>2
<1> QED
  BY <1>5, <1>8, <1>10

LEMMA SysSemFreeInv ==
  ASSUME SysInv, NEW c \in SysClients, SysSemFree(c)
  PROVE  SysInv'
<1> USE SysNumbers DEF SysInv
<1>1. /\ sysPc[c] = "free" /\ sysPc' = [sysPc EXCEPT ![c] = "idle"]
      /\ sysSemUsed' = [sysSemUsed EXCEPT ![sysSem[c]] = FALSE]
      /\ sysSem' = [sysSem EXCEPT ![c] = 0]
      /\ UNCHANGED <<sysUp, sysCount, sysMboxUsed, sysDtq, sysTcpip, sysSelect, sysConn, sysServed,
                     sysGot, sysCalls>>
  BY DEF SysSemFree, SysGo, sysHist
<1>2. sysSem[c] \in SysSems /\ \A d \in SysClients \ {c} : sysSem[d] # sysSem[c]
  BY <1>1 DEF SysSemOK, SysTypeOK, SysSemPcs
<1>3. /\ sysPc'[c] = "idle" /\ sysSem'[c] = 0
      /\ \A d \in SysClients \ {c} : sysPc'[d] = sysPc[d] /\ sysSem'[d] = sysSem[d]
      /\ \A s \in SysSems \ {sysSem[c]} : sysSemUsed'[s] = sysSemUsed[s]
  BY <1>1, <1>2 DEF SysTypeOK
<1>4. SysTypeOK'
  BY <1>1, <1>2 DEF SysTypeOK
<1>5. SysSemOK'
  <2> SUFFICES ASSUME NEW d \in SysClients
               PROVE  /\ sysSem'[d] # 0 <=> sysPc'[d] \in SysSemPcs
                      /\ sysSem'[d] # 0 =>
                           /\ sysSemUsed'[sysSem'[d]]
                           /\ \A e \in SysClients \ {d} : sysSem'[e] # sysSem'[d]
    BY DEF SysSemOK
  <2>1. CASE d = c
    BY <1>3, <2>1 DEF SysSemPcs
  <2>2. CASE d # c
    <3>1. /\ sysSem[d] # 0 <=> sysPc[d] \in SysSemPcs
          /\ sysSem[d] # 0 => /\ sysSem[d] \in SysSems /\ sysSemUsed[sysSem[d]]
                              /\ \A e \in SysClients \ {d} : sysSem[e] # sysSem[d]
      BY DEF SysSemOK, SysTypeOK
    <3>2. \A e \in SysClients : sysSem'[e] \in {0, sysSem[e]}
      BY <1>3
    <3> QED
      BY <1>2, <1>3, <2>2, <3>1, <3>2
  <2> QED
    BY <2>1, <2>2
<1>6. SysConnOK' /\ SysDtqOK'
  BY <1>1, <1>3 DEF SysConnOK, SysDtqOK
<1>7. SysWaitOK'
  BY <1>1, <1>3 DEF SysWaitOK
<1> QED
  BY <1>4, <1>5, <1>6, <1>7

\* sys_mbox_new takes a mailbox that is nobody's.
LEMMA SysMboxNewInv ==
  ASSUME SysInv, NEW c \in SysClients, SysMboxNew(c)
  PROVE  SysInv'
<1> USE SysNumbers DEF SysInv
<1> DEFINE free == {b \in SysMboxs : ~sysMboxUsed[b]}
<1>1. /\ sysPc[c] = "idle" /\ sysConn[c] = 0 /\ SysCall
      /\ UNCHANGED <<sysUp, sysSemUsed, sysCount, sysDtq, sysTcpip, sysSelect, sysSem,
                     sysServed, sysGot>>
  BY DEF SysMboxNew, SysGo
<1>2. CASE free = {}
  <2>1. UNCHANGED <<sysMboxUsed, sysConn, sysPc>>
    BY <1>2 DEF SysMboxNew, SysGo, SysTypeOK
  <2>2. SysTypeOK'
    BY <1>1, <2>1, SysCallType DEF SysTypeOK
  <2> QED
    BY <1>1, <2>1, <2>2 DEF SysSemOK, SysConnOK, SysWaitOK, SysDtqOK
<1>3. CASE free # {}
  <2>1. PICK b \in SysMboxs :
          /\ ~sysMboxUsed[b] /\ sysPc' = [sysPc EXCEPT ![c] = "ini"]
          /\ sysMboxUsed' = [sysMboxUsed EXCEPT ![b] = TRUE]
          /\ sysConn' = [sysConn EXCEPT ![c] = b]
    <3>1. Min(free) \in free
      <4>1. free \subseteq Nat
        OBVIOUS
      <4> HIDE DEF free
      <4> QED
        BY <1>3, <4>1, MinIsIn
    <3> QED
      BY <1>3, <3>1 DEF SysMboxNew, SysGo
  <2>2. SysTypeOK'
    BY <1>1, <2>1, SysCallType DEF SysTypeOK
  <2>3. /\ sysPc'[c] = "ini" /\ sysConn'[c] = b /\ sysMboxUsed'[b]
        /\ \A d \in SysClients \ {c} : sysPc'[d] = sysPc[d] /\ sysConn'[d] = sysConn[d]
        /\ \A a \in SysMboxs \ {b} : sysMboxUsed'[a] = sysMboxUsed[a]
    BY <2>1 DEF SysTypeOK
  <2>4. \A d \in SysClients : sysConn[d] # b
    BY <2>1 DEF SysConnOK
  <2>5. SysConnOK'
    <3> SUFFICES ASSUME NEW d \in SysClients
                 PROVE  /\ sysPc'[d] \in {"ini", "close"} => sysConn'[d] # 0
                        /\ sysConn'[d] # 0 =>
                             /\ sysMboxUsed'[sysConn'[d]]
                             /\ \A e \in SysClients \ {d} : sysConn'[e] # sysConn'[d]
      BY DEF SysConnOK
    <3>1. CASE d = c
      BY <2>3, <2>4, <3>1
    <3>2. CASE d # c
      <4>1. /\ sysPc[d] \in {"ini", "close"} => sysConn[d] # 0
            /\ sysConn[d] # 0 => /\ sysConn[d] \in SysMboxs /\ sysMboxUsed[sysConn[d]]
                                 /\ \A e \in SysClients \ {d} : sysConn[e] # sysConn[d]
        BY DEF SysConnOK, SysTypeOK
      <4> QED
        BY <2>3, <2>4, <3>2, <4>1
    <3> QED
      BY <3>1, <3>2
  <2>6. SysSemOK' /\ SysDtqOK'
    BY <1>1, <2>3 DEF SysSemOK, SysDtqOK, SysSemPcs
  <2>7. SysWaitOK'
    BY <1>1, <2>3 DEF SysWaitOK
  <2> QED
    BY <2>2, <2>5, <2>6, <2>7
<1> QED
  BY <1>2, <1>3

\* What goes in and out of a mailbox.
LEMMA SysMboxUseInv ==
  ASSUME SysInv, NEW c \in SysClients,
         SysMboxReady(c) \/ SysTryPost(c) \/ SysFetch(c) \/ SysMboxFree(c)
  PROVE  SysInv'
<1> USE SysNumbers DEF SysInv
<1>1. PICK b : b = sysConn[c]
  OBVIOUS
<1>2. /\ sysConn[c] # 0
      /\ UNCHANGED <<sysUp, sysSemUsed, sysCount, sysTcpip, sysSelect, sysSem, sysServed,
                     sysCalls>>
  BY DEF SysMboxReady, SysTryPost, SysFetch, SysMboxFree, SysGo, sysHist, SysConnOK
<1>3. /\ b \in SysMboxs /\ \A d \in SysClients \ {c} : sysConn[d] # b
      /\ sysDtq[b] \in Seq(SysClients) /\ Len(sysDtq[b]) <= SYS_ARCH_MBOX_DEPTH
  BY <1>1, <1>2 DEF SysConnOK, SysTypeOK
<1>4. PICK q :
        /\ sysDtq' = [sysDtq EXCEPT ![b] = q]
        /\ \/ SysMboxReady(c) /\ q = <<>>
           \/ SysTryPost(c) /\ Len(sysDtq[b]) < SYS_ARCH_MBOX_DEPTH /\ q = Append(sysDtq[b], c)
           \/ SysFetch(c) /\ sysDtq[b] # <<>> /\ q = Tail(sysDtq[b])
           \/ SysMboxFree(c) /\ (q = <<>> \/ (sysPc[c] = "close" /\ q = sysDtq[b]))
  <2>1. CASE SysMboxReady(c) \/ SysTryPost(c) \/ SysFetch(c)
    BY <1>1, <2>1 DEF SysMboxReady, SysTryPost, SysFetch
  <2>2. CASE SysMboxFree(c)
    <3>1. [sysDtq EXCEPT ![b] = sysDtq[b]] = sysDtq
      BY <1>3 DEF SysTypeOK
    <3> QED
      BY <1>1, <2>2, <3>1 DEF SysMboxFree, SysGo
  <2> QED
    BY <2>1, <2>2
<1>5. /\ q \in Seq(SysClients) /\ Len(q) <= SYS_ARCH_MBOX_DEPTH
      /\ sysPc[c] = "ini" \/ (\A i \in DOMAIN sysDtq[b] : sysDtq[b][i] = c)
      /\ \A i \in DOMAIN q : q[i] = c
  <2>1. sysPc[c] = "ini" \/ \A i \in DOMAIN sysDtq[b] : sysDtq[b][i] = c
    BY <1>1, <1>2 DEF SysDtqOK
  <2>2. CASE q = <<>>
    BY <2>1, <2>2
  <2>3. CASE SysTryPost(c) /\ Len(sysDtq[b]) < SYS_ARCH_MBOX_DEPTH /\ q = Append(sysDtq[b], c)
    <3>1. sysPc[c] # "ini"
      BY <2>3 DEF SysTryPost
    <3> QED
      BY <1>3, <2>1, <2>3, <3>1
  <2>4. CASE SysFetch(c) /\ sysDtq[b] # <<>> /\ q = Tail(sysDtq[b])
    <3>1. sysPc[c] # "ini"
      BY <2>4 DEF SysFetch, SysGo
    <3> QED
      BY <1>3, <2>1, <2>4, <3>1
  <2>5. CASE sysPc[c] = "close" /\ q = sysDtq[b]
    BY <1>3, <2>1, <2>5
  <2> QED
    BY <1>4, <2>2, <2>3, <2>4, <2>5
<1>6. /\ sysPc' \in [SysClients -> {"idle", "api", "select", "post", "wait", "waiting",
                                    "withdraw", "free", "ini", "close"}]
      /\ \A d \in SysClients \ {c} : sysPc'[d] = sysPc[d]
      /\ sysPc'[c] \in SysSemPcs <=> sysPc[c] \in SysSemPcs
      /\ sysPc'[c] # sysPc[c] => sysPc'[c] \in {"idle", "close"}
      /\ sysPc'[c] # "ini"
  BY DEF SysMboxReady, SysTryPost, SysFetch, SysMboxFree, SysGo, SysTypeOK, SysSemPcs
<1>7. \A d \in SysClients : sysGot'[d] = d
  <2>1. CASE SysFetch(c)
    <3>1. sysGot' = [sysGot EXCEPT ![c] = Head(sysDtq[b])] /\ sysDtq[b] # <<>> /\ sysPc[c] = "idle"
      BY <1>1, <2>1 DEF SysFetch, SysGo
    <3>2. Head(sysDtq[b]) = c
      BY <1>3, <1>5, <3>1
    <3> QED
      BY <3>1, <3>2 DEF SysTypeOK, SysDtqOK
  <2>2. CASE ~SysFetch(c)
    <3>1. sysGot' = sysGot
      BY <2>2 DEF SysMboxReady, SysTryPost, SysMboxFree, sysHist
    <3> QED
      BY <3>1 DEF SysDtqOK
  <2> QED
    BY <2>1, <2>2
<1>8. sysGot' \in [SysClients -> SysClients]
  <2>1. DOMAIN sysGot' = SysClients /\ sysGot' = [d \in DOMAIN sysGot' |-> sysGot'[d]]
    BY DEF SysMboxReady, SysTryPost, SysFetch, SysMboxFree, SysTypeOK, sysHist
  <2> QED
    BY <1>7, <2>1
<1>9. \/ sysMboxUsed' = sysMboxUsed /\ sysConn' = sysConn
      \/ /\ sysPc[c] = "close" /\ sysPc'[c] = "idle" /\ sysMboxUsed' = [sysMboxUsed EXCEPT ![b] = FALSE]
         /\ sysConn' = [sysConn EXCEPT ![c] = 0]
  BY <1>1 DEF SysMboxReady, SysTryPost, SysFetch, SysMboxFree, SysGo, SysTypeOK, sysHist
<1>10. /\ sysDtq'[b] = q /\ \A a \in SysMboxs \ {b} : sysDtq'[a] = sysDtq[a]
       /\ sysDtq' \in [SysMboxs -> Seq(SysClients)]
       /\ sysConn' \in [SysClients -> SysMboxs \cup {0}]
       /\ sysMboxUsed' \in [SysMboxs -> BOOLEAN]
       /\ \A d \in SysClients \ {c} : sysConn'[d] = sysConn[d]
       /\ sysConn'[c] = b \/ sysConn'[c] = 0
       /\ sysConn'[c] = b => sysMboxUsed' = sysMboxUsed
       /\ \A a \in SysMboxs \ {b} : sysMboxUsed'[a] = sysMboxUsed[a]
       /\ sysPc'[c] = "close" => sysConn'[c] # 0
  BY <1>1, <1>2, <1>3, <1>4, <1>5, <1>9 DEF SysTypeOK
<1>11. SysTypeOK'
  <2>1. \A a \in SysMboxs : Len(sysDtq'[a]) <= SYS_ARCH_MBOX_DEPTH
    BY <1>5, <1>10 DEF SysTypeOK
  <2> QED
    BY <1>2, <1>6, <1>8, <1>10, <2>1 DEF SysTypeOK
<1>12. SysSemOK' /\ SysWaitOK'
  BY <1>2, <1>6 DEF SysSemOK, SysWaitOK, SysSemPcs
<1>13. SysConnOK'
  <2> SUFFICES ASSUME NEW d \in SysClients
               PROVE  /\ sysPc'[d] \in {"ini", "close"} => sysConn'[d] # 0
                      /\ sysConn'[d] # 0 =>
                           /\ sysMboxUsed'[sysConn'[d]]
                           /\ \A e \in SysClients \ {d} : sysConn'[e] # sysConn'[d]
    BY DEF SysConnOK
  <2>1. /\ sysPc[d] \in {"ini", "close"} => sysConn[d] # 0
        /\ sysConn[d] # 0 => /\ sysConn[d] \in SysMboxs /\ sysMboxUsed[sysConn[d]]
                             /\ \A e \in SysClients \ {d} : sysConn[e] # sysConn[d]
    BY DEF SysConnOK, SysTypeOK
  <2>2. CASE d = c
    BY <1>1, <1>3, <1>6, <1>10, <2>1, <2>2
  <2>3. CASE d # c
    <3>1. \A e \in SysClients : sysConn'[e] \in {0, sysConn[e]}
      BY <1>1, <1>10
    <3> QED
      BY <1>3, <1>6, <1>10, <2>1, <2>3, <3>1
  <2> QED
    BY <2>2, <2>3
<1>14. SysDtqOK'
  <2> SUFFICES ASSUME NEW d \in SysClients, sysConn'[d] # 0, sysPc'[d] # "ini"
               PROVE  \A i \in DOMAIN sysDtq'[sysConn'[d]] : sysDtq'[sysConn'[d]][i] = d
    BY <1>7 DEF SysDtqOK
  <2>1. CASE d = c
    <3>1. sysConn'[d] = b
      BY <1>10, <2>1
    <3>2. sysDtq'[b] = q /\ \A i \in DOMAIN q : q[i] = c
      BY <1>5, <1>10
    <3>3. sysDtq'[sysConn'[d]] = q
      BY <3>1, <3>2
    <3> QED
      <4> SUFFICES ASSUME NEW i \in DOMAIN sysDtq'[sysConn'[d]]
                   PROVE  sysDtq'[sysConn'[d]][i] = d
        OBVIOUS
      <4>1. i \in DOMAIN q
        BY <3>3
      <4>2. q[i] = d
        BY <2>1, <3>2, <4>1
      <4> QED
        BY <3>3, <4>2
  <2>2. CASE d # c
    <3>1. sysConn'[d] = sysConn[d] /\ sysPc'[d] = sysPc[d] /\ sysConn[d] \in SysMboxs \ {b}
      BY <1>3, <1>6, <1>10, <2>2 DEF SysTypeOK
    <3>2. sysDtq'[sysConn'[d]] = sysDtq[sysConn[d]]
      BY <1>10, <3>1
    <3>3. \A i \in DOMAIN sysDtq[sysConn[d]] : sysDtq[sysConn[d]][i] = d
      BY <3>1 DEF SysDtqOK
    <3> QED
      BY <3>2, <3>3
  <2> QED
    BY <2>1, <2>2
<1> QED
  BY <1>11, <1>12, <1>13, <1>14

\* The tcpip thread's signal reaches the client it is for, whose semaphore is its own.
LEMMA SysSignalInv ==
  ASSUME SysInv, SysServeApi \/ SysEvent
  PROVE  SysInv'
<1> USE SysNumbers DEF SysInv
<1>1. PICK c \in SysClients : SysSignal(c)
  <2>1. sysTcpip # <<>> => Head(sysTcpip) \in SysClients
    BY DEF SysTypeOK
  <2> QED
    BY <2>1 DEF SysServeApi, SysEvent, SysTypeOK
<1>2. /\ sysCount' = [sysCount EXCEPT ![sysSem[c]] = 1]
      /\ sysServed' = [sysServed EXCEPT ![c] = TRUE]
      /\ UNCHANGED <<sysUp, sysSemUsed, sysMboxUsed, sysDtq, sysPc, sysSem, sysConn, sysGot,
                     sysCalls>>
  BY <1>1 DEF SysSignal
<1>3. sysTcpip' \in Seq(SysClients) /\ sysSelect' \subseteq SysClients
  <2>1. \/ sysTcpip # <<>> /\ sysTcpip' = Tail(sysTcpip) /\ sysSelect' = sysSelect
        \/ sysTcpip' = sysTcpip /\ sysSelect' \subseteq sysSelect
    BY DEF SysServeApi, SysEvent
  <2>2. sysTcpip \in Seq(SysClients) /\ sysSelect \subseteq SysClients
    BY DEF SysTypeOK
  <2> QED
    BY <2>1, <2>2
<1>4. SysTypeOK'
  <2>1. sysCount' \in [SysSems -> 0..1] /\ sysServed' \in [SysClients -> BOOLEAN]
    <3>1. sysCount \in [SysSems -> 0..1] /\ sysServed \in [SysClients -> BOOLEAN]
      BY DEF SysTypeOK
    <3>2. sysCount' \in [SysSems -> 0..1]
      <4>1. \A f \in [SysSems -> 0..1] : \A s : [f EXCEPT ![s] = 1] \in [SysSems -> 0..1]
        <5>1. 1 \in 0..1
          OBVIOUS
        <5> QED
          BY <5>1, Zenon
      <4> QED
        BY <1>2, <3>1, <4>1, Zenon
    <3>3. sysServed' \in [SysClients -> BOOLEAN]
      BY <1>2, <3>1
    <3> QED
      BY <3>2, <3>3
  <2> QED
    BY <1>2, <1>3, <2>1 DEF SysTypeOK
<1>5. SysSemOK' /\ SysConnOK' /\ SysDtqOK'
  BY <1>2 DEF SysSemOK, SysConnOK, SysDtqOK
<1>6. SysWaitOK'
  <2> SUFFICES ASSUME NEW d \in SysClients
               PROVE  /\ sysPc[d] \in {"post", "wait", "waiting"} /\ sysCount'[sysSem[d]] = 1
                         => sysServed'[d]
                      /\ sysPc[d] \in {"withdraw", "free"} => sysServed'[d]
    BY <1>2 DEF SysWaitOK
  <2>1. CASE d = c
    BY <1>2, <2>1 DEF SysTypeOK
  <2>2. CASE d # c
    <3>1. sysPc[d] \in {"post", "wait", "waiting"} =>
            sysSem[d] \in SysSems /\ sysSem[d] # sysSem[c]
      BY <2>2 DEF SysSemOK, SysTypeOK, SysSemPcs
    <3>2. sysPc[d] \in {"post", "wait", "waiting"} => sysCount'[sysSem[d]] = sysCount[sysSem[d]]
      BY <1>2, <3>1 DEF SysTypeOK
    <3>3. sysServed'[d] = sysServed[d]
      BY <1>2, <2>2 DEF SysTypeOK
    <3> QED
      BY <3>2, <3>3 DEF SysWaitOK
  <2> QED
    BY <2>1, <2>2
<1> QED
  BY <1>4, <1>5, <1>6

LEMMA SysNextInv == SysInv /\ [SysNext]_sysVars => SysInv'
<1> SUFFICES ASSUME SysInv, [SysNext]_sysVars PROVE SysInv'
  OBVIOUS
<1>1. CASE UNCHANGED sysVars
  BY <1>1 DEF sysVars, sysPools, sysHist, SysInv, SysTypeOK, SysSemOK, SysConnOK, SysWaitOK, SysDtqOK
<1>2. CASE SysThreadNew
  BY <1>2 DEF SysThreadNew, sysPools, sysHist, SysInv, SysTypeOK, SysSemOK, SysConnOK, SysWaitOK,
              SysDtqOK
<1>3. CASE SysNext /\ ~SysThreadNew
  BY <1>3, SysSemNewInv, SysSemUseInv, SysSemFreeInv, SysMboxNewInv, SysMboxUseInv, SysSignalInv
     DEF SysNext
<1> QED
  BY <1>1, <1>2, <1>3

\* What a client of the pools gets is its own: no two hold the same object, no call of
\* lwIP's API returns before it has been served, whatever signals earlier holders left,
\* and no message of another connection is fetched (sys_arch.c:40-330), for any number
\* of clients, semaphores and mailboxes.
THEOREM PoolsKeepApart == SysSpec => [](SysTypeOK /\ SysOwnEvents)
<1>1. SysInv => SysTypeOK /\ SysOwnEvents
  BY DEF SysInv, SysSemOK, SysConnOK, SysWaitOK, SysDtqOK, SysOwnEvents
<1> QED
  BY <1>1, SysInitInv, SysNextInv, PTL DEF SysSpec

(***************************************************************************)
(* The connection of a station.                                            *)
(***************************************************************************)
NetIfs == [link : BOOLEAN, rxcb : BOOLEAN, dhcp : BOOLEAN, addr : 0..1, reported : BOOLEAN,
           ping : BOOLEAN]

\* What the driver has done while the handler has an event in hand, and conn_state
\* after a failure: -1, but for the moment in which main_task is about to connect.
NetConnOK ==
  /\ netMain = "start" => netDrv = "off" /\ netHandler = NetQuiet
  /\ netHandler.ev = "none" <=> netHandler.at = "out"
  /\ netHandler.ev = "start" => netHandler.at = "state" /\ netDrv \in {"idle", "connecting"}
  /\ netHandler.ev = "up" => netDrv = "connected" /\ netLast # "up"
  /\ netLast = "up" => netDrv = "connected" \/ netHandler.ev = "down"
  /\ netDrv = "down" /\ netHandler.at # "state" /\ netMain # "connect" => netConn = -1

\* The last link change the tcpip thread was told of is the last one in the
\* mailbox or, when none is there, the one it has handled.
NetPending(q, last, dhcp) ==
  \/ \E j \in DOMAIN q : /\ q[j] = last /\ last # "packet"
                         /\ \A k \in DOMAIN q : k > j => q[k] = "packet"
  \/ (dhcp <=> last = "up") /\ \A k \in DOMAIN q : q[k] = "packet"

\* Before each "up" comes a "down", or the client has been stopped.
NetAlternates(q, dhcp) ==
  \A i \in DOMAIN q : q[i] = "up" =>
    \/ \E j \in DOMAIN q : /\ j < i /\ q[j] = "down"
                           /\ \A k \in DOMAIN q : j < k /\ k < i => q[k] = "packet"
    \/ ~dhcp /\ \A k \in DOMAIN q : k < i => q[k] = "packet"

NetIfOK ==
  /\ netIf.link = netIf.dhcp /\ netIf.rxcb = netIf.dhcp
  /\ ~netLost => /\ netIf.addr # 0 => netIf.reported
                 /\ netIf.reported => netIf.dhcp /\ netIf.ping
                 /\ NetPending(netMbox, netLast, netIf.dhcp)
                 /\ NetAlternates(netMbox, netIf.dhcp)

NetInv == NetTypeOK /\ NetConnOK /\ NetIfOK

\* A message more in the mailbox.
LEMMA NetAppendMsg ==
  ASSUME NEW q \in Seq(NetMsgs), NEW m \in NetMsgs, NEW last \in {"none", "up", "down"},
         NEW dhcp \in BOOLEAN, NetPending(q, last, dhcp), NetAlternates(q, dhcp),
         m = "up" => last # "up"
  PROVE  /\ NetPending(Append(q, m), IF m = "packet" THEN last ELSE m, dhcp)
         /\ NetAlternates(Append(q, m), dhcp)
<1> DEFINE r == Append(q, m)
           n == Len(q)
<1>1. /\ n \in Nat /\ DOMAIN q = 1 .. n /\ DOMAIN r = 1 .. n + 1
      /\ r[n + 1] = m /\ \A i \in 1 .. n : r[i] = q[i]
  OBVIOUS
<1>2. /\ \A i \in 1 .. n + 1 : i = n + 1 \/ i \in 1 .. n
      /\ n + 1 \in 1 .. n + 1 /\ 1 .. n \subseteq 1 .. n + 1
      /\ \A i \in 1 .. n : i < n + 1 /\ ~ (i > n + 1)
  BY <1>1
<1>3. \A i \in DOMAIN q : q[i] \in {"up", "down", "packet"}
  BY DEF NetMsgs
<1> HIDE DEF r, n
<1>4. NetPending(r, IF m = "packet" THEN last ELSE m, dhcp)
  <2>1. CASE m = "packet"
    BY <1>1, <1>2, <2>1 DEF NetPending
  <2>2. CASE m # "packet"
    <3>1. r[n + 1] = m /\ \A k \in DOMAIN r : ~ (k > n + 1)
      BY <1>1, <1>2
    <3> QED
      BY <1>1, <1>2, <2>2, <3>1 DEF NetPending
  <2> QED
    BY <2>1, <2>2
<1>5. NetAlternates(r, dhcp)
  <2> SUFFICES ASSUME NEW i \in DOMAIN r, r[i] = "up"
               PROVE  \/ \E j \in DOMAIN r : /\ j < i /\ r[j] = "down"
                                             /\ \A k \in DOMAIN r : j < k /\ k < i => r[k] = "packet"
                      \/ ~dhcp /\ \A k \in DOMAIN r : k < i => r[k] = "packet"
    BY DEF NetAlternates
  <2>1. CASE i \in 1 .. n
    <3>1. \A k \in DOMAIN r : k < i => k \in 1 .. n
      BY <1>1, <1>2, <2>1
    <3>2. \/ \E j \in DOMAIN q : /\ j < i /\ q[j] = "down"
                                 /\ \A k \in DOMAIN q : j < k /\ k < i => q[k] = "packet"
          \/ ~dhcp /\ \A k \in DOMAIN q : k < i => q[k] = "packet"
      BY <1>1, <2>1 DEF NetAlternates
    <3> QED
      BY <1>1, <1>2, <3>1, <3>2
  <2>2. CASE i = n + 1
    <3>1. m = "up" /\ last # "up"
      BY <1>1, <2>2
    <3>2. CASE \E j \in DOMAIN q : /\ q[j] = last /\ last # "packet"
                                   /\ \A k \in DOMAIN q : k > j => q[k] = "packet"
      <4>1. PICK j \in DOMAIN q : /\ q[j] = last /\ \A k \in DOMAIN q : k > j => q[k] = "packet"
        BY <3>2
      <4>2. q[j] = "down"
        BY <3>1, <4>1, <1>3
      <4>3. \A k \in DOMAIN r : k < i => k \in 1 .. n
        BY <1>1, <1>2, <2>2
      <4>4. j \in DOMAIN r /\ j < i /\ r[j] = "down"
        BY <1>1, <1>2, <2>2, <4>2
      <4>5. \A k \in DOMAIN r : j < k /\ k < i => r[k] = "packet"
        <5> SUFFICES ASSUME NEW k \in DOMAIN r, j < k, k < i PROVE r[k] = "packet"
          OBVIOUS
        <5>1. k \in 1 .. n /\ k > j
          BY <1>1, <4>3
        <5> QED
          BY <1>1, <4>1, <5>1
      <4> QED
        BY <4>4, <4>5
    <3>3. CASE (dhcp <=> last = "up") /\ \A k \in DOMAIN q : q[k] = "packet"
      BY <1>1, <1>2, <2>2, <3>1, <3>3
    <3> QED
      BY <3>2, <3>3 DEF NetPending
  <2> QED
    BY <1>1, <1>2, <2>1, <2>2
<1> QED
  BY <1>4, <1>5 DEF r

\* The first message out of the mailbox, and handled.
LEMMA NetTailMsg ==
  ASSUME NEW q \in Seq(NetMsgs), q # <<>>, NEW last \in {"none", "up", "down"},
         NEW dhcp \in BOOLEAN, NetPending(q, last, dhcp), NetAlternates(q, dhcp),
         NEW after \in BOOLEAN, Head(q) = "up" => after, Head(q) = "down" => ~after,
         Head(q) = "packet" => after = dhcp
  PROVE  /\ NetPending(Tail(q), last, after) /\ NetAlternates(Tail(q), after)
         /\ Head(q) = "up" => ~dhcp
<1> DEFINE r == Tail(q)
           n == Len(q)
<1>1. /\ n \in Nat /\ 1 \in DOMAIN q /\ DOMAIN q = 1 .. n /\ DOMAIN r = 1 .. n - 1
      /\ Head(q) = q[1] /\ \A i \in 1 .. n - 1 : r[i] = q[i + 1]
  OBVIOUS
<1>2. /\ \A i \in 1 .. n - 1 : i + 1 \in 1 .. n /\ i + 1 > 1
      /\ \A i \in 1 .. n : i = 1 \/ (i - 1 \in 1 .. n - 1 /\ (i - 1) + 1 = i)
      /\ \A i \in 1 .. n : ~ (i < 1)
  BY <1>1
<1>3. q[1] \in {"up", "down", "packet"}
  BY <1>1 DEF NetMsgs
<1> HIDE DEF r, n
<1>4. Head(q) = "up" => ~dhcp
  BY <1>1, <1>2 DEF NetAlternates
<1>5. NetPending(r, last, after)
  <2>1. CASE \E j \in DOMAIN q : /\ q[j] = last /\ last # "packet"
                                 /\ \A k \in DOMAIN q : k > j => q[k] = "packet"
    <3>1. PICK j \in DOMAIN q : /\ q[j] = last /\ last # "packet"
                                /\ \A k \in DOMAIN q : k > j => q[k] = "packet"
      BY <2>1
    <3>2. CASE j = 1
      <4>1. after <=> last = "up"
        BY <1>1, <1>3, <3>1, <3>2
      <4>2. \A k \in DOMAIN r : r[k] = "packet"
        BY <1>1, <1>2, <3>1, <3>2
      <4> QED
        BY <4>1, <4>2 DEF NetPending
    <3>3. CASE j # 1
      <4>1. j - 1 \in DOMAIN r /\ r[j - 1] = last
        BY <1>1, <1>2, <3>1, <3>3
      <4>2. \A k \in DOMAIN r : k > j - 1 => r[k] = "packet"
        <5> SUFFICES ASSUME NEW k \in DOMAIN r, k > j - 1 PROVE r[k] = "packet"
          OBVIOUS
        <5>1. k + 1 \in DOMAIN q /\ k + 1 > j
          BY <1>1, <1>2
        <5> QED
          BY <1>1, <3>1, <5>1
      <4> QED
        BY <3>1, <4>1, <4>2 DEF NetPending
    <3> QED
      BY <3>2, <3>3
  <2>2. CASE (dhcp <=> last = "up") /\ \A k \in DOMAIN q : q[k] = "packet"
    <3>1. after = dhcp /\ \A k \in DOMAIN r : r[k] = "packet"
      BY <1>1, <1>2, <2>2
    <3> QED
      BY <2>2, <3>1 DEF NetPending
  <2> QED
    BY <2>1, <2>2 DEF NetPending
<1>6. NetAlternates(r, after)
  <2> SUFFICES ASSUME NEW i \in DOMAIN r, r[i] = "up"
               PROVE  \/ \E j \in DOMAIN r : /\ j < i /\ r[j] = "down"
                                             /\ \A k \in DOMAIN r : j < k /\ k < i => r[k] = "packet"
                      \/ ~after /\ \A k \in DOMAIN r : k < i => r[k] = "packet"
    BY DEF NetAlternates
  <2>1. i + 1 \in DOMAIN q /\ q[i + 1] = "up" /\ i \in Nat /\ 1 < i + 1
    BY <1>1, <1>2
  <2>2. CASE \E j \in DOMAIN q : /\ j < i + 1 /\ q[j] = "down"
                                 /\ \A k \in DOMAIN q : j < k /\ k < i + 1 => q[k] = "packet"
    <3>1. PICK j \in DOMAIN q : /\ j < i + 1 /\ q[j] = "down"
                                /\ \A k \in DOMAIN q : j < k /\ k < i + 1 => q[k] = "packet"
      BY <2>2
    <3>2. \A k \in DOMAIN r : k > j - 1 /\ k < i => r[k] = "packet"
      <4> SUFFICES ASSUME NEW k \in DOMAIN r, k > j - 1, k < i PROVE r[k] = "packet"
        OBVIOUS
      <4>1. k + 1 \in DOMAIN q /\ j < k + 1 /\ k + 1 < i + 1
        BY <1>1, <1>2, <2>1
      <4> QED
        BY <1>1, <3>1, <4>1
    <3>3. CASE j = 1
      <4>1. ~after
        BY <1>1, <3>1, <3>3
      <4>2. \A k \in DOMAIN r : k > j - 1
        BY <1>1, <3>3
      <4> QED
        BY <3>2, <4>1, <4>2
    <3>4. CASE j # 1
      <4>1. j - 1 \in DOMAIN r /\ r[j - 1] = "down" /\ j - 1 < i
        BY <1>1, <1>2, <2>1, <3>1, <3>4
      <4> QED
        BY <3>2, <4>1
    <3> QED
      BY <3>3, <3>4
  <2>3. CASE ~dhcp /\ \A k \in DOMAIN q : k < i + 1 => q[k] = "packet"
    <3>1. q[1] = "packet"
      BY <1>1, <2>1, <2>3
    <3>2. \A k \in DOMAIN r : k < i => r[k] = "packet"
      <4> SUFFICES ASSUME NEW k \in DOMAIN r, k < i PROVE r[k] = "packet"
        OBVIOUS
      <4>1. k + 1 \in DOMAIN q /\ k + 1 < i + 1
        BY <1>1, <1>2, <2>1
      <4> QED
        BY <1>1, <2>3, <4>1
    <3> QED
      BY <1>1, <2>3, <3>1, <3>2
  <2> QED
    BY <2>1, <2>2, <2>3 DEF NetAlternates
<1> QED
  BY <1>4, <1>5, <1>6 DEF r

\* What netif_status_cb leaves of the interface.
LEMMA NetStatusFields ==
  ASSUME NEW f \in NetIfs, NEW a \in 0 .. 1
  PROVE  /\ NetStatus(f, a) \in NetIfs
         /\ NetStatus(f, a).link = f.link /\ NetStatus(f, a).rxcb = f.rxcb
         /\ NetStatus(f, a).dhcp = f.dhcp /\ NetStatus(f, a).addr = a
         /\ a = 0 \/ f.reported => /\ NetStatus(f, a).reported = f.reported
                                   /\ NetStatus(f, a).ping = f.ping
         /\ a # 0 /\ ~f.reported => /\ NetStatus(f, a).reported = TRUE
                                    /\ NetStatus(f, a).ping = TRUE
<1>1. CASE a = 0 \/ f.reported
  <2>1. NetStatus(f, a) = [f EXCEPT !.addr = a]
    BY <1>1 DEF NetStatus
  <2> QED
    BY <1>1, <2>1 DEF NetIfs
<1>2. CASE a # 0 /\ ~f.reported
  <2>1. NetStatus(f, a) = [f EXCEPT !.addr = a, !.reported = TRUE, !.ping = TRUE]
    BY <1>2 DEF NetStatus
  <2> QED
    BY <1>2, <2>1 DEF NetIfs
<1> QED
  BY <1>1, <1>2

\* What the handlers of the tcpip thread leave of the interface.
LEMMA NetIfWrites ==
  ASSUME NEW f \in NetIfs
  PROVE  /\ HandleLinkUp(f) \in NetIfs
         /\ HandleLinkUp(f).link = TRUE /\ HandleLinkUp(f).rxcb = TRUE
         /\ HandleLinkUp(f).dhcp = TRUE /\ HandleLinkUp(f).reported = FALSE
         /\ HandleLinkUp(f).addr = f.addr /\ HandleLinkUp(f).ping = f.ping
         /\ HandleLinkDown(f) \in NetIfs
         /\ HandleLinkDown(f).link = FALSE /\ HandleLinkDown(f).rxcb = FALSE
         /\ HandleLinkDown(f).dhcp = FALSE /\ HandleLinkDown(f).reported = FALSE
         /\ HandleLinkDown(f).addr = (IF f.dhcp THEN 0 ELSE f.addr)
<1>1. PICK v : v = HandleLinkUp(f)
  OBVIOUS
<1>2. /\ v \in NetIfs /\ v.link = TRUE /\ v.rxcb = TRUE /\ v.dhcp = TRUE
      /\ v.reported = FALSE /\ v.addr = f.addr /\ v.ping = f.ping
  BY <1>1 DEF HandleLinkUp, NetIfs
<1>3. PICK w : w = HandleLinkDown(f)
  OBVIOUS
<1>4. /\ w \in NetIfs /\ w.link = FALSE /\ w.rxcb = FALSE /\ w.dhcp = FALSE
      /\ w.reported = FALSE
      /\ w.addr = (IF f.dhcp THEN 0 ELSE f.addr)
  <2>1. PICK a : a = (IF f.dhcp THEN 0 ELSE f.addr)
    OBVIOUS
  <2>2. a \in 0 .. 1
    BY <2>1 DEF NetIfs
  <2>3. PICK h : h = NetStatus(f, a)
    OBVIOUS
  <2>4. h \in NetIfs /\ h.addr = a
    BY <2>2, <2>3, NetStatusFields
  <2>5. w = [h EXCEPT !.dhcp = FALSE, !.link = FALSE, !.rxcb = FALSE, !.reported = FALSE]
    BY <1>3, <2>1, <2>3 DEF HandleLinkDown
  <2>6. /\ w \in NetIfs /\ w.link = FALSE /\ w.rxcb = FALSE /\ w.dhcp = FALSE
        /\ w.reported = FALSE /\ w.addr = h.addr
    BY <2>4, <2>5 DEF NetIfs
  <2> QED
    BY <2>1, <2>4, <2>6
<1> QED
  BY <1>1, <1>2, <1>3, <1>4

LEMMA NetInitInv == NetInit => NetInv
<1> SUFFICES ASSUME NetInit PROVE NetInv
  OBVIOUS
<1>1. NetTypeOK
  <2>1. netMbox \in Seq(NetMsgs) /\ Len(netMbox) = 0
    BY DEF NetInit
  <2>2. netHandler \in [ev : {"none", "start", "up", "down"}, at : {"out", "state", "post"}]
    BY DEF NetInit, NetQuiet
  <2>3. netIf \in [link : BOOLEAN, rxcb : BOOLEAN, dhcp : BOOLEAN, addr : 0 .. 1,
                   reported : BOOLEAN, ping : BOOLEAN]
    BY DEF NetInit
  <2>4. /\ NetMboxSize \in Nat /\ netConn \in -1 .. 2 /\ netRetry \in 0 .. NetRetries
        /\ netEvents \in 0 .. NetMaxEvents /\ netLost \in BOOLEAN
    <3>1. /\ NetMboxSize \in Nat \ {0} /\ NetRetries \in Nat \ {0}
          /\ NetMaxEvents \in Nat \ {0}
      BY NetAssumption
    <3>2. netConn = 0 /\ netRetry = 0 /\ netEvents = 0
      BY DEF NetInit
    <3>3. netLost \in BOOLEAN
      BY DEF NetInit
    <3>4. 0 \in -1 .. 2 /\ 0 \in 0 .. NetRetries /\ 0 \in 0 .. NetMaxEvents
      BY <3>1
    <3> QED
      BY <3>1, <3>2, <3>3, <3>4
  <2> QED
    BY <2>1, <2>2, <2>3, <2>4 DEF NetInit, NetTypeOK
<1>2. NetConnOK
  BY DEF NetInit, NetConnOK, NetQuiet
<1>3. NetIfOK
  BY DEF NetInit, NetIfOK, NetPending, NetAlternates
<1> QED
  BY <1>1, <1>2, <1>3 DEF NetInv

\* The driver and conn_state: the mailbox and the interface are left alone.
LEMMA NetDriverInv == NetInv /\ NetDriver => NetInv'
<1> SUFFICES ASSUME NetInv, NetDriver PROVE NetInv'
  OBVIOUS
<1>1. PICK ev, drv : /\ NetPost(ev, drv)
                     /\ \/ netDrv = "starting" /\ ev = "start" /\ drv = "idle"
                        \/ netDrv = "connecting" /\ ev = "up" /\ drv = "connected"
                        \/ netDrv \in {"connecting", "connected"} /\ ev = "down" /\ drv = "down"
  BY DEF NetDriver
<1>2. /\ netHandler.ev = "none" /\ netHandler.at = "out"
      /\ netHandler' = [ev |-> ev, at |-> "state"] /\ netHandler'.ev = ev
      /\ netHandler'.at = "state" /\ netDrv' = drv
  BY <1>1 DEF NetPost, NetQuiet
<1>3. /\ netConn' = netConn /\ netMain' = netMain /\ netRetry' = netRetry
      /\ netMbox' = netMbox /\ netIf' = netIf /\ netLast' = netLast /\ netLost' = netLost
  BY <1>1 DEF NetPost, netApp
<1>4. netEvents' \in 0 .. NetMaxEvents
  BY <1>1, NetAssumption DEF NetPost, NetInv, NetTypeOK
<1>5. NetTypeOK'
  BY <1>1, <1>2, <1>3, <1>4 DEF NetInv, NetTypeOK
<1>6. NetConnOK'
  BY <1>1, <1>2, <1>3 DEF NetInv, NetConnOK
<1>7. NetIfOK'
  BY <1>3 DEF NetInv, NetIfOK
<1> QED
  BY <1>5, <1>6, <1>7 DEF NetInv

LEMMA NetHandlerStateInv == NetInv /\ NetHandlerState => NetInv'
<1> SUFFICES ASSUME NetInv, NetHandlerState PROVE NetInv'
  OBVIOUS
<1>1. /\ netDrv' = netDrv /\ netMain' = netMain /\ netRetry' = netRetry
      /\ netMbox' = netMbox /\ netIf' = netIf /\ netLast' = netLast /\ netLost' = netLost
      /\ netEvents' = netEvents
  BY DEF NetHandlerState, netHist
<1>2. \/ /\ netHandler.ev = "start" /\ netConn' = 2 /\ netHandler' = NetQuiet
         /\ netHandler'.ev = "none" /\ netHandler'.at = "out"
      \/ /\ netHandler.ev = "up" /\ netConn' = 1
         /\ netHandler'.ev = netHandler.ev /\ netHandler'.at = "post"
      \/ /\ netHandler.ev = "down" /\ netConn' = -1
         /\ netHandler'.ev = netHandler.ev /\ netHandler'.at = "post"
  BY DEF NetHandlerState, NetInv, NetTypeOK, NetQuiet
<1>3. /\ netHandler' \in [ev : {"none", "start", "up", "down"}, at : {"out", "state", "post"}]
      /\ netConn' \in -1 .. 2
  BY DEF NetHandlerState, NetInv, NetTypeOK, NetQuiet
<1>4. NetTypeOK'
  BY <1>1, <1>3 DEF NetInv, NetTypeOK
<1>5. NetConnOK'
  <2>1. netMain # "start"
    BY DEF NetHandlerState, NetInv, NetConnOK, NetQuiet
  <2>2. netHandler.ev = "start" => netDrv # "down" /\ (netLast # "up" \/ netDrv = "connected")
    BY DEF NetHandlerState, NetInv, NetConnOK
  <2> QED
    BY <1>1, <1>2, <2>1, <2>2 DEF NetInv, NetConnOK
<1>6. NetIfOK'
  BY <1>1 DEF NetInv, NetIfOK
<1> QED
  BY <1>4, <1>5, <1>6 DEF NetInv

\* The handler tells the tcpip thread: the change is the last message, or lost.
LEMMA NetNotifyLinkInv == NetInv /\ NetNotifyLink => NetInv'
<1> SUFFICES ASSUME NetInv, NetNotifyLink PROVE NetInv'
  OBVIOUS
<1>1. /\ netDrv' = netDrv /\ netConn' = netConn /\ netMain' = netMain /\ netRetry' = netRetry
      /\ netIf' = netIf /\ netEvents' = netEvents /\ netLast' = netHandler.ev
      /\ netHandler' = NetQuiet /\ netHandler'.ev = "none" /\ netHandler'.at = "out"
  BY DEF NetNotifyLink, netApp, NetQuiet
<1>2. /\ netHandler.at = "post" /\ netHandler.ev \in {"up", "down"}
      /\ netHandler.ev = "up" => netLast # "up"
  BY DEF NetNotifyLink, NetInv, NetConnOK, NetTypeOK
<1>3. netMbox' \in Seq(NetMsgs) /\ Len(netMbox') <= NetMboxSize /\ netLost' \in BOOLEAN
  <2>1. CASE Len(netMbox) < NetMboxSize /\ netMbox' = Append(netMbox, netHandler.ev)
             /\ netLost' = netLost
    <3>1. netHandler.ev \in NetMsgs
      BY <1>2 DEF NetMsgs
    <3>2. netMbox \in Seq(NetMsgs) /\ netLost \in BOOLEAN
      BY DEF NetInv, NetTypeOK
    <3> HIDE DEF NetMsgs
    <3> QED
      BY <2>1, <3>1, <3>2, NetAssumption
  <2>2. CASE netLost' = TRUE /\ netMbox' = netMbox
    BY <2>2 DEF NetInv, NetTypeOK
  <2> QED
    BY <2>1, <2>2 DEF NetNotifyLink
<1>4. NetTypeOK'
  <2>1. /\ netHandler' \in [ev : {"none", "start", "up", "down"}, at : {"out", "state", "post"}]
        /\ netLast' \in {"none", "up", "down"}
    BY <1>1, <1>2 DEF NetQuiet
  <2> QED
    BY <1>1, <1>3, <2>1 DEF NetInv, NetTypeOK
<1>5. NetConnOK'
  BY <1>1, <1>2 DEF NetInv, NetConnOK
<1>6. NetIfOK'
  <2>1. netIf'.link = netIf'.dhcp /\ netIf'.rxcb = netIf'.dhcp
    BY <1>1 DEF NetInv, NetIfOK
  <2>2. ASSUME ~netLost'
        PROVE  /\ netIf'.addr # 0 => netIf'.reported
               /\ netIf'.reported => netIf'.dhcp /\ netIf'.ping
               /\ NetPending(netMbox', netLast', netIf'.dhcp)
               /\ NetAlternates(netMbox', netIf'.dhcp)
    <3>1. ~netLost /\ netMbox' = Append(netMbox, netHandler.ev)
      BY <2>2 DEF NetNotifyLink
    <3>2. /\ netMbox \in Seq(NetMsgs) /\ netHandler.ev \in NetMsgs /\ netIf.dhcp \in BOOLEAN
          /\ netLast \in {"none", "up", "down"}
      BY <1>2 DEF NetInv, NetTypeOK, NetMsgs
    <3>3. NetPending(netMbox, netLast, netIf.dhcp) /\ NetAlternates(netMbox, netIf.dhcp)
      BY <3>1 DEF NetInv, NetIfOK
    <3>4. /\ NetPending(Append(netMbox, netHandler.ev),
                        IF netHandler.ev = "packet" THEN netLast ELSE netHandler.ev, netIf.dhcp)
          /\ NetAlternates(Append(netMbox, netHandler.ev), netIf.dhcp)
      BY <1>2, <3>2, <3>3, NetAppendMsg
    <3>5. (IF netHandler.ev = "packet" THEN netLast ELSE netHandler.ev) = netHandler.ev
      BY <1>2
    <3>6. /\ NetPending(netMbox', netLast', netIf'.dhcp)
          /\ NetAlternates(netMbox', netIf'.dhcp)
      BY <1>1, <3>1, <3>4, <3>5
    <3> QED
      BY <1>1, <3>1, <3>6 DEF NetInv, NetIfOK
  <2> QED
    BY <2>1, <2>2 DEF NetIfOK
<1> QED
  BY <1>4, <1>5, <1>6 DEF NetInv

\* A frame goes behind the link changes.
LEMMA NetRxInv == NetInv /\ NetRx => NetInv'
<1> SUFFICES ASSUME NetInv, NetRx PROVE NetInv'
  OBVIOUS
<1>1. /\ netDrv' = netDrv /\ netHandler' = netHandler /\ netConn' = netConn
      /\ netMain' = netMain /\ netRetry' = netRetry
      /\ netIf' = netIf /\ netLast' = netLast /\ netLost' = netLost /\ netEvents' = netEvents
  BY DEF NetRx, netEv, netApp, netHist
<1>2. /\ netMbox \in Seq(NetMsgs) /\ "packet" \in NetMsgs /\ netIf.dhcp \in BOOLEAN
      /\ netLast \in {"none", "up", "down"} /\ Len(netMbox) < NetMboxSize
      /\ netMbox' = Append(netMbox, "packet")
  BY DEF NetInv, NetTypeOK, NetMsgs, NetRx
<1>3. netMbox' \in Seq(NetMsgs) /\ Len(netMbox') <= NetMboxSize
  BY <1>2, NetAssumption
<1>4. NetTypeOK'
  BY <1>1, <1>3 DEF NetInv, NetTypeOK
<1>5. NetConnOK'
  BY <1>1 DEF NetInv, NetConnOK
<1>6. NetIfOK'
  <2>1. ASSUME ~netLost
        PROVE  /\ NetPending(netMbox', netLast', netIf'.dhcp)
               /\ NetAlternates(netMbox', netIf'.dhcp)
    <3>1. NetPending(netMbox, netLast, netIf.dhcp) /\ NetAlternates(netMbox, netIf.dhcp)
      BY <2>1 DEF NetInv, NetIfOK
    <3>2. /\ NetPending(Append(netMbox, "packet"),
                        IF "packet" = "packet" THEN netLast ELSE "packet", netIf.dhcp)
          /\ NetAlternates(Append(netMbox, "packet"), netIf.dhcp)
      BY <1>2, <3>1, NetAppendMsg
    <3>3. NetPending(Append(netMbox, "packet"), netLast, netIf.dhcp)
      BY <3>2
    <3> QED
      BY <1>1, <1>2, <3>2, <3>3
  <2> QED
    BY <1>1, <2>1 DEF NetInv, NetIfOK
<1> QED
  BY <1>4, <1>5, <1>6 DEF NetInv

\* main_task: conn_state is cleared only where main_task is about to connect.
LEMMA NetMainInv ==
  ASSUME NetInv, \/ NetStart \/ NetFirstConnect \/ NetCheckConnected \/ NetCheckDisconnected
                 \/ NetRetryConnect \/ NetAwaitIp
  PROVE  NetInv'
<1>1. /\ netHandler' = netHandler /\ netMbox' = netMbox /\ netIf' = netIf
      /\ netLast' = netLast /\ netLost' = netLost /\ netEvents' = netEvents
  BY DEF NetStart, NetFirstConnect, NetCheckConnected, NetCheckDisconnected, NetRetryConnect,
         NetAwaitIp, netEv, netHist
<1>2. netRetry' \in 0 .. NetRetries
  <2>1. /\ netRetry \in 0 .. NetRetries /\ NetRetries \in Nat \ {0}
        /\ (netRetry + 1) % NetRetries \in 0 .. NetRetries
    BY NetAssumption DEF NetInv, NetTypeOK
  <2>2. \/ netRetry' = netRetry \/ netRetry' = 0 \/ netRetry' = (netRetry + 1) % NetRetries
        \/ netRetry < NetRetries /\ netRetry' = netRetry + 1
    BY DEF NetStart, NetFirstConnect, NetCheckConnected, NetCheckDisconnected,
           NetRetryConnect, NetAwaitIp, NetNextTry
  <2> QED
    BY <2>1, <2>2
<1>3. \/ /\ netMain = "start" /\ netMain' = "settle" /\ netDrv' = "starting"
         /\ netConn' = netConn
      \/ /\ netMain \in {"settle", "connect"} /\ netConn' = netConn
         /\ netMain' \in {"sleep", "dhcp", "failed"}
         /\ netDrv' = IF netDrv \in {"idle", "down"} THEN "connecting" ELSE netDrv
      \/ /\ netMain \notin {"start", "connect"} /\ netConn' = netConn /\ netDrv' = netDrv
         /\ netMain' \in {"sleep", "test", "clear", "dhcp", "failed", "got_ip", "no_ip"}
      \/ netMain = "clear" /\ netMain' = "connect" /\ netConn' = 0 /\ netDrv' = netDrv
  <2>1. CASE NetStart
    BY <2>1 DEF NetStart, NetAt
  <2>2. CASE NetFirstConnect
    BY <2>2 DEF NetFirstConnect, NetAt, NetWifiConnect
  <2>3. CASE NetCheckConnected
    BY <2>3 DEF NetCheckConnected, NetAt, netEv
  <2>4. CASE NetCheckDisconnected
    BY <2>4 DEF NetCheckDisconnected, NetNextTry, netEv
  <2>5. CASE NetRetryConnect
    BY <2>5 DEF NetRetryConnect, NetAt, NetNextTry, NetWifiConnect
  <2>6. CASE NetAwaitIp
    BY <2>6 DEF NetAwaitIp, NetAt, netEv
  <2> QED
    BY <2>1, <2>2, <2>3, <2>4, <2>5, <2>6
<1>4. NetTypeOK'
  <2>1. /\ netMain' \in {"start", "settle", "sleep", "test", "clear", "connect", "dhcp",
                         "failed", "got_ip", "no_ip"}
        /\ netConn' \in -1 .. 2
        /\ netDrv' \in {"off", "starting", "idle", "connecting", "connected", "down"}
    BY <1>3 DEF NetInv, NetTypeOK
  <2> QED
    BY <1>1, <1>2, <2>1 DEF NetInv, NetTypeOK
<1>5. NetConnOK'
  <2>1. NetConnOK /\ netMain = "start" => netHandler.ev = "none" /\ netDrv = "off"
    BY DEF NetConnOK, NetQuiet
  <2> QED
    BY <1>1, <1>3, <2>1 DEF NetInv, NetConnOK
<1>6. NetIfOK'
  BY <1>1 DEF NetInv, NetIfOK
<1> QED
  BY <1>4, <1>5, <1>6 DEF NetInv

\* The tcpip thread handles a message.
LEMMA NetTcpipInv == NetInv /\ NetTcpip => NetInv'
<1> SUFFICES ASSUME NetInv, NetTcpip PROVE NetInv'
  OBVIOUS
<1>1. /\ netDrv' = netDrv /\ netHandler' = netHandler /\ netConn' = netConn
      /\ netMain' = netMain /\ netRetry' = netRetry
      /\ netLast' = netLast /\ netLost' = netLost /\ netEvents' = netEvents
  BY DEF NetTcpip, netEv, netApp, netHist
<1>2. /\ netMbox \in Seq(NetMsgs) /\ netMbox # <<>> /\ netMbox' = Tail(netMbox)
      /\ netLast \in {"none", "up", "down"} /\ Len(netMbox) <= NetMboxSize
      /\ netIf \in NetIfs /\ netIf.dhcp \in BOOLEAN
  BY DEF NetInv, NetTypeOK, NetTcpip, NetIfs
<1>3. netMbox' \in Seq(NetMsgs) /\ Len(netMbox') <= NetMboxSize
  BY <1>2, NetAssumption
<1>4. /\ Head(netMbox) = "up" => netIf' = HandleLinkUp(netIf)
      /\ Head(netMbox) = "down" => netIf' = HandleLinkDown(netIf)
      /\ Head(netMbox) = "packet" => netIf' = netIf
      /\ Head(netMbox) \in {"up", "down", "packet"}
  BY DEF NetTcpip
<1>5. /\ netIf' \in NetIfs /\ netIf'.link = netIf'.dhcp /\ netIf'.rxcb = netIf'.dhcp
      /\ Head(netMbox) = "up"
         => /\ netIf'.dhcp = TRUE /\ netIf'.reported = FALSE
            /\ netIf'.addr = netIf.addr /\ netIf'.ping = netIf.ping
      /\ Head(netMbox) = "down"
         => /\ netIf'.dhcp = FALSE /\ netIf'.reported = FALSE
            /\ netIf'.addr = (IF netIf.dhcp THEN 0 ELSE netIf.addr)
      /\ Head(netMbox) = "packet" => netIf' = netIf
  <2>1. PICK f : f = netIf
    OBVIOUS
  <2>2. f \in NetIfs
    BY <1>2, <2>1
  <2>3. CASE Head(netMbox) = "up"
    <3>1. PICK w : w = HandleLinkUp(f)
      OBVIOUS
    <3>2. netIf' = w
      BY <1>4, <2>1, <2>3, <3>1
    <3>3. /\ w \in NetIfs /\ w.link = TRUE /\ w.rxcb = TRUE /\ w.dhcp = TRUE
          /\ w.reported = FALSE /\ w.addr = f.addr /\ w.ping = f.ping
      BY <2>2, <3>1, NetIfWrites
    <3> QED
      BY <2>1, <2>3, <3>2, <3>3
  <2>4. CASE Head(netMbox) = "down"
    <3>1. PICK w : w = HandleLinkDown(f)
      OBVIOUS
    <3>2. netIf' = w
      BY <1>4, <2>1, <2>4, <3>1
    <3>3. /\ w \in NetIfs /\ w.link = FALSE /\ w.rxcb = FALSE /\ w.dhcp = FALSE
          /\ w.reported = FALSE
          /\ w.addr = (IF f.dhcp THEN 0 ELSE f.addr)
      BY <2>2, <3>1, NetIfWrites
    <3> QED
      BY <2>1, <2>4, <3>2, <3>3
  <2>5. CASE Head(netMbox) = "packet"
    BY <1>2, <1>4, <2>5 DEF NetInv, NetIfOK
  <2> QED
    BY <1>4, <2>3, <2>4, <2>5
<1>6. ASSUME ~netLost
      PROVE  /\ netIf'.addr # 0 => netIf'.reported
             /\ netIf'.reported => netIf'.dhcp /\ netIf'.ping
             /\ NetPending(netMbox', netLast, netIf'.dhcp)
             /\ NetAlternates(netMbox', netIf'.dhcp)
  <2>1. /\ NetPending(netMbox, netLast, netIf.dhcp) /\ NetAlternates(netMbox, netIf.dhcp)
        /\ netIf.addr # 0 => netIf.reported
        /\ netIf.reported => netIf.dhcp /\ netIf.ping
    BY <1>6 DEF NetInv, NetIfOK
  <2>2. PICK after : after = netIf'.dhcp
    OBVIOUS
  <2>3. after \in BOOLEAN
    BY <1>5, <2>2 DEF NetIfs
  <2>4. /\ Head(netMbox) = "up" => after
        /\ Head(netMbox) = "down" => ~after
        /\ Head(netMbox) = "packet" => after = netIf.dhcp
    BY <1>5, <2>2
  <2>5. /\ NetPending(Tail(netMbox), netLast, after) /\ NetAlternates(Tail(netMbox), after)
        /\ Head(netMbox) = "up" => ~netIf.dhcp
    BY <1>2, <2>1, <2>3, <2>4, NetTailMsg
  <2>6. /\ netIf.ping \in BOOLEAN /\ netIf.reported \in BOOLEAN /\ netIf.dhcp \in BOOLEAN
    BY <1>2 DEF NetIfs
  <2>7. /\ netIf'.addr # 0 => netIf'.reported
        /\ netIf'.reported => netIf'.dhcp /\ netIf'.ping
    <3>1. CASE Head(netMbox) = "up"
      <4>1. /\ netIf'.reported = FALSE /\ netIf'.addr = netIf.addr /\ netIf'.ping = netIf.ping
        BY <1>5, <3>1
      <4>2. netIf.dhcp = FALSE /\ netIf.reported = FALSE /\ netIf.addr = 0
        BY <2>1, <2>5, <2>6, <3>1
      <4> QED
        BY <4>1, <4>2
    <3>2. CASE Head(netMbox) = "down"
      <4>1. /\ netIf'.reported = FALSE
            /\ netIf'.addr = (IF netIf.dhcp THEN 0 ELSE netIf.addr)
        BY <1>5, <3>2
      <4>2. netIf.dhcp \/ netIf.addr = 0
        BY <2>1, <2>6
      <4> QED
        BY <4>1, <4>2
    <3>3. CASE Head(netMbox) = "packet"
      BY <1>4, <2>1, <3>3
    <3> QED
      BY <1>4, <3>1, <3>2, <3>3
  <2> QED
    BY <1>2, <2>2, <2>5, <2>7
<1>7. NetTypeOK'
  BY <1>1, <1>3, <1>5 DEF NetInv, NetTypeOK, NetIfs
<1>8. NetConnOK'
  BY <1>1 DEF NetInv, NetConnOK
<1>9. NetIfOK'
  BY <1>1, <1>5, <1>6 DEF NetIfOK
<1> QED
  BY <1>7, <1>8, <1>9 DEF NetInv

\* The DHCP client binds or loses an address: netif_status_cb reports the first one.
LEMMA NetDhcpInv == NetInv /\ NetDhcp => NetInv'
<1> SUFFICES ASSUME NetInv, NetDhcp PROVE NetInv'
  OBVIOUS
<1>1. /\ netDrv' = netDrv /\ netHandler' = netHandler /\ netConn' = netConn
      /\ netMain' = netMain /\ netRetry' = netRetry /\ netMbox' = netMbox
      /\ netLast' = netLast /\ netLost' = netLost /\ netEvents' = netEvents
  BY DEF NetDhcp, netEv, netApp, netHist
<1>2. netIf \in NetIfs /\ netIf.dhcp
  BY DEF NetInv, NetTypeOK, NetDhcp, NetIfs
<1>3. /\ netIf' \in NetIfs /\ netIf'.link = netIf.link /\ netIf'.rxcb = netIf.rxcb
      /\ netIf'.dhcp = netIf.dhcp
      /\ netIf'.addr = 0 \/ netIf.reported
         => netIf'.reported = netIf.reported /\ netIf'.ping = netIf.ping
      /\ netIf'.addr # 0 /\ ~netIf.reported => netIf'.reported = TRUE /\ netIf'.ping = TRUE
  <2>1. netIf.addr \in 0 .. 1
    BY <1>2 DEF NetIfs
  <2>2. PICK a : a = 1 - netIf.addr
    OBVIOUS
  <2>3. a \in 0 .. 1
    BY <2>1, <2>2
  <2>4. PICK f : f = netIf
    OBVIOUS
  <2>5. PICK w : w = NetStatus(f, a)
    OBVIOUS
  <2>6. netIf' = w
    BY <2>2, <2>4, <2>5 DEF NetDhcp
  <2>7. /\ w \in NetIfs /\ w.link = f.link /\ w.rxcb = f.rxcb
        /\ w.dhcp = f.dhcp /\ w.addr = a
        /\ a = 0 \/ f.reported => w.reported = f.reported /\ w.ping = f.ping
        /\ a # 0 /\ ~f.reported => w.reported = TRUE /\ w.ping = TRUE
    BY <1>2, <2>3, <2>4, <2>5, NetStatusFields
  <2> QED
    BY <2>4, <2>6, <2>7
<1>4. netIf.reported \in BOOLEAN /\ netIf.ping \in BOOLEAN
  BY <1>2 DEF NetIfs
<1>5. NetTypeOK'
  BY <1>1, <1>3 DEF NetInv, NetTypeOK, NetIfs
<1>6. NetConnOK'
  BY <1>1 DEF NetInv, NetConnOK
<1>7. NetIfOK'
  <2>1. ASSUME ~netLost
        PROVE  /\ netIf'.addr # 0 => netIf'.reported
               /\ netIf'.reported => netIf'.dhcp /\ netIf'.ping
    <3>1. netIf.reported => netIf.ping
      BY <2>1 DEF NetInv, NetIfOK
    <3>2. CASE netIf'.addr = 0 \/ netIf.reported
      BY <1>2, <1>3, <1>4, <3>1, <3>2
    <3>3. CASE netIf'.addr # 0 /\ ~netIf.reported
      BY <1>2, <1>3, <3>3
    <3> QED
      BY <3>2, <3>3
  <2> QED
    BY <1>1, <1>3, <2>1 DEF NetInv, NetIfOK
<1> QED
  BY <1>5, <1>6, <1>7 DEF NetInv

LEMMA NetNextInv == NetInv /\ [NetNext]_netVars => NetInv'
<1> SUFFICES ASSUME NetInv, [NetNext]_netVars PROVE NetInv'
  OBVIOUS
<1>1. CASE UNCHANGED netVars
  BY <1>1 DEF netVars, netEv, netApp, netHist, NetInv, NetTypeOK, NetConnOK, NetIfOK
<1>2. CASE NetNext
  BY <1>2, NetDriverInv, NetHandlerStateInv, NetNotifyLinkInv, NetRxInv, NetMainInv,
     NetTcpipInv, NetDhcpInv DEF NetNext
<1> QED
  BY <1>1, <1>2

\* Once no link change is in the mailbox, the interface is what the last one says.
LEMMA NetInvFollowsLink == NetInv => NetFollowsLink
<1> SUFFICES ASSUME NetInv, ~netLost PROVE
      /\ (netHandler = NetQuiet /\ {"up", "down"} \cap Range(netMbox) = {})
         => \A b \in {netIf.link, netIf.rxcb, netIf.dhcp} : b = (netLast = "up")
      /\ netIf.addr # 0 => netIf.reported
      /\ netIf.reported => netIf.dhcp /\ netIf.ping
  BY DEF NetFollowsLink
<1>1. /\ netIf.link \in BOOLEAN /\ netIf.rxcb \in BOOLEAN /\ netIf.dhcp \in BOOLEAN
      /\ netIf.ping \in BOOLEAN /\ netIf.reported \in BOOLEAN
  BY DEF NetInv, NetTypeOK
<1>2. /\ netIf.link = netIf.dhcp /\ netIf.rxcb = netIf.dhcp
      /\ netIf.addr # 0 => netIf.reported
      /\ netIf.reported => netIf.dhcp /\ netIf.ping
      /\ NetPending(netMbox, netLast, netIf.dhcp)
  BY DEF NetInv, NetIfOK
<1>3. ASSUME {"up", "down"} \cap Range(netMbox) = {}
      PROVE  netIf.dhcp <=> netLast = "up"
  <2>1. \A j \in DOMAIN netMbox : netMbox[j] \notin {"up", "down"}
    BY <1>3 DEF Range
  <2>2. \A j \in DOMAIN netMbox : netMbox[j] \in NetMsgs
    BY DEF NetInv, NetTypeOK
  <2>3. ~ \E j \in DOMAIN netMbox : netMbox[j] = netLast /\ netLast # "packet"
    <3>1. netLast \in {"none", "up", "down"}
      BY DEF NetInv, NetTypeOK
    <3> QED
      BY <2>1, <2>2, <3>1 DEF NetMsgs
  <2> QED
    BY <1>2, <2>3 DEF NetPending
<1> QED
  BY <1>1, <1>2, <1>3

\* The interface follows the link unless tcpip_callback has lost a change, whatever
\* the number of messages its mailbox has room for: netif_esp32c3_notify_link,
\* handle_link_up, handle_link_down and netif_status_cb (netif_esp32c3.c).
THEOREM InterfaceFollowsLink == NetSpec => [](NetTypeOK /\ NetFollowsLink)
<1>1. NetInv => NetTypeOK /\ NetFollowsLink
  BY NetInvFollowsLink DEF NetInv
<1> QED
  BY <1>1, NetInitInv, NetNextInv, PTL DEF NetSpec

\* No failed connection is forgotten between wifi_event_handler and main_task
\* (wifi_dhcp.c), which clears conn_state before the call that can post the next one.
THEOREM FailuresReachMainTask == NetSpec => []NetRetryNotLost
<1>1. NetInv => NetRetryNotLost
  BY DEF NetInv, NetTypeOK, NetConnOK, NetQuiet, NetRetryNotLost
<1> QED
  BY <1>1, NetInitInv, NetNextInv, PTL DEF NetSpec

(***************************************************************************)
(* The timers of the Bluetooth shim.                                       *)
(***************************************************************************)
BtRecs == [used : BOOLEAN, active : BOOLEAN, dl : Nat,
           per : BtDelays \cup {0}, cb : BtTimers \cup {BtNone}]

\* A used slot is one timer's; only the host creates, fills and masks interrupts.
BtHandsOK ==
  /\ btOwner \in {BtHost, BtNone}
  /\ \A k, l \in BtTimers : k # l /\ btHandle[k] # -1 => btHandle[l] # btHandle[k]
  /\ \A k \in BtTimers : btHandle[k] # -1 => btSlot[btHandle[k]].used
  /\ \A s \in BtSlots : btSlot[s].used => \E k \in BtTimers : btHandle[k] = s
  /\ btPc[BtHost] = "fill" => btJob[BtHost] \in BtTimers /\ btHandle[btJob[BtHost]] # -1
  /\ btPc[BtHost] # "fill" => btJob[BtHost] = BtNone

\* A slot that nobody uses, or that is being filled, is not armed; the others are as
\* their callers asked for.
BtSlotsOK ==
  /\ \A s \in BtSlots : ~btSlot[s].used => ~btSlot[s].active
  /\ \A k \in BtTimers : btHandle[k] = -1 => btDue[k] = 0
  /\ \A k \in BtTimers : btHandle[k] # -1 =>
       IF btJob[BtHost] = k THEN ~btSlot[btHandle[k]].active /\ btDue[k] = 0
       ELSE /\ btSlot[btHandle[k]].cb = k
            /\ btSlot[btHandle[k]].active <=> btDue[k] # 0
            /\ btSlot[btHandle[k]].active => btSlot[btHandle[k]].dl = btDue[k]

\* A wakeup is on its way to the timer task.
BtComing ==
  btSem = 1 \/ btPend \/ \E p \in BtProcs : btPc[p] \in {"signal", "flush"}

\* On its way to sleep the timer task has seen every deadline, or a wakeup is coming.
BtNapOK ==
  /\ btPc[BtTask] = "nap" =>
       BtComing \/ \A s \in BtActive : btNear # BtNever /\ btNear <= btSlot[s].dl
  /\ btPc[BtTask] \in {"twai", "wait"} =>
       \/ BtComing \/ (btPc[BtTask] = "twai" /\ btTmo = 0)
       \/ \A s \in BtActive : btTmo # BtNever /\ btNow + btTmo <= btSlot[s].dl

BtInv == BtTypeOK /\ BtHandsOK /\ BtSlotsOK /\ BtNapOK

\* The three contexts are three, and the bounds are numbers.
LEMMA BtContexts ==
  /\ BtTask # BtHost /\ BtTask # BtIsr /\ BtHost # BtIsr
  /\ {BtTask, BtHost, BtIsr} = BtProcs /\ BtNone \notin BtProcs /\ BtNone \notin BtTimers
  /\ BT_TIMER_NUM \in Nat /\ BtMaxSleep \in Nat /\ BtMaxCalls \in Nat /\ BtMaxTime \in Nat
  /\ BtDelays \subseteq Nat /\ 0 \notin BtDelays /\ BtSlots \subseteq Nat /\ -1 \notin BtSlots
<1>1. /\ Cardinality(BtProcs) = 3 /\ BtNone \notin BtProcs /\ BtNone \notin BtTimers
      /\ BT_TIMER_NUM \in Nat /\ BtMaxSleep \in Nat /\ BtMaxCalls \in Nat /\ BtMaxTime \in Nat
      /\ BtDelays \subseteq Nat /\ 0 \notin BtDelays
  BY BtAssumption
<1>2. BtSlots \subseteq Nat /\ -1 \notin BtSlots
  BY <1>1 DEF BtSlots
<1>3. ASSUME NEW a, NEW b PROVE Cardinality({a, b}) # 3
  <2>1. IsFiniteSet({a}) /\ Cardinality({a}) = 1
    BY FS_Singleton
  <2>2. Cardinality({a} \cup {b}) = IF b \in {a} THEN 1 ELSE 1 + 1
    BY <2>1, FS_AddElement
  <2>3. {a} \cup {b} = {a, b}
    OBVIOUS
  <2>4. Cardinality({a, b}) \in {1, 2}
    BY <2>2, <2>3
  <2> QED
    BY <2>4
<1>4. BtTask # BtHost
  <2> SUFFICES ASSUME BtTask = BtHost PROVE FALSE
    OBVIOUS
  <2>1. BtProcs = {BtHost, BtIsr}
    BY DEF BtProcs
  <2> QED
    BY <1>1, <1>3, <2>1
<1>5. BtTask # BtIsr
  <2> SUFFICES ASSUME BtTask = BtIsr PROVE FALSE
    OBVIOUS
  <2>1. BtProcs = {BtHost, BtIsr}
    BY DEF BtProcs
  <2> QED
    BY <1>1, <1>3, <2>1
<1>6. BtHost # BtIsr
  <2> SUFFICES ASSUME BtHost = BtIsr PROVE FALSE
    OBVIOUS
  <2>1. BtProcs = {BtTask, BtIsr}
    BY DEF BtProcs
  <2> QED
    BY <1>1, <1>3, <2>1
<1> QED
  BY <1>1, <1>2, <1>4, <1>5, <1>6 DEF BtProcs

\* Who is at work does not change who has which slot.
LEMMA BtHandsKept ==
  ASSUME BtTypeOK, BtHandsOK, btHandle' = btHandle, btOwner' \in {BtHost, BtNone},
         \A s \in BtSlots : btSlot'[s].used = btSlot[s].used,
         btJob'[BtHost] = btJob[BtHost], btPc'[BtHost] = "fill" <=> btPc[BtHost] = "fill"
  PROVE  BtHandsOK'
BY DEF BtTypeOK, BtHandsOK

\* Every slot is left as it was.
LEMMA BtSlotsKept ==
  ASSUME BtSlotsOK, btHandle' = btHandle, btSlot' = btSlot, btDue' = btDue,
         btJob'[BtHost] = btJob[BtHost]
  PROVE  BtSlotsOK'
BY DEF BtSlotsOK

\* The task sleeps on, or is awake: no timer is armed without a wakeup.
LEMMA BtNapKept ==
  ASSUME BtNapOK,
         \/ btPc'[BtTask] \notin {"nap", "twai", "wait"}
         \/ BtComing'
         \/ /\ btPc'[BtTask] = btPc[BtTask] /\ btNear' = btNear /\ btTmo' = btTmo
            /\ btNow' = btNow /\ (BtComing => BtComing')
            /\ \A s \in BtSlots : btSlot'[s].used /\ btSlot'[s].active =>
                 btSlot[s].used /\ btSlot[s].active /\ btSlot'[s].dl = btSlot[s].dl
  PROVE  BtNapOK'
<1>1. CASE btPc'[BtTask] \notin {"nap", "twai", "wait"} \/ BtComing'
  BY <1>1 DEF BtNapOK
<1>2. CASE /\ btPc'[BtTask] = btPc[BtTask] /\ btNear' = btNear /\ btTmo' = btTmo
           /\ btNow' = btNow /\ (BtComing => BtComing')
           /\ \A s \in BtSlots : btSlot'[s].used /\ btSlot'[s].active =>
                btSlot[s].used /\ btSlot[s].active /\ btSlot'[s].dl = btSlot[s].dl
  <2>1. \A s \in BtActive' : s \in BtActive /\ btSlot'[s].dl = btSlot[s].dl
    BY <1>2 DEF BtActive
  <2> QED
    BY <1>2, <2>1 DEF BtNapOK
<1> QED
  BY <1>1, <1>2

LEMMA BtInitInv == BtInit => BtInv
<1> SUFFICES ASSUME BtInit PROVE BtInv
  OBVIOUS
<1>1. BtTypeOK
  <2>1. btSlot \in [BtSlots -> BtRecs]
    BY DEF BtInit, BtUnused, BtRecs
  <2>2. btPc \in [BtProcs -> BtLabels]
    BY DEF BtInit, BtLabels
  <2>3. /\ btTime \in Nat /\ btNow \in Nat /\ btWake \in Nat /\ btSem \in 0 .. 1
        /\ btTmo \in 0 .. BtMaxSleep /\ btCalls \in 0 .. BtMaxCalls
    BY BtContexts DEF BtInit
  <2> QED
    BY <2>1, <2>2, <2>3 DEF BtInit, BtTypeOK, BtRecs
<1>2. BtHandsOK
  BY BtContexts DEF BtInit, BtHandsOK, BtUnused, BtProcs
<1>3. BtSlotsOK
  BY DEF BtInit, BtSlotsOK, BtUnused
<1>4. BtNapOK
  BY DEF BtInit, BtNapOK, BtProcs
<1> QED
  BY <1>1, <1>2, <1>3, <1>4 DEF BtInv

\* What a step of p does to the places.
LEMMA BtPlaces ==
  ASSUME BtTypeOK, NEW p \in BtProcs, NEW l \in BtLabels, BtGo(p, l)
  PROVE  /\ btPc'[p] = l /\ \A q \in BtProcs \ {p} : btPc'[q] = btPc[q]
         /\ btPc' \in [BtProcs -> BtLabels]
BY DEF BtTypeOK, BtGo

\* esp_timer_create takes the first slot that is free.
LEMMA BtCreateInv ==
  ASSUME BtInv, NEW k \in BtTimers, BtCreate(k)
  PROVE  BtInv'
<1>1. /\ btSem' = btSem /\ btPend' = btPend /\ btOwner' = btOwner /\ btTime' = btTime
      /\ btNow' = btNow /\ btNear' = btNear /\ btTmo' = btTmo /\ btWake' = btWake
      /\ btDue' = btDue /\ btHandle[k] = -1
      /\ btPc[BtHost] = "idle" /\ btCalls < BtMaxCalls /\ btCalls' = btCalls + 1
  BY BtContexts DEF BtCreate, btWakes, btClock, BtCall, BtAt, BtRest, BtHeld
<1>2. btCalls' \in 0 .. BtMaxCalls
  BY <1>1, BtContexts DEF BtInv, BtTypeOK
<1>3. btJob[BtHost] = BtNone /\ btDue[k] = 0
  BY <1>1 DEF BtInv, BtHandsOK, BtSlotsOK
<1>4. CASE btSlot' = btSlot /\ btPc' = btPc /\ btJob' = btJob /\ btHandle' = btHandle
  <2>1. BtTypeOK'
    BY <1>1, <1>2, <1>4 DEF BtInv, BtTypeOK
  <2>2. BtHandsOK' /\ BtSlotsOK'
    BY <1>1, <1>4 DEF BtInv, BtHandsOK, BtSlotsOK
  <2>3. BtComing => BtComing'
    BY <1>1, <1>4 DEF BtComing
  <2>4. BtNapOK'
    BY <1>1, <1>4, <2>3, BtNapKept DEF BtInv
  <2> QED
    BY <2>1, <2>2, <2>4 DEF BtInv
<1>5. CASE ~ (btSlot' = btSlot /\ btPc' = btPc /\ btJob' = btJob /\ btHandle' = btHandle)
  <2>1. PICK s : /\ s = Min(BtFree) /\ BtFree # {}
                 /\ btSlot' = [btSlot EXCEPT ![s].used = TRUE]
                 /\ btHandle' = [btHandle EXCEPT ![k] = s]
                 /\ btJob' = [btJob EXCEPT ![BtHost] = k]
                 /\ BtGo(BtHost, "fill")
    BY <1>5 DEF BtCreate
  <2>2. s \in BtSlots /\ ~btSlot[s].used /\ s # -1
    <3>1. BtFree \subseteq Nat
      BY BtContexts DEF BtFree
    <3>2. s \in BtFree
      BY <2>1, <3>1, MinIsIn
    <3> QED
      BY <3>2, BtContexts DEF BtFree
  <2>3. PICK a, r : a = btSlot[s] /\ r = [a EXCEPT !.used = TRUE]
    OBVIOUS
  <2>4. a \in BtRecs
    BY <2>2, <2>3 DEF BtInv, BtTypeOK, BtRecs
  <2>5. r \in BtRecs /\ r.used = TRUE /\ r.active = a.active /\ r.dl = a.dl /\ r.cb = a.cb
    BY <2>3, <2>4 DEF BtRecs
  <2>6. /\ btSlot'[s] = r /\ \A x \in BtSlots \ {s} : btSlot'[x] = btSlot[x]
        /\ btSlot' \in [BtSlots -> BtRecs]
    BY <2>1, <2>2, <2>3, <2>5 DEF BtInv, BtTypeOK, BtRecs
  <2>7. /\ btPc'[BtHost] = "fill" /\ \A q \in BtProcs \ {BtHost} : btPc'[q] = btPc[q]
        /\ btPc' \in [BtProcs -> BtLabels]
    <3>1. BtHost \in BtProcs /\ "fill" \in BtLabels
      BY BtContexts DEF BtLabels
    <3> QED
      BY <2>1, <3>1, BtPlaces DEF BtInv
  <2>8. /\ btHandle'[k] = s /\ \A l \in BtTimers \ {k} : btHandle'[l] = btHandle[l]
        /\ btHandle' \in [BtTimers -> BtSlots \cup {-1}]
        /\ btJob'[BtHost] = k /\ btJob' \in [BtProcs -> BtTimers \cup {BtNone}]
    BY <2>1, <2>2, BtContexts DEF BtInv, BtTypeOK
  <2>9. \A l \in BtTimers : btHandle[l] # s
    BY <2>2 DEF BtInv, BtHandsOK
  <2>10. a.active = FALSE
    BY <2>2, <2>3, <2>4 DEF BtInv, BtSlotsOK, BtRecs
  <2>11. BtTypeOK'
    BY <1>1, <1>2, <2>6, <2>7, <2>8 DEF BtInv, BtTypeOK, BtRecs
  <2>12. BtHandsOK'
    <3>1. \A m, l \in BtTimers : m # l /\ btHandle'[m] # -1 => btHandle'[l] # btHandle'[m]
      <4> SUFFICES ASSUME NEW m \in BtTimers, NEW l \in BtTimers, m # l, btHandle'[m] # -1
                   PROVE  btHandle'[l] # btHandle'[m]
        OBVIOUS
      <4>1. CASE m = k
        BY <2>8, <2>9, <4>1
      <4>2. CASE l = k
        BY <2>8, <2>9, <4>2
      <4>3. CASE m # k /\ l # k
        BY <2>8, <4>3 DEF BtInv, BtHandsOK
      <4> QED
        BY <4>1, <4>2, <4>3
    <3>2. ASSUME NEW l \in BtTimers, btHandle'[l] # -1
          PROVE  btSlot'[btHandle'[l]].used
      <4>1. CASE l = k
        BY <2>5, <2>6, <2>8, <4>1
      <4>2. CASE l # k
        <5>1. btHandle'[l] = btHandle[l] /\ btHandle[l] \in BtSlots \ {s}
          BY <2>8, <2>9, <3>2, <4>2 DEF BtInv, BtTypeOK
        <5> QED
          BY <2>6, <5>1, <3>2 DEF BtInv, BtHandsOK
      <4> QED
        BY <4>1, <4>2
    <3>3. ASSUME NEW x \in BtSlots, btSlot'[x].used
          PROVE  \E l \in BtTimers : btHandle'[l] = x
      <4>1. CASE x = s
        BY <2>8, <4>1
      <4>2. CASE x # s
        <5>1. PICK l \in BtTimers : btHandle[l] = x
          BY <2>6, <3>3, <4>2 DEF BtInv, BtHandsOK
        <5>2. l # k
          BY <1>1, <5>1, BtContexts
        <5> QED
          BY <2>8, <5>1, <5>2
      <4> QED
        BY <4>1, <4>2
    <3>4. btJob'[BtHost] \in BtTimers /\ btHandle'[btJob'[BtHost]] # -1
      BY <2>2, <2>8
    <3>5. btOwner' \in {BtHost, BtNone}
      BY <1>1 DEF BtInv, BtHandsOK
    <3> QED
      BY <2>7, <3>1, <3>2, <3>3, <3>4, <3>5 DEF BtHandsOK
  <2>13. BtSlotsOK'
    <3>1. \A x \in BtSlots : ~btSlot'[x].used => ~btSlot'[x].active
      BY <2>5, <2>6 DEF BtInv, BtSlotsOK
    <3>2. \A l \in BtTimers : btHandle'[l] = -1 => btDue'[l] = 0
      BY <1>1, <2>2, <2>8 DEF BtInv, BtSlotsOK
    <3>3. ASSUME NEW l \in BtTimers, btHandle'[l] # -1
          PROVE  IF btJob'[BtHost] = l
                 THEN ~btSlot'[btHandle'[l]].active /\ btDue'[l] = 0
                 ELSE /\ btSlot'[btHandle'[l]].cb = l
                      /\ btSlot'[btHandle'[l]].active <=> btDue'[l] # 0
                      /\ btSlot'[btHandle'[l]].active => btSlot'[btHandle'[l]].dl = btDue'[l]
      <4>1. CASE l = k
        BY <1>1, <1>3, <2>5, <2>6, <2>8, <2>10, <4>1
      <4>2. CASE l # k
        <5>1. btHandle'[l] = btHandle[l] /\ btHandle[l] \in BtSlots \ {s}
          BY <2>8, <2>9, <3>3, <4>2 DEF BtInv, BtTypeOK
        <5>2. btJob'[BtHost] # l /\ btJob[BtHost] # l /\ btSlot'[btHandle[l]] = btSlot[btHandle[l]]
          BY <1>3, <2>6, <2>8, <4>2, <5>1, BtContexts
        <5>3. /\ btSlot[btHandle[l]].cb = l
              /\ btSlot[btHandle[l]].active <=> btDue[l] # 0
              /\ btSlot[btHandle[l]].active => btSlot[btHandle[l]].dl = btDue[l]
          BY <3>3, <5>1, <5>2 DEF BtInv, BtSlotsOK
        <5> QED
          BY <1>1, <5>1, <5>2, <5>3
      <4> QED
        BY <4>1, <4>2
    <3> QED
      BY <3>1, <3>2, <3>3 DEF BtSlotsOK
  <2>14. BtNapOK'
    <3>1. BtComing => BtComing'
      BY <1>1, <2>7 DEF BtComing
    <3>2. btPc'[BtTask] = btPc[BtTask]
      BY <2>7, BtContexts
    <3>3. \A x \in BtSlots : btSlot'[x].used /\ btSlot'[x].active =>
            btSlot[x].used /\ btSlot[x].active /\ btSlot'[x].dl = btSlot[x].dl
      BY <2>5, <2>6, <2>10
    <3> QED
      BY <1>1, <3>1, <3>2, <3>3, BtNapKept DEF BtInv
  <2> QED
    BY <2>11, <2>12, <2>13, <2>14 DEF BtInv
<1> QED
  BY <1>4, <1>5

\* The slot of one timer changes: its callers stop it, arm it, or the task does.
LEMMA BtSlotStep ==
  ASSUME BtInv, NEW k \in BtTimers, btHandle[k] # -1, NEW r \in BtRecs, NEW due \in Nat,
         btHandle' = btHandle, btOwner' \in {BtHost, BtNone},
         btSlot' = [btSlot EXCEPT ![btHandle[k]] = r], btDue' = [btDue EXCEPT ![k] = due],
         r.used, r.cb = k, r.active <=> due # 0, r.active => r.dl = due,
         btJob'[BtHost] # k, btJob'[BtHost] = btJob[BtHost] \/ btJob'[BtHost] = BtNone,
         \A l \in BtTimers \ {k} : btJob'[BtHost] = l <=> btJob[BtHost] = l,
         btPc'[BtHost] = "fill" <=> btJob'[BtHost] # BtNone
  PROVE  BtHandsOK' /\ BtSlotsOK' /\ btSlot' \in [BtSlots -> BtRecs] /\ btDue' \in [BtTimers -> Nat]
<1>1. PICK s : s = btHandle[k]
  OBVIOUS
<1>2. s \in BtSlots
  BY <1>1 DEF BtInv, BtTypeOK
<1>3. /\ btSlot'[s] = r /\ \A x \in BtSlots \ {s} : btSlot'[x] = btSlot[x]
      /\ btSlot' \in [BtSlots -> BtRecs]
      /\ btDue'[k] = due /\ \A l \in BtTimers \ {k} : btDue'[l] = btDue[l]
      /\ btDue' \in [BtTimers -> Nat]
  BY <1>1, <1>2 DEF BtInv, BtTypeOK, BtRecs
<1>4. \A l \in BtTimers \ {k} : btHandle[l] # s
  BY <1>1 DEF BtInv, BtHandsOK
<1>5. BtHandsOK'
  <2>1. \A x \in BtSlots : btSlot'[x].used <=> btSlot[x].used
    <3>1. btSlot[s].used
      BY <1>1 DEF BtInv, BtHandsOK
    <3> QED
      BY <1>3, <3>1
  <2>2. /\ \A m, l \in BtTimers : m # l /\ btHandle'[m] # -1 => btHandle'[l] # btHandle'[m]
        /\ \A l \in BtTimers : btHandle'[l] # -1 => btSlot'[btHandle'[l]].used
        /\ \A x \in BtSlots : btSlot'[x].used => \E l \in BtTimers : btHandle'[l] = x
    <3>1. \A l \in BtTimers : btHandle[l] # -1 => btHandle[l] \in BtSlots
      BY DEF BtInv, BtTypeOK
    <3> QED
      BY <2>1, <3>1 DEF BtInv, BtHandsOK
  <2>3. /\ btPc'[BtHost] = "fill" => btJob'[BtHost] \in BtTimers /\ btHandle'[btJob'[BtHost]] # -1
        /\ btPc'[BtHost] # "fill" => btJob'[BtHost] = BtNone
    BY BtContexts DEF BtInv, BtHandsOK
  <2> QED
    BY <2>2, <2>3 DEF BtHandsOK
<1>6. BtSlotsOK'
  <2>1. \A x \in BtSlots : ~btSlot'[x].used => ~btSlot'[x].active
    BY <1>3 DEF BtInv, BtSlotsOK
  <2>2. \A l \in BtTimers : btHandle'[l] = -1 => btDue'[l] = 0
    BY <1>3 DEF BtInv, BtSlotsOK
  <2>3. ASSUME NEW l \in BtTimers, btHandle'[l] # -1
        PROVE  IF btJob'[BtHost] = l
               THEN ~btSlot'[btHandle'[l]].active /\ btDue'[l] = 0
               ELSE /\ btSlot'[btHandle'[l]].cb = l
                    /\ btSlot'[btHandle'[l]].active <=> btDue'[l] # 0
                    /\ btSlot'[btHandle'[l]].active => btSlot'[btHandle'[l]].dl = btDue'[l]
    <3>1. CASE l = k
      BY <1>1, <1>3, <3>1
    <3>2. CASE l # k
      <4>1. /\ btHandle'[l] = btHandle[l] /\ btHandle[l] \in BtSlots \ {s}
            /\ btSlot'[btHandle[l]] = btSlot[btHandle[l]] /\ btDue'[l] = btDue[l]
            /\ btJob'[BtHost] = l <=> btJob[BtHost] = l
        BY <1>3, <1>4, <2>3, <3>2 DEF BtInv, BtTypeOK
      <4>2. IF btJob[BtHost] = l
            THEN ~btSlot[btHandle[l]].active /\ btDue[l] = 0
            ELSE /\ btSlot[btHandle[l]].cb = l
                 /\ btSlot[btHandle[l]].active <=> btDue[l] # 0
                 /\ btSlot[btHandle[l]].active => btSlot[btHandle[l]].dl = btDue[l]
        BY <2>3, <4>1 DEF BtInv, BtSlotsOK
      <4> QED
        BY <4>1, <4>2
    <3> QED
      BY <3>1, <3>2
  <2> QED
    BY <2>1, <2>2, <2>3 DEF BtSlotsOK
<1> QED
  BY <1>3, <1>5, <1>6

\* What the slot of a timer that its callers may use holds.
LEMMA BtSlotOf ==
  ASSUME BtInv, NEW k \in BtTimers, BtUsable(k)
  PROVE  /\ btHandle[k] # -1 /\ btHandle[k] \in BtSlots /\ btJob[BtHost] # k
         /\ btSlot[btHandle[k]] \in BtRecs /\ btSlot[btHandle[k]].used
         /\ btSlot[btHandle[k]].cb = k
         /\ btSlot[btHandle[k]].active <=> btDue[k] # 0
         /\ btSlot[btHandle[k]].active => btSlot[btHandle[k]].dl = btDue[k]
<1>1. btHandle[k] # -1 /\ btJob[BtHost] # k
  BY DEF BtUsable, BtHeld
<1>2. btHandle[k] \in BtSlots
  BY <1>1 DEF BtInv, BtTypeOK
<1>3. btSlot[btHandle[k]] \in BtRecs
  BY <1>2 DEF BtInv, BtTypeOK, BtRecs
<1>4. btSlot[btHandle[k]].used
  BY <1>1 DEF BtInv, BtHandsOK
<1> QED
  BY <1>1, <1>2, <1>3, <1>4 DEF BtInv, BtSlotsOK

\* A step of p at a place other than "fill": the host fills on or does not.
LEMMA BtFills ==
  ASSUME BtInv, NEW p \in BtProcs, NEW l \in BtLabels, BtGo(p, l),
         btPc[p] # "fill", l # "fill"
  PROVE  /\ btPc'[BtHost] = "fill" <=> btPc[BtHost] = "fill"
         /\ btPc'[BtHost] = "fill" <=> btJob[BtHost] # BtNone
         /\ btPc' \in [BtProcs -> BtLabels]
         /\ btPc'[p] = l /\ \A q \in BtProcs \ {p} : btPc'[q] = btPc[q]
<1>1. /\ btPc'[p] = l /\ \A q \in BtProcs \ {p} : btPc'[q] = btPc[q]
      /\ btPc' \in [BtProcs -> BtLabels]
  BY BtPlaces DEF BtInv
<1>2. btPc'[BtHost] = "fill" <=> btPc[BtHost] = "fill"
  BY <1>1, BtContexts
<1>3. btPc[BtHost] = "fill" <=> btJob[BtHost] # BtNone
  BY BtContexts DEF BtInv, BtHandsOK
<1> QED
  BY <1>1, <1>2, <1>3

\* The fields of a new timer.
LEMMA BtFillInv ==
  ASSUME BtInv, BtFill
  PROVE  BtInv'
<1>1. /\ btSem' = btSem /\ btPend' = btPend /\ btOwner' = btOwner /\ btTime' = btTime
      /\ btNow' = btNow /\ btNear' = btNear /\ btTmo' = btTmo /\ btWake' = btWake
      /\ btDue' = btDue /\ btHandle' = btHandle /\ btCalls' = btCalls
      /\ btPc[BtHost] = "fill" /\ BtGo(BtHost, "idle")
      /\ btJob' = [btJob EXCEPT ![BtHost] = BtNone]
  BY DEF BtFill, btWakes, btClock, btHist, BtAt
<1>2. PICK k \in BtTimers : k = btJob[BtHost] /\ btHandle[k] # -1
  BY <1>1 DEF BtInv, BtHandsOK
<1>3. PICK s : s = btHandle[k]
  OBVIOUS
<1>4. PICK a, r : a = btSlot[s] /\ r = [a EXCEPT !.active = FALSE, !.cb = k, !.per = 0]
  OBVIOUS
<1>5. s \in BtSlots /\ a \in BtRecs /\ a.used /\ btDue[k] = 0 /\ a.active = FALSE
  <2>1. s \in BtSlots
    BY <1>2, <1>3 DEF BtInv, BtTypeOK
  <2>2. a \in BtRecs
    BY <1>4, <2>1 DEF BtInv, BtTypeOK, BtRecs
  <2>3. a.used
    BY <1>2, <1>3, <1>4 DEF BtInv, BtHandsOK
  <2>4. ~a.active /\ btDue[k] = 0
    BY <1>2, <1>3, <1>4 DEF BtInv, BtSlotsOK
  <2> QED
    BY <2>1, <2>2, <2>3, <2>4 DEF BtRecs
<1>6. r \in BtRecs /\ r.used /\ r.cb = k /\ r.active = FALSE /\ r.dl = a.dl
  BY <1>4, <1>5 DEF BtRecs
<1>7. btSlot' = [btSlot EXCEPT ![btHandle[k]] = r]
  <2>1. btSlot' = [btSlot EXCEPT ![s] = r]
    BY <1>2, <1>3, <1>4 DEF BtFill
  <2> QED
    BY <2>1, <1>3
<1>8. /\ btPc'[BtHost] = "idle" /\ \A q \in BtProcs \ {BtHost} : btPc'[q] = btPc[q]
      /\ btPc' \in [BtProcs -> BtLabels]
  <2>1. BtHost \in BtProcs /\ "idle" \in BtLabels
    BY BtContexts DEF BtLabels
  <2> QED
    BY <1>1, <2>1, BtPlaces DEF BtInv
<1>9. btJob'[BtHost] = BtNone /\ btJob' \in [BtProcs -> BtTimers \cup {BtNone}]
  BY <1>1, BtContexts DEF BtInv, BtTypeOK
<1>10. btDue' = [btDue EXCEPT ![k] = 0]
  BY <1>1, <1>5 DEF BtInv, BtTypeOK
<1>11. btOwner' \in {BtHost, BtNone}
  BY <1>1 DEF BtInv, BtHandsOK
<1>12. k # BtNone /\ \A l \in BtTimers \ {k} : btJob'[BtHost] = l <=> btJob[BtHost] = l
  BY <1>2, <1>9, BtContexts
<1>13. btJob'[BtHost] # k /\ (btPc'[BtHost] = "fill" <=> btJob'[BtHost] # BtNone)
  BY <1>8, <1>9, <1>12
<1>14. BtHandsOK' /\ BtSlotsOK' /\ btSlot' \in [BtSlots -> BtRecs]
  BY <1>1, <1>2, <1>6, <1>7, <1>9, <1>10, <1>11, <1>12, <1>13, BtSlotStep
<1>15. BtTypeOK'
  BY <1>1, <1>8, <1>9, <1>14 DEF BtInv, BtTypeOK, BtRecs
<1>16. BtNapOK'
  <2>1. BtComing => BtComing'
    BY <1>1, <1>8 DEF BtComing
  <2>2. btPc'[BtTask] = btPc[BtTask]
    BY <1>8, BtContexts
  <2>3. ASSUME NEW x \in BtSlots, btSlot'[x].used, btSlot'[x].active
        PROVE  btSlot[x].used /\ btSlot[x].active /\ btSlot'[x].dl = btSlot[x].dl
    <3>1. btSlot'[s] = r /\ \A y \in BtSlots \ {s} : btSlot'[y] = btSlot[y]
      BY <1>3, <1>5, <1>7 DEF BtInv, BtTypeOK
    <3> QED
      BY <1>6, <2>3, <3>1
  <2> QED
    BY <1>1, <2>1, <2>2, <2>3, BtNapKept DEF BtInv
<1> QED
  BY <1>14, <1>15, <1>16 DEF BtInv

\* esp_timer_stop.
LEMMA BtStopInv ==
  ASSUME BtInv, NEW p \in BtProcs, NEW k \in BtTimers, BtStop(p, k)
  PROVE  BtInv'
<1>1. /\ btSem' = btSem /\ btPend' = btPend /\ btOwner' = btOwner /\ btTime' = btTime
      /\ btNow' = btNow /\ btNear' = btNear /\ btTmo' = btTmo /\ btWake' = btWake
      /\ btHandle' = btHandle /\ btPc' = btPc /\ btJob' = btJob
      /\ btCalls < BtMaxCalls /\ btCalls' = btCalls + 1
      /\ BtUsable(k) /\ btDue' = [btDue EXCEPT ![k] = 0]
      /\ btSlot' = [btSlot EXCEPT ![btHandle[k]].active = FALSE]
  BY DEF BtStop, btWakes, btClock, BtCall
<1>2. btCalls' \in 0 .. BtMaxCalls
  BY <1>1, BtContexts DEF BtInv, BtTypeOK
<1>3. PICK a, r : a = btSlot[btHandle[k]] /\ r = [a EXCEPT !.active = FALSE]
  OBVIOUS
<1>4. /\ btHandle[k] # -1 /\ btHandle[k] \in BtSlots /\ btJob[BtHost] # k
      /\ a \in BtRecs /\ a.used /\ a.cb = k
  BY <1>1, <1>3, BtSlotOf
<1>5. r \in BtRecs /\ r.used /\ r.cb = k /\ r.active = FALSE
  BY <1>3, <1>4 DEF BtRecs
<1>6. btSlot' = [btSlot EXCEPT ![btHandle[k]] = r]
  BY <1>1, <1>3
<1>7. btOwner' \in {BtHost, BtNone} /\ (btPc'[BtHost] = "fill" <=> btJob'[BtHost] # BtNone)
  BY <1>1, BtContexts DEF BtInv, BtHandsOK
<1>8. BtHandsOK' /\ BtSlotsOK' /\ btSlot' \in [BtSlots -> BtRecs] /\ btDue' \in [BtTimers -> Nat]
  BY <1>1, <1>4, <1>5, <1>6, <1>7, BtSlotStep
<1>9. BtTypeOK'
  BY <1>1, <1>2, <1>8 DEF BtInv, BtTypeOK, BtRecs
<1>10. BtNapOK'
  <2>1. BtComing => BtComing'
    BY <1>1 DEF BtComing
  <2>2. ASSUME NEW x \in BtSlots, btSlot'[x].used, btSlot'[x].active
        PROVE  btSlot[x].used /\ btSlot[x].active /\ btSlot'[x].dl = btSlot[x].dl
    <3>1. PICK s : s = btHandle[k]
      OBVIOUS
    <3>2. btSlot'[s] = r /\ \A y \in BtSlots \ {s} : btSlot'[y] = btSlot[y]
      BY <1>4, <1>6, <3>1 DEF BtInv, BtTypeOK
    <3> QED
      BY <1>5, <2>2, <3>2
  <2> QED
    BY <1>1, <2>1, <2>2, BtNapKept DEF BtInv
<1> QED
  BY <1>8, <1>9, <1>10 DEF BtInv

\* timer_start leaves its wakeup to come.
LEMMA BtStartInv ==
  ASSUME BtInv, NEW p \in BtProcs, NEW k \in BtTimers, NEW d \in BtDelays,
         NEW per \in BtDelays \cup {0}, BtStart(p, k, d, per)
  PROVE  BtInv'
<1>1. /\ btSem' = btSem /\ btPend' = btPend /\ btOwner' = btOwner /\ btTime' = btTime
      /\ btNow' = btNow /\ btNear' = btNear /\ btTmo' = btTmo /\ btWake' = btWake
      /\ btHandle' = btHandle /\ btJob' = btJob /\ BtGo(p, "signal")
      /\ btCalls < BtMaxCalls /\ btCalls' = btCalls + 1
      /\ BtUsable(k) /\ btDue' = [btDue EXCEPT ![k] = btTime + d]
      /\ btSlot' = [btSlot EXCEPT ![btHandle[k]] =
                      [@ EXCEPT !.dl = btTime + d, !.per = per, !.active = TRUE]]
  BY DEF BtStart, btWakes, btClock, BtCall
<1>2. btCalls' \in 0 .. BtMaxCalls
  BY <1>1, BtContexts DEF BtInv, BtTypeOK
<1>3. PICK a, r : /\ a = btSlot[btHandle[k]]
                  /\ r = [a EXCEPT !.dl = btTime + d, !.per = per, !.active = TRUE]
  OBVIOUS
<1>4. /\ btHandle[k] # -1 /\ btHandle[k] \in BtSlots /\ btJob[BtHost] # k
      /\ a \in BtRecs /\ a.used /\ a.cb = k
  BY <1>1, <1>3, BtSlotOf
<1>5. btTime + d \in Nat /\ btTime + d # 0
  <2>1. d \in Nat /\ d # 0 /\ btTime \in Nat
    BY BtContexts DEF BtInv, BtTypeOK
  <2> QED
    BY <2>1
<1>6. r \in BtRecs /\ r.used /\ r.cb = k /\ r.active = TRUE /\ r.dl = btTime + d
  BY <1>3, <1>4, <1>5 DEF BtRecs
<1>7. btSlot' = [btSlot EXCEPT ![btHandle[k]] = r]
  BY <1>1, <1>3
<1>8. btPc[p] # "fill"
  BY DEF BtStart, BtCall, BtAt, BtRest
<1>9. /\ btPc'[BtHost] = "fill" <=> btJob[BtHost] # BtNone
      /\ btPc' \in [BtProcs -> BtLabels] /\ btPc'[p] = "signal"
  <2>1. "signal" \in BtLabels
    BY DEF BtLabels
  <2> QED
    BY <1>1, <1>8, <2>1, BtFills
<1>10. btOwner' \in {BtHost, BtNone}
  BY <1>1 DEF BtInv, BtHandsOK
<1>11. BtHandsOK' /\ BtSlotsOK' /\ btSlot' \in [BtSlots -> BtRecs] /\ btDue' \in [BtTimers -> Nat]
  BY <1>1, <1>4, <1>5, <1>6, <1>7, <1>9, <1>10, BtSlotStep
<1>12. BtTypeOK'
  BY <1>1, <1>2, <1>9, <1>11 DEF BtInv, BtTypeOK, BtRecs
<1>13. BtComing'
  BY <1>9 DEF BtComing
<1>14. BtNapOK'
  BY <1>13, BtNapKept DEF BtInv
<1> QED
  BY <1>11, <1>12, <1>14 DEF BtInv

\* A step that leaves the slots and the handles alone.
LEMMA BtWorkKept ==
  ASSUME BtInv, NEW p \in BtProcs, NEW l \in BtLabels, BtGo(p, l),
         btPc[p] # "fill", l # "fill",
         btHandle' = btHandle, btSlot' = btSlot, btDue' = btDue, btJob' = btJob,
         btOwner' \in {BtHost, BtNone}
  PROVE  /\ BtHandsOK' /\ BtSlotsOK' /\ btPc' \in [BtProcs -> BtLabels]
         /\ btPc'[p] = l /\ \A q \in BtProcs \ {p} : btPc'[q] = btPc[q]
<1>1. /\ btPc'[BtHost] = "fill" <=> btPc[BtHost] = "fill"
      /\ btPc' \in [BtProcs -> BtLabels]
      /\ btPc'[p] = l /\ \A q \in BtProcs \ {p} : btPc'[q] = btPc[q]
  BY BtFills
<1>2. BtHandsOK'
  BY <1>1, BtHandsKept DEF BtInv
<1>3. BtSlotsOK'
  BY BtSlotsKept DEF BtInv
<1> QED
  BY <1>1, <1>2, <1>3

\* esp_timer_delete gives the slot back.
LEMMA BtDeleteInv ==
  ASSUME BtInv, NEW k \in BtTimers, BtDelete(k)
  PROVE  BtInv'
<1>1. /\ btSem' = btSem /\ btPend' = btPend /\ btOwner' = btOwner /\ btTime' = btTime
      /\ btNow' = btNow /\ btNear' = btNear /\ btTmo' = btTmo /\ btWake' = btWake
      /\ btPc' = btPc /\ btJob' = btJob
      /\ btCalls < BtMaxCalls /\ btCalls' = btCalls + 1
      /\ BtUsable(k) /\ btDue' = [btDue EXCEPT ![k] = 0]
      /\ btHandle' = [btHandle EXCEPT ![k] = -1]
      /\ btSlot' = [btSlot EXCEPT ![btHandle[k]].active = FALSE, ![btHandle[k]].used = FALSE]
      /\ btPc[BtHost] = "idle"
  BY BtContexts DEF BtDelete, btWakes, btClock, BtCall, BtAt, BtRest
<1>2. btCalls' \in 0 .. BtMaxCalls
  BY <1>1, BtContexts DEF BtInv, BtTypeOK
<1>3. PICK s : s = btHandle[k]
  OBVIOUS
<1>4. PICK a, r : a = btSlot[s] /\ r = [a EXCEPT !.active = FALSE, !.used = FALSE]
  OBVIOUS
<1>5. s \in BtSlots /\ s # -1 /\ a \in BtRecs /\ btJob[BtHost] = BtNone
  <2>1. s \in BtSlots /\ s # -1 /\ a \in BtRecs
    BY <1>1, <1>3, <1>4, BtSlotOf
  <2> QED
    BY <1>1, <2>1 DEF BtInv, BtHandsOK
<1>6. r \in BtRecs /\ r.used = FALSE /\ r.active = FALSE
  BY <1>4, <1>5 DEF BtRecs
<1>7. btSlot' = [btSlot EXCEPT ![s] = r]
  <2>1. btSlot \in [BtSlots -> BtRecs]
    BY DEF BtInv, BtTypeOK, BtRecs
  <2>2. PICK b : b = [a EXCEPT !.active = FALSE]
    OBVIOUS
  <2>3. r = [b EXCEPT !.used = FALSE]
    BY <1>4, <2>2
  <2>4. btSlot' = [[btSlot EXCEPT ![s] = b] EXCEPT ![s] = r]
    BY <1>1, <1>3, <1>4, <1>5, <2>1, <2>2, <2>3
  <2> QED
    BY <1>5, <2>1, <2>4
<1>8. /\ btSlot'[s] = r /\ \A x \in BtSlots \ {s} : btSlot'[x] = btSlot[x]
      /\ btSlot' \in [BtSlots -> BtRecs]
  BY <1>5, <1>6, <1>7 DEF BtInv, BtTypeOK, BtRecs
<1>9. /\ btHandle'[k] = -1 /\ \A l \in BtTimers \ {k} : btHandle'[l] = btHandle[l]
      /\ btHandle' \in [BtTimers -> BtSlots \cup {-1}]
      /\ btDue'[k] = 0 /\ \A l \in BtTimers \ {k} : btDue'[l] = btDue[l]
      /\ btDue' \in [BtTimers -> Nat]
  BY <1>1 DEF BtInv, BtTypeOK
<1>10. \A l \in BtTimers \ {k} : btHandle[l] # s
  BY <1>3, <1>5 DEF BtInv, BtHandsOK
<1>11. BtTypeOK'
  BY <1>1, <1>2, <1>8, <1>9 DEF BtInv, BtTypeOK, BtRecs
<1>12. BtHandsOK'
  <2>1. \A m, l \in BtTimers : m # l /\ btHandle'[m] # -1 => btHandle'[l] # btHandle'[m]
    <3> SUFFICES ASSUME NEW m \in BtTimers, NEW l \in BtTimers, m # l, btHandle'[m] # -1
                 PROVE  btHandle'[l] # btHandle'[m]
      OBVIOUS
    <3>1. m # k
      BY <1>9
    <3>2. CASE l = k
      BY <1>9, <3>2
    <3>3. CASE l # k
      BY <1>9, <3>1, <3>3 DEF BtInv, BtHandsOK
    <3> QED
      BY <3>2, <3>3
  <2>2. ASSUME NEW l \in BtTimers, btHandle'[l] # -1
        PROVE  btSlot'[btHandle'[l]].used
    <3>1. l # k
      BY <1>9, <2>2
    <3>2. btHandle'[l] = btHandle[l] /\ btHandle[l] \in BtSlots \ {s}
      BY <1>9, <1>10, <2>2, <3>1 DEF BtInv, BtTypeOK
    <3> QED
      BY <1>8, <2>2, <3>2 DEF BtInv, BtHandsOK
  <2>3. ASSUME NEW x \in BtSlots, btSlot'[x].used
        PROVE  \E l \in BtTimers : btHandle'[l] = x
    <3>1. x # s
      BY <1>6, <1>8, <2>3
    <3>2. PICK l \in BtTimers : btHandle[l] = x
      BY <1>8, <2>3, <3>1 DEF BtInv, BtHandsOK
    <3>3. l # k
      BY <1>3, <3>1, <3>2
    <3> QED
      BY <1>9, <3>2, <3>3
  <2> QED
    BY <1>1, <1>5, <2>1, <2>2, <2>3 DEF BtHandsOK, BtInv
<1>13. BtSlotsOK'
  <2>1. \A x \in BtSlots : ~btSlot'[x].used => ~btSlot'[x].active
    BY <1>6, <1>8 DEF BtInv, BtSlotsOK
  <2>2. \A l \in BtTimers : btHandle'[l] = -1 => btDue'[l] = 0
    BY <1>9 DEF BtInv, BtSlotsOK
  <2>3. ASSUME NEW l \in BtTimers, btHandle'[l] # -1
        PROVE  IF btJob'[BtHost] = l
               THEN ~btSlot'[btHandle'[l]].active /\ btDue'[l] = 0
               ELSE /\ btSlot'[btHandle'[l]].cb = l
                    /\ btSlot'[btHandle'[l]].active <=> btDue'[l] # 0
                    /\ btSlot'[btHandle'[l]].active => btSlot'[btHandle'[l]].dl = btDue'[l]
    <3>1. l # k
      BY <1>9, <2>3
    <3>2. /\ btHandle'[l] = btHandle[l] /\ btHandle[l] \in BtSlots \ {s}
          /\ btDue'[l] = btDue[l] /\ btJob'[BtHost] = btJob[BtHost]
      BY <1>1, <1>9, <1>10, <2>3, <3>1 DEF BtInv, BtTypeOK
    <3>3. btSlot'[btHandle[l]] = btSlot[btHandle[l]]
      BY <1>8, <3>2
    <3>4. IF btJob[BtHost] = l
          THEN ~btSlot[btHandle[l]].active /\ btDue[l] = 0
          ELSE /\ btSlot[btHandle[l]].cb = l
               /\ btSlot[btHandle[l]].active <=> btDue[l] # 0
               /\ btSlot[btHandle[l]].active => btSlot[btHandle[l]].dl = btDue[l]
      BY <2>3, <3>2 DEF BtInv, BtSlotsOK
    <3> QED
      BY <3>2, <3>3, <3>4
  <2> QED
    BY <2>1, <2>2, <2>3 DEF BtSlotsOK
<1>14. BtNapOK'
  <2>1. BtComing => BtComing'
    BY <1>1 DEF BtComing
  <2>2. \A x \in BtSlots : btSlot'[x].used /\ btSlot'[x].active =>
          btSlot[x].used /\ btSlot[x].active /\ btSlot'[x].dl = btSlot[x].dl
    BY <1>6, <1>8
  <2> QED
    BY <1>1, <2>1, <2>2, BtNapKept DEF BtInv
<1> QED
  BY <1>11, <1>12, <1>13, <1>14 DEF BtInv

\* sig_sem wakes the waiting task or leaves its count; either way nothing is slept through.
LEMMA BtSigSemStep ==
  ASSUME BtInv, NEW p \in BtProcs, NEW l \in BtLabels, BtSigSem(p, l),
         btPc[p] # "fill", btPc[p] # "wait", l # "fill", l \notin {"nap", "twai", "wait"},
         btHandle' = btHandle, btSlot' = btSlot, btDue' = btDue, btJob' = btJob,
         btOwner' \in {BtHost, BtNone}
  PROVE  /\ BtHandsOK' /\ BtSlotsOK' /\ BtNapOK' /\ btPc' \in [BtProcs -> BtLabels]
         /\ btSem' \in 0 .. 1
<1>1. CASE btPc[BtTask] = "wait" /\ btSem' = btSem
           /\ btPc' = [btPc EXCEPT ![BtTask] = "now", ![p] = l]
  <2>1. p # BtTask /\ BtTask \in BtProcs /\ "now" \in BtLabels
    BY <1>1, BtContexts DEF BtLabels
  <2>2. /\ btPc'[p] = l /\ btPc'[BtTask] = "now"
        /\ \A q \in BtProcs \ {p, BtTask} : btPc'[q] = btPc[q]
        /\ btPc' \in [BtProcs -> BtLabels]
    BY <1>1, <2>1 DEF BtInv, BtTypeOK
  <2>3. btPc'[BtHost] = "fill" <=> btPc[BtHost] = "fill"
    BY <2>2, <2>1, BtContexts
  <2>4. BtHandsOK'
    BY <2>3, BtHandsKept DEF BtInv
  <2>5. BtSlotsOK'
    BY BtSlotsKept DEF BtInv
  <2>6. BtNapOK'
    BY <2>2, BtNapKept DEF BtInv
  <2>7. btSem' \in 0 .. 1
    BY <1>1 DEF BtInv, BtTypeOK
  <2> QED
    BY <2>2, <2>4, <2>5, <2>6, <2>7
<1>2. CASE btSem' = 1 /\ BtGo(p, l)
  <2>1. BtHandsOK' /\ BtSlotsOK' /\ btPc' \in [BtProcs -> BtLabels]
    BY <1>2, BtWorkKept
  <2>2. BtComing'
    BY <1>2 DEF BtComing
  <2>3. BtNapOK'
    BY <2>2, BtNapKept DEF BtInv
  <2> QED
    BY <1>2, <2>1, <2>3
<1> QED
  BY <1>1, <1>2 DEF BtSigSem

\* esp_shim_signal_or_pend.
LEMMA BtSignalInv ==
  ASSUME BtInv, NEW p \in BtProcs, BtSignal(p)
  PROVE  BtInv'
<1>1. /\ btSlot' = btSlot /\ btJob' = btJob /\ btOwner' = btOwner /\ btTime' = btTime
      /\ btNow' = btNow /\ btNear' = btNear /\ btTmo' = btTmo /\ btWake' = btWake
      /\ btHandle' = btHandle /\ btDue' = btDue /\ btCalls' = btCalls
      /\ btPc[p] = "signal"
  BY DEF BtSignal, BtAt, btClock, btHist
<1>2. BtRest(p) \in BtLabels /\ BtRest(p) \notin {"fill", "nap", "twai", "wait"}
  BY DEF BtRest, BtLabels
<1>3. btOwner' \in {BtHost, BtNone}
  BY <1>1 DEF BtInv, BtHandsOK
<1>4. CASE btOwner # p /\ BtSigSem(p, BtRest(p)) /\ btPend' = btPend
  <2>1. /\ BtHandsOK' /\ BtSlotsOK' /\ BtNapOK' /\ btPc' \in [BtProcs -> BtLabels]
        /\ btSem' \in 0 .. 1
    BY <1>1, <1>2, <1>3, <1>4, BtSigSemStep
  <2>2. BtTypeOK'
    BY <1>1, <1>4, <2>1 DEF BtInv, BtTypeOK
  <2> QED
    BY <2>1, <2>2 DEF BtInv
<1>5. CASE btOwner = p /\ btPend' = TRUE /\ BtGo(p, BtRest(p)) /\ btSem' = btSem
  <2>1. BtHandsOK' /\ BtSlotsOK' /\ btPc' \in [BtProcs -> BtLabels]
    BY <1>1, <1>2, <1>3, <1>5, BtWorkKept
  <2>2. BtTypeOK'
    BY <1>1, <1>5, <2>1 DEF BtInv, BtTypeOK
  <2>3. BtComing'
    BY <1>5 DEF BtComing
  <2>4. BtNapOK'
    BY <2>3, BtNapKept DEF BtInv
  <2> QED
    BY <2>1, <2>2, <2>4 DEF BtInv
<1> QED
  BY <1>4, <1>5 DEF BtSignal

\* The critical section around the host's calls opens.
LEMMA BtEnterInv ==
  ASSUME BtInv, BtEnter
  PROVE  BtInv'
<1>1. /\ btSlot' = btSlot /\ btJob' = btJob /\ btOwner' = BtHost /\ btTime' = btTime
      /\ btNow' = btNow /\ btNear' = btNear /\ btTmo' = btTmo /\ btWake' = btWake
      /\ btHandle' = btHandle /\ btDue' = btDue /\ btPc' = btPc
      /\ btSem' = btSem /\ btPend' = btPend
      /\ btCalls < BtMaxCalls /\ btCalls' = btCalls + 1
  BY DEF BtEnter, BtCall, btClock, btWakes
<1>2. btCalls' \in 0 .. BtMaxCalls
  BY <1>1, BtContexts DEF BtInv, BtTypeOK
<1>3. BtHost \in BtProcs
  BY BtContexts
<1>4. BtTypeOK'
  BY <1>1, <1>2, <1>3 DEF BtInv, BtTypeOK
<1>5. BtHandsOK' /\ BtSlotsOK'
  BY <1>1 DEF BtInv, BtHandsOK, BtSlotsOK
<1>6. BtComing => BtComing'
  BY <1>1 DEF BtComing
<1>7. BtNapOK'
  BY <1>1, <1>6, BtNapKept DEF BtInv
<1> QED
  BY <1>4, <1>5, <1>7 DEF BtInv

\* It ends with the flush, when a wakeup is pended.
LEMMA BtExitInv ==
  ASSUME BtInv, BtExit
  PROVE  BtInv'
<1>1. /\ btSlot' = btSlot /\ btJob' = btJob /\ btOwner' = BtNone /\ btTime' = btTime
      /\ btNow' = btNow /\ btNear' = btNear /\ btTmo' = btTmo /\ btWake' = btWake
      /\ btHandle' = btHandle /\ btDue' = btDue /\ btCalls' = btCalls
      /\ btSem' = btSem /\ btPend' = btPend /\ btPc[BtHost] = "idle"
  BY DEF BtExit, BtAt, btClock, btWakes, btHist
<1>2. PICK l : l = IF btPend THEN "flush" ELSE "idle"
  OBVIOUS
<1>3. BtGo(BtHost, l) /\ l \in BtLabels /\ l # "fill" /\ BtHost \in BtProcs
  BY <1>2, BtContexts DEF BtExit, BtLabels
<1>4. /\ BtHandsOK' /\ BtSlotsOK' /\ btPc' \in [BtProcs -> BtLabels]
      /\ btPc'[BtHost] = l /\ \A q \in BtProcs \ {BtHost} : btPc'[q] = btPc[q]
  BY <1>1, <1>3, BtWorkKept
<1>5. BtTypeOK'
  BY <1>1, <1>4 DEF BtInv, BtTypeOK
<1>6. BtComing => BtComing'
  BY <1>1, <1>4 DEF BtComing
<1>7. btPc'[BtTask] = btPc[BtTask]
  BY <1>4, BtContexts
<1>8. BtNapOK'
  BY <1>1, <1>6, <1>7, BtNapKept DEF BtInv
<1> QED
  BY <1>4, <1>5, <1>8 DEF BtInv

\* The flush signals for real.
LEMMA BtFlushInv ==
  ASSUME BtInv, BtFlush
  PROVE  BtInv'
<1>1. /\ btSlot' = btSlot /\ btJob' = btJob /\ btOwner' = btOwner /\ btTime' = btTime
      /\ btNow' = btNow /\ btNear' = btNear /\ btTmo' = btTmo /\ btWake' = btWake
      /\ btHandle' = btHandle /\ btDue' = btDue /\ btCalls' = btCalls
      /\ btPend' = FALSE /\ btPc[BtHost] = "flush" /\ BtSigSem(BtHost, "idle")
  BY DEF BtFlush, BtAt, btClock, btHist
<1>2. "idle" \in BtLabels /\ BtHost \in BtProcs
  BY BtContexts DEF BtLabels
<1>3. btOwner' \in {BtHost, BtNone}
  BY <1>1 DEF BtInv, BtHandsOK
<1>4. /\ BtHandsOK' /\ BtSlotsOK' /\ BtNapOK' /\ btPc' \in [BtProcs -> BtLabels]
      /\ btSem' \in 0 .. 1
  BY <1>1, <1>2, <1>3, BtSigSemStep
<1>5. BtTypeOK'
  BY <1>1, <1>4 DEF BtInv, BtTypeOK
<1> QED
  BY <1>4, <1>5 DEF BtInv

\* The smaller and the larger of two numbers.
LEMMA BtOfTwo ==
  ASSUME NEW a \in Int, NEW b \in Int
  PROVE  Min({a, b}) = (IF a <= b THEN a ELSE b) /\ Max({a, b}) = (IF a <= b THEN b ELSE a)
<1>1. PICK m : m = (IF a <= b THEN a ELSE b)
  OBVIOUS
<1>2. PICK x : x = (IF a <= b THEN b ELSE a)
  OBVIOUS
<1>3. /\ m \in {a, b} /\ \A y \in {a, b} : m <= y
      /\ x \in {a, b} /\ \A y \in {a, b} : x >= y
  BY <1>1, <1>2
<1>4. /\ Min({a, b}) \in {a, b} /\ \A y \in {a, b} : Min({a, b}) <= y
      /\ Max({a, b}) \in {a, b} /\ \A y \in {a, b} : Max({a, b}) >= y
  BY <1>3 DEF Min, Max
<1>5. Min({a, b}) = m /\ Max({a, b}) = x
  BY <1>3, <1>4
<1> QED
  BY <1>1, <1>2, <1>5

\* The task goes where it is not yet on its way to sleep.
LEMMA BtTaskStep ==
  ASSUME BtInv, NEW l \in BtLabels, BtGo(BtTask, l),
         btPc[BtTask] # "fill", l \notin {"fill", "nap", "twai", "wait"},
         btHandle' = btHandle, btSlot' = btSlot, btDue' = btDue,
         btJob'[BtHost] = btJob[BtHost], btOwner' = btOwner
  PROVE  BtHandsOK' /\ BtSlotsOK' /\ BtNapOK' /\ btPc' \in [BtProcs -> BtLabels]
<1>1. BtTask \in BtProcs
  BY BtContexts
<1>2. /\ btPc'[BtHost] = "fill" <=> btPc[BtHost] = "fill"
      /\ btPc' \in [BtProcs -> BtLabels] /\ btPc'[BtTask] = l
  BY <1>1, BtFills
<1>3. BtHandsOK'
  <2>1. btOwner' \in {BtHost, BtNone}
    BY DEF BtInv, BtHandsOK
  <2> QED
    BY <1>2, <2>1, BtHandsKept DEF BtInv
<1>4. BtSlotsOK'
  BY BtSlotsKept DEF BtInv
<1>5. BtNapOK'
  BY <1>2, BtNapKept DEF BtInv
<1> QED
  BY <1>2, <1>3, <1>4, <1>5

\* The first reading of the time.
LEMMA BtReadNowInv ==
  ASSUME BtInv, BtReadNow
  PROVE  BtInv'
<1>1. /\ btSlot' = btSlot /\ btJob' = btJob /\ btOwner' = btOwner /\ btTime' = btTime
      /\ btNow' = btTime /\ btNear' = BtNever /\ btTmo' = 0 /\ btWake' = 0
      /\ btHandle' = btHandle /\ btDue' = btDue /\ btCalls' = btCalls
      /\ btSem' = btSem /\ btPend' = btPend
      /\ btPc[BtTask] = "now" /\ BtGo(BtTask, "scan")
  BY DEF BtReadNow, BtAt, btWakes, btHist
<1>2. "scan" \in BtLabels
  BY DEF BtLabels
<1>3. BtHandsOK' /\ BtSlotsOK' /\ BtNapOK' /\ btPc' \in [BtProcs -> BtLabels]
  BY <1>1, <1>2, BtTaskStep
<1>4. BtTypeOK'
  BY <1>1, <1>3, BtContexts DEF BtInv, BtTypeOK
<1> QED
  BY <1>3, <1>4 DEF BtInv

\* The callback returns.
LEMMA BtCalledInv ==
  ASSUME BtInv, BtCalled
  PROVE  BtInv'
<1>1. /\ btSlot' = btSlot /\ btOwner' = btOwner /\ btTime' = btTime
      /\ btNow' = btNow /\ btNear' = btNear /\ btTmo' = btTmo /\ btWake' = btWake
      /\ btHandle' = btHandle /\ btDue' = btDue /\ btCalls' = btCalls
      /\ btSem' = btSem /\ btPend' = btPend
      /\ btJob' = [btJob EXCEPT ![BtTask] = BtNone]
      /\ btPc[BtTask] = "call" /\ BtGo(BtTask, "now")
  BY DEF BtCalled, BtAt, btWakes, btHist, btClock
<1>2. "now" \in BtLabels
  BY DEF BtLabels
<1>3. btJob'[BtHost] = btJob[BtHost] /\ btJob' \in [BtProcs -> BtTimers \cup {BtNone}]
  BY <1>1, BtContexts DEF BtInv, BtTypeOK
<1>4. BtHandsOK' /\ BtSlotsOK' /\ BtNapOK' /\ btPc' \in [BtProcs -> BtLabels]
  BY <1>1, <1>2, <1>3, BtTaskStep
<1>5. BtTypeOK'
  BY <1>1, <1>3, <1>4 DEF BtInv, BtTypeOK
<1> QED
  BY <1>4, <1>5 DEF BtInv

\* The wait times out.
LEMMA BtTimeoutInv ==
  ASSUME BtInv, BtTimeout
  PROVE  BtInv'
<1>1. /\ btSlot' = btSlot /\ btOwner' = btOwner /\ btTime' = btTime /\ btJob' = btJob
      /\ btNow' = btNow /\ btNear' = btNear /\ btTmo' = btTmo /\ btWake' = btWake
      /\ btHandle' = btHandle /\ btDue' = btDue /\ btCalls' = btCalls
      /\ btSem' = btSem /\ btPend' = btPend
      /\ btPc[BtTask] = "wait" /\ BtGo(BtTask, "now")
  BY DEF BtTimeout, BtAt, btWakes, btHist, btClock
<1>2. "now" \in BtLabels
  BY DEF BtLabels
<1>3. BtHandsOK' /\ BtSlotsOK' /\ BtNapOK' /\ btPc' \in [BtProcs -> BtLabels]
  BY <1>1, <1>2, BtTaskStep
<1>4. BtTypeOK'
  BY <1>1, <1>3 DEF BtInv, BtTypeOK
<1> QED
  BY <1>3, <1>4 DEF BtInv

\* The clock.
LEMMA BtTickInv ==
  ASSUME BtInv, BtTick
  PROVE  BtInv'
<1>1. /\ btSlot' = btSlot /\ btOwner' = btOwner /\ btTime' = btTime + 1 /\ btJob' = btJob
      /\ btNow' = btNow /\ btNear' = btNear /\ btTmo' = btTmo /\ btWake' = btWake
      /\ btHandle' = btHandle /\ btDue' = btDue /\ btCalls' = btCalls
      /\ btSem' = btSem /\ btPend' = btPend /\ btPc' = btPc
  BY DEF BtTick, btWakes, btHist
<1>2. BtTypeOK'
  BY <1>1 DEF BtInv, BtTypeOK
<1>3. BtHandsOK' /\ BtSlotsOK'
  BY <1>1 DEF BtInv, BtHandsOK, BtSlotsOK
<1>4. BtComing => BtComing'
  BY <1>1 DEF BtComing
<1>5. BtNapOK'
  BY <1>1, <1>4, BtNapKept DEF BtInv
<1> QED
  BY <1>2, <1>3, <1>5 DEF BtInv

\* The scan picks an expired timer: it is due again, or its caller expects it no more.
LEMMA BtPickInv ==
  ASSUME BtInv, BtPick
  PROVE  BtInv'
<1>1. PICK s, k, d, a :
        /\ s = Min(BtExpired) /\ a = btSlot[s] /\ k = a.cb /\ d = a.dl + a.per
        /\ btSlot' = IF a.per # 0 THEN [btSlot EXCEPT ![s].dl = d]
                                  ELSE [btSlot EXCEPT ![s].active = FALSE]
        /\ btDue' = [btDue EXCEPT ![k] = IF a.per # 0 THEN d ELSE 0]
        /\ btJob' = [btJob EXCEPT ![BtTask] = k]
        /\ BtExpired # {}
        /\ btOwner' = btOwner /\ btTime' = btTime
        /\ btNow' = btNow /\ btNear' = btNear /\ btTmo' = btTmo /\ btWake' = btWake
        /\ btHandle' = btHandle /\ btCalls' = btCalls
        /\ btSem' = btSem /\ btPend' = btPend
        /\ btPc[BtTask] = "scan" /\ BtGo(BtTask, "call")
  BY DEF BtPick, BtAt, btWakes, btClock
<1>2. s \in BtSlots /\ a.used /\ a.active
  <2>1. BtExpired \subseteq Nat
    BY BtContexts DEF BtExpired, BtActive
  <2>2. s \in BtExpired
    BY <1>1, <2>1, MinIsIn
  <2> QED
    BY <1>1, <2>2 DEF BtExpired, BtActive
<1>3. PICK h \in BtTimers : btHandle[h] = s
  BY <1>1, <1>2 DEF BtInv, BtHandsOK
<1>4. btHandle[h] # -1 /\ btJob[BtHost] # h
  <2>1. btHandle[h] # -1
    BY <1>2, <1>3, BtContexts
  <2> QED
    BY <1>1, <1>2, <1>3, <2>1 DEF BtInv, BtSlotsOK
<1>5. k = h /\ a \in BtRecs
  <2>1. BtUsable(h)
    BY <1>4 DEF BtUsable, BtHeld
  <2> QED
    BY <1>1, <1>3, <2>1, BtSlotOf
<1>6. a.dl \in Nat /\ a.per \in Nat /\ d \in Nat /\ (a.per # 0 => d # 0)
  <2>1. a.dl \in Nat /\ a.per \in BtDelays \cup {0}
    BY <1>5 DEF BtRecs
  <2>2. a.per \in Nat
    <3>1. BtDelays \cup {0} \subseteq Nat
      <4>1. BtDelays \subseteq Nat
        BY BtContexts
      <4> QED
        BY <4>1
    <3> QED
      BY <2>1, <3>1, Zenon
  <2> QED
    BY <1>1, <2>1, <2>2
<1>7. PICK r : r = IF a.per # 0 THEN [a EXCEPT !.dl = d] ELSE [a EXCEPT !.active = FALSE]
  OBVIOUS
<1>8. PICK due : due = IF a.per # 0 THEN d ELSE 0
  OBVIOUS
<1>9. /\ r \in BtRecs /\ due \in Nat /\ r.used /\ r.cb = k
      /\ r.active <=> due # 0
      /\ r.active => r.dl = due
  <2>1. CASE a.per # 0
    BY <1>2, <1>5, <1>6, <1>7, <1>8, <1>1, <2>1 DEF BtRecs
  <2>2. CASE a.per = 0
    BY <1>2, <1>5, <1>6, <1>7, <1>8, <1>1, <2>2 DEF BtRecs
  <2> QED
    BY <2>1, <2>2
<1>10. btSlot' = [btSlot EXCEPT ![btHandle[h]] = r] /\ btDue' = [btDue EXCEPT ![h] = due]
  <2>1. CASE a.per # 0
    <3>1. btSlot' = [btSlot EXCEPT ![s] = r] /\ r = [a EXCEPT !.dl = d] 
      BY <1>1, <1>7, <2>1
    <3> QED
      BY <3>1, <1>1, <1>3, <1>5, <1>8
  <2>2. CASE a.per = 0
    <3>1. btSlot' = [btSlot EXCEPT ![s] = r] /\ r = [a EXCEPT !.active = FALSE]
      BY <1>1, <1>7, <2>2
    <3> QED
      BY <3>1, <1>1, <1>3, <1>5, <1>8
  <2> QED
    BY <2>1, <2>2
<1>11. btJob'[BtHost] = btJob[BtHost] /\ btJob' \in [BtProcs -> BtTimers \cup {BtNone}]
  BY <1>1, <1>5, BtContexts DEF BtInv, BtTypeOK
<1>12. /\ btPc'[BtHost] = "fill" <=> btJob[BtHost] # BtNone
       /\ btPc' \in [BtProcs -> BtLabels] /\ btPc'[BtTask] = "call"
  <2>1. "call" \in BtLabels /\ BtTask \in BtProcs
    BY BtContexts DEF BtLabels
  <2> QED
    BY <1>1, <2>1, BtFills
<1>13. btOwner' \in {BtHost, BtNone}
  BY <1>1 DEF BtInv, BtHandsOK
<1>14. BtHandsOK' /\ BtSlotsOK' /\ btSlot' \in [BtSlots -> BtRecs] /\ btDue' \in [BtTimers -> Nat]
  <2>1. /\ btHandle' = btHandle /\ r.cb = h /\ btJob'[BtHost] # h
        /\ btPc'[BtHost] = "fill" <=> btJob'[BtHost] # BtNone
    BY <1>1, <1>4, <1>5, <1>9, <1>11, <1>12
  <2> QED
    BY <1>4, <1>9, <1>10, <1>11, <1>13, <2>1, BtSlotStep
<1>15. BtTypeOK'
  BY <1>1, <1>11, <1>12, <1>14 DEF BtInv, BtTypeOK, BtRecs
<1>16. BtNapOK'
  BY <1>12, BtNapKept DEF BtInv
<1> QED
  BY <1>14, <1>15, <1>16 DEF BtInv

\* With nothing expired the task has seen the nearest deadline.
LEMMA BtScannedInv ==
  ASSUME BtInv, BtScanned
  PROVE  BtInv'
<1>1. /\ btSlot' = btSlot /\ btOwner' = btOwner /\ btTime' = btTime /\ btJob' = btJob
      /\ btNow' = btNow /\ btNear' = BtNearest /\ btTmo' = btTmo /\ btWake' = btWake
      /\ btHandle' = btHandle /\ btDue' = btDue /\ btCalls' = btCalls
      /\ btSem' = btSem /\ btPend' = btPend
      /\ btPc[BtTask] = "scan" /\ BtGo(BtTask, "nap")
  BY DEF BtScanned, BtAt, btWakes, btHist
<1>2. "nap" \in BtLabels /\ BtTask \in BtProcs /\ btOwner' \in {BtHost, BtNone}
  BY <1>1, BtContexts DEF BtLabels, BtInv, BtHandsOK
<1>3. /\ BtHandsOK' /\ BtSlotsOK' /\ btPc' \in [BtProcs -> BtLabels] /\ btPc'[BtTask] = "nap"
  BY <1>1, <1>2, BtWorkKept
<1>4. /\ BtNearest \in Nat \cup {BtNever}
      /\ \A s \in BtActive : BtNearest # BtNever /\ BtNearest <= btSlot[s].dl
  <2>1. CASE BtActive = {}
    BY <2>1 DEF BtNearest
  <2>2. CASE BtActive # {}
    <3>1. PICK D : D = {btSlot[s].dl : s \in BtActive}
      OBVIOUS
    <3>2. \A s \in BtActive : btSlot[s].dl \in Nat
      BY DEF BtInv, BtTypeOK, BtActive
    <3>3. D \subseteq Nat /\ D # {}
      BY <2>2, <3>1, <3>2
    <3>4. Min(D) \in D /\ \A x \in D : Min(D) <= x
      BY <3>3, MinIsIn
    <3>5. BtNearest = Min(D)
      BY <2>2, <3>1 DEF BtNearest
    <3>6. BtNearest \in Nat /\ BtNearest # BtNever
      <4>1. BtNearest \in Nat
        BY <3>3, <3>4, <3>5
      <4> QED
        BY <4>1 DEF BtNever
    <3> QED
      BY <3>1, <3>4, <3>5, <3>6
  <2> QED
    BY <2>1, <2>2
<1>5. BtTypeOK'
  BY <1>1, <1>3, <1>4 DEF BtInv, BtTypeOK
<1>6. BtActive' = BtActive
  BY <1>1 DEF BtActive
<1>7. BtNapOK'
  BY <1>1, <1>3, <1>4, <1>6 DEF BtNapOK
<1> QED
  BY <1>3, <1>5, <1>7 DEF BtInv

\* The timeout ends with that deadline at the latest.
LEMMA BtNapInv ==
  ASSUME BtInv, BtNap
  PROVE  BtInv'
<1>1. /\ btSlot' = btSlot /\ btOwner' = btOwner /\ btTime' = btTime /\ btJob' = btJob
      /\ btNow' = btTime /\ btNear' = btNear /\ btWake' = btWake
      /\ btTmo' = (IF btNear = BtNever THEN BtNever
                   ELSE Max({0, Min({btNear - btTime, BtMaxSleep})}))
      /\ btHandle' = btHandle /\ btDue' = btDue /\ btCalls' = btCalls
      /\ btSem' = btSem /\ btPend' = btPend
      /\ btPc[BtTask] = "nap" /\ BtGo(BtTask, "twai")
  BY DEF BtNap, BtAt, btWakes, btHist
<1>2. "twai" \in BtLabels /\ BtTask \in BtProcs /\ btOwner' \in {BtHost, BtNone}
  BY <1>1, BtContexts DEF BtLabels, BtInv, BtHandsOK
<1>3. /\ BtHandsOK' /\ BtSlotsOK' /\ btPc' \in [BtProcs -> BtLabels] /\ btPc'[BtTask] = "twai"
      /\ \A q \in BtProcs \ {BtTask} : btPc'[q] = btPc[q]
  BY <1>1, <1>2, BtWorkKept
<1>4. /\ btNear = BtNever => btTmo' = BtNever
      /\ btNear # BtNever => btTmo' \in 0 .. BtMaxSleep /\ (btTmo' = 0 \/ btTime + btTmo' <= btNear)
  <2>1. btTime \in Nat /\ BtMaxSleep \in Nat /\ (btNear # BtNever => btNear \in Nat)
    BY BtContexts DEF BtInv, BtTypeOK
  <2>2. CASE btNear # BtNever
    <3>1. PICK a : a = btNear - btTime
      OBVIOUS
    <3>2. a \in Int
      BY <2>1, <2>2, <3>1
    <3>3. PICK b : b = IF a <= BtMaxSleep THEN a ELSE BtMaxSleep
      OBVIOUS
    <3>4. b \in Int /\ b <= a /\ b <= BtMaxSleep
      BY <2>1, <3>2, <3>3
    <3>5. Min({a, BtMaxSleep}) = b
      BY <2>1, <3>2, <3>3, BtOfTwo
    <3>6. Max({0, b}) = IF 0 <= b THEN b ELSE 0
      BY <3>4, BtOfTwo
    <3>7. btTmo' = IF 0 <= b THEN b ELSE 0
      BY <1>1, <2>2, <3>1, <3>5, <3>6
    <3>8. btTmo' \in 0 .. BtMaxSleep /\ (btTmo' = 0 \/ btTmo' <= a)
      BY <2>1, <3>2, <3>4, <3>7
    <3> QED
      BY <2>1, <2>2, <3>1, <3>8
  <2> QED
    BY <1>1, <2>2
<1>5. BtTypeOK'
  BY <1>1, <1>3, <1>4 DEF BtInv, BtTypeOK
<1>6. BtActive' = BtActive
  BY <1>1 DEF BtActive
<1>7. BtComing => BtComing'
  BY <1>1, <1>3 DEF BtComing
<1>8. BtNapOK'
  <2>1. ASSUME ~BtComing', btTmo' # 0, NEW s \in BtActive
        PROVE  btTmo' # BtNever /\ btNow' + btTmo' <= btSlot'[s].dl
    <3>1. btNear # BtNever /\ btNear <= btSlot[s].dl
      BY <1>1, <1>7, <2>1 DEF BtInv, BtNapOK
    <3>2. btTmo' \in Nat /\ btTime + btTmo' <= btNear /\ btTmo' # BtNever
      BY <1>4, <2>1, <3>1, BtContexts DEF BtNever
    <3>3. btSlot[s].dl \in Nat /\ btNear \in Nat /\ btTime \in Nat
      BY <3>1 DEF BtInv, BtTypeOK, BtActive
    <3> QED
      BY <1>1, <3>1, <3>2, <3>3
  <2> QED
    BY <1>3, <1>6, <2>1 DEF BtNapOK
<1> QED
  BY <1>3, <1>5, <1>8 DEF BtInv

\* twai_sem takes the wakeup, polls, or waits for what the scan saw.
LEMMA BtTwaiInv ==
  ASSUME BtInv, BtTwai
  PROVE  BtInv'
<1>1. /\ btSlot' = btSlot /\ btOwner' = btOwner /\ btTime' = btTime /\ btJob' = btJob
      /\ btNow' = btNow /\ btNear' = btNear /\ btTmo' = btTmo
      /\ btWake' = (IF btTmo > 0 THEN btTime + btTmo ELSE 0)
      /\ btHandle' = btHandle /\ btDue' = btDue /\ btCalls' = btCalls
      /\ btSem' = 0 /\ btPend' = btPend /\ btPc[BtTask] = "twai"
  BY DEF BtTwai, BtAt, btHist
<1>2. PICK l : l = IF btSem = 1 \/ btTmo = 0 THEN "now" ELSE "wait"
  OBVIOUS
<1>3. /\ BtGo(BtTask, l) /\ l \in BtLabels /\ l # "fill" /\ BtTask \in BtProcs
      /\ btOwner' \in {BtHost, BtNone}
  BY <1>1, <1>2, BtContexts DEF BtTwai, BtLabels, BtInv, BtHandsOK
<1>4. /\ BtHandsOK' /\ BtSlotsOK' /\ btPc' \in [BtProcs -> BtLabels] /\ btPc'[BtTask] = l
      /\ \A q \in BtProcs \ {BtTask} : btPc'[q] = btPc[q]
  BY <1>1, <1>3, BtWorkKept
<1>5. btWake' \in Nat
  <2>1. btTime \in Nat /\ (btTmo \in Nat \/ btTmo = -1)
    BY BtContexts DEF BtInv, BtTypeOK, BtNever
  <2> QED
    BY <1>1, <2>1
<1>6. BtTypeOK'
  BY <1>1, <1>4, <1>5 DEF BtInv, BtTypeOK
<1>7. BtNapOK'
  <2>1. CASE l = "now"
    BY <1>4, <2>1, BtNapKept DEF BtInv
  <2>2. CASE l = "wait"
    <3>1. btSem # 1 /\ btTmo # 0
      BY <1>2, <2>2
    <3>2. BtComing => BtComing'
      BY <1>1, <1>4, <3>1 DEF BtComing
    <3>3. BtActive' = BtActive
      BY <1>1 DEF BtActive
    <3>4. BtComing \/ \A s \in BtActive : btTmo # BtNever /\ btNow + btTmo <= btSlot[s].dl
      BY <1>1, <3>1 DEF BtInv, BtNapOK
    <3> QED
      BY <1>1, <1>4, <2>2, <3>2, <3>3, <3>4 DEF BtNapOK
  <2> QED
    BY <1>2, <2>1, <2>2
<1> QED
  BY <1>4, <1>6, <1>7 DEF BtInv

LEMMA BtNextInv == BtInv /\ [BtNext]_btVars => BtInv'
<1> SUFFICES ASSUME BtInv, [BtNext]_btVars PROVE BtInv'
  OBVIOUS
<1>1. CASE \E k \in BtTimers : BtCreate(k) \/ BtDelete(k)
  BY <1>1, BtCreateInv, BtDeleteInv
<1>2. CASE \E p \in BtProcs : BtStartAny(p) \/ BtSignal(p)
  BY <1>2, BtStartInv, BtSignalInv DEF BtStartAny
<1>3. CASE \E p \in {BtTask, BtHost}, k \in BtTimers : BtStop(p, k)
  BY <1>3, BtStopInv, BtContexts
<1>4. CASE BtFill \/ BtEnter \/ BtExit \/ BtFlush
  BY <1>4, BtFillInv, BtEnterInv, BtExitInv, BtFlushInv
<1>5. CASE BtReadNow \/ BtPick \/ BtCalled \/ BtScanned \/ BtNap \/ BtTwai \/ BtTimeout
  BY <1>5, BtReadNowInv, BtPickInv, BtCalledInv, BtScannedInv, BtNapInv, BtTwaiInv, BtTimeoutInv
<1>6. CASE BtTick
  BY <1>6, BtTickInv
<1>7. CASE UNCHANGED btVars
  <2>1. /\ btSlot' = btSlot /\ btOwner' = btOwner /\ btTime' = btTime /\ btJob' = btJob
        /\ btNow' = btNow /\ btNear' = btNear /\ btTmo' = btTmo /\ btWake' = btWake
        /\ btHandle' = btHandle /\ btDue' = btDue /\ btCalls' = btCalls
        /\ btSem' = btSem /\ btPend' = btPend /\ btPc' = btPc
    BY <1>7 DEF btVars, btWakes, btHist, btClock
  <2>2. BtTypeOK'
    BY <2>1 DEF BtInv, BtTypeOK
  <2>3. BtHandsOK' /\ BtSlotsOK'
    BY <2>1 DEF BtInv, BtHandsOK, BtSlotsOK
  <2>4. BtComing => BtComing'
    BY <2>1 DEF BtComing
  <2>5. BtNapOK'
    BY <2>1, <2>4, BtNapKept DEF BtInv
  <2> QED
    BY <2>2, <2>3, <2>5 DEF BtInv
<1> QED
  BY <1>1, <1>2, <1>3, <1>4, <1>5, <1>6, <1>7 DEF BtNext

\* The timers of the Bluetooth shim are armed as their callers last asked, through
\* expiries, restarts, stops and deletions in any order, and the timer task never sleeps
\* past a deadline without a wakeup on its way (bt_shim.c:107-304).
THEOREM BtTimersAreKept == BtSpec => [](BtTypeOK /\ BtTimersKept)
<1>1. BtInv => BtTypeOK /\ BtTimersKept
  <2> SUFFICES ASSUME BtInv PROVE BtTypeOK /\ BtTimersKept
    OBVIOUS
  <2>1. BtArmedAsAsked
    BY BtSlotOf DEF BtArmedAsAsked
  <2>2. BtSleepCovered
    BY DEF BtInv, BtNapOK, BtComing, BtSleepCovered
  <2> QED
    BY <2>1, <2>2 DEF BtInv, BtTimersKept
<1> QED
  BY <1>1, BtInitInv, BtNextInv, PTL DEF BtSpec

(***************************************************************************)
(* The Bluetooth timers as an alarm clock.  The pool says of every timer   *)
(* what the history btDue does, so it is enough to follow btDue, the time  *)
(* and whether the task is in a callback.                                  *)
(***************************************************************************)

\* The time the task has read is not ahead.
BtNowOK == btNow <= btTime

\* The task is in a callback, or starts a timer from it.
BtRings == btPc[BtTask] \in {"call", "signal"}

\* The pool says of every timer when it is due.
LEMMA BtSlotDueIsDue == BtInv => [k \in BtTimers |-> BtSlotDue(k)] = btDue
<1> SUFFICES ASSUME BtInv PROVE [k \in BtTimers |-> BtSlotDue(k)] = btDue
  OBVIOUS
<1>1. ASSUME NEW k \in BtTimers PROVE BtSlotDue(k) = btDue[k]
  <2>1. CASE btHandle[k] = -1
    BY <2>1 DEF BtSlotDue, BtUsable, BtHeld, BtInv, BtSlotsOK
  <2>2. CASE btHandle[k] # -1 /\ btJob[BtHost] = k
    BY <2>2 DEF BtSlotDue, BtUsable, BtHeld, BtInv, BtSlotsOK
  <2>3. CASE btHandle[k] # -1 /\ btJob[BtHost] # k
    BY <2>3 DEF BtSlotDue, BtUsable, BtHeld, BtInv, BtSlotsOK
  <2> QED
    BY <2>1, <2>2, <2>3
<1>2. btDue \in [BtTimers -> Nat]
  BY DEF BtInv, BtTypeOK
<1> QED
  BY <1>1, <1>2

\* The effect of every step on the time, the deadlines and the call of a callback.
BtClockStep ==
  LET sets(k, d) == btDue' = [btDue EXCEPT ![k] = d]
  IN \/ btTime' = btTime /\ btDue' = btDue /\ (BtRings' <=> BtRings)
     \/ \E k \in BtTimers, d \in Nat :
          /\ sets(k, d) /\ (d = 0 \/ d > btTime)
          /\ btTime' = btTime /\ (BtRings' <=> BtRings)
     \/ \E k \in BtTimers, d \in Nat :
          /\ sets(k, d) /\ (d = 0 \/ d > btDue[k])
          /\ btDue[k] # 0 /\ btDue[k] <= btTime /\ btTime' = btTime
          /\ ~BtRings /\ BtRings'
     \/ btTime' = btTime /\ btDue' = btDue /\ BtRings /\ ~BtRings'
     \/ btTime' = btTime + 1 /\ btDue' = btDue /\ (BtRings' <=> BtRings)

LEMMA BtSigSemRings ==
  ASSUME BtInv, NEW p \in BtProcs, NEW l, BtSigSem(p, l), btPc[p] \in {"signal", "flush"},
         p = BtTask => btPc[p] = "signal" /\ l = "call"
  PROVE  BtRings' <=> BtRings
<1>1. btPc \in [BtProcs -> BtLabels] /\ BtTask \in BtProcs
  BY BtContexts DEF BtInv, BtTypeOK
<1>2. CASE btPc[BtTask] = "wait"
  <2>1. btPc' = [btPc EXCEPT ![BtTask] = "now", ![p] = l] /\ p # BtTask
    BY <1>2 DEF BtSigSem
  <2> QED
    BY <1>1, <1>2, <2>1 DEF BtRings
<1>3. CASE btPc[BtTask] # "wait"
  <2>1. btPc' = [btPc EXCEPT ![p] = l]
    BY <1>3 DEF BtSigSem, BtGo
  <2> QED
    BY <1>1, <2>1 DEF BtRings
<1> QED
  BY <1>2, <1>3

\* The callers' steps.
LEMMA BtCallerSteps ==
  ASSUME BtInv,
         \/ \E k \in BtTimers : BtCreate(k) \/ BtDelete(k)
         \/ \E p \in BtProcs : BtStartAny(p) \/ BtSignal(p)
         \/ \E p \in {BtTask, BtHost}, k \in BtTimers : BtStop(p, k)
         \/ BtFill \/ BtEnter \/ BtExit \/ BtFlush
  PROVE  BtClockStep
<1>1. /\ btPc \in [BtProcs -> BtLabels] /\ {BtTask, BtHost} \subseteq BtProcs
      /\ BtTask # BtHost /\ btTime \in Nat /\ BtDelays \subseteq Nat /\ 0 \notin BtDelays
  BY BtContexts DEF BtInv, BtTypeOK
<1>2. ASSUME NEW k \in BtTimers, BtCreate(k) PROVE BtClockStep
  <2>1. btTime' = btTime /\ btDue' = btDue
    BY <1>2 DEF BtCreate, BtCall, btClock
  <2>2. btPc' = btPc \/ btPc' = [btPc EXCEPT ![BtHost] = "fill"]
    BY <1>2 DEF BtCreate, BtGo
  <2> QED
    BY <1>1, <2>1, <2>2 DEF BtClockStep, BtRings
<1>3. ASSUME NEW k \in BtTimers, BtDelete(k) \/ \E p \in {BtTask, BtHost} : BtStop(p, k)
      PROVE  BtClockStep
  <2>1. btTime' = btTime /\ btDue' = [btDue EXCEPT ![k] = 0] /\ btPc' = btPc
    BY <1>3 DEF BtDelete, BtStop, btClock
  <2> QED
    BY <2>1 DEF BtClockStep, BtRings
<1>4. ASSUME NEW p \in BtProcs, BtStartAny(p) PROVE BtClockStep
  <2>1. PICK k \in BtTimers, d \in BtDelays, per \in BtDelays \cup {0} : BtStart(p, k, d, per)
    BY <1>4 DEF BtStartAny
  <2>2. /\ btTime' = btTime /\ btDue' = [btDue EXCEPT ![k] = btTime + d]
        /\ btPc[p] = BtRest(p) /\ btPc' = [btPc EXCEPT ![p] = "signal"]
    BY <2>1 DEF BtStart, BtCall, BtAt, BtGo, btClock
  <2>3. d \in Nat /\ d # 0
    BY <1>1
  <2>4. btTime + d \in Nat /\ btTime + d > btTime
    BY <1>1, <2>3
  <2>5. BtRings' <=> BtRings
    BY <1>1, <2>2 DEF BtRings, BtRest
  <2> QED
    BY <2>2, <2>4, <2>5 DEF BtClockStep
<1>5. ASSUME NEW p \in BtProcs, BtSignal(p) PROVE BtClockStep
  <2>1. btTime' = btTime /\ btDue' = btDue /\ btPc[p] = "signal"
    BY <1>5 DEF BtSignal, BtAt, btClock, btHist
  <2>2. CASE BtSigSem(p, BtRest(p))
    <3>1. BtRings' <=> BtRings
      BY <2>1, <2>2, BtSigSemRings DEF BtRest
    <3> QED
      BY <2>1, <3>1 DEF BtClockStep
  <2>3. CASE btPc' = [btPc EXCEPT ![p] = BtRest(p)]
    BY <1>1, <2>1, <2>3 DEF BtClockStep, BtRings, BtRest
  <2> QED
    BY <1>5, <2>2, <2>3 DEF BtSignal, BtGo
<1>6. CASE BtFill \/ BtEnter \/ BtExit
  <2>1. btTime' = btTime /\ btDue' = btDue
    BY <1>6 DEF BtFill, BtEnter, BtExit, BtCall, btClock, btHist
  <2>2. btPc' = btPc \/ \E l \in BtLabels : btPc' = [btPc EXCEPT ![BtHost] = l]
    BY <1>6 DEF BtFill, BtEnter, BtExit, BtGo, BtLabels
  <2> QED
    BY <1>1, <2>1, <2>2 DEF BtClockStep, BtRings
<1>7. CASE BtFlush
  <2>1. btTime' = btTime /\ btDue' = btDue /\ btPc[BtHost] = "flush" /\ BtSigSem(BtHost, "idle")
    BY <1>7 DEF BtFlush, BtAt, btClock, btHist
  <2>2. BtRings' <=> BtRings
    BY <1>1, <2>1, BtSigSemRings
  <2> QED
    BY <2>1, <2>2 DEF BtClockStep
<1> QED
  BY <1>2, <1>3, <1>4, <1>5, <1>6, <1>7

LEMMA BtPickRings == ASSUME BtInv, BtNowOK, BtPick PROVE BtClockStep
<1>1. PICK s, a, k, d :
        /\ s = Min(BtExpired) /\ a = btSlot[s] /\ k = a.cb
        /\ d = IF a.per # 0 THEN a.dl + a.per ELSE 0
        /\ btDue' = [btDue EXCEPT ![k] = d]
        /\ BtExpired # {} /\ btTime' = btTime
        /\ btPc[BtTask] = "scan" /\ btPc' = [btPc EXCEPT ![BtTask] = "call"]
  BY DEF BtPick, BtAt, BtGo, btClock
<1>2. s \in BtSlots /\ a.used /\ a.active /\ a.dl <= btNow
  <2>1. BtExpired \subseteq Nat
    BY BtContexts DEF BtExpired, BtActive
  <2>2. s \in BtExpired
    BY <1>1, <2>1, MinIsIn
  <2> QED
    BY <1>1, <2>2 DEF BtExpired, BtActive
<1>3. PICK h \in BtTimers : btHandle[h] = s
  BY <1>1, <1>2 DEF BtInv, BtHandsOK
<1>4. btHandle[h] # -1 /\ btJob[BtHost] # h
  <2>1. btHandle[h] # -1
    BY <1>2, <1>3, BtContexts
  <2> QED
    BY <1>1, <1>2, <1>3, <2>1 DEF BtInv, BtSlotsOK
<1>5. k = h /\ btDue[h] # 0 /\ a.dl = btDue[h]
  BY <1>1, <1>2, <1>3, <1>4 DEF BtInv, BtSlotsOK
<1>6. a.dl \in Nat /\ a.per \in Nat /\ btNow \in Nat /\ btTime \in Nat
  <2>1. a.dl \in Nat /\ a.per \in BtDelays \cup {0} /\ btNow \in Nat /\ btTime \in Nat
    BY <1>1, <1>2 DEF BtInv, BtTypeOK
  <2>2. BtDelays \subseteq Nat
    BY BtContexts
  <2>3. BtDelays \cup {0} \subseteq Nat
    BY <2>2
  <2> QED
    BY <2>1, <2>3, Zenon
<1>7. d \in Nat /\ (d = 0 \/ d > btDue[h]) /\ btDue[h] <= btTime
  BY <1>1, <1>2, <1>5, <1>6 DEF BtNowOK
<1>8. ~BtRings /\ BtRings'
  BY <1>1, BtContexts DEF BtRings, BtInv, BtTypeOK
<1> QED
  BY <1>1, <1>5, <1>7, <1>8 DEF BtClockStep

\* The other steps of the task, and the time.
LEMMA BtTaskSteps ==
  ASSUME BtInv,
         \/ BtReadNow \/ BtCalled \/ BtScanned \/ BtNap \/ BtTwai \/ BtTimeout \/ BtTick
         \/ UNCHANGED btVars
  PROVE  BtClockStep
<1>1. btPc \in [BtProcs -> BtLabels] /\ BtTask \in BtProcs
  BY BtContexts DEF BtInv, BtTypeOK
<1>2. CASE BtReadNow \/ BtScanned \/ BtNap \/ BtTwai \/ BtTimeout
  <2>1. /\ btTime' = btTime /\ btDue' = btDue
        /\ btPc[BtTask] \in {"now", "scan", "nap", "twai", "wait"}
        /\ \E l \in {"now", "scan", "nap", "twai", "wait"} : btPc' = [btPc EXCEPT ![BtTask] = l]
    BY <1>2 DEF BtReadNow, BtScanned, BtNap, BtTwai, BtTimeout, BtAt, BtGo, btHist, btClock
  <2> QED
    BY <1>1, <2>1 DEF BtClockStep, BtRings
<1>3. CASE BtCalled
  <2>1. /\ btTime' = btTime /\ btDue' = btDue
        /\ btPc[BtTask] = "call" /\ btPc' = [btPc EXCEPT ![BtTask] = "now"]
    BY <1>3 DEF BtCalled, BtAt, BtGo, btHist, btClock
  <2> QED
    BY <1>1, <2>1 DEF BtClockStep, BtRings
<1>4. CASE BtTick
  BY <1>4 DEF BtTick, btHist, BtClockStep, BtRings
<1>5. CASE UNCHANGED btVars
  BY <1>5 DEF btVars, btHist, btClock, BtClockStep, BtRings
<1> QED
  BY <1>2, <1>3, <1>4, <1>5

LEMMA BtEveryStepIsClocked == ASSUME BtInv, BtNowOK, [BtNext]_btVars PROVE BtClockStep
  BY BtCallerSteps, BtPickRings, BtTaskSteps DEF BtNext

LEMMA BtNowKept == ASSUME BtInv, BtNowOK, [BtNext]_btVars PROVE BtNowOK'
<1>1. btNow \in Nat /\ btTime \in Nat
  BY DEF BtInv, BtTypeOK
<1>2. CASE BtReadNow \/ BtNap
  <2>1. btNow' = btTime /\ btTime' = btTime
    BY <1>2 DEF BtReadNow, BtNap
  <2> QED
    BY <1>1, <2>1 DEF BtNowOK
<1>3. CASE BtTick
  BY <1>1, <1>3 DEF BtTick, BtNowOK
<1>4. CASE ~(BtReadNow \/ BtNap \/ BtTick)
  <2>1. btNow' = btNow /\ btTime' = btTime
    <3>1. CASE UNCHANGED btVars
      BY <3>1 DEF btVars, btClock
    <3>2. CASE \E k \in BtTimers : BtCreate(k) \/ BtDelete(k)
      BY <3>2 DEF BtCreate, BtDelete, btClock
    <3>3. CASE \E p \in BtProcs : BtStartAny(p) \/ BtSignal(p)
      BY <3>3 DEF BtStartAny, BtStart, BtSignal, btClock
    <3>4. CASE \E p \in {BtTask, BtHost}, k \in BtTimers : BtStop(p, k)
      BY <3>4 DEF BtStop, btClock
    <3>5. CASE BtFill \/ BtEnter \/ BtExit \/ BtFlush \/ BtPick \/ BtCalled \/ BtTimeout
      BY <3>5 DEF BtFill, BtEnter, BtExit, BtFlush, BtPick, BtCalled, BtTimeout, btClock
    <3>6. CASE BtScanned \/ BtTwai
      BY <3>6 DEF BtScanned, BtTwai
    <3> QED
      BY <1>4, <3>1, <3>2, <3>3, <3>4, <3>5, <3>6 DEF BtNext
  <2> QED
    BY <2>1 DEF BtNowOK
<1> QED
  BY <1>2, <1>3, <1>4

\* The Bluetooth timers too are an alarm clock to their callers, whoever creates, starts,
\* stops and deletes timers between the steps of the task and inside its callbacks: a timer
\* changes by a call about it or by going off, and goes off when it is due, one callback at
\* a time (bt_shim.c:107-304).
THEOREM BtTimersAreAlarmClock == BtSpec => BtIsAlarmClock
<1> DEFINE asks == [k \in BtTimers |-> BtSlotDue(k)]
<1>1. BtInit => BtInv /\ BtNowOK
  BY BtInitInv DEF BtInit, BtNowOK
<1>2. BtInv /\ BtNowOK /\ [BtNext]_btVars => BtInv' /\ BtNowOK'
  BY BtNextInv, BtNowKept
<1>3. BtInv => asks = btDue
  BY BtSlotDueIsDue
<1>4. BtInit => BtClockSpec!Init
  <2> SUFFICES ASSUME BtInit PROVE BtClockSpec!Init
    OBVIOUS
  <2>1. asks = btDue
    BY <1>1, <1>3
  <2>2. BtTask \in BtProcs
    BY BtContexts
  <2> QED
    BY <2>1, <2>2 DEF BtInit, BtClockSpec!Init
<1>5. BtInv /\ BtNowOK /\ asks = btDue /\ BtInv' /\ (asks = btDue)' /\ [BtNext]_btVars
        => [BtClockSpec!Next]_(BtClockSpec!acvars)
  <2> SUFFICES ASSUME BtInv, BtNowOK, asks = btDue, BtInv', (asks = btDue)', [BtNext]_btVars
               PROVE  [BtClockSpec!Next]_(BtClockSpec!acvars)
    OBVIOUS
  <2>1. BtClockStep
    BY BtEveryStepIsClocked
  <2>2. btDue \in [BtTimers -> Nat] /\ btDue' \in [BtTimers -> Nat]
    BY DEF BtInv, BtTypeOK
  <2>3. ASSUME NEW k \in BtTimers, NEW d \in Nat, btDue' = [btDue EXCEPT ![k] = d]
        PROVE  BtClockSpec!Changes(k) /\ btDue'[k] = d
    BY <2>2, <2>3 DEF BtClockSpec!Changes
  <2>4. CASE btTime' = btTime /\ btDue' = btDue /\ (BtRings' <=> BtRings)
    BY <2>4 DEF BtClockSpec!acvars, BtRings
  <2>5. ASSUME NEW k \in BtTimers, NEW d \in Nat, btDue' = [btDue EXCEPT ![k] = d],
               d = 0 \/ d > btTime, btTime' = btTime, BtRings' <=> BtRings
        PROVE  BtClockSpec!Next
    <3>1. BtClockSpec!Changes(k) /\ btDue'[k] = d
      BY <2>3, <2>5
    <3>2. BtClockSpec!Set(k) \/ BtClockSpec!Cancel(k)
      BY <2>5, <3>1 DEF BtClockSpec!Set, BtClockSpec!Cancel, BtRings
    <3> QED
      BY <3>2 DEF BtClockSpec!Next
  <2>6. ASSUME NEW k \in BtTimers, NEW d \in Nat, btDue' = [btDue EXCEPT ![k] = d],
               d = 0 \/ d > btDue[k], btDue[k] # 0, btDue[k] <= btTime, btTime' = btTime,
               ~BtRings, BtRings'
        PROVE  BtClockSpec!Next
    <3>1. BtClockSpec!Ring(k)
      BY <2>3, <2>6 DEF BtClockSpec!Ring, BtRings
    <3> QED
      BY <3>1 DEF BtClockSpec!Next
  <2>7. CASE btTime' = btTime /\ btDue' = btDue /\ BtRings /\ ~BtRings'
    BY <2>7 DEF BtClockSpec!Next, BtClockSpec!Return, BtRings
  <2>8. CASE btTime' = btTime + 1 /\ btDue' = btDue /\ (BtRings' <=> BtRings)
    BY <2>8 DEF BtClockSpec!Next, BtClockSpec!Tick, BtRings
  <2> QED
    BY <2>1, <2>4, <2>5, <2>6, <2>7, <2>8 DEF BtClockStep
<1> HIDE DEF asks
<1> QED
  BY <1>1, <1>2, <1>3, <1>4, <1>5, PTL DEF BtSpec, BtIsAlarmClock, BtClockSpec!Spec

(***************************************************************************)
(* The components beside each other.  Each of them moves as if it were     *)
(* alone, so what is proved of it by itself holds in the composition.      *)
(***************************************************************************)

\* A step of the composition is a step of each component or leaves it alone.
LEMMA PartsSteps ==
  ASSUME [Next]_vars
  PROVE  /\ [BtNext]_btVars /\ [HrtNext]_hrtVars /\ [SerNext]_serVars /\ [NetNext]_netVars
         /\ [SysNext]_sysVars /\ [TskNext]_tskVars /\ [MtxNext]_mtxVars
         /\ [HeapNext]_heapVars /\ [QueNext]_queVars /\ [ClicNext]_clicVars
         /\ [ThrNext]_thrVars /\ part' = part
<1>0. CASE UNCHANGED vars
  BY <1>0 DEF vars
<1>1. CASE RunBt
  BY <1>1 DEF RunBt
<1>2. CASE RunHrt
  BY <1>2 DEF RunHrt
<1>3. CASE RunSer
  BY <1>3 DEF RunSer
<1>4. CASE RunNet
  BY <1>4 DEF RunNet
<1>5. CASE RunSys
  BY <1>5 DEF RunSys
<1>6. CASE RunTsk
  BY <1>6 DEF RunTsk
<1>7. CASE RunMtx
  BY <1>7 DEF RunMtx
<1>8. CASE RunHeap
  BY <1>8 DEF RunHeap
<1>9. CASE RunQue
  BY <1>9 DEF RunQue
<1>10. CASE RunClic
  BY <1>10 DEF RunClic
<1>11. CASE RunThr
  BY <1>11 DEF RunThr
<1> QED
  BY <1>0, <1>1, <1>2, <1>3, <1>4, <1>5, <1>6, <1>7, <1>8, <1>9, <1>10,
     <1>11 DEF Next

LEMMA PartsRunBt == Spec => BtSpec
  BY PartsSteps, PTL DEF Spec, Init, BtSpec

LEMMA PartsRunHrt == Spec => HrtSpec
  BY PartsSteps, PTL DEF Spec, Init, HrtSpec

LEMMA PartsRunSer == Spec => SerSpec
  BY PartsSteps, PTL DEF Spec, Init, SerSpec

LEMMA PartsRunNet == Spec => NetSpec
  BY PartsSteps, PTL DEF Spec, Init, NetSpec

LEMMA PartsRunSys == Spec => SysSpec
  BY PartsSteps, PTL DEF Spec, Init, SysSpec

LEMMA PartsRunTsk == Spec => TskSpec
  BY PartsSteps, PTL DEF Spec, Init, TskSpec

LEMMA PartsRunMtx == Spec => MtxSpec
  BY PartsSteps, PTL DEF Spec, Init, MtxSpec

LEMMA PartsRunHeap == Spec => HeapSpec
  BY PartsSteps, PTL DEF Spec, Init, HeapSpec

LEMMA PartsRunQue == Spec => QueSpec
  BY PartsSteps, PTL DEF Spec, Init, QueSpec

LEMMA PartsRunClic == Spec => ClicSpec
  BY PartsSteps, PTL DEF Spec, Init, ClicSpec

LEMMA PartsRunThr == Spec => ThrSpec
  BY PartsSteps, PTL DEF Spec, Init, ThrSpec

LEMMA PartsPartKept == Spec => [](part \in PartNames)
<1>1. Init => part \in PartNames
  BY DEF Init
<1>2. part \in PartNames /\ [Next]_vars => (part \in PartNames)'
  BY PartsSteps
<1> QED
  BY <1>1, <1>2, PTL DEF Spec

\* Whichever component runs beside the others, the variables of each keep their types and
\* every counter stays in its range, for pools, buffers and bounds of any size.
THEOREM PartsTypes == Spec => []PartsTypeOK
<1>1. Spec => []BtTypeOK
  BY PartsRunBt, BtTimersAreKept, PTL
<1>2. Spec => []HrtTypeOK
  BY PartsRunHrt, TimerNeitherLosesNorFloods, PTL
<1>3. Spec => []SerTypeOK
  BY PartsRunSer, ConsoleStrandsNothing, PTL
<1>4. Spec => []NetTypeOK
  BY PartsRunNet, InterfaceFollowsLink, PTL
<1>5. Spec => []SysTypeOK
  BY PartsRunSys, PoolsKeepApart, PTL
<1>6. Spec => []TskTypeOK
  BY PartsRunTsk, FunctionsRunOnce, PTL
<1>7. Spec => []MtxTypeOK
  BY PartsRunMtx, MtxTypes, PTL
<1>8. Spec => []HeapTypeOK
  BY PartsRunHeap, HeapIsSound, PTL
<1>9. Spec => []QueTypeOK
  BY PartsRunQue, QueuesStartClean, PTL
<1>10. Spec => []ClicTypeOK
  BY PartsRunClic, LevelsRight, PTL
<1>11. Spec => []ThrTypeOK
  BY PartsRunThr, SemaphoresApart, PTL
<1>12. (part \in PartNames) /\ BtTypeOK /\ HrtTypeOK /\ SerTypeOK /\ NetTypeOK /\ SysTypeOK
       /\ TskTypeOK /\ MtxTypeOK /\ HeapTypeOK /\ QueTypeOK /\ ClicTypeOK /\ ThrTypeOK
         => PartsTypeOK
  BY DEF PartsTypeOK
<1> QED
  BY <1>1, <1>2, <1>3, <1>4, <1>5, <1>6, <1>7, <1>8, <1>9, <1>10, <1>11,
     <1>12, PartsPartKept, PTL

\* The composition keeps what each of its components promises by itself: all invariants
\* and the refinement that the run of MCShimParts checks, at once.
THEOREM PartsKeepTheirPromises ==
  Spec => /\ []( /\ PartsTypeOK /\ BtTimersKept /\ HrtLossNorFlood /\ SerNothingStranded
                 /\ NetFollowsLink /\ NetRetryNotLost /\ SysOwnEvents /\ TskEachOnce
                 /\ MtxExclusive /\ HeapSound /\ QueReusedClean /\ ClicLevelsRight
                 /\ ThrSemsApart )
          /\ BtIsAlarmClock
<1>1. Spec => []BtTimersKept
  BY PartsRunBt, BtTimersAreKept, PTL
<1>2. Spec => []HrtLossNorFlood
  BY PartsRunHrt, TimerNeitherLosesNorFloods, PTL
<1>3. Spec => []SerNothingStranded
  BY PartsRunSer, ConsoleStrandsNothing, PTL
<1>4. Spec => [](NetFollowsLink /\ NetRetryNotLost)
  BY PartsRunNet, InterfaceFollowsLink, FailuresReachMainTask, PTL
<1>5. Spec => []SysOwnEvents
  BY PartsRunSys, PoolsKeepApart, PTL
<1>6. Spec => []TskEachOnce
  BY PartsRunTsk, FunctionsRunOnce, PTL
<1>7. Spec => []MtxExclusive
  BY PartsRunMtx, MtxOneHolder, PTL
<1>8. Spec => []HeapSound
  BY PartsRunHeap, HeapIsSound, PTL
<1>9. Spec => []QueReusedClean
  BY PartsRunQue, QueuesStartClean, PTL
<1>10. Spec => []ClicLevelsRight
  BY PartsRunClic, LevelsRight, PTL
<1>11. Spec => []ThrSemsApart
  BY PartsRunThr, SemaphoresApart, PTL
<1>12. Spec => BtIsAlarmClock
  BY PartsRunBt, BtTimersAreAlarmClock
<1> QED
  BY <1>1, <1>2, <1>3, <1>4, <1>5, <1>6, <1>7, <1>8, <1>9, <1>10, <1>11,
     <1>12, PartsTypes, PTL
=============================================================================
