------------------------------- MODULE Serial --------------------------------
(***************************************************************************)
(* The USB Serial/JTAG console driver (src/asp3/target/esp32c3_espidf/     *)
(* esp32c3_usbjtag_hal.c, the same on the C6) under the sio_ interface     *)
(* (src/asp3/arch/riscv_gcc/esp32c5/chip_serial.c).                        *)
(*                                                                         *)
(* The device raises two events: IN_EMPTY when the host has read the one   *)
(* packet in the transmit FIFO, OUT_RECV when a packet of the host has     *)
(* arrived.  They are latched whether or not their interrupt is enabled,   *)
(* and nothing tells the driver again.  External: the device, and the      *)
(* kernel's serial driver, which buffers what the FIFO does not take,      *)
(* enables the transmit callback then, sends one character per callback    *)
(* without looking at the result, and disables it when nothing is left.    *)
(***************************************************************************)
EXTENDS Integers

CONSTANTS
  SerMaxBuf,   \* the serial driver's transmit buffer
  SerMaxRx,    \* the receive FIFO
  SerMaxCalls  \* bound: number of calls and of the host's packets

ASSUME SerAssumption == {SerMaxBuf, SerMaxRx, SerMaxCalls} \subseteq Nat \ {0}

VARIABLES
  serTx,     \* the transmit FIFO holds a packet: it is not writable
  serRx,     \* characters in the receive FIFO
  serRaw,    \* the latched events
  serEna,    \* which of them interrupt
  serOpen,   \* opened
  serIrq,    \* INTNO_SIO is enabled
  serBuf,    \* characters in the serial driver's transmit buffer
  serPc,     \* where the calling task is
  serIsr,    \* where the interrupt handler is
  serStat,   \* its stat
  serOld,    \* history: the receive FIFO holds characters from before opening
  serCalls   \* history: number of calls and packets

serDev  == <<serTx, serRx, serRaw, serEna>>
serVars == <<serDev, serOpen, serIrq, serBuf, serPc, serIsr, serStat, serOld, serCalls>>

SerEvents == [snd : BOOLEAN, rcv : BOOLEAN]
SerNoEvent   == [snd |-> FALSE, rcv |-> FALSE]

SerTypeOK ==
  /\ serTx \in BOOLEAN /\ serRx \in 0..SerMaxRx
  /\ serRaw \in SerEvents /\ serEna \in SerEvents /\ serStat \in SerEvents
  /\ serOpen \in BOOLEAN /\ serIrq \in BOOLEAN /\ serOld \in BOOLEAN
  /\ serBuf \in 0..SerMaxBuf
  /\ serPc \in {"idle", "clear", "ena_int", "ena_rcv", "ena_snd", "dis", "dis_int"}
  /\ serIsr \in {"out", "clr_snd", "irdy_snd", "clr_rcv", "irdy_rcv"}
  /\ serCalls \in 0..SerMaxCalls

SerInit ==
  /\ serTx = FALSE /\ serRx = 0 /\ serRaw = SerNoEvent /\ serEna = SerNoEvent
  /\ serOpen = FALSE /\ serIrq = FALSE /\ serBuf = 0
  /\ serPc = "idle" /\ serIsr = "out" /\ serStat = SerNoEvent
  /\ serOld = FALSE /\ serCalls = 0

-----------------------------------------------------------------------------
(* The host.                                                               *)

SerCount == serCalls < SerMaxCalls /\ serCalls' = serCalls + 1

SerHostReads ==
  /\ serTx
  /\ serTx' = FALSE
  /\ serRaw' = [serRaw EXCEPT !.snd = TRUE]
  /\ UNCHANGED <<serRx, serEna, serOpen, serIrq, serBuf, serPc, serIsr, serStat,
                 serOld, serCalls>>

SerHostSends ==
  /\ SerCount
  /\ \E n \in 1 .. SerMaxRx - serRx : serRx' = serRx + n
  /\ serRaw' = [serRaw EXCEPT !.rcv = TRUE]
  /\ UNCHANGED <<serTx, serEna, serOpen, serIrq, serBuf, serPc, serIsr, serStat, serOld>>

-----------------------------------------------------------------------------
(* Calls of a task, which does not run while the interrupt handler does.   *)

SerTask(l, m) == serIsr = "out" /\ serPc = l /\ serPc' = m

\* sio_opn_por, first the disabling of both interrupts (of a closed port) ...
SerOpn ==
  /\ SerTask("idle", IF serOpen THEN "ena_int" ELSE "clear") /\ SerCount
  /\ serEna' = IF serOpen THEN serEna ELSE SerNoEvent
  /\ UNCHANGED <<serTx, serRx, serRaw, serOpen, serIrq, serBuf, serIsr, serStat, serOld>>

\* ... then their clearing, after which nothing tells of older characters ...
SerOpnClear ==
  /\ SerTask("clear", "ena_int")
  /\ serRaw' = SerNoEvent /\ serOpen' = TRUE
  /\ serOld' = (serRx > 0)
  /\ UNCHANGED <<serTx, serRx, serEna, serIrq, serBuf, serIsr, serStat, serCalls>>

\* ... then ena_int(INTNO_SIO), and sio_ena_cbr(SIO_RDY_RCV) of the serial driver.
SerOpnEna ==
  /\ \/ SerTask("ena_int", "ena_rcv") /\ serIrq' = TRUE /\ UNCHANGED serEna
     \/ /\ SerTask("ena_rcv", "idle")
        /\ serEna' = [serEna EXCEPT !.rcv = TRUE]
        /\ UNCHANGED serIrq
  /\ UNCHANGED <<serTx, serRx, serRaw, serOpen, serBuf, serIsr, serStat, serOld, serCalls>>

\* sio_cls_por waits a bounded time for the FIFO to empty, closes the port and
\* disables INTNO_SIO.  The serial driver forgets its buffer.
SerCls ==
  /\ SerTask("idle", "dis") /\ SerCount /\ serOpen
  /\ serBuf' = 0
  /\ UNCHANGED <<serDev, serOpen, serIrq, serIsr, serStat, serOld>>

SerClsDis ==
  /\ \/ SerTask("dis", "dis_int") /\ serEna' = SerNoEvent /\ serOpen' = FALSE /\ UNCHANGED serIrq
     \/ SerTask("dis_int", "idle") /\ serIrq' = FALSE /\ UNCHANGED <<serEna, serOpen>>
  /\ UNCHANGED <<serTx, serRx, serRaw, serBuf, serIsr, serStat, serOld, serCalls>>

\* sio_snd_chr: the FIFO takes the character, or not.
SerSndChr == serTx' = TRUE

\* A character of a task: sent if nothing is buffered and the FIFO takes it;
\* else buffered and, unless the callback is enabled for others, ...
SerWrite ==
  /\ SerCount /\ serOpen
  /\ \/ SerTask("idle", "idle") /\ serBuf = 0 /\ ~serTx /\ SerSndChr /\ UNCHANGED serBuf
     \/ /\ SerTask("idle", IF serBuf = 0 THEN "ena_snd" ELSE "idle")
        /\ serBuf > 0 \/ serTx
        /\ serBuf < SerMaxBuf /\ serBuf' = serBuf + 1
        /\ UNCHANGED serTx
  /\ UNCHANGED <<serRx, serRaw, serEna, serOpen, serIrq, serIsr, serStat, serOld>>

\* ... sio_ena_cbr(SIO_RDY_SND), still with the CPU locked.
SerWriteEna ==
  /\ SerTask("ena_snd", "idle")
  /\ serEna' = [serEna EXCEPT !.snd = TRUE]
  /\ UNCHANGED <<serTx, serRx, serRaw, serOpen, serIrq, serBuf, serIsr, serStat,
                 serOld, serCalls>>

\* target_fput_log from any context: sent, unless the retries run out.
SerFput ==
  /\ SerCount /\ ~serTx /\ SerSndChr
  /\ UNCHANGED <<serRx, serRaw, serEna, serOpen, serIrq, serBuf, serPc, serIsr,
                 serStat, serOld>>

-----------------------------------------------------------------------------
(* The interrupt handler.                                                  *)

SerPending == [snd |-> serRaw.snd /\ serEna.snd, rcv |-> serRaw.rcv /\ serEna.rcv]

SerEnter ==
  /\ serIrq /\ serIsr = "out" /\ serPc # "ena_snd"
  /\ SerPending # SerNoEvent
  /\ serStat' = SerPending
  /\ serIsr' = IF SerPending.snd THEN "clr_snd" ELSE "clr_rcv"
  /\ UNCHANGED <<serDev, serOpen, serIrq, serBuf, serPc, serOld, serCalls>>

SerInIsr(l, m) ==
  /\ serIsr = l /\ serIsr' = m
  /\ serStat' = IF m = "out" THEN SerNoEvent ELSE serStat
  /\ UNCHANGED <<serOpen, serIrq, serPc, serCalls>>

SerAfterSnd == IF serStat.rcv THEN "clr_rcv" ELSE "out"

\* sio_irdy_snd of the serial driver.
SerIrdySnd ==
  \/ serBuf > 0 /\ SerSndChr /\ serBuf' = serBuf - 1 /\ UNCHANGED serEna
  \/ serBuf = 0 /\ serEna' = [serEna EXCEPT !.snd = FALSE] /\ UNCHANGED <<serTx, serBuf>>

\* Mutant: the event is cleared after the callback.
SerIsrSndClearsLast ==
  \/ /\ SerInIsr("clr_snd", "irdy_snd")
     /\ SerIrdySnd
     /\ UNCHANGED <<serRaw, serRx, serOld>>
  \/ /\ SerInIsr("irdy_snd", SerAfterSnd)
     /\ serRaw' = [serRaw EXCEPT !.snd = FALSE]
     /\ UNCHANGED <<serTx, serRx, serEna, serBuf, serOld>>

\* The transmit event is cleared before its callback.
SerIsrSnd ==
  \/ /\ SerInIsr("clr_snd", "irdy_snd")
     /\ serRaw' = [serRaw EXCEPT !.snd = FALSE]
     /\ UNCHANGED <<serTx, serRx, serEna, serBuf, serOld>>
  \/ /\ SerInIsr("irdy_snd", SerAfterSnd)
     /\ SerIrdySnd
     /\ UNCHANGED <<serRaw, serRx, serOld>>

\* The receive event is cleared, then the callback is called (it reads one
\* character) until the FIFO is empty.
SerIsrRcv ==
  \/ /\ SerInIsr("clr_rcv", "irdy_rcv")
     /\ serRaw' = [serRaw EXCEPT !.rcv = FALSE]
     /\ UNCHANGED <<serTx, serRx, serEna, serBuf, serOld>>
  \/ /\ SerInIsr("irdy_rcv", "irdy_rcv") /\ serRx > 0
     /\ serRx' = serRx - 1
     /\ UNCHANGED <<serTx, serRaw, serEna, serBuf, serOld>>
  \/ /\ SerInIsr("irdy_rcv", "out") /\ serRx = 0
     /\ serOld' = FALSE
     /\ UNCHANGED <<serDev, serBuf>>

SerNext ==
  \/ SerHostReads \/ SerHostSends
  \/ SerOpn \/ SerOpnClear \/ SerOpnEna \/ SerCls \/ SerClsDis
  \/ SerWrite \/ SerWriteEna \/ SerFput
  \/ SerEnter \/ SerIsrSnd \/ SerIsrRcv

SerSpec == SerInit /\ [][SerNext]_serVars

-----------------------------------------------------------------------------
(* Properties                                                              *)

\* No event the device gives only once is lost to the order in which the driver
\* clears, enables and serves it: with the port open and nobody in a call,
\* buffered characters in front of a writable FIFO still have their transmit
\* interrupt to come, and characters received since the port was opened their
\* receive interrupt.
SerNothingStranded ==
  (serOpen /\ serPc = "idle" /\ serIsr = "out")
  => /\ (serBuf > 0 /\ ~serTx) => SerPending.snd
     /\ (serRx > 0 /\ ~serOld) => SerPending.rcv
=============================================================================
