--------------------------------- MODULE Clic ---------------------------------
(***************************************************************************)
(* Interrupt levels of the ESP32-C5 (src/asp3/arch/riscv_gcc/esp32c5):     *)
(* which source goes to which line (chip_kernel_impl.c), the operations    *)
(* on a line (clic_kernel_impl.h), and entry to and exit from interrupts   *)
(* and exceptions (chip_support.S).  The CPU accepts a line whose level    *)
(* is above both mintthresh, which the software sets, and mil, which the   *)
(* CPU raises when it accepts and gives back only at an mret, from the     *)
(* mpil of mcause.  Every trap overwrites mcause.  External: the CPU, the  *)
(* devices, and the kernel's code around the irc_ functions.               *)
(***************************************************************************)
EXTENDS Integers, Sequences, FiniteSets

CONSTANTS
  ClicSources,     \* peripheral sources
  ClicFromCpus,    \* the sources that are a FROM_CPU register
  ClicLines,       \* lines in use (INTNO)
  ClicPriorities,  \* priorities of lines, internal form 1 to 7
  ClicNone,
  ClicMaxDepth,    \* bound: frames on the stack
  ClicMaxCalls     \* bound: requests of the devices and calls of the services

ASSUME ClicAssumption ==
  /\ ClicFromCpus \subseteq ClicSources /\ ClicNone \notin ClicSources \cup ClicLines
  /\ ClicPriorities \subseteq 1..7
  /\ ClicMaxDepth \in Nat /\ ClicMaxCalls \in Nat

VARIABLES
  clicMap,       \* INTMTX_BASE: the line of each source (ClicNone: line 0)
  clicSrcmask,   \* intmtx_srcmask: the sources of each line
  clicFromCpu,   \* intmtx_from_cpu: the FROM_CPU source of each line
  clicAsserted,  \* sources that request
  clicIe, clicCtl,   \* IE and CTL of each line
  clicThresh, clicMil, clicMpil,   \* mintthresh, mintstatus.mil, mcause.mpil
  clicMie,       \* mstatus.MIE
  clicPc,        \* what the CPU does
  clicFrames,    \* trap frames: line (ClicNone: exception) and saved mintthresh
  clicIpm,       \* history: the mask the running task chose
  clicCalls      \* history: number of requests and calls

clicRouting == <<clicMap, clicSrcmask, clicFromCpu>>
clicLevels  == <<clicThresh, clicMil, clicMpil, clicMie>>
clicVars == <<clicRouting, clicAsserted, clicIe, clicCtl, clicLevels, clicPc, clicFrames,
              clicIpm, clicCalls>>

CLIC_NLBITS_TO_BYTE(l) == l * 32 + 31
CLIC_BYTE_TO_NLBITS(b) == b \div 32

ClicBytes == {CLIC_NLBITS_TO_BYTE(l) : l \in 0..7}

ClicTypeOK ==
  /\ clicMap \in [ClicSources -> ClicLines \cup {ClicNone}]
  /\ clicSrcmask \in [ClicLines -> SUBSET ClicSources]
  /\ clicFromCpu \in [ClicLines -> ClicFromCpus \cup {ClicNone}]
  /\ clicAsserted \subseteq ClicSources
  /\ clicIe \in [ClicLines -> BOOLEAN] /\ clicCtl \in [ClicLines -> ClicBytes]
  /\ {clicThresh} \subseteq ClicBytes /\ {clicMil, clicMpil} \subseteq {0} \cup ClicBytes
  /\ clicMie \in BOOLEAN /\ clicIpm \in 0..7 /\ clicCalls \in 0..ClicMaxCalls
  /\ clicPc \in {"boot", "run", "leave", "dispatch"}
  /\ clicFrames \in Seq([line : ClicLines \cup {ClicNone}, saved : ClicBytes])
  /\ Len(clicFrames) <= ClicMaxDepth

-----------------------------------------------------------------------------
(* Start-up                                                                *)

\* clic_initialize: no source is routed, every line is disabled at the level that is
\* never accepted, and nothing is masked.
ClicInit ==
  /\ clicMap = [s \in ClicSources |-> ClicNone]
  /\ clicSrcmask = [l \in ClicLines |-> {}]
  /\ clicFromCpu = [l \in ClicLines |-> ClicNone]
  /\ clicAsserted = {}
  /\ clicIe = [l \in ClicLines |-> FALSE]
  /\ clicCtl = [l \in ClicLines |-> CLIC_NLBITS_TO_BYTE(0)]
  /\ clicThresh = CLIC_NLBITS_TO_BYTE(0) /\ clicMil = 0 /\ clicMpil = 0
  /\ clicMie = FALSE /\ clicPc = "boot" /\ clicFrames = << >>
  /\ clicIpm = 0 /\ clicCalls = 0

\* esp32c5_intmtx_route, called by the target's start-up for each of its sources.
ClicRoute(s, l) ==
  /\ clicPc = "boot" /\ clicMap[s] = ClicNone
  /\ clicMap' = [clicMap EXCEPT ![s] = l]
  /\ clicSrcmask' = [clicSrcmask EXCEPT ![l] = @ \cup {s}]
  /\ clicFromCpu' = IF s \in ClicFromCpus THEN [clicFromCpu EXCEPT ![l] = s] ELSE clicFromCpu
  /\ UNCHANGED <<clicAsserted, clicIe, clicCtl, clicLevels, clicPc, clicFrames, clicIpm,
                 clicCalls>>

\* The kernel gives each line its priority (intmtx_set_priority) and enables it, and
\* starts the first task.
ClicStart ==
  /\ clicPc = "boot" /\ \A s \in ClicSources : clicMap[s] # ClicNone
  /\ \E p \in [ClicLines -> ClicPriorities] :
       clicCtl' = [l \in ClicLines |-> CLIC_NLBITS_TO_BYTE(p[l])]
  /\ clicIe' = [l \in ClicLines |-> TRUE]
  /\ clicPc' = "run" /\ clicMie' = TRUE
  /\ UNCHANGED <<clicRouting, clicAsserted, clicThresh, clicMil, clicMpil, clicFrames,
                 clicIpm, clicCalls>>

-----------------------------------------------------------------------------
(* Operations on lines                                                     *)

ClicCall == clicCalls < ClicMaxCalls /\ clicCalls' = clicCalls + 1

ClicRunning == clicPc = "run" /\ clicMie

\* intmtx_probe_int: the status of the sources the line was given.
ClicProbe(l) == clicSrcmask[l] \cap clicAsserted # {}

\* A device requests, at any time.
ClicDevice(s) ==
  /\ clicPc # "boot" /\ ClicCall
  /\ clicAsserted' = clicAsserted \cup {s}
  /\ UNCHANGED <<clicRouting, clicIe, clicCtl, clicLevels, clicPc, clicFrames, clicIpm>>

\* intmtx_raise_int and intmtx_clear_int, for lines with a FROM_CPU source.
ClicRasClr(l) ==
  /\ ClicRunning /\ ClicCall /\ clicFromCpu[l] # ClicNone
  /\ clicAsserted' \in {clicAsserted \cup {clicFromCpu[l]}, clicAsserted \ {clicFromCpu[l]}}
  /\ UNCHANGED <<clicRouting, clicIe, clicCtl, clicLevels, clicPc, clicFrames, clicIpm>>

\* intmtx_disable_int and intmtx_enable_int.
ClicDisEna(l) ==
  /\ ClicRunning /\ ClicCall
  /\ clicIe' = [clicIe EXCEPT ![l] = ~@]
  /\ UNCHANGED <<clicRouting, clicAsserted, clicCtl, clicLevels, clicPc, clicFrames, clicIpm>>

\* chg_ipm of a task: intmtx_set_thresh.
ClicSetThresh ==
  /\ ClicRunning /\ ClicCall /\ clicFrames = << >>
  /\ \E m \in {0} \cup ClicPriorities :
       clicThresh' = CLIC_NLBITS_TO_BYTE(m) /\ clicIpm' = m
  /\ UNCHANGED <<clicRouting, clicAsserted, clicIe, clicCtl, clicMil, clicMpil, clicMie,
                 clicPc, clicFrames>>

-----------------------------------------------------------------------------
(* Traps                                                                   *)

\* irc_begin_int saves the mask and raises it to the level of the line.
ClicIrcBeginInt(l) ==
  /\ clicFrames' = Append(clicFrames, [line |-> l, saved |-> clicThresh])
  /\ clicThresh' = clicCtl[l]

\* The CPU accepts a line, and the kernel lets interrupts in again after irc_begin_int.
ClicAccept(l) ==
  /\ ClicRunning /\ Len(clicFrames) < ClicMaxDepth
  /\ clicIe[l] /\ clicCtl[l] > clicThresh /\ clicCtl[l] > clicMil
  /\ \E s \in clicAsserted : clicMap[s] = l
  /\ clicMpil' = clicMil /\ clicMil' = clicCtl[l]
  /\ ClicIrcBeginInt(l)
  /\ UNCHANGED <<clicRouting, clicAsserted, clicIe, clicCtl, clicMie, clicPc, clicIpm,
                 clicCalls>>

\* A handler clears the request of a device of its line.
ClicAck ==
  /\ ClicRunning /\ clicFrames # << >>
  /\ \E s \in clicAsserted : /\ clicMap[s] = clicFrames[Len(clicFrames)].line
                             /\ clicAsserted' = clicAsserted \ {s}
  /\ UNCHANGED <<clicRouting, clicIe, clicCtl, clicLevels, clicPc, clicFrames, clicIpm,
                 clicCalls>>

\* An exception: irc_begin_exc saves the mask.
ClicException ==
  /\ ClicRunning /\ ClicCall /\ Len(clicFrames) < ClicMaxDepth
  /\ clicMpil' = clicMil
  /\ clicFrames' = Append(clicFrames, [line |-> ClicNone, saved |-> clicThresh])
  /\ UNCHANGED <<clicRouting, clicAsserted, clicIe, clicCtl, clicThresh, clicMil, clicMie,
                 clicPc, clicIpm>>

ClicSaved == clicFrames[Len(clicFrames)].saved

\* Mutant: mpil is left as the last trap wrote it.
ClicIrcEndIntKeepsMpil == clicThresh' = ClicSaved /\ UNCHANGED clicMpil

\* irc_end_int has the coming mret lower mil to 0, and restores the mask.
ClicIrcEndInt == clicThresh' = ClicSaved /\ clicMpil' = 0

\* irc_end_exc restores the mask.
ClicIrcEndExc == clicThresh' = ClicSaved /\ UNCHANGED clicMpil

\* The handler returns: the kernel shuts interrupts out and ends the trap.
ClicHandled ==
  /\ ClicRunning /\ clicFrames # << >>
  /\ \/ clicFrames[Len(clicFrames)].line # ClicNone /\ ClicIrcEndInt
     \/ clicFrames[Len(clicFrames)].line = ClicNone /\ ClicIrcEndExc
  /\ clicMie' = FALSE /\ clicPc' = "leave"
  /\ UNCHANGED <<clicRouting, clicAsserted, clicIe, clicCtl, clicMil, clicFrames, clicIpm,
                 clicCalls>>

\* The mret goes back to what the trap interrupted or, from the outermost frame and when
\* nothing is masked, to the dispatcher or the idle loop with interrupts shut out.
ClicLeave ==
  /\ clicPc = "leave"
  /\ clicMil' = clicMpil
  /\ clicFrames' = SubSeq(clicFrames, 1, Len(clicFrames) - 1)
  /\ \/ clicPc' = "run" /\ clicMie' = TRUE
     \/ Len(clicFrames) = 1 /\ clicIpm = 0 /\ clicPc' = "dispatch" /\ UNCHANGED clicMie
  /\ UNCHANGED <<clicRouting, clicAsserted, clicIe, clicCtl, clicThresh, clicMpil, clicIpm,
                 clicCalls>>

\* The dispatcher starts another task, or the idle loop waits with interrupts let in.
ClicDispatch ==
  /\ clicPc = "dispatch" /\ clicPc' = "run" /\ clicMie' = TRUE
  /\ UNCHANGED <<clicRouting, clicAsserted, clicIe, clicCtl, clicThresh, clicMil, clicMpil,
                 clicFrames, clicIpm, clicCalls>>

ClicNext ==
  \/ ClicStart \/ ClicSetThresh \/ ClicAck \/ ClicException
  \/ ClicHandled \/ ClicLeave \/ ClicDispatch
  \/ \E s \in ClicSources : ClicDevice(s) \/ \E l \in ClicLines : ClicRoute(s, l)
  \/ \E l \in ClicLines : ClicRasClr(l) \/ ClicDisEna(l) \/ ClicAccept(l)

ClicSpec == ClicInit /\ [][ClicNext]_clicVars

-----------------------------------------------------------------------------
(* Properties                                                              *)

\* Handlers nest only upwards and never run below the task's mask, although mil falls to 0
\* as soon as one of them has returned.
ClicNested ==
  \A j \in DOMAIN clicFrames : clicFrames[j].line # ClicNone =>
    /\ clicCtl[clicFrames[j].line] > CLIC_NLBITS_TO_BYTE(clicIpm)
    /\ \A i \in 1 .. j - 1 : clicFrames[i].line # ClicNone =>
         clicCtl[clicFrames[i].line] < clicCtl[clicFrames[j].line]

\* When no handler is left the level is back at 0 and the mask is the one the task chose,
\* whatever nested, and whether the interrupted task or another goes on: no line stays
\* shut out (a level left behind froze the kernel's time).
ClicReopened ==
  clicFrames = << >> => clicMil = 0 /\ CLIC_BYTE_TO_NLBITS(clicThresh) = clicIpm

\* prb_int sees exactly the requests that are routed to the line.
ClicProbed == \A l \in ClicLines : ClicProbe(l) <=> \E s \in clicAsserted : clicMap[s] = l

ClicLevelsRight == ClicNested /\ ClicReopened /\ ClicProbed
=============================================================================
