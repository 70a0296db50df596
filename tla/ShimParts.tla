------------------------------ MODULE ShimParts ------------------------------
(***************************************************************************)
(* The components that are small enough to be checked one beside the       *)
(* other.  They share no variable: a run chooses one of them at the start  *)
(* and takes the steps of that one only, so the states add up and do not   *)
(* multiply.                                                               *)
(***************************************************************************)
EXTENDS BtTimer, Hrt, Serial, NetLink, SysArch, ShimTask, ShimThreadSem,
        ShimMutex, ShimHeap, ShimQuePool, Clic

VARIABLE part   \* the component that runs

PartNames == {"bt", "hrt", "ser", "net", "sys", "tsk", "mtx", "heap", "que",
              "clic", "thr"}

vars == <<part, btVars, hrtVars, serVars, netVars, sysVars, tskVars, mtxVars, heapVars,
          queVars, clicVars, thrVars>>

Init ==
  /\ part \in PartNames
  /\ BtInit /\ HrtInit /\ SerInit /\ NetInit /\ SysInit
  /\ TskInit /\ MtxInit /\ HeapInit /\ QueInit /\ ClicInit /\ ThrInit

\* Only the chosen component moves.
RunBt ==
  /\ part = "bt" /\ BtNext
  /\ UNCHANGED <<part, hrtVars, serVars, netVars, sysVars, tskVars, mtxVars,
                 heapVars, queVars, clicVars, thrVars>>

RunHrt ==
  /\ part = "hrt" /\ HrtNext
  /\ UNCHANGED <<part, btVars, serVars, netVars, sysVars, tskVars, mtxVars,
                 heapVars, queVars, clicVars, thrVars>>

RunSer ==
  /\ part = "ser" /\ SerNext
  /\ UNCHANGED <<part, btVars, hrtVars, netVars, sysVars, tskVars, mtxVars,
                 heapVars, queVars, clicVars, thrVars>>

RunNet ==
  /\ part = "net" /\ NetNext
  /\ UNCHANGED <<part, btVars, hrtVars, serVars, sysVars, tskVars, mtxVars,
                 heapVars, queVars, clicVars, thrVars>>

RunSys ==
  /\ part = "sys" /\ SysNext
  /\ UNCHANGED <<part, btVars, hrtVars, serVars, netVars, tskVars, mtxVars,
                 heapVars, queVars, clicVars, thrVars>>

RunTsk ==
  /\ part = "tsk" /\ TskNext
  /\ UNCHANGED <<part, btVars, hrtVars, serVars, netVars, sysVars, mtxVars,
                 heapVars, queVars, clicVars, thrVars>>

RunMtx ==
  /\ part = "mtx" /\ MtxNext
  /\ UNCHANGED <<part, btVars, hrtVars, serVars, netVars, sysVars, tskVars,
                 heapVars, queVars, clicVars, thrVars>>

RunHeap ==
  /\ part = "heap" /\ HeapNext
  /\ UNCHANGED <<part, btVars, hrtVars, serVars, netVars, sysVars, tskVars,
                 mtxVars, queVars, clicVars, thrVars>>

RunQue ==
  /\ part = "que" /\ QueNext
  /\ UNCHANGED <<part, btVars, hrtVars, serVars, netVars, sysVars, tskVars,
                 mtxVars, heapVars, clicVars, thrVars>>

RunClic ==
  /\ part = "clic" /\ ClicNext
  /\ UNCHANGED <<part, btVars, hrtVars, serVars, netVars, sysVars, tskVars,
                 mtxVars, heapVars, queVars, thrVars>>

RunThr ==
  /\ part = "thr" /\ ThrNext
  /\ UNCHANGED <<part, btVars, hrtVars, serVars, netVars, sysVars, tskVars,
                 mtxVars, heapVars, queVars, clicVars>>

Next == \/ RunBt \/ RunHrt \/ RunSer \/ RunNet \/ RunSys \/ RunTsk \/ RunMtx
        \/ RunHeap \/ RunQue \/ RunClic \/ RunThr

Spec == Init /\ [][Next]_vars

-----------------------------------------------------------------------------
(* Properties                                                              *)

\* Every variable of the component that runs has its type, and every counter stays in its
\* range: the pools, buffers and totals of the code neither wrap nor run over.
PartsTypeOK ==
  /\ part \in PartNames
  /\ part = "bt" => BtTypeOK
  /\ part = "hrt" => HrtTypeOK
  /\ part = "ser" => SerTypeOK
  /\ part = "net" => NetTypeOK
  /\ part = "sys" => SysTypeOK
  /\ part = "tsk" => TskTypeOK
  /\ part = "mtx" => MtxTypeOK
  /\ part = "heap" => HeapTypeOK
  /\ part = "que" => QueTypeOK
  /\ part = "clic" => ClicTypeOK
  /\ part = "thr" => ThrTypeOK
=============================================================================
