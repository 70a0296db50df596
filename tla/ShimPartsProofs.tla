---------------------------- MODULE ShimPartsProofs ----------------------------
(***************************************************************************)
(* Proofs about the pools of the shim that MCShimParts checks one beside   *)
(* the other.  Each has an inductive invariant of its own, named like its  *)
(* variables: Mtx for the recursive mutexes, Tsk for the task pool, Que    *)
(* for the life of the queues, Heap for the heap, Thr for the semaphore of  *)
(* each task.                                                              *)
(***************************************************************************)
EXTENDS ShimMutex, ShimTask, ShimThreadSem, ShimQuePool, ShimHeap, SetLemmas,
        SequenceTheorems, TLAPS

(***************************************************************************)
(* The mutexes.  MtxExclusive speaks of tasks that have locked.  What      *)
(* makes it inductive is the account of the tasks in the middle of a call: *)
(* who has the kernel's mutex before it is the owner or after it has       *)
(* forgotten that, and that an owner, if one is recorded, is one who has   *)
(* locked.                                                                 *)
(***************************************************************************)

\* The task has the mutex's kernel object: it has locked, or is about to say so.
MtxHolds(t, m) == mtxDepth[t][m] > 0 \/ (mtxPc[t] = "own" /\ mtxArg[t] = m)

\* A task is in a call exactly when it has a mutex in hand, and that one exists, as
\* does every mutex that is locked.
MtxCallsOK ==
  /\ \A t \in MtxTasks : mtxPc[t] = "idle" <=> mtxArg[t] = 0
  /\ \A t \in MtxTasks : mtxArg[t] # 0 => mtx[mtxArg[t]].used
  /\ \A t \in MtxTasks, m \in MtxSlots : mtxDepth[t][m] > 0 => mtx[m].used

\* The kernel's mutex is held exactly by the task that has locked or is about to.
MtxKernelOK ==
  \A t \in MtxTasks, m \in MtxSlots : mtxKernel[m] = t <=> MtxHolds(t, m)

\* Where each call stands with the accounts of its mutex.
MtxStepOK(t) ==
  LET m == mtxArg[t]
  IN /\ mtxPc[t] # "disown"
     /\ mtxPc[t] = "own" => mtxDepth[t][m] = 0 /\ MtxMaxDepth > 0
     /\ mtxPc[t] = "unlock" => mtxDepth[t][m] > 0
     /\ mtxPc[t] = "unl_mtx" => mtxDepth[t][m] = 1 /\ mtx[m].owner # t
     /\ mtxPc[t] = "lock" => mtxDepth[t][m] < MtxMaxDepth
     /\ mtxPc[t] = "loc_mtx" => /\ mtxDepth[t][m] < MtxMaxDepth
                                /\ ~(mtx[m].recursive /\ mtx[m].owner = t)

MtxStepsOK == \A t \in MtxTasks : MtxStepOK(t)

\* Owner and count are the holder's, until it forgets them.
MtxOwnerOK ==
  \A m \in MtxSlots :
    /\ \A t \in MtxTasks : mtx[m].owner = t => mtxDepth[t][m] > 0
    /\ \A t \in MtxTasks : mtxDepth[t][m] > 0 /\ ~(mtxPc[t] = "unl_mtx" /\ mtxArg[t] = m)
         => mtx[m].owner = t /\ mtx[m].count = mtxDepth[t][m]
    /\ \A t \in MtxTasks : mtxDepth[t][m] > 1 => mtx[m].recursive

MtxInv == MtxTypeOK /\ MtxCallsOK /\ MtxKernelOK /\ MtxStepsOK /\ MtxOwnerOK

LEMMA MtxBounds == MtxMaxDepth \in Nat /\ MtxMaxCreates \in Nat /\ MtxNobody \notin MtxTasks
  BY MtxAssumption DEF MtxAssumption

-----------------------------------------------------------------------------
(* What the assignments of a call write.                                   *)

MtxRecords == [used : BOOLEAN, owner : MtxTasks \cup {MtxNobody}, count : Nat, recursive : BOOLEAN]

LEMMA MtxWritten ==
  ASSUME mtx \in [MtxSlots -> MtxRecords], NEW m \in MtxSlots, NEW o, NEW c,
         mtx' = [mtx EXCEPT ![m].owner = o, ![m].count = c]
  PROVE  mtx' = [mtx EXCEPT ![m] = [used |-> mtx[m].used, owner |-> o, count |-> c,
                                    recursive |-> mtx[m].recursive]]
<1> DEFINE R(a, b) == [used |-> mtx[m].used, owner |-> a, count |-> b,
                       recursive |-> mtx[m].recursive]
<1>1. mtx[m] = R(mtx[m].owner, mtx[m].count)
  BY DEF MtxRecords
<1>2. /\ [mtx[m] EXCEPT !.owner = o] = R(o, mtx[m].count)
      /\ [R(o, mtx[m].count) EXCEPT !.count = c] = R(o, c)
  <2>1. [R(mtx[m].owner, mtx[m].count) EXCEPT !.owner = o] = R(o, mtx[m].count)
    OBVIOUS
  <2> QED
    BY <1>1, <2>1
<1> HIDE DEF R
<1>3. [mtx EXCEPT ![m].owner = o][m] = [mtx[m] EXCEPT !.owner = o]
  BY Zenon
<1>4. mtx' = [[mtx EXCEPT ![m].owner = o] EXCEPT ![m].count = c]
  BY Zenon
<1>5. mtx' = [mtx EXCEPT ![m] = R(o, c)]
  BY <1>2, <1>3, <1>4, Zenon
<1> QED
  BY <1>5 DEF R

LEMMA MtxCountWritten ==
  ASSUME mtx \in [MtxSlots -> MtxRecords],
         NEW m \in MtxSlots, NEW c \in Nat,
         mtx' = [mtx EXCEPT ![m].count = c]
  PROVE  /\ mtx' \in [MtxSlots -> MtxRecords] /\ \A k \in MtxSlots : k # m => mtx'[k] = mtx[k]
         /\ mtx'[m].used = mtx[m].used /\ mtx'[m].recursive = mtx[m].recursive
         /\ mtx'[m].owner = mtx[m].owner /\ mtx'[m].count = c
  BY DEF MtxRecords

LEMMA MtxCounted ==
  ASSUME mtxDepth \in [MtxTasks -> [MtxSlots -> 0..MtxMaxDepth]],
         NEW t \in MtxTasks, NEW m \in MtxSlots, NEW d \in 0..MtxMaxDepth,
         mtxDepth' = [mtxDepth EXCEPT ![t][m] = d]
  PROVE  /\ mtxDepth' \in [MtxTasks -> [MtxSlots -> 0..MtxMaxDepth]]
         /\ \A u \in MtxTasks, k \in MtxSlots :
              mtxDepth'[u][k] = IF u = t /\ k = m THEN d ELSE mtxDepth[u][k]
  OBVIOUS

-----------------------------------------------------------------------------
(* The invariant holds at first and is kept by every action.               *)

LEMMA MtxInitInv == MtxInit => MtxInv
  BY MtxBounds DEF MtxInit, MtxInv, MtxTypeOK, MtxCallsOK, MtxKernelOK, MtxHolds, MtxStepsOK, MtxStepOK,
                       MtxOwnerOK, MtxSlots

\* One mutex is nobody's: creation fills in an unused slot, deletion clears one.
LEMMA MtxCreateKeeps == MtxInv /\ MtxCreate => MtxInv'
<1> SUFFICES ASSUME MtxInv, MtxCreate PROVE MtxInv'
  OBVIOUS
<1> USE DEF MtxInv
<1>1. CASE UNCHANGED mtx
  BY <1>1, MtxAssumption
     DEF MtxCreate, MtxTypeOK, MtxCallsOK, MtxKernelOK, MtxHolds, MtxStepsOK, MtxStepOK, MtxOwnerOK
<1>2. ASSUME NEW m \in MtxSlots, NEW r \in BOOLEAN, ~mtx[m].used,
             mtx' = [mtx EXCEPT ![m] = [used |-> TRUE, owner |-> MtxNobody,
                                        count |-> 0, recursive |-> r]]
      PROVE  MtxInv'
  <2> USE <1>2 DEF MtxCreate
  <2>1. /\ UNCHANGED <<mtxKernel, mtxPc, mtxArg, mtxDepth>>
        /\ \A t \in MtxTasks : mtxArg[t] # m /\ ~(mtxDepth[t][m] > 0)
    BY DEF MtxCallsOK, MtxSlots
  <2>2. MtxTypeOK'
    BY <2>1, MtxAssumption DEF MtxTypeOK
  <2>3. MtxCallsOK'
    BY <2>1 DEF MtxCallsOK, MtxTypeOK
  <2>4. MtxKernelOK'
    BY <2>1 DEF MtxKernelOK, MtxHolds
  <2>5. MtxStepsOK'
    BY <2>1 DEF MtxStepsOK, MtxStepOK, MtxTypeOK, MtxCallsOK
  <2>6. MtxOwnerOK'
    BY <2>1, MtxAssumption DEF MtxOwnerOK, MtxTypeOK
  <2> QED
    BY <2>2, <2>3, <2>4, <2>5, <2>6
<1> QED
  BY <1>1, <1>2 DEF MtxCreate

LEMMA MtxDeleteKeeps == MtxInv /\ MtxDelete => MtxInv'
<1> SUFFICES ASSUME MtxInv, MtxDelete PROVE MtxInv'
  OBVIOUS
<1> USE DEF MtxInv
<1>1. PICK m \in MtxSlots :
        /\ mtx[m].used
        /\ \A t \in MtxTasks : mtxArg[t] # m /\ mtxDepth[t][m] = 0
        /\ mtx' = [mtx EXCEPT ![m].used = FALSE]
  BY DEF MtxDelete
<1>2. UNCHANGED <<mtxKernel, mtxPc, mtxArg, mtxDepth, mtxCreates>>
  BY DEF MtxDelete
<1>3. MtxTypeOK'
  BY <1>1, <1>2 DEF MtxTypeOK
<1>4. MtxCallsOK'
  BY <1>1, <1>2 DEF MtxCallsOK, MtxTypeOK
<1>5. MtxKernelOK'
  BY <1>2 DEF MtxKernelOK, MtxHolds
<1>6. MtxStepsOK'
  BY <1>1, <1>2 DEF MtxStepsOK, MtxStepOK, MtxTypeOK
<1>7. MtxOwnerOK'
  BY <1>1, <1>2 DEF MtxOwnerOK, MtxTypeOK
<1> QED
  BY <1>3, <1>4, <1>5, <1>6, <1>7

\* A call begins: only the caller's own state says so.
LEMMA MtxCallKeeps == ASSUME NEW t \in MtxTasks PROVE MtxInv /\ MtxCall(t) => MtxInv'
<1> SUFFICES ASSUME MtxInv, MtxCall(t) PROVE MtxInv'
  OBVIOUS
<1> USE DEF MtxInv
<1>1. PICK m \in MtxSlots :
        /\ mtx[m].used /\ mtxArg' = [mtxArg EXCEPT ![t] = m]
        /\ \/ mtxDepth[t][m] < MtxMaxDepth /\ MtxGo(t, "idle", "lock")
           \/ mtxDepth[t][m] > 0 /\ MtxGo(t, "idle", "unlock")
  BY DEF MtxCall
<1>2. UNCHANGED <<mtx, mtxKernel, mtxDepth, mtxCreates>> /\ m # 0
  BY DEF MtxCall, MtxSlots
<1> USE <1>1, <1>2 DEF MtxGo
<1>3. MtxTypeOK'
  BY DEF MtxTypeOK
<1>4. MtxCallsOK'
  BY DEF MtxCallsOK, MtxTypeOK
<1>5. MtxKernelOK'
  BY DEF MtxKernelOK, MtxHolds, MtxTypeOK
<1>6. MtxStepsOK'
  BY DEF MtxStepsOK, MtxStepOK, MtxTypeOK
<1>7. MtxOwnerOK'
  BY DEF MtxOwnerOK, MtxCallsOK, MtxTypeOK
<1> QED
  BY <1>3, <1>4, <1>5, <1>6, <1>7

\* The steps of a call whose task has the mutex m in hand.
LEMMA MtxArgIsMutex ==
  ASSUME NEW t \in MtxTasks, MtxInv, mtxPc[t] # "idle"
  PROVE  /\ mtxArg[t] \in MtxSlots /\ mtxArg[t] # 0
         /\ mtx[mtxArg[t]].used
BY DEF MtxInv, MtxTypeOK, MtxCallsOK, MtxSlots

\* A task that has the mutex ends its call, one deeper, one less deep, or without it.
LEMMA MtxReturnKeeps ==
  ASSUME NEW t \in MtxTasks, NEW m \in MtxSlots, NEW e \in 0..MtxMaxDepth,
         NEW l, NEW d \in Int,
         MtxInv, m = mtxArg[t], l # "idle", MtxReturn(t, l, d), mtxKernel[m] = t,
         e = mtxDepth[t][m] + d,
         mtx' \in [MtxSlots -> MtxRecords], \A k \in MtxSlots : k # m => mtx'[k] = mtx[k],
         mtx'[m].used = mtx[m].used, mtx'[m].recursive = mtx[m].recursive,
         e > 0 => /\ mtx'[m].owner = t /\ mtx'[m].count = e /\ UNCHANGED mtxKernel
                  /\ e > 1 => mtx[m].recursive,
         e = 0 => /\ mtx'[m].owner = MtxNobody
                  /\ mtxKernel' = [mtxKernel EXCEPT ![m] = MtxNobody]
  PROVE  MtxInv'
<1> USE DEF MtxInv
<1>1. /\ mtxDepth' \in [MtxTasks -> [MtxSlots -> 0..MtxMaxDepth]]
      /\ \A u \in MtxTasks, k \in MtxSlots :
           mtxDepth'[u][k] = IF u = t /\ k = m THEN e ELSE mtxDepth[u][k]
      /\ mtxPc' = [mtxPc EXCEPT ![t] = "idle"] /\ mtxPc[t] = l
      /\ mtxArg' = [mtxArg EXCEPT ![t] = 0]
      /\ UNCHANGED mtxCreates
  <2>1. mtxDepth' = [mtxDepth EXCEPT ![t][m] = e]
    BY DEF MtxReturn
  <2> QED
    BY <2>1, MtxCounted DEF MtxTypeOK, MtxReturn, MtxGo
<1>2. \A u \in MtxTasks : u # t => ~MtxHolds(u, m) /\ mtxDepth[u][m] = 0
  BY MtxBounds DEF MtxKernelOK, MtxHolds, MtxTypeOK
<1>3. \A u \in MtxTasks : u # t => mtxPc'[u] = mtxPc[u] /\ mtxArg'[u] = mtxArg[u]
  BY <1>1 DEF MtxTypeOK
<1>4. mtxPc'[t] = "idle" /\ mtxArg'[t] = 0 /\ m # 0 /\ 0 \notin MtxSlots
  BY <1>1 DEF MtxTypeOK, MtxSlots
<1>5. MtxTypeOK'
  <2>1. mtxKernel' \in [MtxSlots -> MtxTasks \cup {MtxNobody}]
    BY DEF MtxTypeOK
  <2> QED
    BY <1>1, <2>1 DEF MtxTypeOK, MtxRecords
<1>6. MtxCallsOK'
  <2>1. \A k \in MtxSlots : mtx'[k].used = mtx[k].used
    OBVIOUS
  <2>2. mtx[m].used
    BY <1>4 DEF MtxCallsOK
  <2>3. \A u \in MtxTasks : mtxArg'[u] # 0 => mtxArg'[u] \in MtxSlots /\ mtxArg'[u] = mtxArg[u]
    BY <1>3, <1>4 DEF MtxTypeOK
  <2> QED
    BY <1>1, <1>3, <1>4, <2>1, <2>2, <2>3 DEF MtxCallsOK
<1>7. MtxKernelOK'
  <2> SUFFICES ASSUME NEW u \in MtxTasks, NEW k \in MtxSlots
               PROVE  (mtxKernel[k] = u <=> MtxHolds(u, k))'
    BY DEF MtxKernelOK
  <2>1. CASE k # m
    <3>1. mtxKernel'[k] = mtxKernel[k] /\ mtxDepth'[u][k] = mtxDepth[u][k]
      BY <1>1, <2>1 DEF MtxTypeOK
    <3>2. (mtxPc'[u] = "own" /\ mtxArg'[u] = k) <=> (mtxPc[u] = "own" /\ mtxArg[u] = k)
      BY <1>3, <1>4, <2>1
    <3> QED
      BY <3>1, <3>2 DEF MtxKernelOK, MtxHolds
  <2>2. CASE k = m
    <3>1. MtxHolds(u, m)' <=> (u = t /\ e > 0)
      BY <1>1, <1>2, <1>3, <1>4 DEF MtxHolds
    <3>2. mtxKernel'[m] = IF e > 0 THEN t ELSE MtxNobody
      BY DEF MtxTypeOK
    <3> QED
      BY <2>2, <3>1, <3>2, MtxBounds
  <2> QED
    BY <2>1, <2>2
<1>8. MtxStepsOK'
  <2> SUFFICES ASSUME NEW u \in MtxTasks PROVE MtxStepOK(u)'
    BY DEF MtxStepsOK
  <2>1. CASE u = t \/ mtxPc[u] = "idle"
    BY <1>3, <1>4, <2>1 DEF MtxStepOK
  <2>2. CASE u # t /\ mtxPc[u] # "idle"
    <3>1. mtxArg[u] \in MtxSlots /\ mtxPc'[u] = mtxPc[u] /\ mtxArg'[u] = mtxArg[u]
      BY <1>3, <2>2, MtxArgIsMutex
    <3>2. mtxDepth'[u][mtxArg[u]] = mtxDepth[u][mtxArg[u]]
      BY <1>1, <2>2, <3>1
    <3>3. \/ mtx'[mtxArg[u]] = mtx[mtxArg[u]]
          \/ mtx'[mtxArg[u]].owner \in {t, MtxNobody}
      BY <3>1
    <3>4. mtx'[mtxArg[u]].owner = u => mtx'[mtxArg[u]] = mtx[mtxArg[u]]
      BY <2>2, <3>3, MtxBounds
    <3>5. MtxStepOK(u)
      BY DEF MtxStepsOK, MtxStepOK
    <3> QED
      BY <3>1, <3>2, <3>4, <3>5 DEF MtxStepOK
  <2> QED
    BY <2>1, <2>2
<1>9. MtxOwnerOK'
  <2> SUFFICES ASSUME NEW k \in MtxSlots
               PROVE  (/\ \A u \in MtxTasks : mtx[k].owner = u => mtxDepth[u][k] > 0
                       /\ \A u \in MtxTasks :
                            mtxDepth[u][k] > 0 /\ ~(mtxPc[u] = "unl_mtx" /\ mtxArg[u] = k)
                            => mtx[k].owner = u /\ mtx[k].count = mtxDepth[u][k]
                       /\ \A u \in MtxTasks : mtxDepth[u][k] > 1 => mtx[k].recursive)'
    BY DEF MtxOwnerOK
  <2>1. CASE k # m
    <3>1. mtx'[k] = mtx[k] /\ \A u \in MtxTasks : mtxDepth'[u][k] = mtxDepth[u][k]
      BY <1>1, <2>1
    <3>2. \A u \in MtxTasks : (mtxPc'[u] = "unl_mtx" /\ mtxArg'[u] = k)
                             <=> (mtxPc[u] = "unl_mtx" /\ mtxArg[u] = k)
      BY <1>3, <1>4, <2>1, Zenon
    <3> QED
      BY <3>1, <3>2 DEF MtxOwnerOK
  <2>2. CASE k = m
    BY <1>1, <1>2, <2>2, MtxBounds
  <2> QED
    BY <2>1, <2>2
<1> QED
  BY <1>5, <1>6, <1>7, <1>8, <1>9

LEMMA MtxLockKeeps == ASSUME NEW t \in MtxTasks PROVE MtxInv /\ MtxLock(t) => MtxInv'
<1> SUFFICES ASSUME MtxInv, MtxLock(t) PROVE MtxInv'
  OBVIOUS
<1> DEFINE m == mtxArg[t]
<1>1. m \in MtxSlots /\ m # 0 /\ mtx[m].used /\ mtxPc[t] = "lock"
  BY MtxArgIsMutex DEF MtxLock
<1>2. mtxDepth[t][m] < MtxMaxDepth /\ mtxDepth[t][m] \in Nat
  BY <1>1, MtxBounds DEF MtxInv, MtxStepsOK, MtxStepOK, MtxTypeOK
<1>3. CASE /\ mtx[m].recursive /\ mtx[m].owner = t
           /\ MtxReturn(t, "lock", 1)
           /\ mtx' = [mtx EXCEPT ![m].count = @ + 1] /\ UNCHANGED mtxKernel
  <2>1. mtxDepth[t][m] > 0 /\ mtx[m].count = mtxDepth[t][m] /\ mtxKernel[m] = t
    BY <1>1, <1>3 DEF MtxInv, MtxOwnerOK, MtxKernelOK, MtxHolds
  <2>2. mtx' = [mtx EXCEPT ![m].count = mtxDepth[t][m] + 1]
    BY <1>3, <2>1
  <2>3. /\ mtx' \in [MtxSlots -> MtxRecords] /\ \A k \in MtxSlots : k # m => mtx'[k] = mtx[k]
        /\ mtx'[m].used = mtx[m].used /\ mtx'[m].recursive = mtx[m].recursive
        /\ mtx'[m].owner = t /\ mtx'[m].count = mtxDepth[t][m] + 1
    <3>1. mtx \in [MtxSlots -> MtxRecords] /\ mtxDepth[t][m] + 1 \in Nat
      BY <1>2 DEF MtxInv, MtxTypeOK, MtxRecords
    <3> HIDE DEF m
    <3> QED
      BY <1>1, <1>3, <2>2, <3>1, MtxCountWritten, Zenon
  <2>4. mtxDepth[t][m] + 1 \in 0..MtxMaxDepth
    BY <1>2, MtxBounds
  <2> QED
    BY <1>1, <1>2, <1>3, <2>1, <2>3, <2>4, MtxReturnKeeps
<1>4. CASE /\ ~(mtx[m].recursive /\ mtx[m].owner = t)
           /\ MtxGo(t, "lock", "loc_mtx")
           /\ UNCHANGED <<mtx, mtxKernel, mtxArg, mtxDepth, mtxCreates>>
  <2> USE <1>1, <1>2, <1>4 DEF MtxGo, MtxInv
  <2> HIDE DEF m
  <2>1. MtxTypeOK'
    BY DEF MtxTypeOK
  <2>2. MtxCallsOK'
    BY DEF MtxCallsOK, MtxTypeOK
  <2>3. MtxKernelOK'
    BY DEF MtxKernelOK, MtxHolds, MtxTypeOK
  <2>4. MtxStepsOK'
    BY DEF MtxStepsOK, MtxStepOK, MtxTypeOK, m
  <2>5. MtxOwnerOK'
    BY DEF MtxOwnerOK, MtxTypeOK
  <2> QED
    BY <2>1, <2>2, <2>3, <2>4, <2>5
<1> QED
  BY <1>3, <1>4 DEF MtxLock

\* The kernel gives the mutex to nobody but the one whose loc_mtx it answers.
LEMMA MtxLocMtxKeeps == ASSUME NEW t \in MtxTasks PROVE MtxInv /\ MtxLocMtx(t) => MtxInv'
<1> SUFFICES ASSUME MtxInv, MtxLocMtx(t) PROVE MtxInv'
  OBVIOUS
<1> DEFINE m == mtxArg[t]
<1>1. m \in MtxSlots /\ m # 0 /\ mtx[m].used /\ mtxPc[t] = "loc_mtx"
  BY MtxArgIsMutex DEF MtxLocMtx
<1> USE DEF MtxInv
<1> HIDE DEF m
<1>2. CASE /\ mtxKernel[m] = MtxNobody /\ MtxGo(t, "loc_mtx", "own")
           /\ mtxKernel' = [mtxKernel EXCEPT ![m] = t]
           /\ UNCHANGED <<mtx, mtxArg, mtxDepth, mtxCreates>>
  <2>1. /\ \A u \in MtxTasks : ~MtxHolds(u, m) /\ mtxDepth[u][m] = 0
        /\ MtxMaxDepth > 0
    BY <1>1, <1>2, MtxBounds DEF MtxKernelOK, MtxHolds, MtxTypeOK, MtxStepsOK, MtxStepOK, m
  <2> USE <1>1, <1>2, <2>1 DEF MtxGo
  <2>2. MtxTypeOK'
    BY DEF MtxTypeOK
  <2>3. MtxCallsOK'
    BY DEF MtxCallsOK, MtxTypeOK
  <2>4. MtxKernelOK'
    BY DEF MtxKernelOK, MtxHolds, MtxTypeOK, m
  <2>5. MtxStepsOK'
    BY DEF MtxStepsOK, MtxStepOK, MtxTypeOK, m
  <2>6. MtxOwnerOK'
    BY DEF MtxOwnerOK, MtxTypeOK
  <2> QED
    BY <2>2, <2>3, <2>4, <2>5, <2>6
<1>3. CASE /\ mtxKernel[m] = t /\ MtxReturn(t, "loc_mtx", 0)
           /\ UNCHANGED <<mtx, mtxKernel>>
  <2>1. /\ mtxPc' = [mtxPc EXCEPT ![t] = "idle"]
        /\ mtxArg' = [mtxArg EXCEPT ![t] = 0]
        /\ UNCHANGED <<mtxDepth, mtxCreates>>
    BY <1>1, <1>3 DEF MtxReturn, MtxGo, MtxTypeOK, m
  <2> USE <1>1, <1>3, <2>1
  <2>2. MtxTypeOK'
    BY DEF MtxTypeOK
  <2>3. MtxCallsOK'
    BY DEF MtxCallsOK, MtxTypeOK
  <2>4. MtxKernelOK'
    BY DEF MtxKernelOK, MtxHolds, MtxTypeOK
  <2>5. MtxStepsOK'
    BY DEF MtxStepsOK, MtxStepOK, MtxTypeOK
  <2>6. MtxOwnerOK'
    BY DEF MtxOwnerOK, MtxTypeOK
  <2> QED
    BY <2>2, <2>3, <2>4, <2>5, <2>6
<1> QED
  BY <1>2, <1>3 DEF MtxLocMtx, m

LEMMA MtxOwnKeeps == ASSUME NEW t \in MtxTasks PROVE MtxInv /\ MtxOwn(t) => MtxInv'
<1> SUFFICES ASSUME MtxInv, MtxOwn(t) PROVE MtxInv'
  OBVIOUS
<1> DEFINE m == mtxArg[t]
<1>1. m \in MtxSlots /\ m # 0 /\ mtx[m].used /\ mtxPc[t] = "own"
  BY MtxArgIsMutex DEF MtxOwn, MtxReturn, MtxGo
<1>2. mtxDepth[t][m] = 0 /\ MtxMaxDepth > 0 /\ mtxKernel[m] = t
  BY <1>1 DEF MtxInv, MtxStepsOK, MtxStepOK, MtxKernelOK, MtxHolds
<1>3. /\ mtx' \in [MtxSlots -> MtxRecords] /\ \A k \in MtxSlots : k # m => mtx'[k] = mtx[k]
      /\ mtx'[m].used = mtx[m].used /\ mtx'[m].recursive = mtx[m].recursive
      /\ mtx'[m].owner = t /\ mtx'[m].count = 1
  <2>1. /\ mtx' = [mtx EXCEPT ![m].owner = t, ![m].count = 1] /\ mtx \in [MtxSlots -> MtxRecords]
        /\ t \in MtxTasks \cup {MtxNobody} /\ 1 \in Nat
    BY DEF MtxOwn, MtxInv, MtxTypeOK, MtxRecords
  <2>2. m \in MtxSlots
    BY <1>1
  <2> HIDE DEF m
  <2>3. mtx' = [mtx EXCEPT ![m] = [used |-> mtx[m].used, owner |-> t, count |-> 1,
                                   recursive |-> mtx[m].recursive]]
    BY <2>1, <2>2, MtxWritten
  <2>4. [used |-> mtx[m].used, owner |-> t, count |-> 1, recursive |-> mtx[m].recursive] \in MtxRecords
    BY <2>1, <2>2 DEF MtxRecords
  <2>5. mtx \in [MtxSlots -> MtxRecords]
    BY <2>1
  <2> QED
    BY <2>2, <2>3, <2>4, <2>5
<1> DEFINE d == 1
           e == mtxDepth[t][m] + d
<1>4. /\ m \in MtxSlots /\ m = mtxArg[t] /\ mtxKernel[m] = t
      /\ e \in 0..MtxMaxDepth /\ e = mtxDepth[t][m] + d /\ d \in Int /\ "own" # "idle"
      /\ MtxReturn(t, "own", d)
      /\ e > 0 => /\ mtx'[m].owner = t /\ mtx'[m].count = e /\ UNCHANGED mtxKernel
                  /\ e > 1 => mtx[m].recursive
      /\ e = 0 => /\ mtx'[m].owner = MtxNobody
                  /\ mtxKernel' = [mtxKernel EXCEPT ![m] = MtxNobody]
  BY <1>1, <1>2, <1>3, MtxBounds DEF MtxOwn
<1>5. /\ mtx' \in [MtxSlots -> MtxRecords] /\ \A k \in MtxSlots : k # m => mtx'[k] = mtx[k]
      /\ mtx'[m].used = mtx[m].used /\ mtx'[m].recursive = mtx[m].recursive
  BY <1>3
<1> HIDE DEF d, e, m
<1> QED
  BY <1>4, <1>5, MtxReturnKeeps, SMTT(60)

LEMMA MtxUnlockKeeps == ASSUME NEW t \in MtxTasks PROVE MtxInv /\ MtxUnlock(t) => MtxInv'
<1> SUFFICES ASSUME MtxInv, MtxUnlock(t) PROVE MtxInv'
  OBVIOUS
<1> DEFINE m == mtxArg[t]
           e == mtxDepth[t][m] - 1
<1>1. /\ m \in MtxSlots /\ m # 0 /\ mtxPc[t] = "unlock"
      /\ mtx[m].recursive /\ mtx[m].count > 1
      /\ MtxReturn(t, "unlock", -1) /\ UNCHANGED mtxKernel
  BY MtxArgIsMutex DEF MtxUnlock
<1>2. /\ mtxDepth[t][m] > 0 /\ mtxKernel[m] = t
      /\ mtx[m].owner = t /\ mtx[m].count = mtxDepth[t][m] /\ mtxDepth[t][m] \in 0..MtxMaxDepth
  BY <1>1 DEF MtxInv, MtxStepsOK, MtxStepOK, MtxKernelOK, MtxHolds, MtxOwnerOK, MtxTypeOK
<1>3. e \in 0..MtxMaxDepth /\ e > 0 /\ e = mtxDepth[t][m] + (-1)
  BY <1>1, <1>2, MtxBounds
<1>4. /\ mtx' \in [MtxSlots -> MtxRecords] /\ \A k \in MtxSlots : k # m => mtx'[k] = mtx[k]
      /\ mtx'[m].used = mtx[m].used /\ mtx'[m].recursive = mtx[m].recursive
      /\ mtx'[m].owner = t /\ mtx'[m].count = e
  <2>1. mtx' = [mtx EXCEPT ![m].count = e] /\ mtx \in [MtxSlots -> MtxRecords] /\ e \in Nat
    BY <1>2, <1>3, MtxBounds DEF MtxUnlock, MtxInv, MtxTypeOK, MtxRecords
  <2> HIDE DEF m, e
  <2> QED
    BY <1>1, <1>2, <2>1, MtxCountWritten, Zenon
<1>5. /\ -1 \in Int /\ "unlock" # "idle"
      /\ e > 0 => /\ mtx'[m].owner = t /\ mtx'[m].count = e /\ UNCHANGED mtxKernel
                  /\ e > 1 => mtx[m].recursive
      /\ e = 0 => /\ mtx'[m].owner = MtxNobody
                  /\ mtxKernel' = [mtxKernel EXCEPT ![m] = MtxNobody]
  BY <1>1, <1>3, <1>4
<1>6. m = mtxArg[t] /\ MtxReturn(t, "unlock", -1) /\ mtxKernel[m] = t /\ m \in MtxSlots
  BY <1>1, <1>2
<1> HIDE DEF e, m
<1> QED
  BY <1>3, <1>4, <1>5, <1>6, MtxReturnKeeps, Zenon

\* The task gives the mutex back in two steps.
LEMMA MtxLastUnlockKeeps ==
  ASSUME NEW t \in MtxTasks PROVE MtxInv /\ MtxLastUnlock(t) => MtxInv'
<1> SUFFICES ASSUME MtxInv, MtxLastUnlock(t) PROVE MtxInv'
  OBVIOUS
<1> DEFINE m == mtxArg[t]
<1>1. CASE /\ MtxGo(t, "unlock", "unl_mtx")
           /\ ~(mtx[m].recursive /\ mtx[m].count > 1)
           /\ mtx' = [mtx EXCEPT ![m].owner = MtxNobody, ![m].count = 0]
           /\ UNCHANGED <<mtxKernel, mtxArg, mtxDepth, mtxCreates>>
  <2>1. m \in MtxSlots /\ m # 0 /\ mtxPc[t] = "unlock" /\ mtxPc' = [mtxPc EXCEPT ![t] = "unl_mtx"]
    BY <1>1, MtxArgIsMutex DEF MtxGo
  <2>2. mtxDepth[t][m] > 0 /\ mtx[m].count = mtxDepth[t][m] /\ mtxKernel[m] = t
    BY <2>1 DEF MtxInv, MtxStepsOK, MtxStepOK, MtxOwnerOK, MtxKernelOK, MtxHolds
  <2>3. mtxDepth[t][m] = 1
    BY <1>1, <2>1, <2>2, MtxBounds DEF MtxInv, MtxOwnerOK, MtxTypeOK
  <2>4. \A u \in MtxTasks : u # t => mtxDepth[u][m] = 0
    BY <2>1, <2>2, MtxBounds DEF MtxInv, MtxKernelOK, MtxHolds, MtxTypeOK
  <2>5. /\ mtx' \in [MtxSlots -> MtxRecords] /\ \A k \in MtxSlots : k # m => mtx'[k] = mtx[k]
        /\ mtx'[m].used = mtx[m].used /\ mtx'[m].recursive = mtx[m].recursive
        /\ mtx'[m].owner = MtxNobody
    <3>1. mtx \in [MtxSlots -> MtxRecords] /\ MtxNobody \in MtxTasks \cup {MtxNobody} /\ 0 \in Nat
      BY DEF MtxInv, MtxTypeOK, MtxRecords
    <3> HIDE DEF m
    <3>2. mtx' = [mtx EXCEPT ![m] = [used |-> mtx[m].used, owner |-> MtxNobody, count |-> 0,
                                     recursive |-> mtx[m].recursive]]
      BY <1>1, <2>1, <3>1, MtxWritten
    <3> QED
      BY <2>1, <3>1, <3>2 DEF MtxRecords
  <2> USE <1>1, <2>1, <2>3, <2>4, <2>5 DEF MtxInv
  <2> HIDE DEF m
  <2>6. MtxTypeOK'
    BY DEF MtxTypeOK, MtxRecords
  <2>7. MtxCallsOK'
    BY DEF MtxCallsOK, MtxTypeOK
  <2>8. MtxKernelOK'
    BY DEF MtxKernelOK, MtxHolds, MtxTypeOK
  <2>9. MtxStepsOK'
    BY MtxBounds DEF MtxStepsOK, MtxStepOK, MtxCallsOK, MtxTypeOK, m
  <2>10. MtxOwnerOK'
    <3>1. mtxPc'[t] = "unl_mtx" /\ mtxArg'[t] = m
      BY DEF MtxTypeOK, m
    <3>2. \A u \in MtxTasks : u # t => mtxPc'[u] = mtxPc[u]
      BY DEF MtxTypeOK
    <3>3. ASSUME NEW k \in MtxSlots, k # m
          PROVE  \A u \in MtxTasks : ~(mtxPc[u] = "unl_mtx" /\ mtxArg[u] = k)
                                    <=> ~(mtxPc'[u] = "unl_mtx" /\ mtxArg[u] = k)
      BY <3>1, <3>2, <3>3 DEF m
    <3> QED
      BY <3>1, <3>2, <3>3, MtxBounds DEF MtxOwnerOK
  <2> QED
    BY <2>6, <2>7, <2>8, <2>9, <2>10
<1>2. CASE /\ MtxReturn(t, "unl_mtx", -1)
           /\ mtxKernel' = [mtxKernel EXCEPT ![m] = MtxNobody] /\ UNCHANGED mtx
  <2>1. m \in MtxSlots /\ m # 0 /\ mtxPc[t] = "unl_mtx"
    BY <1>2, MtxArgIsMutex DEF MtxReturn, MtxGo
  <2>2. mtxDepth[t][m] = 1 /\ mtxKernel[m] = t
    BY <2>1 DEF MtxInv, MtxStepsOK, MtxStepOK, MtxKernelOK, MtxHolds
  <2>3. mtx[m].owner = MtxNobody
    <3>1. ~(mtx[m].owner = t)
      BY <2>1, <2>2 DEF MtxInv, MtxStepsOK, MtxStepOK
    <3>2. ASSUME NEW u \in MtxTasks, mtx[m].owner = u PROVE FALSE
      BY <2>1, <2>2, <3>1, <3>2 DEF MtxInv, MtxOwnerOK, MtxKernelOK, MtxHolds
    <3> QED
      BY <2>1, <3>2 DEF MtxInv, MtxTypeOK
  <2>4. mtx' \in [MtxSlots -> MtxRecords] /\ \A k \in MtxSlots : mtx'[k] = mtx[k]
    BY <1>2 DEF MtxInv, MtxTypeOK, MtxRecords
  <2>5. /\ 0 \in 0..MtxMaxDepth /\ 0 = mtxDepth[t][m] + (-1) /\ -1 \in Int
        /\ "unl_mtx" # "idle"
        /\ mtx'[m].used = mtx[m].used /\ mtx'[m].recursive = mtx[m].recursive
        /\ 0 > 0 => /\ mtx'[m].owner = t /\ mtx'[m].count = 0 /\ UNCHANGED mtxKernel
                    /\ 0 > 1 => mtx[m].recursive
        /\ 0 = 0 => /\ mtx'[m].owner = MtxNobody
                    /\ mtxKernel' = [mtxKernel EXCEPT ![m] = MtxNobody]
    BY <1>2, <2>1, <2>2, <2>3, <2>4, MtxBounds
  <2>6. \A k \in MtxSlots : k # m => mtx'[k] = mtx[k]
    BY <2>4
  <2> QED
    BY <1>2, <2>1, <2>2, <2>4, <2>5, <2>6, MtxReturnKeeps, Zenon
<1> QED
  BY <1>1, <1>2 DEF MtxLastUnlock

-----------------------------------------------------------------------------

\* The invariant holds in every state.
LEMMA MtxInvHolds == MtxSpec => []MtxInv
<1>1. MtxInv /\ [MtxNext]_mtxVars => MtxInv'
  <2> SUFFICES ASSUME MtxInv, [MtxNext]_mtxVars PROVE MtxInv'
    OBVIOUS
  <2>1. CASE MtxCreate \/ MtxDelete
    BY <2>1, MtxCreateKeeps, MtxDeleteKeeps
  <2>2. ASSUME NEW t \in MtxTasks,
               MtxCall(t) \/ MtxLock(t) \/ MtxLocMtx(t) \/ MtxOwn(t)
               \/ MtxUnlock(t) \/ MtxLastUnlock(t)
        PROVE  MtxInv'
    BY <2>2, MtxCallKeeps, MtxLockKeeps, MtxLocMtxKeeps, MtxOwnKeeps, MtxUnlockKeeps, MtxLastUnlockKeeps
  <2>3. CASE UNCHANGED mtxVars
    BY <2>3 DEF mtxVars, MtxInv, MtxTypeOK, MtxCallsOK, MtxKernelOK, MtxHolds, MtxStepsOK, MtxStepOK, MtxOwnerOK
  <2> QED
    BY <2>1, <2>2, <2>3 DEF MtxNext
<1> QED
  BY <1>1, MtxInitInv, PTL DEF MtxSpec

\* Every variable of the mutex pool keeps its type; in particular no count falls below
\* zero and no unlock of a call in progress meets a mutex that is not there.
THEOREM MtxTypes == MtxSpec => []MtxTypeOK
  BY MtxInvHolds, PTL DEF MtxInv

\* A mutex never has two holders, and its owner and count are its holder's, although
\* esp_shim_mutex_lock and esp_shim_mutex_unlock read and write them without a lock.
THEOREM MtxOneHolder == MtxSpec => []MtxExclusive
<1>1. MtxInv => MtxExclusive
  <2> SUFFICES ASSUME MtxInv, NEW m \in MtxSlots PROVE
        /\ \A t, u \in MtxTasks : mtxDepth[t][m] > 0 /\ mtxDepth[u][m] > 0 => t = u
        /\ \A t \in MtxTasks : mtxDepth[t][m] > 0 =>
             /\ mtxKernel[m] = t
             /\ (mtxArg[t] # m) => mtx[m].owner = t /\ mtx[m].count = mtxDepth[t][m]
    BY DEF MtxExclusive
  <2>1. \A t \in MtxTasks : mtxDepth[t][m] > 0 => mtxKernel[m] = t
    BY DEF MtxInv, MtxKernelOK, MtxHolds
  <2> QED
    BY <2>1 DEF MtxInv, MtxOwnerOK
<1> QED
  BY <1>1, MtxInvHolds, PTL

(***************************************************************************)
(* The task pool.                                                          *)
(***************************************************************************)
\* The function of the slot is still to be called.
TskToRun(s) == tskState[s] = "start" \/ tskQueued[s]

\* What a creator has in hand is its own, and its task is not running: it has
\* ended, or is about to.
TskHandsOK ==
  \A c \in TskCreators :
    /\ tskPc[c] \in {"idle", "act", "free"}
    /\ tskSlot[c] = 0 <=> tskPc[c] = "idle"
    /\ tskSlot[c] # 0 => /\ tskState[tskSlot[c]] \in {"dormant", "exit"}
                         /\ ~tskQueued[tskSlot[c]]
                         /\ \A d \in TskCreators \ {c} : tskSlot[d] # tskSlot[c]

\* A slot is in use exactly when something will give it back.
TskUsedOK ==
  \A s \in TskSlots :
    /\ tskQueued[s] => tskState[s] = "exit"
    /\ tskUsed[s] <=> tskState[s] = "run" \/ TskToRun(s) \/ \E c \in TskCreators : tskSlot[c] = s

\* The slots in use hold different functions.
TskFnsOK ==
  \A s \in TskSlots : tskUsed[s] =>
    /\ tskFn[s] \in TskIds /\ tskFn[s] <= tskNext
    /\ \A t \in TskSlots \ {s} : tskUsed[t] => tskFn[t] # tskFn[s]

\* A function has been called at most once, and not at all while its call is to
\* come.
TskRunsOK ==
  /\ \A s \in TskSlots :
       TskToRun(s) \/ (\E c \in TskCreators : tskSlot[c] = s /\ tskPc[c] = "act")
       => tskRuns[tskFn[s]] = 0
  /\ \A i \in TskIds : tskRuns[i] \in 0..1 /\ (i > tskNext => tskRuns[i] = 0)
  /\ \A i \in tskMade : tskRuns[i] = 1 \/ \E s \in TskSlots : tskFn[s] = i /\ TskToRun(s)

TskInv == TskTypeOK /\ TskHandsOK /\ TskUsedOK /\ TskFnsOK /\ TskRunsOK

LEMMA TskInitInv == TskInit => TskInv
<1> SUFFICES ASSUME TskInit PROVE TskInv
  OBVIOUS
<1>1. TskTypeOK
  BY TskAssumption DEF TskInit, TskTypeOK, TskAssumption
<1>2. 0 \notin TskSlots
  BY TskAssumption DEF TskAssumption, TskSlots
<1> QED
  BY <1>1, <1>2 DEF TskInit, TskInv, TskHandsOK, TskUsedOK, TskFnsOK, TskRunsOK, TskToRun

LEMMA TskSlotNumbers ==
  0 \notin TskSlots /\ TskSlots \subseteq Nat /\ TskMaxCreates \in Nat /\ TskIds \subseteq Nat
  BY TskAssumption DEF TskAssumption, TskSlots, TskIds

\* A step in which creator c moves on, and the slots of the others stay as they are.
LEMMA TskHandsStep ==
  ASSUME TskInv, NEW c \in TskCreators,
         \A d \in TskCreators \ {c} :
           /\ tskSlot'[d] = tskSlot[d] /\ tskPc'[d] = tskPc[d]
           /\ tskSlot[d] # 0 => /\ tskState'[tskSlot[d]] = tskState[tskSlot[d]]
                                /\ tskQueued'[tskSlot[d]] = tskQueued[tskSlot[d]]
                                /\ tskSlot'[c] # tskSlot[d],
         tskPc'[c] \in {"idle", "act", "free"}, tskSlot'[c] = 0 <=> tskPc'[c] = "idle",
         tskSlot'[c] # 0 => /\ tskState'[tskSlot'[c]] \in {"dormant", "exit"}
                            /\ ~tskQueued'[tskSlot'[c]]
  PROVE  TskHandsOK'
<1> SUFFICES ASSUME NEW d \in TskCreators
             PROVE  /\ tskPc'[d] \in {"idle", "act", "free"}
                    /\ tskSlot'[d] = 0 <=> tskPc'[d] = "idle"
                    /\ tskSlot'[d] # 0 =>
                         /\ tskState'[tskSlot'[d]] \in {"dormant", "exit"}
                         /\ ~tskQueued'[tskSlot'[d]]
                         /\ \A e \in TskCreators \ {d} : tskSlot'[e] # tskSlot'[d]
  BY DEF TskHandsOK
<1>1. CASE d = c
  <2>1. \A e \in TskCreators \ {c} : tskSlot'[c] # 0 => tskSlot'[e] # tskSlot'[c]
    OBVIOUS
  <2> QED
    BY <1>1, <2>1
<1>2. CASE d # c
  <2>1. /\ tskPc[d] \in {"idle", "act", "free"}
        /\ tskSlot[d] = 0 <=> tskPc[d] = "idle"
        /\ tskSlot[d] # 0 => /\ tskState[tskSlot[d]] \in {"dormant", "exit"}
                             /\ ~tskQueued[tskSlot[d]]
                             /\ \A e \in TskCreators \ {d} : tskSlot[e] # tskSlot[d]
    BY DEF TskInv, TskHandsOK
  <2>2. ASSUME NEW e \in TskCreators \ {d}, tskSlot[d] # 0 PROVE tskSlot'[e] # tskSlot[d]
    <3>1. CASE e = c
      BY <1>2, <2>2, <3>1
    <3>2. CASE e # c
      BY <2>1, <2>2, <3>2
    <3> QED
      BY <3>1, <3>2
  <2> QED
    BY <1>2, <2>1, <2>2
<1> QED
  BY <1>1, <1>2

\* A step on slot s.
LEMMA TskUsedStep ==
  ASSUME TskInv, NEW s \in TskSlots,
         \A t \in TskSlots \ {s} :
           /\ tskUsed'[t] = tskUsed[t] /\ tskState'[t] = tskState[t] /\ tskQueued'[t] = tskQueued[t]
           /\ (\E c \in TskCreators : tskSlot'[c] = t) <=> (\E c \in TskCreators : tskSlot[c] = t),
         tskQueued'[s] => tskState'[s] = "exit",
         tskUsed'[s] <=> \/ tskState'[s] \in {"start", "run"} \/ tskQueued'[s]
                         \/ \E c \in TskCreators : tskSlot'[c] = s
  PROVE  TskUsedOK'
<1> SUFFICES ASSUME NEW t \in TskSlots
             PROVE  /\ tskQueued'[t] => tskState'[t] = "exit"
                    /\ tskUsed'[t] <=> \/ tskState'[t] = "run" \/ TskToRun(t)'
                                       \/ \E c \in TskCreators : tskSlot'[c] = t
  BY DEF TskUsedOK
<1>1. CASE t = s
  BY <1>1 DEF TskToRun
<1>2. CASE t # s
  <2>1. /\ tskQueued[t] => tskState[t] = "exit"
        /\ tskUsed[t] <=> \/ tskState[t] = "run" \/ TskToRun(t)
                          \/ \E c \in TskCreators : tskSlot[c] = t
    BY DEF TskInv, TskUsedOK
  <2> QED
    BY <1>2, <2>1 DEF TskToRun
<1> QED
  BY <1>1, <1>2

\* esp_shim_task_create, to the slot it fills.
LEMMA TskTakeInv ==
  ASSUME TskInv, NEW c \in TskCreators, TskTake(c)
  PROVE  TskInv'
<1> USE TskSlotNumbers DEF TskInv
<1>1. /\ tskNext < TskMaxCreates /\ tskNext' = tskNext + 1 /\ tskPc[c] = "idle"
      /\ UNCHANGED <<tskState, tskQueued, tskMade, tskRuns>>
  BY DEF TskTake, TskGo, tskKern
<1>2. tskNext \in Nat /\ tskNext' \in TskIds /\ tskNext' \in 0..TskMaxCreates
  BY <1>1 DEF TskTypeOK, TskIds
<1>3. CASE TskFree = {}
  <2>1. UNCHANGED <<tskUsed, tskFn, tskPc, tskSlot>>
    BY <1>1, <1>3 DEF TskTake, TskGo, tskPool, TskTypeOK
  <2>2. TskTypeOK' /\ TskHandsOK' /\ TskUsedOK'
    BY <1>1, <1>2, <2>1 DEF TskTypeOK, TskHandsOK, TskUsedOK, TskToRun
  <2>3. \A n \in TskIds : (n <= tskNext => n <= tskNext') /\ (n > tskNext' => n > tskNext)
    BY <1>1, <1>2
  <2>4. TskFnsOK'
    BY <1>1, <2>1, <2>3 DEF TskFnsOK
  <2>5. TskRunsOK'
    BY <1>1, <2>1, <2>3 DEF TskRunsOK, TskToRun
  <2> QED
    BY <2>2, <2>4, <2>5
<1>4. CASE TskFree # {}
  <2>1. PICK s \in TskSlots : /\ ~tskUsed[s]
                             /\ tskUsed' = [tskUsed EXCEPT ![s] = TRUE]
                             /\ tskFn' = [tskFn EXCEPT ![s] = tskNext']
                             /\ tskSlot' = [tskSlot EXCEPT ![c] = s]
    <3>1. Min(TskFree) \in TskFree
      <4>1. TskFree \subseteq Nat
        BY DEF TskFree
      <4> QED
        BY <1>4, <4>1, MinIsIn
    <3> QED
      BY <1>4, <3>1 DEF TskTake, TskFree, TskFill
  <2>2. tskPc' = [tskPc EXCEPT ![c] = "act"]
    BY <1>4 DEF TskTake, TskGo
  <2>3. TskTypeOK'
    BY <1>1, <1>2, <2>1, <2>2 DEF TskTypeOK
  <2>4. /\ tskUsed'[s] /\ tskFn'[s] = tskNext'
        /\ \A t \in TskSlots \ {s} : tskUsed'[t] = tskUsed[t] /\ tskFn'[t] = tskFn[t]
        /\ tskSlot'[c] = s /\ tskPc'[c] = "act"
        /\ \A d \in TskCreators \ {c} : tskSlot'[d] = tskSlot[d] /\ tskPc'[d] = tskPc[d]
    BY <2>1, <2>2 DEF TskTypeOK
  <2>5. /\ ~TskToRun(s) /\ tskState[s] # "run"
        /\ \A d \in TskCreators : tskSlot[d] # s
    BY <2>1 DEF TskUsedOK
  <2>6. \A t \in TskSlots : TskToRun(t)' <=> TskToRun(t)
    BY <1>1 DEF TskToRun
  <2>7. tskState[s] \in {"dormant", "exit"}
    BY <2>5 DEF TskTypeOK, TskToRun
  <2>8. TskHandsOK'
    BY <1>1, <2>4, <2>5, <2>7, TskHandsStep DEF TskToRun
  <2>9. TskUsedOK'
    <3>1. tskSlot[c] = 0
      BY <1>1 DEF TskHandsOK
    <3> QED
      BY <1>1, <2>4, <2>5, <3>1, TskUsedStep DEF TskToRun
  <2>10. TskFnsOK'
    <3>1. /\ \A n \in TskIds : n <= tskNext => n <= tskNext' /\ n # tskNext'
          /\ tskNext' <= tskNext'
      BY <1>1, <1>2
    <3>2. \A t \in TskSlots : tskUsed[t] =>
            /\ tskFn[t] \in TskIds /\ tskFn[t] <= tskNext' /\ tskFn[t] # tskNext'
            /\ \A u \in TskSlots \ {t} : tskUsed[u] => tskFn[u] # tskFn[t]
      BY <3>1 DEF TskFnsOK
    <3> SUFFICES ASSUME NEW t \in TskSlots, tskUsed'[t]
                 PROVE  /\ tskFn'[t] \in TskIds /\ tskFn'[t] <= tskNext'
                        /\ \A u \in TskSlots \ {t} : tskUsed'[u] => tskFn'[u] # tskFn'[t]
      BY DEF TskFnsOK
    <3>3. CASE t = s
      BY <1>2, <2>4, <3>1, <3>2, <3>3
    <3>4. CASE t # s
      <4>1. tskUsed[t] /\ tskFn'[t] = tskFn[t]
        BY <2>4, <3>4
      <4>2. ASSUME NEW u \in TskSlots \ {t}, tskUsed'[u] PROVE tskFn'[u] # tskFn'[t]
        <5>1. CASE u = s
          BY <2>4, <3>2, <4>1, <5>1
        <5>2. CASE u # s
          BY <2>4, <3>2, <4>1, <4>2, <5>2
        <5> QED
          BY <5>1, <5>2
      <4> QED
        BY <3>2, <4>1, <4>2
    <3> QED
      BY <3>3, <3>4
  <2>11. TskRunsOK'
    <3>1. tskRuns[tskNext'] = 0
      BY <1>1, <1>2 DEF TskRunsOK
    <3>2. \A i \in tskMade : tskRuns[i] = 1 \/ \E t \in TskSlots : tskFn'[t] = i /\ TskToRun(t)
      BY <2>4, <2>5 DEF TskRunsOK
    <3>3. \A t \in TskSlots : TskToRun(t) \/ (\E d \in TskCreators : tskSlot'[d] = t /\ tskPc'[d] = "act")
                              => tskRuns[tskFn'[t]] = 0
      BY <2>4, <2>5, <3>1 DEF TskRunsOK
    <3>4. \A i \in TskIds : i > tskNext' => i > tskNext
      BY <1>1, <1>2
    <3> QED
      BY <1>1, <2>6, <3>2, <3>3, <3>4 DEF TskRunsOK
  <2> QED
    BY <2>3, <2>8, <2>9, <2>10, <2>11
<1> QED
  BY <1>3, <1>4

\* act_tsk: never refused, so a slot is never given back here.
LEMMA TskActivateInv ==
  ASSUME TskInv, NEW c \in TskCreators, TskActivate(c)
  PROVE  TskInv'
<1> USE TskSlotNumbers DEF TskInv
<1>0. PICK s : s = tskSlot[c]
  OBVIOUS
<1>1. /\ s \in TskSlots /\ tskState[s] \in {"dormant", "exit"} /\ ~tskQueued[s]
      /\ tskPc[c] = "act" /\ \A d \in TskCreators \ {c} : tskSlot[d] # s
  BY <1>0 DEF TskActivate, TskGo, TskHandsOK, TskTypeOK
<1>2. /\ tskPc' = [tskPc EXCEPT ![c] = "idle"] /\ tskSlot' = [tskSlot EXCEPT ![c] = 0]
      /\ tskMade' = tskMade \cup {tskFn[s]}
      /\ \/ /\ tskState[s] = "dormant" /\ tskState' = [tskState EXCEPT ![s] = "start"]
            /\ tskQueued' = tskQueued
         \/ /\ tskState[s] = "exit" /\ tskQueued' = [tskQueued EXCEPT ![s] = TRUE]
            /\ tskState' = tskState
      /\ UNCHANGED <<tskUsed, tskFn, tskNext, tskRuns>>
  BY <1>0, <1>1 DEF TskActivate, TskGo
<1>3. tskUsed[s] /\ tskFn[s] \in TskIds /\ tskRuns[tskFn[s]] = 0
  BY <1>0, <1>1 DEF TskUsedOK, TskFnsOK, TskRunsOK
<1>4. TskTypeOK'
  BY <1>1, <1>2, <1>3 DEF TskTypeOK
<1>5. /\ TskToRun(s)' /\ tskState'[s] # "run"
      /\ tskQueued'[s] => tskState'[s] = "exit"
      /\ \A t \in TskSlots \ {s} : /\ tskState'[t] = tskState[t] /\ tskQueued'[t] = tskQueued[t]
                                   /\ TskToRun(t)' <=> TskToRun(t)
      /\ tskSlot'[c] = 0 /\ tskPc'[c] = "idle"
      /\ \A d \in TskCreators \ {c} : tskSlot'[d] = tskSlot[d] /\ tskPc'[d] = tskPc[d]
  BY <1>1, <1>2 DEF TskTypeOK, TskToRun
<1>6. TskHandsOK'
  BY <1>1, <1>5, TskHandsStep DEF TskTypeOK
<1>7. TskUsedOK'
  BY <1>0, <1>1, <1>2, <1>3, <1>5, TskUsedStep DEF TskToRun
<1>8. TskFnsOK'
  BY <1>2 DEF TskFnsOK
<1>9. TskRunsOK'
  BY <1>1, <1>2, <1>3, <1>5 DEF TskRunsOK
<1> QED
  BY <1>4, <1>6, <1>7, <1>8, <1>9

\* esp_shim_task_entry, and the end of the kernel task.
LEMMA TskEntryInv ==
  ASSUME TskInv, NEW s \in TskSlots, TskStart(s) \/ TskEnd(s) \/ TskExit(s)
  PROVE  TskInv'
<1> USE TskSlotNumbers DEF TskInv
<1>1. UNCHANGED <<tskFn, tskPc, tskSlot, tskNext, tskMade>>
  BY DEF TskStart, TskEnd, TskExit, tskPool, tskHist
<1>2. CASE TskStart(s)
  <2>1. /\ tskState[s] = "start" /\ tskState' = [tskState EXCEPT ![s] = "run"]
        /\ tskRuns' = [tskRuns EXCEPT ![tskFn[s]] = @ + 1]
        /\ UNCHANGED <<tskUsed, tskQueued>>
    BY <1>2 DEF TskStart, tskPool
  <2>2. TskToRun(s) /\ ~tskQueued[s] /\ tskUsed[s]
    BY <2>1 DEF TskToRun, TskUsedOK
  <2>3. tskFn[s] \in TskIds /\ tskRuns[tskFn[s]] = 0
    BY <2>2 DEF TskFnsOK, TskRunsOK
  <2>4. /\ tskState'[s] = "run" /\ ~TskToRun(s)'
        /\ \A t \in TskSlots \ {s} : tskState'[t] = tskState[t] /\ (TskToRun(t)' <=> TskToRun(t))
        /\ tskRuns'[tskFn[s]] = 1
        /\ \A i \in TskIds \ {tskFn[s]} : tskRuns'[i] = tskRuns[i]
    BY <2>1, <2>2, <2>3 DEF TskTypeOK, TskToRun
  <2>5. TskTypeOK'
    BY <1>1, <2>1, <2>3 DEF TskTypeOK
  <2>6. \A c \in TskCreators : tskSlot[c] # s
    BY <2>1 DEF TskHandsOK
  <2>7. TskHandsOK'
    BY <1>1, <2>1, <2>4, <2>6 DEF TskHandsOK, TskTypeOK
  <2>8. TskUsedOK' /\ TskFnsOK'
    BY <1>1, <2>1, <2>2, <2>4 DEF TskUsedOK, TskFnsOK
  <2>9. \A t \in TskSlots \ {s} :
          TskToRun(t) \/ (\E c \in TskCreators : tskSlot[c] = t) => tskFn[t] \in TskIds \ {tskFn[s]}
    BY <2>2 DEF TskUsedOK, TskFnsOK
  <2>10. TskRunsOK'
    <3>1. \A t \in TskSlots :
            TskToRun(t)' \/ (\E c \in TskCreators : tskSlot'[c] = t /\ tskPc'[c] = "act")
            => tskRuns'[tskFn'[t]] = 0
      BY <1>1, <2>4, <2>6, <2>9 DEF TskRunsOK
    <3>2. \A i \in TskIds : tskRuns'[i] \in 0..1 /\ (i > tskNext' => tskRuns'[i] = 0)
      BY <1>1, <2>2, <2>4 DEF TskRunsOK, TskFnsOK, TskTypeOK
    <3>3. \A i \in tskMade : tskRuns'[i] = 1 \/ \E t \in TskSlots : tskFn'[t] = i /\ TskToRun(t)'
      BY <1>1, <2>4 DEF TskRunsOK, TskTypeOK
    <3> QED
      BY <1>1, <3>1, <3>2, <3>3 DEF TskRunsOK
  <2> QED
    BY <2>5, <2>7, <2>8, <2>10
<1>3. CASE TskEnd(s)
  <2>1. /\ tskState[s] = "run" /\ \A c \in TskCreators : tskSlot[c] # s
        /\ tskUsed' = [tskUsed EXCEPT ![s] = FALSE]
        /\ tskState' = [tskState EXCEPT ![s] = "exit"]
        /\ UNCHANGED <<tskQueued, tskRuns>>
    BY <1>3 DEF TskEnd, tskHist
  <2>2. ~tskQueued[s]
    BY <2>1 DEF TskUsedOK
  <2>3. /\ tskState'[s] = "exit" /\ ~tskUsed'[s]
        /\ \A t \in TskSlots : TskToRun(t)' <=> TskToRun(t)
        /\ \A t \in TskSlots \ {s} : tskState'[t] = tskState[t] /\ tskUsed'[t] = tskUsed[t]
    BY <2>1, <2>2 DEF TskTypeOK, TskToRun
  <2>4. TskTypeOK'
    BY <1>1, <2>1 DEF TskTypeOK
  <2>5. TskHandsOK'
    BY <1>1, <2>1, <2>3 DEF TskHandsOK, TskTypeOK
  <2>6. TskUsedOK'
    BY <1>1, <2>1, <2>2, <2>3 DEF TskUsedOK, TskToRun
  <2>7. TskFnsOK' /\ TskRunsOK'
    BY <1>1, <2>1, <2>3 DEF TskFnsOK, TskRunsOK
  <2> QED
    BY <2>4, <2>5, <2>6, <2>7
<1>4. CASE TskExit(s)
  <2>1. /\ tskState[s] = "exit"
        /\ tskState' = [tskState EXCEPT ![s] = IF tskQueued[s] THEN "start" ELSE "dormant"]
        /\ tskQueued' = [tskQueued EXCEPT ![s] = FALSE]
        /\ UNCHANGED <<tskUsed, tskRuns>>
    BY <1>4 DEF TskExit, TskDormant, tskPool, tskHist
  <2>2. /\ \A t \in TskSlots : TskToRun(t)' <=> TskToRun(t)
        /\ ~tskQueued'[s] /\ tskState'[s] \in {"start", "dormant"}
        /\ tskState'[s] = "start" <=> tskQueued[s]
        /\ \A t \in TskSlots \ {s} : tskState'[t] = tskState[t] /\ tskQueued'[t] = tskQueued[t]
    BY <2>1 DEF TskTypeOK, TskToRun
  <2>3. TskTypeOK'
    BY <1>1, <2>1 DEF TskTypeOK
  <2>4. TskHandsOK'
    BY <1>1, <2>1, <2>2 DEF TskHandsOK, TskTypeOK
  <2>5. TskUsedOK'
    BY <1>1, <2>1, <2>2 DEF TskUsedOK
  <2>6. TskFnsOK' /\ TskRunsOK'
    BY <1>1, <2>1, <2>2 DEF TskFnsOK, TskRunsOK
  <2> QED
    BY <2>3, <2>4, <2>5, <2>6
<1> QED
  BY <1>2, <1>3, <1>4

\* esp_shim_task_delete.
LEMMA TskDeleteInv ==
  ASSUME TskInv, NEW c \in TskCreators, TskDelete(c)
  PROVE  TskInv'
<1> USE TskSlotNumbers DEF TskInv
<1>1. UNCHANGED <<tskFn, tskNext, tskMade, tskRuns>>
  BY DEF TskDelete, tskHist
<1>2. CASE tskPc[c] = "idle"
  <2>1. PICK s \in TskSlots :
          /\ tskState[s] = "run" /\ \A d \in TskCreators : tskSlot[d] # s
          /\ tskPc' = [tskPc EXCEPT ![c] = "free"]
          /\ TskDormant(s)
          /\ tskSlot' = [tskSlot EXCEPT ![c] = s]
          /\ UNCHANGED tskUsed
    BY <1>2 DEF TskDelete, TskGo
  <2>2. ~tskQueued[s] /\ tskUsed[s]
    BY <2>1 DEF TskUsedOK
  <2>3. /\ tskState' = [tskState EXCEPT ![s] = "dormant"]
        /\ tskQueued' = [tskQueued EXCEPT ![s] = FALSE]
    BY <2>1, <2>2 DEF TskDormant
  <2>4. /\ \A t \in TskSlots : TskToRun(t)' <=> TskToRun(t)
        /\ \A t \in TskSlots : tskQueued'[t] = tskQueued[t]
        /\ tskState'[s] = "dormant"
        /\ \A t \in TskSlots \ {s} : tskState'[t] = tskState[t]
        /\ tskSlot'[c] = s /\ tskPc'[c] = "free"
        /\ \A d \in TskCreators \ {c} : tskSlot'[d] = tskSlot[d] /\ tskPc'[d] = tskPc[d]
    BY <2>1, <2>2, <2>3 DEF TskTypeOK, TskToRun
  <2>5. TskTypeOK'
    BY <1>1, <2>1, <2>3 DEF TskTypeOK
  <2>7. tskSlot[c] = 0
    BY <1>2 DEF TskHandsOK
  <2>6. TskHandsOK'
    <3>1. \A d \in TskCreators \ {c} :
            tskSlot[d] # 0 => /\ tskState'[tskSlot[d]] = tskState[tskSlot[d]]
                              /\ tskQueued'[tskSlot[d]] = tskQueued[tskSlot[d]]
      BY <2>1, <2>4 DEF TskTypeOK
    <3>2. tskState'[s] \in {"dormant", "exit"} /\ ~tskQueued'[s] /\ s # 0
      BY <2>2, <2>4
    <3>3. \A d \in TskCreators \ {c} : tskSlot'[d] = tskSlot[d] /\ tskSlot[d] # s
      BY <2>1, <2>4
    <3> QED
      BY <2>4, <3>1, <3>2, <3>3, TskHandsStep
  <2>8. TskUsedOK'
    <3>1. \A t \in TskSlots \ {s} :
            (\E d \in TskCreators : tskSlot'[d] = t) <=> (\E d \in TskCreators : tskSlot[d] = t)
      BY <2>4, <2>7
    <3>2. ~tskQueued'[s] /\ tskUsed'[s] /\ \E d \in TskCreators : tskSlot'[d] = s
      BY <2>1, <2>2, <2>4
    <3>3. \A t \in TskSlots \ {s} : /\ tskUsed'[t] = tskUsed[t] /\ tskState'[t] = tskState[t]
                                    /\ tskQueued'[t] = tskQueued[t]
      BY <2>1, <2>4
    <3> QED
      BY <3>1, <3>2, <3>3, TskUsedStep
  <2>9. TskFnsOK' /\ TskRunsOK'
    BY <1>1, <2>1, <2>4 DEF TskFnsOK, TskRunsOK
  <2> QED
    BY <2>5, <2>6, <2>8, <2>9
<1>3. CASE tskPc[c] # "idle"
  <2>0. PICK s : s = tskSlot[c]
    OBVIOUS
  <2>1. /\ tskPc[c] = "free" /\ tskPc' = [tskPc EXCEPT ![c] = "idle"]
        /\ tskUsed' = [tskUsed EXCEPT ![s] = FALSE]
        /\ tskSlot' = [tskSlot EXCEPT ![c] = 0]
        /\ UNCHANGED <<tskState, tskQueued>>
    BY <1>3, <2>0 DEF TskDelete, TskGo, tskKern
  <2>2. /\ s \in TskSlots /\ tskState[s] \in {"dormant", "exit"} /\ ~tskQueued[s]
        /\ \A d \in TskCreators \ {c} : tskSlot[d] # s
    BY <1>3, <2>0 DEF TskHandsOK, TskTypeOK
  <2>4. /\ ~tskUsed'[s] /\ \A t \in TskSlots \ {s} : tskUsed'[t] = tskUsed[t]
        /\ tskSlot'[c] = 0 /\ tskPc'[c] = "idle"
        /\ \A d \in TskCreators \ {c} : tskSlot'[d] = tskSlot[d] /\ tskPc'[d] = tskPc[d]
        /\ \A t \in TskSlots : TskToRun(t)' <=> TskToRun(t)
        /\ ~TskToRun(s)
    BY <2>1, <2>2 DEF TskTypeOK, TskToRun
  <2>5. TskTypeOK'
    BY <1>1, <2>1, <2>2 DEF TskTypeOK
  <2>6. TskHandsOK'
    BY <2>1, <2>2, <2>4, TskHandsStep
  <2>7. TskUsedOK'
    <3>1. \A t \in TskSlots \ {s} :
            (\E d \in TskCreators : tskSlot'[d] = t) <=> (\E d \in TskCreators : tskSlot[d] = t)
      BY <2>0, <2>4
    <3>2. /\ ~tskQueued'[s] /\ ~tskUsed'[s] /\ tskState'[s] \notin {"start", "run"}
          /\ ~\E d \in TskCreators : tskSlot'[d] = s
      BY <2>1, <2>2, <2>4
    <3>3. \A t \in TskSlots \ {s} : /\ tskUsed'[t] = tskUsed[t] /\ tskState'[t] = tskState[t]
                                    /\ tskQueued'[t] = tskQueued[t]
      BY <2>1, <2>4
    <3> QED
      BY <2>2, <3>1, <3>2, <3>3, TskUsedStep
  <2>8. TskFnsOK' /\ TskRunsOK'
    BY <1>1, <2>1, <2>2, <2>4 DEF TskFnsOK, TskRunsOK
  <2> QED
    BY <2>5, <2>6, <2>7, <2>8
<1> QED
  BY <1>2, <1>3

LEMMA TskNextInv == TskInv /\ [TskNext]_tskVars => TskInv'
<1> SUFFICES ASSUME TskInv, [TskNext]_tskVars PROVE TskInv'
  OBVIOUS
<1>1. CASE UNCHANGED tskVars
  BY <1>1 DEF tskVars, tskPool, tskKern, tskHist, TskInv, TskTypeOK, TskHandsOK, TskUsedOK,
              TskFnsOK, TskRunsOK, TskToRun
<1>2. CASE TskNext
  BY <1>2, TskTakeInv, TskActivateInv, TskDeleteInv, TskEntryInv DEF TskNext
<1> QED
  BY <1>1, <1>2

\* Every function whose creation succeeded is called once, by the task of its own
\* slot, although esp_shim_task_entry gives the slot back before its task has ended
\* (esp_shim_core.c:226-284, esp_shim.c:43-99 of the C3): for any number of slots
\* and creators.
THEOREM FunctionsRunOnce == TskSpec => [](TskTypeOK /\ TskEachOnce)
<1>1. TskInv => TskTypeOK /\ TskEachOnce
  <2> SUFFICES ASSUME TskInv PROVE TskTypeOK /\ TskEachOnce
    OBVIOUS
  <2>1. \A i \in TskIds : tskRuns[i] <= 1
    BY DEF TskInv, TskRunsOK
  <2>2. \A i \in tskMade : tskRuns[i] = 1 \/ \E s \in TskSlots : tskFn[s] = i /\ TskToRun(s)
    BY DEF TskInv, TskRunsOK
  <2>3. \A s \in TskSlots : \A c \in TskCreators : tskSlot[c] = s => tskPc[c] \in {"act", "free"}
    BY TskSlotNumbers DEF TskInv, TskHandsOK
  <2>4. \A s \in TskSlots :
          tskUsed[s] <=> \/ tskState[s] \in {"start", "run"} \/ tskQueued[s]
                         \/ \E c \in TskCreators : tskSlot[c] = s /\ tskPc[c] \in {"act", "free"}
    BY <2>3 DEF TskInv, TskUsedOK, TskToRun
  <2> QED
    BY <2>1, <2>2, <2>4 DEF TskInv, TskEachOnce, TskToRun
<1> QED
  BY <1>1, TskInitInv, TskNextInv, PTL DEF TskSpec

(***************************************************************************)
(* The pool of queues.                                                     *)
(***************************************************************************)
QueRecs == [used : BOOLEAN, blocks : SUBSET QueBlocks,
            depth : 0..ESP_SHIM_DTQ_CNT, free : 0..ESP_SHIM_DTQ_CNT,
            pend : 0..ESP_SHIM_DTQ_CNT, debt : 0..ESP_SHIM_DTQ_CNT]

\* Where a task has a queue in hand, and where it has blocks without one.
QueHandsOK ==
  /\ \A p, q \in QueTasks : p # q /\ queHandle[p] # 0 => queHandle[q] # queHandle[p]
  /\ \A p \in QueTasks :
       /\ quePc[p] \in {"claim", "giveback"} => queHandle[p] = 0
       /\ quePc[p] \in {"drain", "fill", "polsem", "pend", "free", "clear"}
          => queHandle[p] # 0
       /\ quePc[p] \notin {"claim", "giveback"} => queMem[p] = {}

\* The accounts of entry r with tok tokens and dtq items, in the hands of a task at pc
\* that has asked for len slots.
QueEntryOK(r, tok, dtq, pc, len) ==
  /\ r.used
  /\ pc = "idle" => r.free + dtq + r.pend = r.depth /\ tok = r.free + r.debt
  /\ pc \in {"drain", "fill"}
     => tok = 0 /\ dtq = 0 /\ r.pend = 0 /\ r.debt = 0 /\ r.free = r.depth /\ r.depth = len
  /\ pc \in {"polsem", "pend", "free", "clear"} => dtq = 0
  /\ pc \in {"pend", "free", "clear"} => tok = 0
  /\ pc \in {"free", "clear"} => r.pend = 0

\* An entry is used by the task that has it in hand; one that nobody has is empty.
QueAccountsOK ==
  /\ \A p \in QueTasks : queHandle[p] # 0 =>
       QueEntryOK(que[queHandle[p]], queTok[queHandle[p]], queDtq[queHandle[p]], quePc[p],
                  queLen[p])
  /\ \A e \in QueEntries :
       /\ que[e].used => \E p \in QueTasks : queHandle[p] = e
       /\ ~que[e].used => /\ queDtq[e] = 0 /\ queTok[e] = 0
                          /\ que[e].pend = 0 /\ que[e].blocks = {}

QuePends    == [e \in QueEntries |-> que[e].pend]
QueTotalOK  == queTotal = SumFunctionOnSet(QuePends, QueEntries)

\* Every block is free, or of one task.
QueBlocksOK ==
  /\ \A p, q \in QueTasks : p # q => QueBlocksOf(p) \cap QueBlocksOf(q) = {}
  /\ queHeap = QueBlocks \ UNION {QueBlocksOf(p) : p \in QueTasks}

QueInv == QueTypeOK /\ QueHandsOK /\ QueAccountsOK /\ QueTotalOK /\ QueBlocksOK

LEMMA QueBounds ==
  /\ ESP_SHIM_NUM_DTQ \in Nat /\ ESP_SHIM_DTQ_CNT \in Nat /\ QueMaxCalls \in Nat
  /\ QueEntries \subseteq Nat /\ 0 \notin QueEntries /\ IsFiniteSet(QueEntries)
  /\ 0 \in 0 .. ESP_SHIM_DTQ_CNT
<1>1. ESP_SHIM_NUM_DTQ \in Nat /\ ESP_SHIM_DTQ_CNT \in Nat /\ QueMaxCalls \in Nat
  BY QueAssumption
<1>2. IsFiniteSet(1 .. ESP_SHIM_NUM_DTQ)
  BY <1>1, FS_Interval
<1> QED
  BY <1>1, <1>2 DEF QueEntries

\* A queue has at least the pended items of one of its entries.
LEMMA QueTotalStep ==
  ASSUME QueTypeOK, QueTotalOK, NEW e \in QueEntries, NEW k \in Nat,
         \A d \in QueEntries \ {e} : que'[d].pend = que[d].pend, que'[e].pend = k
  PROVE  /\ queTotal - que[e].pend \in Nat
         /\ queTotal' = (queTotal - que[e].pend) + k => QueTotalOK'
<1>1. PICK F : F = QuePends
  OBVIOUS
<1>2. PICK H : H = QuePends'
  OBVIOUS
<1>3. /\ \A d \in QueEntries : F[d] = que[d].pend /\ H[d] = que'[d].pend
      /\ \A d \in QueEntries : F[d] \in Nat
  <2>1. \A d \in QueEntries : que[d].pend \in Nat
    BY QueBounds DEF QueTypeOK
  <2> QED
    BY <1>1, <1>2, <2>1 DEF QuePends
<1>4. \A d \in QueEntries : F[d] \in Nat /\ H[d] \in Nat
  BY <1>3
<1>5. \A d \in QueEntries \ {e} : H[d] = F[d]
  BY <1>3
<1>6. SumFunctionOnSet(H, QueEntries) = (SumFunctionOnSet(F, QueEntries) - F[e]) + H[e]
  <2>1. IsFiniteSet(QueEntries)
    BY QueBounds
  <2>2. e \in QueEntries
    OBVIOUS
  <2> QED
    BY <1>4, <1>5, <2>1, <2>2, SumOneChanges
<1>7. queTotal - que[e].pend \in Nat
  <2>1. SumFunctionOnSet(F, QueEntries) = F[e] + SumFunctionOnSet(F, QueEntries \ {e})
    <3>1. IsFiniteSet(QueEntries) /\ e \in QueEntries /\ \A d \in QueEntries : F[d] \in Nat
      BY <1>3, QueBounds
    <3> QED
      BY <3>1, SumTakeOut
  <2>2. IsFiniteSet(QueEntries \ {e})
    BY QueBounds, FS_Subset
  <2>3. SumFunctionOnSet(F, QueEntries \ {e}) \in Nat
    BY <1>3, <2>2, SumNat
  <2>4. queTotal = SumFunctionOnSet(F, QueEntries) /\ F[e] \in Nat /\ F[e] = que[e].pend
    BY <1>1, <1>3 DEF QueTotalOK
  <2> QED
    BY <2>1, <2>3, <2>4
<1>8. ASSUME queTotal' = (queTotal - que[e].pend) + k PROVE QueTotalOK'
  <2>1. queTotal = SumFunctionOnSet(F, QueEntries)
    BY <1>1 DEF QueTotalOK
  <2>2. F[e] = que[e].pend /\ H[e] = k
    BY <1>3
  <2>3. queTotal' = SumFunctionOnSet(H, QueEntries)
    BY <1>6, <1>8, <2>1, <2>2
  <2> QED
    BY <1>2, <2>3 DEF QueTotalOK
<1> QED
  BY <1>7, <1>8

\* A task does something to the queue it has in hand, and to nothing else.
LEMMA QueMineStep ==
  ASSUME QueInv, NEW p \in QueTasks, NEW e, e = queHandle[p], e # 0,
         UNCHANGED queHandle,
         \A d \in QueEntries \ {e} : /\ que'[d] = que[d] /\ queTok'[d] = queTok[d]
                                     /\ queDtq'[d] = queDtq[d],
         \A q \in QueTasks \ {p} : quePc'[q] = quePc[q] /\ queLen'[q] = queLen[q],
         QueEntryOK(que'[e], queTok'[e], queDtq'[e], quePc'[p], queLen'[p])
  PROVE  QueAccountsOK'
<1>1. \A q \in QueTasks : queHandle[q] \in QueEntries \cup {0}
  BY DEF QueInv, QueTypeOK
<1>2. \A q \in QueTasks \ {p} : queHandle[q] # e
  BY DEF QueInv, QueHandsOK
<1>3. ASSUME NEW q \in QueTasks, queHandle'[q] # 0
      PROVE  QueEntryOK(que'[queHandle'[q]], queTok'[queHandle'[q]], queDtq'[queHandle'[q]],
                        quePc'[q], queLen'[q])
  <2>1. CASE q = p
    BY <2>1
  <2>2. CASE q # p
    <3>1. queHandle'[q] = queHandle[q] /\ queHandle[q] \in QueEntries \ {e}
      BY <1>1, <1>2, <1>3, <2>2
    <3>2. QueEntryOK(que[queHandle[q]], queTok[queHandle[q]], queDtq[queHandle[q]], quePc[q],
                     queLen[q])
      BY <1>3, <3>1 DEF QueInv, QueAccountsOK
    <3>3. /\ que'[queHandle[q]] = que[queHandle[q]] /\ queTok'[queHandle[q]] = queTok[queHandle[q]]
          /\ queDtq'[queHandle[q]] = queDtq[queHandle[q]]
          /\ quePc'[q] = quePc[q] /\ queLen'[q] = queLen[q]
      BY <2>2, <3>1
    <3> QED
      BY <3>1, <3>2, <3>3
  <2> QED
    BY <2>1, <2>2
<1>4. ASSUME NEW d \in QueEntries
      PROVE  /\ que'[d].used => \E q \in QueTasks : queHandle'[q] = d
             /\ ~que'[d].used => /\ queDtq'[d] = 0 /\ queTok'[d] = 0
                                 /\ que'[d].pend = 0 /\ que'[d].blocks = {}
  <2>1. CASE d = e
    BY <2>1 DEF QueEntryOK
  <2>2. CASE d # e
    BY <2>2 DEF QueInv, QueAccountsOK
  <2> QED
    BY <2>1, <2>2
<1> QED
  BY <1>3, <1>4 DEF QueAccountsOK

\* The blocks, when a step changes those of task p at most.
LEMMA QueBlocksStep ==
  ASSUME QueInv, NEW p \in QueTasks,
         \A q \in QueTasks \ {p} : QueBlocksOf(q)' = QueBlocksOf(q),
         QueBlocksOf(p)' \subseteq QueBlocksOf(p) \cup queHeap,
         queHeap' = (queHeap \cup QueBlocksOf(p)) \ QueBlocksOf(p)'
  PROVE  QueBlocksOK'
<1>1. PICK B : B = [q \in QueTasks |-> QueBlocksOf(q)]
  OBVIOUS
<1>2. PICK C : C = [q \in QueTasks |-> QueBlocksOf(q)']
  OBVIOUS
<1>3. /\ \A q \in QueTasks : B[q] = QueBlocksOf(q) /\ C[q] = QueBlocksOf(q)'
  BY <1>1, <1>2
<1>4. /\ \A q, r \in QueTasks : q # r => B[q] \cap B[r] = {}
      /\ queHeap = QueBlocks \ UNION {B[q] : q \in QueTasks}
  BY <1>3 DEF QueInv, QueBlocksOK
<1>5. /\ \A q \in QueTasks \ {p} : C[q] = B[q]
      /\ C[p] \subseteq B[p] \cup queHeap /\ queHeap' = (queHeap \cup B[p]) \ C[p]
  BY <1>3
<1>6. B[p] \subseteq QueBlocks
  <2>1. QueBlocksOf(p) \subseteq QueBlocks
    BY DEF QueInv, QueTypeOK, QueBlocksOf
  <2> QED
    BY <1>3, <2>1
<1>7. /\ \A q, r \in QueTasks : q # r => C[q] \cap C[r] = {}
      /\ queHeap' = QueBlocks \ UNION {C[q] : q \in QueTasks}
  <2>1. ASSUME NEW q \in QueTasks \ {p} PROVE C[p] \cap C[q] = {}
    BY <1>4, <1>5
  <2>2. \A q, r \in QueTasks : q # r => C[q] \cap C[r] = {}
    BY <1>4, <1>5, <2>1
  <2>3. \A b : b \in queHeap' <=> b \in QueBlocks /\ \A q \in QueTasks : b \notin C[q]
    <3> SUFFICES ASSUME NEW b
                 PROVE  b \in queHeap' <=> b \in QueBlocks /\ \A q \in QueTasks : b \notin C[q]
      OBVIOUS
    <3>1. b \in queHeap <=> b \in QueBlocks /\ \A q \in QueTasks : b \notin B[q]
      BY <1>4
    <3>2. b \in queHeap' <=> (b \in queHeap \/ b \in B[p]) /\ b \notin C[p]
      BY <1>5
    <3>3. \A q \in QueTasks \ {p} : b \in C[q] <=> b \in B[q]
      BY <1>5
    <3>4. b \in B[p] => b \in QueBlocks /\ \A q \in QueTasks \ {p} : b \notin B[q]
      BY <1>4, <1>6
    <3>5. b \in C[p] => b \in B[p] \/ b \in queHeap
      BY <1>5
    <3> QED
      BY <3>1, <3>2, <3>3, <3>4, <3>5
  <2> QED
    BY <2>2, <2>3
<1> QED
  BY <1>3, <1>7 DEF QueBlocksOK

\* A task without a queue moves.
LEMMA QueIdleStep ==
  ASSUME QueInv, NEW p \in QueTasks, queHandle[p] = 0, UNCHANGED <<que, queTok, queDtq, queHandle>>,
         \A q \in QueTasks \ {p} : quePc'[q] = quePc[q] /\ queLen'[q] = queLen[q]
  PROVE  QueAccountsOK'
<1>1. ASSUME NEW q \in QueTasks, queHandle[q] # 0
      PROVE  QueEntryOK(que[queHandle[q]], queTok[queHandle[q]], queDtq[queHandle[q]],
                        quePc'[q], queLen'[q])
  <2>1. q \in QueTasks \ {p}
    BY <1>1
  <2>2. QueEntryOK(que[queHandle[q]], queTok[queHandle[q]], queDtq[queHandle[q]], quePc[q],
                   queLen[q])
    BY <1>1 DEF QueInv, QueAccountsOK
  <2> QED
    BY <2>1, <2>2
<1> QED
  BY <1>1 DEF QueInv, QueAccountsOK

\* What a step of p does to the places.
LEMMA QuePlaces ==
  ASSUME QueTypeOK, NEW p \in QueTasks, NEW l, NEW m, QueGo(p, l, m),
         m \in {"idle", "claim", "giveback", "drain", "fill", "polsem", "pend", "free", "clear"}
  PROVE  /\ quePc[p] = l /\ quePc'[p] = m
         /\ \A q \in QueTasks \ {p} : quePc'[q] = quePc[q]
         /\ quePc' \in [QueTasks -> {"idle", "claim", "giveback", "drain", "fill", "polsem",
                                     "pend", "free", "clear"}]
BY DEF QueTypeOK, QueGo

\* No entry's account of pended items changes.
LEMMA QueTotalKept ==
  ASSUME QueTypeOK, QueTotalOK, queTotal' = queTotal,
         \A d \in QueEntries : que'[d].pend = que[d].pend
  PROVE  QueTotalOK'
<1>1. QuePends' = QuePends
  BY DEF QuePends
<1> QED
  BY <1>1 DEF QueTotalOK

\* The blocks of a task are in its hands or with its queue.
LEMMA QueBlocksKept ==
  ASSUME QueInv, UNCHANGED <<queHeap, queMem, queHandle>>,
         \A d \in QueEntries : que'[d].blocks = que[d].blocks,
         \A q \in QueTasks : quePc'[q] = "clear" <=> quePc[q] = "clear"
  PROVE  QueBlocksOK'
<1>1. ASSUME NEW q \in QueTasks PROVE QueBlocksOf(q)' = QueBlocksOf(q)
  <2>1. queHandle[q] = 0 \/ queHandle[q] \in QueEntries
    BY DEF QueInv, QueTypeOK
  <2> QED
    BY <2>1 DEF QueBlocksOf
<1> QED
  BY <1>1 DEF QueInv, QueBlocksOK

LEMMA QueInitInv == QueInit => QueInv
<1> SUFFICES ASSUME QueInit PROVE QueInv
  OBVIOUS
<1>1. QueTypeOK
  <2>1. que \in [QueEntries -> QueRecs]
    BY QueBounds DEF QueInit, QueRecs
  <2>2. /\ queTok \in [QueEntries -> 0 .. ESP_SHIM_DTQ_CNT]
        /\ queDtq \in [QueEntries -> 0 .. ESP_SHIM_DTQ_CNT]
        /\ queLen \in [QueTasks -> 0 .. ESP_SHIM_DTQ_CNT]
    BY QueBounds DEF QueInit
  <2>3. queCalls \in 0 .. QueMaxCalls
    BY QueBounds DEF QueInit
  <2> QED
    BY <2>1, <2>2, <2>3 DEF QueInit, QueTypeOK, QueRecs
<1>2. QueHandsOK
  BY DEF QueInit, QueHandsOK
<1>3. QueAccountsOK
  BY DEF QueInit, QueAccountsOK
<1>4. QueTotalOK
  <2>1. PICK F : F = QuePends
    OBVIOUS
  <2>2. \A e \in QueEntries : F[e] = 0
    BY <2>1 DEF QuePends, QueInit
  <2>3. SumFunctionOnSet(F, QueEntries) = 0
    BY <2>2, QueBounds, SumZero
  <2> QED
    BY <2>1, <2>3 DEF QueInit, QueTotalOK
<1>5. QueBlocksOK
  <2>1. \A q \in QueTasks : QueBlocksOf(q) = {}
    BY DEF QueInit, QueBlocksOf
  <2> QED
    BY <2>1 DEF QueInit, QueBlocksOK
<1> QED
  BY <1>1, <1>2, <1>3, <1>4, <1>5 DEF QueInv

\* The first blocks of the heap, and a length cut to the pool's.
LEMMA QueAllocInv ==
  ASSUME QueInv, NEW p \in QueTasks, QueAlloc(p)
  PROVE  QueInv'
<1>1. PICK m \in {"claim", "giveback"}, got \in SUBSET queHeap :
        /\ QueGo(p, "idle", m) /\ got \subseteq queHeap
        /\ queMem' = [queMem EXCEPT ![p] = got]
        /\ queHeap' = queHeap \ got
  BY DEF QueAlloc
<1>2. PICK len \in QueLens : queLen' = [queLen EXCEPT ![p] = Min({len, ESP_SHIM_DTQ_CNT})]
  BY DEF QueAlloc
<1>3. /\ queHandle[p] = 0 /\ que' = que /\ queTok' = queTok /\ queDtq' = queDtq
      /\ queTotal' = queTotal /\ queHandle' = queHandle
      /\ queCalls < QueMaxCalls /\ queCalls' = queCalls + 1
  BY DEF QueAlloc, QueCall, queKern
<1>4. /\ quePc[p] = "idle" /\ quePc'[p] = m
      /\ \A q \in QueTasks \ {p} : quePc'[q] = quePc[q]
      /\ quePc' \in [QueTasks -> {"idle", "claim", "giveback", "drain", "fill", "polsem",
                                  "pend", "free", "clear"}]
  BY <1>1, QuePlaces DEF QueInv
<1>5. Min({len, ESP_SHIM_DTQ_CNT}) \in 0 .. ESP_SHIM_DTQ_CNT
  <2>1. {len, ESP_SHIM_DTQ_CNT} \subseteq Nat /\ {len, ESP_SHIM_DTQ_CNT} # {}
    BY QueAssumption
  <2>2. /\ Min({len, ESP_SHIM_DTQ_CNT}) \in {len, ESP_SHIM_DTQ_CNT}
        /\ \A x \in {len, ESP_SHIM_DTQ_CNT} : Min({len, ESP_SHIM_DTQ_CNT}) <= x
    BY <2>1, MinIsIn
  <2>3. PICK k : k = Min({len, ESP_SHIM_DTQ_CNT})
    OBVIOUS
  <2>4. k \in Nat /\ k <= ESP_SHIM_DTQ_CNT
    BY <2>1, <2>2, <2>3
  <2>5. k \in 0 .. ESP_SHIM_DTQ_CNT
    BY <2>4, QueBounds
  <2> QED
    BY <2>3, <2>5
<1>6. queMem[p] = {} /\ queMem'[p] = got /\ \A q \in QueTasks \ {p} : queMem'[q] = queMem[q]
  BY <1>1, <1>4 DEF QueInv, QueHandsOK, QueTypeOK
<1>7. QueTypeOK'
  <2>1. queLen' \in [QueTasks -> 0 .. ESP_SHIM_DTQ_CNT]
    BY <1>2, <1>5 DEF QueInv, QueTypeOK
  <2>2. queMem' \in [QueTasks -> SUBSET QueBlocks] /\ queHeap' \subseteq QueBlocks
    BY <1>1 DEF QueInv, QueTypeOK
  <2>3. queCalls' \in 0 .. QueMaxCalls
    BY <1>3, QueBounds DEF QueInv, QueTypeOK
  <2> QED
    BY <1>3, <1>4, <2>1, <2>2, <2>3 DEF QueInv, QueTypeOK
<1>8. QueHandsOK'
  BY <1>3, <1>4, <1>6 DEF QueInv, QueHandsOK
<1>9. QueAccountsOK'
  <2>1. \A q \in QueTasks \ {p} : queLen'[q] = queLen[q]
    BY <1>2 DEF QueInv, QueTypeOK
  <2> QED
    BY <1>3, <1>4, <2>1, QueIdleStep
<1>10. QueTotalOK'
  BY <1>3, QueTotalKept DEF QueInv
<1>11. QueBlocksOK'
  <2>1. QueBlocksOf(p) = {} /\ QueBlocksOf(p)' = got
    BY <1>3, <1>6 DEF QueBlocksOf
  <2>2. \A q \in QueTasks \ {p} : QueBlocksOf(q)' = QueBlocksOf(q)
    BY <1>3, <1>4, <1>6 DEF QueBlocksOf
  <2>3. QueBlocksOf(p)' \subseteq QueBlocksOf(p) \cup queHeap
    BY <1>1, <2>1
  <2>4. queHeap' = (queHeap \cup QueBlocksOf(p)) \ QueBlocksOf(p)'
    BY <1>1, <2>1
  <2> QED
    BY <2>2, <2>3, <2>4, QueBlocksStep
<1> QED
  BY <1>7, <1>8, <1>9, <1>10, <1>11 DEF QueInv

LEMMA QueClaimInv ==
  ASSUME QueInv, NEW p \in QueTasks, QueClaim(p)
  PROVE  QueInv'
<1>1. /\ queTok' = queTok /\ queDtq' = queDtq /\ queTotal' = queTotal /\ queHeap' = queHeap
      /\ queLen' = queLen /\ queCalls' = queCalls
  BY DEF QueClaim, queKern
<1>2. quePc[p] = "claim" /\ queHandle[p] = 0
  BY DEF QueClaim, QueGo, QueInv, QueHandsOK
<1>3. CASE QueGo(p, "claim", "giveback") /\ UNCHANGED <<que, queMem, queHandle>>
  <2>1. /\ quePc'[p] = "giveback" /\ \A q \in QueTasks \ {p} : quePc'[q] = quePc[q]
        /\ quePc' \in [QueTasks -> {"idle", "claim", "giveback", "drain", "fill", "polsem",
                                    "pend", "free", "clear"}]
    BY <1>3, QuePlaces DEF QueInv
  <2>2. QueTypeOK' /\ QueHandsOK'
    BY <1>1, <1>2, <1>3, <2>1 DEF QueInv, QueTypeOK, QueHandsOK
  <2>3. QueAccountsOK'
    BY <1>1, <1>2, <1>3, <2>1, QueIdleStep
  <2>4. QueTotalOK'
    BY <1>1, <1>3, QueTotalKept DEF QueInv
  <2>5. QueBlocksOK'
    <3>1. \A q \in QueTasks : quePc'[q] = "clear" <=> quePc[q] = "clear"
      BY <1>2, <2>1
    <3> QED
      BY <1>1, <1>3, <3>1, QueBlocksKept
  <2> QED
    BY <2>2, <2>3, <2>4, <2>5 DEF QueInv
<1>4. CASE ~ (QueGo(p, "claim", "giveback") /\ UNCHANGED <<que, queMem, queHandle>>)
  <2>1. PICK e : /\ e = Min({x \in QueEntries : ~que[x].used})
                 /\ {x \in QueEntries : ~que[x].used} # {} /\ QueGo(p, "claim", "drain")
                 /\ que' = [que EXCEPT ![e] =
                              [used |-> TRUE, blocks |-> queMem[p], depth |-> queLen[p],
                               free |-> queLen[p], pend |-> 0, debt |-> 0]]
                 /\ queMem' = [queMem EXCEPT ![p] = {}]
                 /\ queHandle' = [queHandle EXCEPT ![p] = e]
    BY <1>4 DEF QueClaim
  <2>2. e \in QueEntries /\ ~que[e].used /\ e # 0
    <3>1. {x \in QueEntries : ~que[x].used} \subseteq Nat
      BY QueBounds
    <3>2. e \in {x \in QueEntries : ~que[x].used}
      BY <2>1, <3>1, MinIsIn
    <3> QED
      BY <3>2, QueBounds
  <2>3. /\ quePc'[p] = "drain" /\ \A q \in QueTasks \ {p} : quePc'[q] = quePc[q]
        /\ quePc' \in [QueTasks -> {"idle", "claim", "giveback", "drain", "fill", "polsem",
                                    "pend", "free", "clear"}]
    BY <2>1, QuePlaces DEF QueInv
  <2>4. PICK r : r = [used |-> TRUE, blocks |-> queMem[p], depth |-> queLen[p],
                      free |-> queLen[p], pend |-> 0, debt |-> 0]
    OBVIOUS
  <2>5. r \in QueRecs /\ r.used /\ r.blocks = queMem[p] /\ r.depth = queLen[p]
        /\ r.free = queLen[p] /\ r.pend = 0 /\ r.debt = 0
    BY <2>4, QueBounds DEF QueInv, QueTypeOK, QueRecs
  <2>6. /\ que'[e] = r /\ \A d \in QueEntries \ {e} : que'[d] = que[d]
        /\ que' \in [QueEntries -> QueRecs]
    BY <2>1, <2>2, <2>4, <2>5 DEF QueInv, QueTypeOK, QueRecs
  <2>7. /\ queMem'[p] = {} /\ \A q \in QueTasks \ {p} : queMem'[q] = queMem[q]
        /\ queMem' \in [QueTasks -> SUBSET QueBlocks]
        /\ queHandle'[p] = e /\ \A q \in QueTasks \ {p} : queHandle'[q] = queHandle[q]
        /\ queHandle' \in [QueTasks -> QueEntries \cup {0}]
    BY <2>1, <2>2 DEF QueInv, QueTypeOK
  <2>8. \A q \in QueTasks : queHandle[q] # e
    <3>1. \A q \in QueTasks : queHandle[q] # 0 => que[queHandle[q]].used
      BY DEF QueInv, QueAccountsOK, QueEntryOK
    <3> QED
      BY <2>2, <3>1
  <2>9. QueTypeOK'
    BY <1>1, <2>3, <2>6, <2>7 DEF QueInv, QueTypeOK, QueRecs
  <2>10. QueHandsOK'
    BY <2>2, <2>3, <2>7, <2>8 DEF QueInv, QueHandsOK
  <2>11. QueAccountsOK'
    <3>1. queTok[e] = 0 /\ queDtq[e] = 0
      BY <2>2 DEF QueInv, QueAccountsOK
    <3>2. QueEntryOK(que'[e], queTok'[e], queDtq'[e], quePc'[p], queLen'[p])
      BY <1>1, <2>3, <2>5, <2>6, <3>1 DEF QueEntryOK
    <3>3. ASSUME NEW q \in QueTasks \ {p}, queHandle[q] # 0
          PROVE  QueEntryOK(que'[queHandle[q]], queTok'[queHandle[q]], queDtq'[queHandle[q]],
                            quePc'[q], queLen'[q])
      <4>1. queHandle[q] \in QueEntries \ {e}
        BY <2>8, <3>3 DEF QueInv, QueTypeOK
      <4>2. QueEntryOK(que[queHandle[q]], queTok[queHandle[q]], queDtq[queHandle[q]],
                       quePc[q], queLen[q])
        BY <3>3 DEF QueInv, QueAccountsOK
      <4> QED
        BY <1>1, <2>3, <2>6, <4>1, <4>2
    <3>4. ASSUME NEW d \in QueEntries
          PROVE  /\ que'[d].used => \E q \in QueTasks : queHandle'[q] = d
                 /\ ~que'[d].used => /\ queDtq'[d] = 0 /\ queTok'[d] = 0
                                     /\ que'[d].pend = 0 /\ que'[d].blocks = {}
      <4>1. CASE d = e
        BY <2>5, <2>6, <2>7, <4>1
      <4>2. CASE d # e
        <5>1. que'[d] = que[d]
          BY <2>6, <4>2
        <5>2. que[d].used => \E q \in QueTasks : queHandle[q] = d
          BY DEF QueInv, QueAccountsOK
        <5>3. \A q \in QueTasks : queHandle[q] = d => queHandle'[q] = d
          BY <1>2, <2>7, QueBounds
        <5> QED
          BY <1>1, <5>1, <5>2, <5>3 DEF QueInv, QueAccountsOK
      <4> QED
        BY <4>1, <4>2
    <3>5. \A q \in QueTasks : queHandle'[q] # 0 =>
            QueEntryOK(que'[queHandle'[q]], queTok'[queHandle'[q]], queDtq'[queHandle'[q]],
                       quePc'[q], queLen'[q])
      BY <2>7, <3>2, <3>3
    <3> QED
      BY <3>4, <3>5 DEF QueAccountsOK
  <2>12. QueTotalOK'
    <3>1. que[e].pend = 0
      BY <2>2 DEF QueInv, QueAccountsOK
    <3> QED
      BY <1>1, <2>5, <2>6, <3>1, QueTotalKept DEF QueInv
  <2>13. QueBlocksOK'
    <3>1. QueBlocksOf(p) = queMem[p] /\ QueBlocksOf(p)' = queMem[p]
      BY <1>2, <2>2, <2>3, <2>5, <2>6, <2>7 DEF QueBlocksOf
    <3>2. ASSUME NEW q \in QueTasks \ {p} PROVE QueBlocksOf(q)' = QueBlocksOf(q)
      <4>1. queHandle[q] = 0 \/ queHandle[q] \in QueEntries \ {e}
        BY <2>8 DEF QueInv, QueTypeOK
      <4> QED
        BY <2>3, <2>6, <2>7, <4>1 DEF QueBlocksOf
    <3>3. \A q \in QueTasks : QueBlocksOf(q)' = QueBlocksOf(q)
      BY <3>1, <3>2
    <3> QED
      BY <1>1, <3>3 DEF QueInv, QueBlocksOK
  <2> QED
    BY <2>9, <2>10, <2>11, <2>12, <2>13 DEF QueInv
<1> QED
  BY <1>3, <1>4

LEMMA QueGiveBackInv ==
  ASSUME QueInv, NEW p \in QueTasks, QueGiveBack(p)
  PROVE  QueInv'
<1>1. /\ que' = que /\ queTok' = queTok /\ queDtq' = queDtq /\ queTotal' = queTotal
      /\ queHandle' = queHandle /\ queCalls' = queCalls
      /\ queHeap' = queHeap \cup queMem[p]
      /\ queMem' = [queMem EXCEPT ![p] = {}] /\ queLen' = [queLen EXCEPT ![p] = 0]
  BY DEF QueGiveBack, queKern
<1>2. quePc[p] = "giveback" /\ queHandle[p] = 0
  BY DEF QueGiveBack, QueGo, QueInv, QueHandsOK
<1>3. /\ quePc'[p] = "idle" /\ \A q \in QueTasks \ {p} : quePc'[q] = quePc[q]
      /\ quePc' \in [QueTasks -> {"idle", "claim", "giveback", "drain", "fill", "polsem",
                                  "pend", "free", "clear"}]
  BY QuePlaces DEF QueInv, QueGiveBack
<1>4. /\ queMem'[p] = {} /\ \A q \in QueTasks \ {p} : queMem'[q] = queMem[q]
      /\ queMem' \in [QueTasks -> SUBSET QueBlocks] /\ queHeap' \subseteq QueBlocks
      /\ \A q \in QueTasks \ {p} : queLen'[q] = queLen[q]
      /\ queLen' \in [QueTasks -> 0 .. ESP_SHIM_DTQ_CNT]
  BY <1>1, QueBounds DEF QueInv, QueTypeOK
<1>5. QueTypeOK'
  BY <1>1, <1>3, <1>4 DEF QueInv, QueTypeOK
<1>6. QueHandsOK'
  BY <1>1, <1>2, <1>3, <1>4 DEF QueInv, QueHandsOK
<1>7. QueAccountsOK'
  BY <1>1, <1>2, <1>3, <1>4, QueIdleStep
<1>8. QueTotalOK'
  BY <1>1, QueTotalKept DEF QueInv
<1>9. QueBlocksOK'
  <2>1. QueBlocksOf(p) = queMem[p] /\ QueBlocksOf(p)' = {}
    BY <1>1, <1>2, <1>4 DEF QueBlocksOf
  <2>2. \A q \in QueTasks \ {p} : QueBlocksOf(q)' = QueBlocksOf(q)
    BY <1>1, <1>3, <1>4 DEF QueBlocksOf
  <2>3. /\ QueBlocksOf(p)' \subseteq QueBlocksOf(p) \cup queHeap
        /\ queHeap' = (queHeap \cup QueBlocksOf(p)) \ QueBlocksOf(p)'
    BY <1>1, <2>1
  <2> QED
    BY <2>2, <2>3, QueBlocksStep
<1> QED
  BY <1>5, <1>6, <1>7, <1>8, <1>9 DEF QueInv

\* The queue in a task's hands.
LEMMA QueMine ==
  ASSUME QueInv, NEW p \in QueTasks, queHandle[p] # 0
  PROVE  /\ queHandle[p] \in QueEntries /\ que[queHandle[p]] \in QueRecs
         /\ queTok[queHandle[p]] \in 0 .. ESP_SHIM_DTQ_CNT
         /\ queDtq[queHandle[p]] \in 0 .. ESP_SHIM_DTQ_CNT
         /\ queLen[p] \in 0 .. ESP_SHIM_DTQ_CNT
         /\ QueEntryOK(que[queHandle[p]], queTok[queHandle[p]], queDtq[queHandle[p]],
                       quePc[p], queLen[p])
<1>1. queHandle[p] \in QueEntries
  BY DEF QueInv, QueTypeOK
<1> QED
  BY <1>1 DEF QueInv, QueTypeOK, QueAccountsOK, QueRecs

\* The semaphore is emptied, then filled.
LEMMA QueFillInv ==
  ASSUME QueInv, NEW p \in QueTasks, QueFill(p)
  PROVE  QueInv'
<1>1. /\ que' = que /\ queDtq' = queDtq /\ queTotal' = queTotal /\ queHeap' = queHeap
      /\ queMem' = queMem /\ queHandle' = queHandle /\ queCalls' = queCalls
  BY DEF QueFill
<1>2. quePc[p] \in {"drain", "fill"} /\ queHandle[p] # 0
  BY DEF QueFill, QueGo, QueInv, QueHandsOK
<1>3. PICK e : e = queHandle[p]
  OBVIOUS
<1>4. /\ e \in QueEntries /\ e # 0 /\ queTok[e] = 0 /\ queLen[p] \in 0 .. ESP_SHIM_DTQ_CNT
      /\ QueEntryOK(que[e], queTok[e], queDtq[e], quePc[p], queLen[p])
  BY <1>2, <1>3, QueMine DEF QueEntryOK
<1>5. \/ /\ QueGo(p, "drain", "fill") /\ queTok' = [queTok EXCEPT ![e] = 0] /\ queLen' = queLen
      \/ /\ QueGo(p, "fill", "idle") /\ queTok' = [queTok EXCEPT ![e] = @ + queLen[p]]
         /\ queLen' = [queLen EXCEPT ![p] = 0]
  BY <1>3 DEF QueFill
<1>6. /\ quePc' \in [QueTasks -> {"idle", "claim", "giveback", "drain", "fill", "polsem",
                                  "pend", "free", "clear"}]
      /\ quePc'[p] \in {"fill", "idle"} /\ \A q \in QueTasks \ {p} : quePc'[q] = quePc[q]
  BY <1>5, QuePlaces DEF QueInv
<1>7. /\ \A q \in QueTasks \ {p} : queLen'[q] = queLen[q]
      /\ \A d \in QueEntries \ {e} : queTok'[d] = queTok[d]
      /\ queLen' \in [QueTasks -> 0 .. ESP_SHIM_DTQ_CNT]
  BY <1>4, <1>5, QueBounds DEF QueInv, QueTypeOK
<1>8. /\ queTok'[e] \in 0 .. ESP_SHIM_DTQ_CNT
      /\ QueEntryOK(que'[e], queTok'[e], queDtq'[e], quePc'[p], queLen'[p])
  <2>1. CASE QueGo(p, "drain", "fill")
    <3>1. queTok'[e] = 0 /\ queLen'[p] = queLen[p] /\ quePc[p] = "drain" /\ quePc'[p] = "fill"
      BY <1>4, <1>5, <1>6, <2>1 DEF QueInv, QueTypeOK, QueGo
    <3> QED
      BY <1>1, <1>4, <3>1, QueBounds DEF QueEntryOK
  <2>2. CASE QueGo(p, "fill", "idle")
    <3>1. queTok'[e] = 0 + queLen[p] /\ quePc[p] = "fill" /\ quePc'[p] = "idle"
      BY <1>4, <1>5, <1>6, <2>2 DEF QueInv, QueTypeOK, QueGo
    <3>2. queTok'[e] = queLen[p]
      BY <1>4, <3>1, QueBounds
    <3>3. que[e].depth \in Nat
      BY <1>2, <1>3, QueMine, QueBounds DEF QueRecs
    <3> QED
      BY <1>1, <1>4, <3>1, <3>2, <3>3, QueBounds DEF QueEntryOK
  <2> QED
    BY <1>5, <2>1, <2>2
<1>9. QueTypeOK'
  <2>1. queTok' \in [QueEntries -> 0 .. ESP_SHIM_DTQ_CNT]
    BY <1>5, <1>8 DEF QueInv, QueTypeOK
  <2> QED
    BY <1>1, <1>6, <1>7, <2>1 DEF QueInv, QueTypeOK
<1>10. QueHandsOK'
  BY <1>1, <1>2, <1>6 DEF QueInv, QueHandsOK
<1>11. QueAccountsOK'
  BY <1>1, <1>3, <1>4, <1>6, <1>7, <1>8, QueMineStep
<1>12. QueTotalOK'
  BY <1>1, QueTotalKept DEF QueInv
<1>13. QueBlocksOK'
  BY <1>1, <1>2, <1>6, QueBlocksKept
<1> QED
  BY <1>9, <1>10, <1>11, <1>12, <1>13 DEF QueInv

\* A send or a receive changes the accounts of one queue.
LEMMA QueAccountStep ==
  ASSUME QueInv, NEW p \in QueTasks, NEW e \in QueEntries, e = queHandle[p],
         quePc[p] = "idle", quePc' = quePc, UNCHANGED <<queHeap, queMem, queLen, queHandle>>,
         NEW r \in QueRecs, que' = [que EXCEPT ![e] = r], r.used, r.blocks = que[e].blocks,
         NEW t \in 0 .. ESP_SHIM_DTQ_CNT, queTok' = [queTok EXCEPT ![e] = t],
         NEW d \in 0 .. ESP_SHIM_DTQ_CNT, queDtq' = [queDtq EXCEPT ![e] = d],
         r.free + d + r.pend = r.depth, t = r.free + r.debt,
         queTotal' = (queTotal - que[e].pend) + r.pend, queCalls' \in 0 .. QueMaxCalls
  PROVE  QueInv'
<1>1. /\ que'[e] = r /\ queTok'[e] = t /\ queDtq'[e] = d
      /\ \A x \in QueEntries \ {e} : /\ que'[x] = que[x] /\ queTok'[x] = queTok[x]
                                     /\ queDtq'[x] = queDtq[x]
      /\ que' \in [QueEntries -> QueRecs]
      /\ queTok' \in [QueEntries -> 0 .. ESP_SHIM_DTQ_CNT]
      /\ queDtq' \in [QueEntries -> 0 .. ESP_SHIM_DTQ_CNT]
  BY DEF QueInv, QueTypeOK, QueRecs
<1>2. r.pend \in Nat
  BY QueBounds DEF QueRecs
<1>3. queTotal - que[e].pend \in Nat /\ QueTotalOK'
  BY <1>1, <1>2, QueTotalStep DEF QueInv
<1>4. queTotal' \in Nat
  BY <1>2, <1>3
<1>5. QueTypeOK'
  BY <1>1, <1>4 DEF QueInv, QueTypeOK, QueRecs
<1>6. QueHandsOK'
  BY DEF QueInv, QueHandsOK
<1>7. QueAccountsOK'
  <2>1. QueEntryOK(r, t, d, "idle", queLen[p])
    BY DEF QueEntryOK
  <2>2. e # 0
    BY QueBounds
  <2>3. QueEntryOK(que'[e], queTok'[e], queDtq'[e], quePc'[p], queLen'[p])
    BY <1>1, <2>1
  <2> QED
    BY <1>1, <2>2, <2>3, QueMineStep
<1>8. QueBlocksOK'
  <2>1. \A x \in QueEntries : que'[x].blocks = que[x].blocks
    BY <1>1
  <2> QED
    BY <2>1, QueBlocksKept
<1> QED
  BY <1>3, <1>5, <1>6, <1>7, <1>8 DEF QueInv

LEMMA QueSendInv ==
  ASSUME QueInv, NEW p \in QueTasks, QueSend(p)
  PROVE  QueInv'
<1>1. PICK e : e = queHandle[p]
  OBVIOUS
<1>2. /\ quePc[p] = "idle" /\ quePc' = quePc /\ queCalls' = queCalls + 1 /\ queCalls < QueMaxCalls
      /\ e # 0 /\ que[e].free > 0 /\ queHeap' = queHeap /\ queMem' = queMem
      /\ queLen' = queLen /\ queHandle' = queHandle
  <2>1. quePc[p] = "idle" /\ quePc' = [quePc EXCEPT ![p] = "idle"]
    BY DEF QueSend, QueGo
  <2>2. quePc' = quePc
    BY <2>1 DEF QueInv, QueTypeOK
  <2> QED
    BY <1>1, <2>1, <2>2 DEF QueSend, QueCall, queLocal
<1>3. queCalls' \in 0 .. QueMaxCalls
  BY <1>2, QueBounds DEF QueInv, QueTypeOK
<1>4. /\ e \in QueEntries /\ que[e] \in QueRecs /\ queTok[e] \in 0 .. ESP_SHIM_DTQ_CNT
      /\ queDtq[e] \in 0 .. ESP_SHIM_DTQ_CNT
      /\ QueEntryOK(que[e], queTok[e], queDtq[e], quePc[p], queLen[p])
  BY <1>1, <1>2, QueMine
<1>5. PICK a : a = que[e]
  OBVIOUS
<1>6. /\ a \in QueRecs /\ a.used /\ a.free + queDtq[e] + a.pend = a.depth
      /\ queTok[e] = a.free + a.debt /\ a.free > 0
      /\ {a.free, a.pend, a.debt, a.depth} \subseteq 0 .. ESP_SHIM_DTQ_CNT
  BY <1>2, <1>4, <1>5 DEF QueEntryOK, QueRecs
<1>7. queTotal \in Nat
  BY DEF QueInv, QueTypeOK
<1>8. CASE /\ queTok[e] > 0 /\ queTok' = [queTok EXCEPT ![e] = @ - 1]
           /\ queDtq' = [queDtq EXCEPT ![e] = @ + 1] /\ que' = [que EXCEPT ![e].free = @ - 1]
           /\ UNCHANGED queTotal
  <2>1. PICK r : r = [a EXCEPT !.free = a.free - 1]
    OBVIOUS
  <2>2. a.free - 1 \in 0 .. ESP_SHIM_DTQ_CNT
    BY <1>6, QueBounds
  <2>3. /\ r \in QueRecs /\ r.free = a.free - 1 /\ r.pend = a.pend /\ r.debt = a.debt
        /\ r.depth = a.depth /\ r.used = a.used /\ r.blocks = a.blocks
    BY <1>6, <2>1, <2>2 DEF QueRecs
  <2>4. que' = [que EXCEPT ![e] = r]
    BY <1>5, <1>8, <2>1
  <2>5. PICK t, d : t = queTok[e] - 1 /\ d = queDtq[e] + 1
    OBVIOUS
  <2>6. queTok' = [queTok EXCEPT ![e] = t] /\ queDtq' = [queDtq EXCEPT ![e] = d]
    BY <1>8, <2>5
  <2>7. /\ t \in 0 .. ESP_SHIM_DTQ_CNT /\ d \in 0 .. ESP_SHIM_DTQ_CNT
        /\ r.free + d + r.pend = r.depth /\ t = r.free + r.debt
    BY <1>4, <1>6, <1>8, <2>3, <2>5, QueBounds
  <2>8. queTotal' = (queTotal - que[e].pend) + r.pend
    BY <1>5, <1>6, <1>7, <1>8, <2>3, QueBounds
  <2>9. r.used /\ r.blocks = que[e].blocks
    BY <1>5, <1>6, <2>3
  <2> QED
    BY <1>1, <1>2, <1>3, <1>4, <2>3, <2>4, <2>6, <2>7, <2>8, <2>9, QueAccountStep
<1>9. CASE /\ que' = [que EXCEPT ![e].free = @ - 1, ![e].pend = @ + 1, ![e].debt = @ + 1]
           /\ queTotal' = queTotal + 1 /\ UNCHANGED queKern
  <2>1. PICK r : r = [a EXCEPT !.free = a.free - 1, !.pend = a.pend + 1, !.debt = a.debt + 1]
    OBVIOUS
  <2>2. /\ a.free - 1 \in 0 .. ESP_SHIM_DTQ_CNT /\ a.pend + 1 \in 0 .. ESP_SHIM_DTQ_CNT
        /\ a.debt + 1 \in 0 .. ESP_SHIM_DTQ_CNT
    BY <1>4, <1>6, QueBounds
  <2>3. /\ r \in QueRecs /\ r.free = a.free - 1 /\ r.pend = a.pend + 1 /\ r.debt = a.debt + 1
        /\ r.depth = a.depth /\ r.used = a.used /\ r.blocks = a.blocks
    BY <1>6, <2>1, <2>2 DEF QueRecs
  <2>4. que' = [que EXCEPT ![e] = r]
    BY <1>4, <1>5, <1>9, <2>1 DEF QueInv, QueTypeOK
  <2>5. PICK t, d : t = queTok[e] /\ d = queDtq[e]
    OBVIOUS
  <2>6. queTok' = [queTok EXCEPT ![e] = t] /\ queDtq' = [queDtq EXCEPT ![e] = d]
    BY <1>4, <1>9, <2>5 DEF QueInv, QueTypeOK, queKern
  <2>7. /\ t \in 0 .. ESP_SHIM_DTQ_CNT /\ d \in 0 .. ESP_SHIM_DTQ_CNT
        /\ r.free + d + r.pend = r.depth /\ t = r.free + r.debt
    BY <1>4, <1>6, <2>3, <2>5, QueBounds
  <2>8. queTotal' = (queTotal - que[e].pend) + r.pend
    BY <1>5, <1>6, <1>7, <1>9, <2>3, QueBounds
  <2>9. r.used /\ r.blocks = que[e].blocks
    BY <1>5, <1>6, <2>3
  <2> QED
    BY <1>1, <1>2, <1>3, <1>4, <2>3, <2>4, <2>6, <2>7, <2>8, <2>9, QueAccountStep
<1> QED
  BY <1>1, <1>8, <1>9 DEF QueSend

LEMMA QueRecvInv ==
  ASSUME QueInv, NEW p \in QueTasks, QueRecv(p)
  PROVE  QueInv'
<1>1. PICK e : e = queHandle[p]
  OBVIOUS
<1>2. /\ quePc[p] = "idle" /\ quePc' = quePc /\ queCalls' = queCalls /\ queTotal' = queTotal
      /\ e # 0 /\ queDtq[e] > 0 /\ queHeap' = queHeap /\ queMem' = queMem
      /\ queLen' = queLen /\ queHandle' = queHandle
  <2>1. quePc[p] = "idle" /\ quePc' = [quePc EXCEPT ![p] = "idle"]
    BY DEF QueRecv, QueGo
  <2>2. quePc' = quePc
    BY <2>1 DEF QueInv, QueTypeOK
  <2> QED
    BY <1>1, <2>1, <2>2 DEF QueRecv, queLocal
<1>3. queCalls' \in 0 .. QueMaxCalls
  BY <1>2 DEF QueInv, QueTypeOK
<1>4. /\ e \in QueEntries /\ que[e] \in QueRecs /\ queTok[e] \in 0 .. ESP_SHIM_DTQ_CNT
      /\ queDtq[e] \in 0 .. ESP_SHIM_DTQ_CNT
      /\ QueEntryOK(que[e], queTok[e], queDtq[e], quePc[p], queLen[p])
  BY <1>1, <1>2, QueMine
<1>5. PICK a : a = que[e]
  OBVIOUS
<1>6. /\ a \in QueRecs /\ a.used /\ a.free + queDtq[e] + a.pend = a.depth
      /\ queTok[e] = a.free + a.debt
      /\ {a.free, a.pend, a.debt, a.depth} \subseteq 0 .. ESP_SHIM_DTQ_CNT
  BY <1>2, <1>4, <1>5 DEF QueEntryOK, QueRecs
<1>7. queTotal \in Nat
  BY DEF QueInv, QueTypeOK
<1>8. PICK d : d = queDtq[e] - 1
  OBVIOUS
<1>9. queDtq' = [queDtq EXCEPT ![e] = d]
  BY <1>1, <1>8 DEF QueRecv
<1>10. CASE a.debt > 0
  <2>1. PICK r : r = [a EXCEPT !.free = a.free + 1, !.debt = a.debt - 1]
    OBVIOUS
  <2>2. a.free + 1 \in 0 .. ESP_SHIM_DTQ_CNT /\ a.debt - 1 \in 0 .. ESP_SHIM_DTQ_CNT
    BY <1>2, <1>4, <1>6, <1>10, QueBounds
  <2>3. /\ r \in QueRecs /\ r.free = a.free + 1 /\ r.pend = a.pend /\ r.debt = a.debt - 1
        /\ r.depth = a.depth /\ r.used = a.used /\ r.blocks = a.blocks
    BY <1>6, <2>1, <2>2 DEF QueRecs
  <2>4. que' = [que EXCEPT ![e] = r]
    BY <1>1, <1>4, <1>5, <1>10, <2>1 DEF QueRecv, QueInv, QueTypeOK
  <2>5. PICK t : t = queTok[e]
    OBVIOUS
  <2>6. queTok' = [queTok EXCEPT ![e] = t]
    BY <1>1, <1>4, <1>5, <1>10, <2>5 DEF QueRecv, QueInv, QueTypeOK
  <2>7. /\ t \in 0 .. ESP_SHIM_DTQ_CNT /\ d \in 0 .. ESP_SHIM_DTQ_CNT
        /\ r.free + d + r.pend = r.depth /\ t = r.free + r.debt
    BY <1>2, <1>4, <1>6, <1>8, <2>3, <2>5, QueBounds
  <2>8. queTotal' = (queTotal - que[e].pend) + r.pend
    BY <1>2, <1>5, <1>6, <1>7, <2>3, QueBounds
  <2>9. r.used /\ r.blocks = que[e].blocks
    BY <1>5, <1>6, <2>3
  <2> QED
    BY <1>1, <1>2, <1>3, <1>4, <1>9, <2>3, <2>4, <2>6, <2>7, <2>8, <2>9, QueAccountStep
<1>11. CASE ~ (a.debt > 0)
  <2>1. PICK r : r = [a EXCEPT !.free = a.free + 1]
    OBVIOUS
  <2>2. a.free + 1 \in 0 .. ESP_SHIM_DTQ_CNT
    BY <1>2, <1>4, <1>6, QueBounds
  <2>3. /\ r \in QueRecs /\ r.free = a.free + 1 /\ r.pend = a.pend /\ r.debt = a.debt
        /\ r.depth = a.depth /\ r.used = a.used /\ r.blocks = a.blocks
    BY <1>6, <2>1, <2>2 DEF QueRecs
  <2>4. que' = [que EXCEPT ![e] = r]
    BY <1>1, <1>4, <1>5, <1>11, <2>1 DEF QueRecv, QueInv, QueTypeOK
  <2>5. PICK t : t = queTok[e] + 1
    OBVIOUS
  <2>6. queTok' = [queTok EXCEPT ![e] = t]
    BY <1>1, <1>4, <1>5, <1>11, <2>5 DEF QueRecv, QueInv, QueTypeOK
  <2>7. /\ t \in 0 .. ESP_SHIM_DTQ_CNT /\ d \in 0 .. ESP_SHIM_DTQ_CNT
        /\ r.free + d + r.pend = r.depth /\ t = r.free + r.debt
    BY <1>2, <1>4, <1>6, <1>8, <1>11, <2>3, <2>5, QueBounds
  <2>8. queTotal' = (queTotal - que[e].pend) + r.pend
    BY <1>2, <1>5, <1>6, <1>7, <2>3, QueBounds
  <2>9. r.used /\ r.blocks = que[e].blocks
    BY <1>5, <1>6, <2>3
  <2> QED
    BY <1>1, <1>2, <1>3, <1>4, <1>9, <2>3, <2>4, <2>6, <2>7, <2>8, <2>9, QueAccountStep
<1> QED
  BY <1>10, <1>11

\* Only a living queue has pended items for a flush to find.
LEMMA QueFlushInv ==
  ASSUME QueInv, QueFlush
  PROVE  QueInv'
<1>1. PICK e \in QueEntries :
        /\ que[e].used /\ que[e].pend > 0
        /\ \A p \in QueTasks : queHandle[p] = e => quePc[p] \notin {"polsem", "pend"}
        /\ que' = [que EXCEPT ![e].pend = @ - 1]
        /\ queDtq' = [queDtq EXCEPT ![e] = @ + 1]
  BY DEF QueFlush
<1>2. /\ quePc' = quePc /\ queCalls' = queCalls /\ queTotal' = queTotal - 1 /\ queTok' = queTok
      /\ queHeap' = queHeap /\ queMem' = queMem /\ queLen' = queLen /\ queHandle' = queHandle
  BY DEF QueFlush, queLocal
<1>3. PICK p \in QueTasks : e = queHandle[p]
  BY <1>1 DEF QueInv, QueAccountsOK
<1>4. /\ que[e] \in QueRecs /\ queTok[e] \in 0 .. ESP_SHIM_DTQ_CNT
      /\ queDtq[e] \in 0 .. ESP_SHIM_DTQ_CNT
      /\ QueEntryOK(que[e], queTok[e], queDtq[e], quePc[p], queLen[p])
  BY <1>3, QueMine, QueBounds
<1>5. quePc[p] = "idle"
  <2>1. quePc[p] \in {"idle", "claim", "giveback", "drain", "fill", "polsem", "pend",
                      "free", "clear"}
    BY DEF QueInv, QueTypeOK
  <2>2. quePc[p] \notin {"claim", "giveback", "polsem", "pend"}
    BY <1>1, <1>3, QueBounds DEF QueInv, QueHandsOK
  <2>3. quePc[p] \notin {"drain", "fill", "free", "clear"}
    <3>1. que[e].pend # 0
      BY <1>1
    <3> QED
      BY <1>4, <3>1 DEF QueEntryOK
  <2> QED
    BY <2>1, <2>2, <2>3
<1>6. PICK a : a = que[e]
  OBVIOUS
<1>7. /\ a \in QueRecs /\ a.used /\ a.free + queDtq[e] + a.pend = a.depth
      /\ queTok[e] = a.free + a.debt /\ a.pend > 0
      /\ {a.free, a.pend, a.debt, a.depth} \subseteq 0 .. ESP_SHIM_DTQ_CNT
  BY <1>1, <1>4, <1>5, <1>6 DEF QueEntryOK, QueRecs
<1>8. PICK r : r = [a EXCEPT !.pend = a.pend - 1]
  OBVIOUS
<1>9. a.pend - 1 \in 0 .. ESP_SHIM_DTQ_CNT
  BY <1>7, QueBounds
<1>10. /\ r \in QueRecs /\ r.free = a.free /\ r.pend = a.pend - 1 /\ r.debt = a.debt
       /\ r.depth = a.depth /\ r.used = a.used /\ r.blocks = a.blocks
  BY <1>7, <1>8, <1>9 DEF QueRecs
<1>11. que' = [que EXCEPT ![e] = r]
  BY <1>1, <1>6, <1>8
<1>12. PICK t, d : t = queTok[e] /\ d = queDtq[e] + 1
  OBVIOUS
<1>13. queTok' = [queTok EXCEPT ![e] = t] /\ queDtq' = [queDtq EXCEPT ![e] = d]
  BY <1>1, <1>2, <1>12 DEF QueInv, QueTypeOK
<1>14. /\ t \in 0 .. ESP_SHIM_DTQ_CNT /\ d \in 0 .. ESP_SHIM_DTQ_CNT
       /\ r.free + d + r.pend = r.depth /\ t = r.free + r.debt
  BY <1>4, <1>7, <1>10, <1>12, QueBounds
<1>15. queTotal' = (queTotal - que[e].pend) + r.pend
  <2>1. queTotal \in Nat
    BY DEF QueInv, QueTypeOK
  <2> QED
    BY <1>2, <1>6, <1>7, <1>10, <2>1, QueBounds
<1>16. r.used /\ r.blocks = que[e].blocks /\ queCalls' \in 0 .. QueMaxCalls
  BY <1>2, <1>6, <1>7, <1>10 DEF QueInv, QueTypeOK
<1> QED
  BY <1>2, <1>3, <1>5, <1>10, <1>11, <1>13, <1>14, <1>15, <1>16, QueAccountStep

\* Deletion: the data queue and the semaphore.
LEMMA QueEmptyInv ==
  ASSUME QueInv, NEW p \in QueTasks, QueEmpty(p)
  PROVE  QueInv'
<1>1. PICK e : e = queHandle[p]
  OBVIOUS
<1>2. /\ e # 0 /\ que' = que /\ queTotal' = queTotal /\ queHeap' = queHeap /\ queMem' = queMem
      /\ queLen' = queLen /\ queHandle' = queHandle /\ queCalls' = queCalls
  BY <1>1 DEF QueEmpty, queLocal
<1>3. \/ /\ QueGo(p, "idle", "polsem") /\ queDtq' = [queDtq EXCEPT ![e] = 0] /\ queTok' = queTok
      \/ /\ QueGo(p, "polsem", "pend") /\ queTok' = [queTok EXCEPT ![e] = 0] /\ queDtq' = queDtq
  BY <1>1 DEF QueEmpty
<1>4. /\ e \in QueEntries /\ QueEntryOK(que[e], queTok[e], queDtq[e], quePc[p], queLen[p])
  BY <1>1, <1>2, QueMine
<1>5. /\ quePc' \in [QueTasks -> {"idle", "claim", "giveback", "drain", "fill", "polsem",
                                  "pend", "free", "clear"}]
      /\ \A q \in QueTasks \ {p} : quePc'[q] = quePc[q]
      /\ \/ quePc[p] = "idle" /\ quePc'[p] = "polsem" /\ queDtq'[e] = 0
         \/ /\ quePc[p] = "polsem" /\ quePc'[p] = "pend" /\ queTok'[e] = 0
            /\ queDtq'[e] = queDtq[e]
  <2>1. QueTypeOK
    BY DEF QueInv
  <2>2. CASE QueGo(p, "idle", "polsem")
    <3>1. queDtq' = [queDtq EXCEPT ![e] = 0]
      BY <1>3, <2>2 DEF QueGo
    <3> QED
      BY <1>4, <2>1, <2>2, <3>1, QuePlaces DEF QueTypeOK
  <2>3. CASE QueGo(p, "polsem", "pend")
    <3>1. queTok' = [queTok EXCEPT ![e] = 0] /\ queDtq' = queDtq
      BY <1>3, <2>3 DEF QueGo
    <3> QED
      BY <1>4, <2>1, <2>3, <3>1, QuePlaces DEF QueTypeOK
  <2> QED
    BY <1>3, <2>2, <2>3
<1>6. /\ queTok' \in [QueEntries -> 0 .. ESP_SHIM_DTQ_CNT]
      /\ queDtq' \in [QueEntries -> 0 .. ESP_SHIM_DTQ_CNT]
      /\ \A x \in QueEntries \ {e} : queTok'[x] = queTok[x] /\ queDtq'[x] = queDtq[x]
  BY <1>3, <1>4, QueBounds DEF QueInv, QueTypeOK
<1>7. QueTypeOK'
  BY <1>2, <1>5, <1>6 DEF QueInv, QueTypeOK
<1>8. QueHandsOK'
  BY <1>1, <1>2, <1>5 DEF QueInv, QueHandsOK
<1>9. QueAccountsOK'
  <2>1. QueEntryOK(que'[e], queTok'[e], queDtq'[e], quePc'[p], queLen'[p])
    BY <1>2, <1>4, <1>5 DEF QueEntryOK
  <2> QED
    BY <1>1, <1>2, <1>5, <1>6, <2>1, QueMineStep
<1>10. QueTotalOK'
  BY <1>2, QueTotalKept DEF QueInv
<1>11. QueBlocksOK'
  BY <1>2, <1>5, QueBlocksKept
<1> QED
  BY <1>7, <1>8, <1>9, <1>10, <1>11 DEF QueInv

\* Deletion: the pend ring.
LEMMA QueDropPendedInv ==
  ASSUME QueInv, NEW p \in QueTasks, QueDropPended(p)
  PROVE  QueInv'
<1>1. PICK e : e = queHandle[p]
  OBVIOUS
<1>2. /\ queTok' = queTok /\ queDtq' = queDtq /\ queHeap' = queHeap /\ queMem' = queMem
      /\ queLen' = queLen /\ queHandle' = queHandle /\ queCalls' = queCalls
      /\ queTotal' = queTotal - que[e].pend /\ que' = [que EXCEPT ![e].pend = 0]
  BY <1>1 DEF QueDropPended, queLocal, queKern
<1>3. /\ quePc[p] = "pend" /\ quePc'[p] = "free"
      /\ quePc' \in [QueTasks -> {"idle", "claim", "giveback", "drain", "fill", "polsem",
                                  "pend", "free", "clear"}]
      /\ \A q \in QueTasks \ {p} : quePc'[q] = quePc[q]
  BY QuePlaces DEF QueDropPended, QueInv
<1>4. /\ e \in QueEntries /\ e # 0 /\ que[e] \in QueRecs
      /\ QueEntryOK(que[e], queTok[e], queDtq[e], quePc[p], queLen[p])
  <2>1. e # 0
    BY <1>1, <1>3 DEF QueInv, QueHandsOK
  <2> QED
    BY <1>1, <2>1, QueMine
<1>5. PICK a, r : a = que[e] /\ r = [a EXCEPT !.pend = 0]
  OBVIOUS
<1>6. /\ r \in QueRecs /\ r.pend = 0 /\ r.used = a.used /\ r.blocks = a.blocks
  BY <1>4, <1>5, QueBounds DEF QueRecs
<1>7. /\ que'[e] = r /\ \A x \in QueEntries \ {e} : que'[x] = que[x]
      /\ que' \in [QueEntries -> QueRecs]
  BY <1>2, <1>4, <1>5, <1>6 DEF QueInv, QueTypeOK, QueRecs
<1>8. queTotal' \in Nat /\ QueTotalOK'
  <2>1. /\ 0 \in Nat /\ que'[e].pend = 0
        /\ \A x \in QueEntries \ {e} : que'[x].pend = que[x].pend
    BY <1>6, <1>7
  <2>2. /\ queTotal - que[e].pend \in Nat
        /\ queTotal' = (queTotal - que[e].pend) + 0 => QueTotalOK'
    BY <1>4, <2>1, QueTotalStep DEF QueInv
  <2> QED
    BY <1>2, <2>2
<1>9. QueTypeOK'
  BY <1>2, <1>3, <1>7, <1>8 DEF QueInv, QueTypeOK, QueRecs
<1>10. QueHandsOK'
  BY <1>2, <1>3 DEF QueInv, QueHandsOK
<1>11. QueAccountsOK'
  <2>1. QueEntryOK(que'[e], queTok'[e], queDtq'[e], quePc'[p], queLen'[p])
    BY <1>2, <1>3, <1>4, <1>5, <1>6, <1>7 DEF QueEntryOK
  <2> QED
    BY <1>1, <1>2, <1>3, <1>4, <1>7, <2>1, QueMineStep
<1>12. QueBlocksOK'
  <2>1. \A x \in QueEntries : que'[x].blocks = que[x].blocks
    BY <1>5, <1>6, <1>7
  <2> QED
    BY <1>2, <1>3, <2>1, QueBlocksKept
<1> QED
  BY <1>8, <1>9, <1>10, <1>11, <1>12 DEF QueInv

\* Deletion: the blocks, then the entry.
LEMMA QueReleaseInv ==
  ASSUME QueInv, NEW p \in QueTasks, QueRelease(p)
  PROVE  QueInv'
<1>1. PICK e : e = queHandle[p]
  OBVIOUS
<1>2. /\ queTok' = queTok /\ queDtq' = queDtq /\ queTotal' = queTotal /\ queMem' = queMem
      /\ queLen' = queLen /\ queCalls' = queCalls
  BY DEF QueRelease, queLocal, queKern
<1>3. quePc[p] \in {"free", "clear"} /\ e # 0 /\ queMem[p] = {}
  BY <1>1 DEF QueRelease, QueGo, QueInv, QueHandsOK
<1>4. /\ e \in QueEntries /\ que[e] \in QueRecs
      /\ QueEntryOK(que[e], queTok[e], queDtq[e], quePc[p], queLen[p])
  BY <1>1, <1>3, QueMine
<1>5. CASE /\ QueGo(p, "free", "clear") /\ queHeap' = queHeap \cup que[e].blocks
           /\ UNCHANGED <<que, queHandle>>
  <2>1. /\ quePc[p] = "free" /\ quePc'[p] = "clear"
        /\ quePc' \in [QueTasks -> {"idle", "claim", "giveback", "drain", "fill", "polsem",
                                    "pend", "free", "clear"}]
        /\ \A q \in QueTasks \ {p} : quePc'[q] = quePc[q]
    BY <1>5, QuePlaces DEF QueInv
  <2>2. QueTypeOK'
    <3>1. queHeap' \subseteq QueBlocks
      BY <1>4, <1>5 DEF QueInv, QueTypeOK, QueRecs
    <3> QED
      BY <1>2, <1>5, <2>1, <3>1 DEF QueInv, QueTypeOK
  <2>3. QueHandsOK'
    BY <1>1, <1>2, <1>3, <1>5, <2>1 DEF QueInv, QueHandsOK
  <2>4. QueAccountsOK'
    <3>1. QueEntryOK(que'[e], queTok'[e], queDtq'[e], quePc'[p], queLen'[p])
      BY <1>2, <1>4, <1>5, <2>1 DEF QueEntryOK
    <3> QED
      BY <1>1, <1>2, <1>3, <1>5, <2>1, <3>1, QueMineStep
  <2>5. QueTotalOK'
    BY <1>2, <1>5, QueTotalKept DEF QueInv
  <2>6. QueBlocksOK'
    <3>1. QueBlocksOf(p) = que[e].blocks /\ QueBlocksOf(p)' = {}
      BY <1>1, <1>2, <1>3, <1>5, <2>1 DEF QueBlocksOf
    <3>2. \A q \in QueTasks \ {p} : QueBlocksOf(q)' = QueBlocksOf(q)
      BY <1>2, <1>5, <2>1 DEF QueBlocksOf
    <3>3. /\ QueBlocksOf(p)' \subseteq QueBlocksOf(p) \cup queHeap
          /\ queHeap' = (queHeap \cup QueBlocksOf(p)) \ QueBlocksOf(p)'
      BY <1>5, <3>1
    <3> QED
      BY <3>2, <3>3, QueBlocksStep
  <2> QED
    BY <2>2, <2>3, <2>4, <2>5, <2>6 DEF QueInv
<1>6. CASE /\ QueGo(p, "clear", "idle")
           /\ que' = [que EXCEPT ![e].used = FALSE, ![e].blocks = {}]
           /\ queHandle' = [queHandle EXCEPT ![p] = 0] /\ UNCHANGED queHeap
  <2>1. /\ quePc[p] = "clear" /\ quePc'[p] = "idle"
        /\ quePc' \in [QueTasks -> {"idle", "claim", "giveback", "drain", "fill", "polsem",
                                    "pend", "free", "clear"}]
        /\ \A q \in QueTasks \ {p} : quePc'[q] = quePc[q]
    BY <1>6, QuePlaces DEF QueInv
  <2>2. PICK a, r : a = que[e] /\ r = [a EXCEPT !.used = FALSE, !.blocks = {}]
    OBVIOUS
  <2>3. /\ r \in QueRecs /\ r.pend = a.pend /\ r.used = FALSE /\ r.blocks = {}
    BY <1>4, <2>2 DEF QueRecs
  <2>4. /\ que'[e] = r /\ \A x \in QueEntries \ {e} : que'[x] = que[x]
        /\ que' \in [QueEntries -> QueRecs]
    BY <1>4, <1>6, <2>2, <2>3 DEF QueInv, QueTypeOK, QueRecs
  <2>5. /\ queHandle'[p] = 0 /\ \A q \in QueTasks \ {p} : queHandle'[q] = queHandle[q]
        /\ queHandle' \in [QueTasks -> QueEntries \cup {0}]
    BY <1>6 DEF QueInv, QueTypeOK
  <2>6. \A q \in QueTasks \ {p} : queHandle[q] # e
    BY <1>1, <1>3 DEF QueInv, QueHandsOK
  <2>7. a.pend = 0 /\ queTok[e] = 0 /\ queDtq[e] = 0
    BY <1>4, <2>1, <2>2 DEF QueEntryOK
  <2>8. QueTypeOK'
    BY <1>2, <1>6, <2>1, <2>4, <2>5 DEF QueInv, QueTypeOK, QueRecs
  <2>9. QueHandsOK'
    BY <1>2, <1>3, <2>1, <2>5 DEF QueInv, QueHandsOK
  <2>10. QueAccountsOK'
    <3>1. ASSUME NEW q \in QueTasks, queHandle'[q] # 0
          PROVE  QueEntryOK(que'[queHandle'[q]], queTok'[queHandle'[q]],
                            queDtq'[queHandle'[q]], quePc'[q], queLen'[q])
      <4>1. /\ q # p /\ queHandle'[q] = queHandle[q] /\ queHandle[q] # 0
            /\ queHandle[q] \in QueEntries \ {e}
        BY <2>5, <2>6, <3>1 DEF QueInv, QueTypeOK
      <4>2. QueEntryOK(que[queHandle[q]], queTok[queHandle[q]], queDtq[queHandle[q]],
                       quePc[q], queLen[q])
        BY <4>1 DEF QueInv, QueAccountsOK
      <4> QED
        BY <1>2, <2>1, <2>4, <4>1, <4>2
    <3>2. ASSUME NEW d \in QueEntries
          PROVE  /\ que'[d].used => \E q \in QueTasks : queHandle'[q] = d
                 /\ ~que'[d].used => /\ queDtq'[d] = 0 /\ queTok'[d] = 0
                                     /\ que'[d].pend = 0 /\ que'[d].blocks = {}
      <4>1. CASE d = e
        BY <1>2, <2>3, <2>4, <2>7, <4>1
      <4>2. CASE d # e
        <5>1. que'[d] = que[d]
          BY <2>4, <4>2
        <5>2. que[d].used => \E q \in QueTasks : queHandle[q] = d
          BY DEF QueInv, QueAccountsOK
        <5>3. \A q \in QueTasks : queHandle[q] = d => queHandle'[q] = d
          BY <1>1, <2>5, <4>2
        <5> QED
          BY <1>2, <5>1, <5>2, <5>3 DEF QueInv, QueAccountsOK
      <4> QED
        BY <4>1, <4>2
    <3> QED
      BY <3>1, <3>2 DEF QueAccountsOK
  <2>11. QueTotalOK'
    <3>1. \A d \in QueEntries : que'[d].pend = que[d].pend
      BY <2>2, <2>3, <2>4
    <3> QED
      BY <1>2, <3>1, QueTotalKept DEF QueInv
  <2>12. QueBlocksOK'
    <3>1. QueBlocksOf(p) = {} /\ QueBlocksOf(p)' = {}
      BY <1>2, <1>3, <2>1, <2>5 DEF QueBlocksOf
    <3>2. ASSUME NEW q \in QueTasks \ {p} PROVE QueBlocksOf(q)' = QueBlocksOf(q)
      <4>1. queHandle[q] = 0 \/ queHandle[q] \in QueEntries \ {e}
        BY <2>6 DEF QueInv, QueTypeOK
      <4> QED
        BY <1>2, <2>1, <2>4, <2>5, <4>1 DEF QueBlocksOf
    <3>3. /\ QueBlocksOf(p)' \subseteq QueBlocksOf(p) \cup queHeap
          /\ queHeap' = (queHeap \cup QueBlocksOf(p)) \ QueBlocksOf(p)'
      BY <1>6, <3>1
    <3> QED
      BY <3>2, <3>3, QueBlocksStep
  <2> QED
    BY <2>8, <2>9, <2>10, <2>11, <2>12 DEF QueInv
<1> QED
  BY <1>1, <1>5, <1>6 DEF QueRelease

LEMMA QueNextInv == QueInv /\ [QueNext]_queVars => QueInv'
<1> SUFFICES ASSUME QueInv, [QueNext]_queVars PROVE QueInv'
  OBVIOUS
<1>1. CASE UNCHANGED queVars
  <2>1. /\ que' = que /\ queTok' = queTok /\ queDtq' = queDtq /\ queTotal' = queTotal
        /\ queHeap' = queHeap /\ quePc' = quePc /\ queMem' = queMem /\ queLen' = queLen
        /\ queHandle' = queHandle /\ queCalls' = queCalls
    BY <1>1 DEF queVars, queKern, queLocal
  <2>2. QueTypeOK' /\ QueHandsOK' /\ QueAccountsOK'
    BY <2>1 DEF QueInv, QueTypeOK, QueHandsOK, QueAccountsOK
  <2>3. QueTotalOK'
    BY <2>1, QueTotalKept DEF QueInv
  <2>4. QueBlocksOK'
    BY <2>1, QueBlocksKept
  <2> QED
    BY <2>2, <2>3, <2>4 DEF QueInv
<1>2. CASE QueNext
  BY <1>2, QueAllocInv, QueClaimInv, QueGiveBackInv, QueFillInv, QueSendInv, QueRecvInv,
     QueFlushInv, QueEmptyInv, QueDropPendedInv, QueReleaseInv DEF QueNext
<1> QED
  BY <1>1, <1>2

LEMMA QueInvClean == QueInv => QueReusedClean
<1> SUFFICES ASSUME QueInv PROVE QueReusedClean
  OBVIOUS
<1>1. ASSUME NEW p \in QueLive
      PROVE  LET e == queHandle[p]
             IN /\ que[e].used
                /\ que[e].free + queDtq[e] + que[e].pend = que[e].depth
                /\ queTok[e] + queDtq[e] + que[e].pend = que[e].depth + que[e].debt
                /\ \A q \in QueLive \ {p} : queHandle[q] # e
  <2>1. PICK e : e = queHandle[p]
    OBVIOUS
  <2>2. p \in QueTasks /\ e # 0 /\ quePc[p] = "idle"
    BY <2>1 DEF QueLive
  <2>3. /\ que[e] \in QueRecs /\ queTok[e] \in 0 .. ESP_SHIM_DTQ_CNT
        /\ queDtq[e] \in 0 .. ESP_SHIM_DTQ_CNT
        /\ QueEntryOK(que[e], queTok[e], queDtq[e], quePc[p], queLen[p])
    BY <2>1, <2>2, QueMine
  <2>4. /\ que[e].used /\ que[e].free + queDtq[e] + que[e].pend = que[e].depth
        /\ queTok[e] = que[e].free + que[e].debt
    BY <2>2, <2>3 DEF QueEntryOK
  <2>5. queTok[e] + queDtq[e] + que[e].pend = que[e].depth + que[e].debt
    <3>1. /\ que[e].free \in Nat /\ que[e].debt \in Nat /\ que[e].pend \in Nat
          /\ que[e].depth \in Nat /\ queTok[e] \in Nat /\ queDtq[e] \in Nat
      BY <2>3, QueBounds DEF QueRecs
    <3> QED
      BY <2>4, <3>1
  <2>6. \A q \in QueLive \ {p} : queHandle[q] # e
    BY <2>1, <2>2 DEF QueInv, QueHandsOK, QueLive
  <2> QED
    BY <2>1, <2>4, <2>5, <2>6
<1>2. \A e \in QueEntries : ~que[e].used => queDtq[e] = 0 /\ queTok[e] = 0
  BY DEF QueInv, QueAccountsOK
<1>3. queTotal = SumFunction([e \in QueEntries |-> que[e].pend])
  BY DEF QueInv, QueTotalOK, QuePends, SumFunction
<1>4. /\ \A p, q \in QueTasks : p # q => QueBlocksOf(p) \cap QueBlocksOf(q) = {}
      /\ queHeap = QueBlocks \ UNION {QueBlocksOf(p) : p \in QueTasks}
  BY DEF QueInv, QueBlocksOK
<1> QED
  BY <1>1, <1>2, <1>3, <1>4 DEF QueReusedClean

\* A queue starts with what esp_shim_queue_create gives it and nothing of the queue that
\* had its entry before, through any order of creations, failures, sends, flushes and
\* deletions, for every size of the pools (esp_shim_core.c): the data queue taken unseen
\* is empty because esp_shim_queue_delete has emptied it.
THEOREM QueuesStartClean == QueSpec => [](QueTypeOK /\ QueReusedClean)
<1>1. QueInv => QueTypeOK /\ QueReusedClean
  BY QueInvClean DEF QueInv
<1> QED
  BY <1>1, QueInitInv, QueNextInv, PTL DEF QueSpec

(***************************************************************************)
(* The heap.  The blocks tile heap_area; each block in use is held by one  *)
(* caller, through one of its two pointers; and what is written where no   *)
(* header is belongs to the holder of the block around it.                 *)
(***************************************************************************)
HeapBlocks == DOMAIN heap
HeapUnused == {a \in HeapBlocks : ~heap[a].used}

HeapTilesOK ==
  /\ 0 \in HeapBlocks /\ HeapBlocks \subseteq HeapUnits
  /\ \A a \in HeapBlocks :
       /\ heap[a] \in [size : 1..HEAP_UNITS, used : BOOLEAN, next : 1..HEAP_UNITS]
       /\ heap[a].next = a + heap[a].size
       /\ heap[a].next \in HeapBlocks \cup {HeapNull}
  /\ \A a, b \in HeapBlocks : a < b => heap[a].next <= b

HeapTotalOK == heapFreeTotal = SumFunctionOnSet(HeapSizes, HeapUnused)

\* What a caller holds is nothing, or memory inside a block in use.
HeapBlockOK(h) ==
  h = HeapNothing \/ /\ h.ptr - 1 \in HeapBlocks /\ h.ptr # 0
                     /\ heap[h.ptr - 1].used /\ h.ptr + h.units <= heap[h.ptr - 1].next

HeapPtrs == [HeapTasks -> [ptr : HeapUnits, units : 0..HEAP_UNITS]]

HeapOwnersOK ==
  /\ heapHeld \in HeapPtrs /\ heapNew \in HeapPtrs
  /\ \A t \in HeapTasks : HeapBlockOK(heapHeld[t]) /\ HeapBlockOK(heapNew[t])
  /\ \A t, s \in HeapTasks : t # s /\ heapHeld[t].ptr # 0 => heapHeld[s].ptr # heapHeld[t].ptr
  /\ \A t, s \in HeapTasks : t # s /\ heapNew[t].ptr # 0 => heapNew[s].ptr # heapNew[t].ptr
  /\ \A t, s \in HeapTasks : heapHeld[t].ptr # 0 => heapNew[s].ptr # heapHeld[t].ptr
  /\ \A a \in HeapBlocks : heap[a].used =>
       \E t \in HeapTasks : heapHeld[t].ptr = a + 1 \/ heapNew[t].ptr = a + 1

\* A caller in realloc holds the old block and a new one that takes all of it.
HeapCallsOK ==
  /\ heapCalls \in 0..HeapMaxCalls
  /\ heapPc \in [HeapTasks -> {"idle", "memcpy", "free"}]
  /\ \A t \in HeapTasks : heapPc[t] = "idle" => heapNew[t] = HeapNothing
  /\ \A t \in HeapTasks : heapPc[t] # "idle" =>
       /\ heapHeld[t].ptr # 0 /\ heapNew[t].ptr # 0
       /\ heap[heapHeld[t].ptr - 1].size - 1 <= heapNew[t].units

HeapMemOK ==
  /\ heapMem \in [HeapUnits -> HeapTasks \cup {"header", "none"}]
  /\ \A t \in HeapTasks : \A u \in HeapPayload(heapHeld[t]) : heapMem[u] = t
  /\ \A t \in HeapTasks : heapPc[t] = "free" =>
       \A u \in heapNew[t].ptr .. heapNew[t].ptr + heapHeld[t].units - 1 : heapMem[u] = t
  /\ \A a \in HeapBlocks : heapMem[a] = "header"

HeapInv == HeapTilesOK /\ HeapTotalOK /\ HeapOwnersOK /\ HeapCallsOK /\ HeapMemOK

\* The blocks are numbers below the end, and each ends behind its start.
LEMMA HeapBounds ==
  ASSUME HeapTilesOK
  PROVE  /\ HEAP_UNITS \in Nat \ {0} /\ HeapBlocks \subseteq Nat
         /\ IsFiniteSet(HeapBlocks) /\ IsFiniteSet(HeapUnused)
         /\ HeapNull \notin HeapBlocks
         /\ \A a \in HeapBlocks :
              /\ a \in Nat /\ heap[a].size \in Nat /\ heap[a].next \in Nat
              /\ a < heap[a].next /\ heap[a].next <= HEAP_UNITS
              /\ HeapSizes[a] = heap[a].size /\ HeapSizes[a] \in Nat
              /\ 1 <= heap[a].size /\ heap[a].size <= HEAP_UNITS /\ heap[a].used \in BOOLEAN
<1>1. HEAP_UNITS \in Nat \ {0}
  BY HeapAssumption
<1>2. IsFiniteSet(HeapUnits)
  BY <1>1, FS_Interval DEF HeapUnits
<1>3. IsFiniteSet(HeapBlocks) /\ IsFiniteSet(HeapUnused)
  <2>1. HeapBlocks \subseteq HeapUnits /\ HeapUnused \subseteq HeapUnits
    BY DEF HeapTilesOK, HeapUnused
  <2> QED
    BY <1>2, <2>1, FS_Subset
<1>4. HeapBlocks \subseteq Nat /\ HeapNull \notin HeapBlocks
  BY <1>1 DEF HeapTilesOK, HeapUnits, HeapNull
<1>5. ASSUME NEW a \in HeapBlocks
      PROVE  /\ a \in Nat /\ heap[a].size \in Nat /\ heap[a].next \in Nat
             /\ a < heap[a].next /\ heap[a].next <= HEAP_UNITS
             /\ HeapSizes[a] = heap[a].size /\ HeapSizes[a] \in Nat
             /\ 1 <= heap[a].size /\ heap[a].size <= HEAP_UNITS /\ heap[a].used \in BOOLEAN
  <2>1. PICK r : r = heap[a]
    OBVIOUS
  <2>2. r \in [size : 1..HEAP_UNITS, used : BOOLEAN, next : 1..HEAP_UNITS] /\ r.next = a + r.size
    BY <2>1 DEF HeapTilesOK
  <2>3. r.size \in 1..HEAP_UNITS /\ r.next \in 1..HEAP_UNITS /\ r.used \in BOOLEAN
    BY <2>2
  <2>4. HeapSizes[a] = r.size
    BY <2>1 DEF HeapSizes, HeapBlocks
  <2>5. a \in Nat
    BY <1>4
  <2> QED
    BY <1>1, <2>1, <2>2, <2>3, <2>4, <2>5
<1> QED
  BY <1>1, <1>3, <1>4, <1>5

\* The list from heap_top is a function of the address it has come to ...
HeapListing(f) ==
  f = [a \in 0..HEAP_UNITS |->
         IF a \notin DOMAIN heap THEN {}
         ELSE {a} \cup (IF heap[a].next > a THEN f[heap[a].next] ELSE {})]

LEMMA HeapListedChosen == HeapListed = (CHOOSE f : HeapListing(f))[0]
BY Zenon DEF HeapListed, HeapListing

\* ... and reaches every block.
LEMMA HeapListedAll ==
  ASSUME HeapTilesOK
  PROVE  HeapListed = HeapBlocks
<1> DEFINE From(a) == IF a \in HeapBlocks THEN {b \in HeapBlocks : a <= b} ELSE {}
           G == [a \in 0..HEAP_UNITS |-> From(a)]
<1>1. ASSUME NEW a \in HeapBlocks
      PROVE  /\ heap[a].next > a /\ heap[a].next \in 0..HEAP_UNITS
             /\ From(a) = {a} \cup From(heap[a].next)
  <2>1. PICK n : n = heap[a].next
    OBVIOUS
  <2>2. n \in Nat /\ a \in Nat /\ a < n /\ n <= HEAP_UNITS /\ HEAP_UNITS \in Nat
    BY <2>1, HeapBounds
  <2>3. n \in HeapBlocks \cup {HeapNull}
    BY <2>1 DEF HeapTilesOK
  <2>4. \A b \in HeapBlocks : b \in Nat /\ b < HEAP_UNITS
    BY HeapBounds DEF HeapTilesOK, HeapUnits
  <2>5. \A b \in HeapBlocks : a < b => n <= b
    BY <2>1 DEF HeapTilesOK
  <2>6. From(a) = {b \in HeapBlocks : a <= b}
    OBVIOUS
  <2>7. From(n) = {b \in HeapBlocks : n <= b}
    <3>1. CASE n \in HeapBlocks
      BY <3>1
    <3>2. CASE n \notin HeapBlocks
      <4>1. n = HEAP_UNITS
        BY <2>3, <3>2 DEF HeapNull
      <4>2. \A b \in HeapBlocks : ~ (n <= b)
        BY <2>2, <2>4, <4>1
      <4> QED
        BY <3>2, <4>2
    <3> QED
      BY <3>1, <3>2
  <2>8. {b \in HeapBlocks : a <= b} = {a} \cup {b \in HeapBlocks : n <= b}
    <3>1. \A b \in HeapBlocks : a <= b <=> b = a \/ n <= b
      BY <2>2, <2>4, <2>5
    <3> QED
      BY <3>1
  <2> QED
    BY <2>1, <2>2, <2>6, <2>7, <2>8
<1> HIDE DEF From
<1>2. HeapListing(G)
  <2>1. ASSUME NEW a \in 0..HEAP_UNITS
        PROVE  From(a) = IF a \notin DOMAIN heap THEN {}
                         ELSE {a} \cup (IF heap[a].next > a THEN G[heap[a].next] ELSE {})
    <3>1. CASE a \notin DOMAIN heap
      BY <3>1 DEF From, HeapBlocks
    <3>2. CASE a \in DOMAIN heap
      <4>1. heap[a].next > a /\ heap[a].next \in 0..HEAP_UNITS /\ From(a) = {a} \cup From(heap[a].next)
        BY <1>1, <3>2 DEF HeapBlocks
      <4>2. G[heap[a].next] = From(heap[a].next)
        BY <4>1
      <4> QED
        BY <3>2, <4>1, <4>2
    <3> QED
      BY <3>1, <3>2
  <2> QED
    BY <2>1 DEF HeapListing
<1>3. PICK f : f = CHOOSE h : HeapListing(h)
  OBVIOUS
<1>4. HeapListing(f)
  BY <1>2, <1>3
<1>5. \A a \in 0..HEAP_UNITS : f[a] = From(a)
  <2> DEFINE Bad == {k \in 0..HEAP_UNITS : f[HEAP_UNITS - k] # From(HEAP_UNITS - k)}
  <2>0. HEAP_UNITS \in Nat
    BY HeapBounds
  <2>1. CASE Bad # {}
    <3>1. Bad \subseteq Nat
      OBVIOUS
    <3>2. PICK k \in Bad : \A x \in Bad : k <= x
      BY <2>1, <3>1, NatMin
    <3>3. PICK a : a = HEAP_UNITS - k
      OBVIOUS
    <3>4. a \in 0..HEAP_UNITS /\ k \in 0..HEAP_UNITS /\ f[a] # From(a)
      BY <2>0, <3>2, <3>3
    <3>5. f[a] = IF a \notin DOMAIN heap THEN {}
                 ELSE {a} \cup (IF heap[a].next > a THEN f[heap[a].next] ELSE {})
      BY <1>4, <3>4 DEF HeapListing
    <3>6. CASE a \notin DOMAIN heap
      BY <3>4, <3>5, <3>6 DEF From, HeapBlocks
    <3>7. CASE a \in DOMAIN heap
      <4>1. heap[a].next > a /\ heap[a].next \in 0..HEAP_UNITS /\ From(a) = {a} \cup From(heap[a].next)
        BY <1>1, <3>7 DEF HeapBlocks
      <4>2. PICK j : j = HEAP_UNITS - heap[a].next
        OBVIOUS
      <4>3. j \in 0..HEAP_UNITS /\ j < k /\ HEAP_UNITS - j = heap[a].next
        BY <2>0, <3>3, <3>4, <4>1, <4>2
      <4>4. j \notin Bad
        BY <3>2, <3>4, <4>3
      <4>5. f[heap[a].next] = From(heap[a].next)
        BY <4>3, <4>4
      <4> QED
        BY <3>4, <3>5, <3>7, <4>1, <4>5
    <3> QED
      BY <3>6, <3>7
  <2>2. CASE Bad = {}
    <3> SUFFICES ASSUME NEW a \in 0..HEAP_UNITS PROVE f[a] = From(a)
      OBVIOUS
    <3>1. HEAP_UNITS - a \in 0..HEAP_UNITS /\ HEAP_UNITS - (HEAP_UNITS - a) = a
      BY <2>0
    <3>2. HEAP_UNITS - a \notin Bad
      BY <2>2
    <3> QED
      BY <3>1, <3>2
  <2> QED
    BY <2>1, <2>2
<1>6. f[0] = HeapBlocks
  <2>1. 0 \in 0..HEAP_UNITS /\ 0 \in HeapBlocks /\ \A b \in HeapBlocks : 0 <= b
    BY HeapBounds DEF HeapTilesOK
  <2> QED
    BY <1>5, <2>1 DEF From
<1> QED
  BY <1>3, <1>6, HeapListedChosen

\* The free blocks behind x, up to the next one in use.
HeapAfter(x) ==
  {y \in HeapBlocks : x <= y /\ \A z \in HeapBlocks : x <= z /\ z <= y => ~heap[z].used}

HeapAbsorbing(f) ==
  f = [x \in 1..HEAP_UNITS |->
         IF x \notin DOMAIN heap \/ heap[x].used THEN {}
         ELSE {x} \cup (IF heap[x].next = x + heap[x].size THEN f[heap[x].next] ELSE {})]

LEMMA HeapAbsorbedChosen ==
  ASSUME NEW a
  PROVE  HeapAbsorbed(a) = IF heap[a].next = a + heap[a].size
                           THEN (CHOOSE f : HeapAbsorbing(f))[heap[a].next] ELSE {}
BY Zenon DEF HeapAbsorbed, HeapAbsorbing

\* A freed block absorbs exactly these.
LEMMA HeapAbsorbs ==
  ASSUME HeapTilesOK, NEW a \in HeapBlocks
  PROVE  HeapAbsorbed(a) =
           {y \in HeapBlocks : a < y /\ \A z \in HeapBlocks : a < z /\ z <= y => ~heap[z].used}
<1> DEFINE After(x) == IF x \in HeapBlocks THEN HeapAfter(x) ELSE {}
           G == [x \in 1..HEAP_UNITS |-> After(x)]
<1>1. ASSUME NEW x \in HeapBlocks
      PROVE  /\ heap[x].next = x + heap[x].size
             /\ heap[x].next > x /\ heap[x].next \in 1..HEAP_UNITS
             /\ After(x) = IF heap[x].used THEN {} ELSE {x} \cup After(heap[x].next)
             /\ After(heap[x].next) =
                  {y \in HeapBlocks : x < y /\ \A z \in HeapBlocks : x < z /\ z <= y => ~heap[z].used}
  <2>1. PICK n : n = heap[x].next
    OBVIOUS
  <2>2. n \in Nat /\ x \in Nat /\ x < n /\ n <= HEAP_UNITS /\ HEAP_UNITS \in Nat
    BY <2>1, HeapBounds
  <2>3. n \in HeapBlocks \cup {HeapNull} /\ n = x + heap[x].size
    BY <2>1 DEF HeapTilesOK
  <2>4. \A b \in HeapBlocks : b \in Nat /\ b < HEAP_UNITS
    BY HeapBounds DEF HeapTilesOK, HeapUnits
  <2>5. \A b \in HeapBlocks : x < b => n <= b
    BY <2>1 DEF HeapTilesOK
  <2>6. After(n) = HeapAfter(n)
    <3>1. CASE n \in HeapBlocks
      BY <3>1
    <3>2. CASE n \notin HeapBlocks
      <4>1. n = HEAP_UNITS
        BY <2>3, <3>2 DEF HeapNull
      <4>2. \A b \in HeapBlocks : ~ (n <= b)
        BY <2>2, <2>4, <4>1
      <4>3. HeapAfter(n) = {}
        BY <4>2 DEF HeapAfter
      <4> QED
        BY <3>2, <4>3
    <3> QED
      BY <3>1, <3>2
  <2>7. \A b \in HeapBlocks : x < b <=> n <= b
    BY <2>2, <2>4, <2>5
  <2>8. HeapAfter(n) =
          {y \in HeapBlocks : x < y /\ \A z \in HeapBlocks : x < z /\ z <= y => ~heap[z].used}
    BY <2>7 DEF HeapAfter
  <2>9. HeapAfter(x) = IF heap[x].used THEN {} ELSE {x} \cup HeapAfter(n)
    <3>1. CASE heap[x].used
      <4>1. \A y \in HeapBlocks : x <= y => x <= x /\ x <= y
        BY <2>2
      <4> QED
        BY <3>1, <4>1 DEF HeapAfter
    <3>2. CASE ~heap[x].used
      <4>1. \A b \in HeapBlocks : x <= b <=> b = x \/ n <= b
        BY <2>2, <2>4, <2>5
      <4>2. \A b \in HeapBlocks : b <= x => ~ (n <= b)
        BY <2>2, <2>4
      <4>3. x <= x
        BY <2>2
      <4> QED
        BY <3>2, <4>1, <4>2, <4>3 DEF HeapAfter
    <3> QED
      BY <3>1, <3>2
  <2>10. After(x) = HeapAfter(x)
    OBVIOUS
  <2>11. n \in 1..HEAP_UNITS
    BY <2>2
  <2> HIDE DEF After
  <2> QED
    BY <2>1, <2>2, <2>3, <2>6, <2>8, <2>9, <2>10, <2>11
<1> HIDE DEF After
<1>2. HeapAbsorbing(G)
  <2>1. ASSUME NEW x \in 1..HEAP_UNITS
        PROVE  After(x) = IF x \notin DOMAIN heap \/ heap[x].used THEN {}
                          ELSE {x} \cup (IF heap[x].next = x + heap[x].size
                                         THEN G[heap[x].next] ELSE {})
    <3>1. CASE x \notin DOMAIN heap
      BY <3>1 DEF After, HeapBlocks
    <3>2. CASE x \in DOMAIN heap
      <4>1. /\ heap[x].next = x + heap[x].size /\ heap[x].next \in 1..HEAP_UNITS
            /\ After(x) = IF heap[x].used THEN {} ELSE {x} \cup After(heap[x].next)
        BY <1>1, <3>2 DEF HeapBlocks
      <4>2. G[heap[x].next] = After(heap[x].next)
        BY <4>1
      <4> QED
        BY <3>2, <4>1, <4>2
    <3> QED
      BY <3>1, <3>2
  <2> QED
    BY <2>1 DEF HeapAbsorbing
<1>3. PICK f : f = CHOOSE h : HeapAbsorbing(h)
  OBVIOUS
<1>4. HeapAbsorbing(f)
  BY <1>2, <1>3
<1>5. \A x \in 1..HEAP_UNITS : f[x] = After(x)
  <2> DEFINE Bad == {k \in 0..HEAP_UNITS - 1 : f[HEAP_UNITS - k] # After(HEAP_UNITS - k)}
  <2>0. HEAP_UNITS \in Nat
    BY HeapBounds
  <2>1. CASE Bad # {}
    <3>1. Bad \subseteq Nat
      OBVIOUS
    <3>2. PICK k \in Bad : \A x \in Bad : k <= x
      BY <2>1, <3>1, NatMin
    <3>3. PICK x : x = HEAP_UNITS - k
      OBVIOUS
    <3>4. x \in 1..HEAP_UNITS /\ k \in 0..HEAP_UNITS - 1 /\ f[x] # After(x)
      BY <2>0, <3>2, <3>3
    <3>5. f[x] = IF x \notin DOMAIN heap \/ heap[x].used THEN {}
                 ELSE {x} \cup (IF heap[x].next = x + heap[x].size THEN f[heap[x].next] ELSE {})
      BY <1>4, <3>4 DEF HeapAbsorbing
    <3>6. CASE x \notin DOMAIN heap
      BY <3>4, <3>5, <3>6 DEF After, HeapBlocks
    <3>7. CASE x \in DOMAIN heap
      <4>1. /\ heap[x].next = x + heap[x].size
            /\ heap[x].next > x /\ heap[x].next \in 1..HEAP_UNITS
            /\ After(x) = IF heap[x].used THEN {} ELSE {x} \cup After(heap[x].next)
        BY <1>1, <3>7 DEF HeapBlocks
      <4>2. PICK j : j = HEAP_UNITS - heap[x].next
        OBVIOUS
      <4>3. j \in 0..HEAP_UNITS - 1 /\ j < k /\ HEAP_UNITS - j = heap[x].next
        BY <2>0, <3>3, <3>4, <4>1, <4>2
      <4>4. j \notin Bad
        BY <3>2, <3>4, <4>3
      <4>5. f[heap[x].next] = After(heap[x].next)
        BY <4>3, <4>4
      <4> QED
        BY <3>4, <3>5, <3>7, <4>1, <4>5
    <3> QED
      BY <3>6, <3>7
  <2>2. CASE Bad = {}
    <3> SUFFICES ASSUME NEW x \in 1..HEAP_UNITS PROVE f[x] = After(x)
      OBVIOUS
    <3>1. HEAP_UNITS - x \in 0..HEAP_UNITS - 1 /\ HEAP_UNITS - (HEAP_UNITS - x) = x
      BY <2>0
    <3>2. HEAP_UNITS - x \notin Bad
      BY <2>2
    <3> QED
      BY <3>1, <3>2
  <2> QED
    BY <2>1, <2>2
<1>6. /\ heap[a].next = a + heap[a].size /\ heap[a].next \in 1..HEAP_UNITS
      /\ After(heap[a].next) =
           {y \in HeapBlocks : a < y /\ \A z \in HeapBlocks : a < z /\ z <= y => ~heap[z].used}
  BY <1>1
<1>7. HeapAbsorbed(a) = f[heap[a].next]
  BY <1>3, <1>6, HeapAbsorbedChosen
<1> QED
  BY <1>5, <1>6, <1>7

\* From one block to another there is as much memory as the blocks between are large.
LEMMA HeapSpan ==
  ASSUME HeapTilesOK, NEW a \in HeapBlocks, NEW m \in HeapBlocks, a <= m
  PROVE  SumFunctionOnSet(HeapSizes, {b \in HeapBlocks : a <= b /\ b <= m}) = heap[m].next - a
<1> DEFINE Span(x) == {b \in HeapBlocks : x <= b /\ b <= m}
           Right(x) == SumFunctionOnSet(HeapSizes, Span(x)) = heap[m].next - x
           Bad == {k \in Nat : m - k \in HeapBlocks /\ ~Right(m - k)}
<1>1. CASE Bad # {}
  <2>1. Bad \subseteq Nat
    OBVIOUS
  <2>2. PICK k \in Bad : \A y \in Bad : k <= y
    BY <1>1, <2>1, NatMin
  <2>3. PICK x : x = m - k
    OBVIOUS
  <2>4. /\ x \in HeapBlocks /\ ~Right(x) /\ k \in Nat /\ m \in Nat /\ x \in Nat
        /\ x <= m /\ k = m - x
    BY <2>2, <2>3, HeapBounds
  <2>5. PICK n : n = heap[x].next
    OBVIOUS
  <2>6. /\ n = x + heap[x].size /\ n \in HeapBlocks \cup {HeapNull} /\ x < n /\ n \in Nat
        /\ \A b \in HeapBlocks : x < b => n <= b
    BY <2>4, <2>5, HeapBounds DEF HeapTilesOK
  <2>7. HeapSizes[x] = heap[x].size /\ heap[x].size \in Nat /\ \A b \in HeapBlocks : HeapSizes[b] \in Nat
    BY <2>4, HeapBounds
  <2>8. CASE x = m
    <3>1. Span(x) = {x}
      <4>1. \A b \in HeapBlocks : x <= b /\ b <= m => b = x
        BY <2>4, <2>8, HeapBounds
      <4>2. x <= x /\ x <= m
        BY <2>4
      <4> QED
        BY <2>4, <4>1, <4>2
    <3>2. SumFunctionOnSet(HeapSizes, {x}) = HeapSizes[x]
      BY <2>7, SumOne
    <3>3. SumFunctionOnSet(HeapSizes, Span(x)) = heap[x].size
      BY <2>7, <3>1, <3>2
    <3>4. heap[m].next - x = heap[x].size
      <4>1. heap[m].next = n
        BY <2>5, <2>8
      <4>2. n - x = heap[x].size
        BY <2>4, <2>6, <2>7
      <4> QED
        BY <4>1, <4>2
    <3> QED
      BY <2>4, <3>3, <3>4
  <2>9. CASE x # m
    <3>1. x < m /\ n <= m
      BY <2>4, <2>6, <2>9
    <3>2. n \in HeapBlocks
      <4>1. m < HEAP_UNITS /\ HEAP_UNITS \in Nat
        BY HeapBounds DEF HeapTilesOK, HeapUnits
      <4>2. n # HeapNull
        BY <2>4, <2>6, <3>1, <4>1 DEF HeapNull
      <4> QED
        BY <2>6, <4>2
    <3>3. Right(n)
      <4>1. PICK j : j = m - n
        OBVIOUS
      <4>2. j \in Nat /\ j < k /\ m - j = n
        BY <2>4, <2>6, <3>1, <4>1
      <4>3. j \notin Bad
        BY <2>2, <2>4, <4>2
      <4> QED
        BY <3>2, <4>2, <4>3
    <3>4. Span(x) = Span(n) \cup {x} /\ x \notin Span(n)
      <4>1. \A b \in HeapBlocks : x <= b <=> b = x \/ n <= b
        BY <2>4, <2>6, HeapBounds
      <4>2. ~ (n <= x)
        BY <2>4, <2>6
      <4> QED
        BY <2>4, <4>1, <4>2
    <3>5. IsFiniteSet(Span(n))
      <4>1. Span(n) \subseteq HeapBlocks
        OBVIOUS
      <4> QED
        BY <4>1, HeapBounds, FS_Subset
    <3>6. \A b \in Span(n) \cup {x} : HeapSizes[b] \in Nat
      BY <2>4, <2>7
    <3> HIDE DEF Span
    <3>7. SumFunctionOnSet(HeapSizes, Span(n) \cup {x})
            = HeapSizes[x] + SumFunctionOnSet(HeapSizes, Span(n))
      BY <3>4, <3>5, <3>6, SumPutIn
    <3>8. SumFunctionOnSet(HeapSizes, Span(x)) = heap[x].size + (heap[m].next - n)
      BY <2>7, <3>3, <3>4, <3>7
    <3>9. heap[m].next \in Nat
      BY HeapBounds
    <3>10. heap[x].size + (heap[m].next - n) = heap[m].next - x
      BY <2>4, <2>6, <2>7, <3>9
    <3>11. Right(x)
      BY <3>8, <3>10
    <3> QED
      BY <2>4, <3>11
  <2> QED
    BY <2>8, <2>9
<1>2. CASE Bad = {}
  <2>1. a \in Nat /\ m \in Nat
    BY HeapBounds
  <2>2. m - a \in Nat /\ m - (m - a) = a
    BY <2>1
  <2>3. m - a \notin Bad
    BY <1>2
  <2> QED
    BY <2>2, <2>3
<1> QED
  BY <1>1, <1>2

\* What an allocation does to the blocks: one that is free comes into use, and what is
\* left of it may be a free block behind.
LEMMA HeapTakes ==
  ASSUME HeapTilesOK, HeapTotalOK, NEW a \in HeapBlocks, ~heap[a].used,
         NEW need \in Nat, 1 < need, need <= heap[a].size,
         heap' = HeapTake(a, need), heapFreeTotal' = heapFreeTotal - heap'[a].size
  PROVE  /\ HeapTilesOK' /\ HeapTotalOK' /\ HeapBlocks \subseteq HeapBlocks'
         /\ heap'[a].used /\ a + need <= heap'[a].next /\ heap'[a].next <= heap[a].next
         /\ \A x \in HeapBlocks \ {a} : heap'[x] = heap[x]
         /\ \A x \in HeapBlocks' \ HeapBlocks :
              ~heap'[x].used /\ a < x /\ x < heap[a].next /\ heap'[a].next <= x
<1>1. PICK r : r = heap[a]
  OBVIOUS
<1>2. /\ HEAP_UNITS \in Nat /\ a \in Nat /\ r.size \in Nat /\ r.next \in Nat /\ r.next = a + r.size
      /\ r.next <= HEAP_UNITS /\ r.used = FALSE /\ r.next \in HeapBlocks \cup {HeapNull}
      /\ r \in [size : 1..HEAP_UNITS, used : BOOLEAN, next : 1..HEAP_UNITS]
      /\ HeapSizes[a] = r.size
  BY <1>1, HeapBounds DEF HeapTilesOK
<1>3. /\ \A b \in HeapBlocks : b \in Nat /\ HeapSizes[b] \in Nat /\ HeapSizes[b] = heap[b].size
      /\ a \in HeapUnused /\ IsFiniteSet(HeapUnused) /\ HeapUnused \subseteq HeapBlocks
  BY HeapBounds DEF HeapUnused
<1>4. IsFiniteSet(HeapUnused \ {a})
  BY <1>3, FS_Subset
<1>5. SumFunctionOnSet(HeapSizes, HeapUnused)
        = HeapSizes[a] + SumFunctionOnSet(HeapSizes, HeapUnused \ {a})
  <2>1. IsFiniteSet(HeapUnused) /\ a \in HeapUnused /\ \A x \in HeapUnused : HeapSizes[x] \in Nat
    BY <1>3
  <2> QED
    BY <2>1, SumTakeOut
<1>6. SumFunctionOnSet(HeapSizes, HeapUnused \ {a}) \in Nat
  <2>1. \A x \in HeapUnused \ {a} : HeapSizes[x] \in Nat
    BY <1>3
  <2> QED
    BY <1>4, <2>1, SumNat
<1>7. ASSUME HeapBlocks \subseteq HeapBlocks', \A x \in HeapBlocks \ {a} : heap'[x] = heap[x]
      PROVE  SumFunctionOnSet(HeapSizes', HeapUnused \ {a})
               = SumFunctionOnSet(HeapSizes, HeapUnused \ {a})
  <2>1. \A x \in HeapUnused \ {a} : HeapSizes'[x] = HeapSizes[x]
    BY <1>3, <1>7 DEF HeapSizes, HeapBlocks
  <2> QED
    BY <1>4, <2>1, SumSame
<1>8. CASE r.size >= need + HB_HDR + HB_MIN
  <2>1. PICK c : c = a + need
    OBVIOUS
  <2>2. PICK p, q : /\ p = [size |-> need, used |-> TRUE, next |-> c]
                    /\ q = [size |-> r.size - need, used |-> FALSE, next |-> r.next]
    OBVIOUS
  <2>3. heap' = [x \in DOMAIN heap \cup {c} |-> CASE x = a -> p [] x = c -> q [] OTHER -> heap[x]]
    BY <1>1, <1>8, <2>1, <2>2 DEF HeapTake
  <2>4. /\ c \in Nat /\ a < c /\ c < r.next /\ c <= HEAP_UNITS /\ c # HeapNull
        /\ c \in HeapUnits /\ need \in 1..HEAP_UNITS /\ r.size - need \in 1..HEAP_UNITS
        /\ r.size - need \in Nat /\ r.next = c + (r.size - need) /\ c \in 1..HEAP_UNITS
    BY <1>2, <1>8, <2>1 DEF HB_HDR, HB_MIN, HeapUnits, HeapNull
  <2>5. c \notin HeapBlocks
    <3>1. c \in HeapBlocks => r.next <= c
      BY <1>1, <2>4 DEF HeapTilesOK
    <3> QED
      BY <1>2, <2>4, <3>1
  <2>6. /\ HeapBlocks' = HeapBlocks \cup {c} /\ heap'[a] = p /\ heap'[c] = q
        /\ \A x \in HeapBlocks \ {a} : heap'[x] = heap[x]
    BY <2>3, <2>4, <2>5 DEF HeapBlocks
  <2>7. HeapTilesOK'
    <3>1. 0 \in HeapBlocks' /\ HeapBlocks' \subseteq HeapUnits
      BY <2>4, <2>6 DEF HeapTilesOK
    <3>2. ASSUME NEW x \in HeapBlocks'
          PROVE  /\ heap'[x] \in [size : 1..HEAP_UNITS, used : BOOLEAN, next : 1..HEAP_UNITS]
                 /\ heap'[x].next = x + heap'[x].size
                 /\ heap'[x].next \in HeapBlocks' \cup {HeapNull}
      <4>1. CASE x = a
        <5>1. /\ p \in [size : 1..HEAP_UNITS, used : BOOLEAN, next : 1..HEAP_UNITS]
              /\ p.next = c /\ p.size = need
          BY <2>2, <2>4
        <5>2. heap'[x] = p /\ c \in HeapBlocks'
          BY <2>6, <4>1
        <5> QED
          BY <2>1, <4>1, <5>1, <5>2
      <4>2. CASE x = c
        <5>1. r.next \in 1..HEAP_UNITS
          BY <1>2
        <5>2. /\ q \in [size : 1..HEAP_UNITS, used : BOOLEAN, next : 1..HEAP_UNITS]
              /\ q.next = r.next /\ q.size = r.size - need
          BY <2>2, <2>4, <5>1
        <5>3. heap'[x] = q /\ r.next \in HeapBlocks' \cup {HeapNull}
          BY <1>2, <2>6, <4>2
        <5> QED
          BY <2>4, <4>2, <5>2, <5>3
      <4>3. CASE x # a /\ x # c
        <5>1. x \in HeapBlocks /\ heap'[x] = heap[x]
          BY <2>6, <3>2, <4>3
        <5>2. /\ heap[x] \in [size : 1..HEAP_UNITS, used : BOOLEAN, next : 1..HEAP_UNITS]
              /\ heap[x].next = x + heap[x].size
              /\ heap[x].next \in HeapBlocks \cup {HeapNull}
          BY <5>1 DEF HeapTilesOK
        <5> QED
          BY <2>6, <5>1, <5>2
      <4> QED
        BY <4>1, <4>2, <4>3
    <3>3. ASSUME NEW x \in HeapBlocks', NEW y \in HeapBlocks', x < y
          PROVE  heap'[x].next <= y
      <4>1. x = a \/ x = c \/ x \in HeapBlocks \ {a}
        BY <2>6
      <4>2. y = c \/ y \in HeapBlocks
        BY <2>6
      <4>3. \A b \in HeapBlocks : a < b => r.next <= b
        BY <1>1 DEF HeapTilesOK
      <4>4. CASE x = a
        <5>1. heap'[x].next = c
          BY <2>2, <2>6, <4>4
        <5>2. c <= y
          BY <1>2, <1>3, <2>4, <3>3, <4>2, <4>3, <4>4
        <5> QED
          BY <5>1, <5>2
      <4>5. CASE x = c
        <5>1. heap'[x].next = r.next
          BY <2>2, <2>6, <4>5
        <5>2. r.next <= y
          BY <1>2, <1>3, <2>4, <3>3, <4>2, <4>3, <4>5
        <5> QED
          BY <5>1, <5>2
      <4>6. CASE x \in HeapBlocks \ {a}
        <5>1. heap'[x].next = heap[x].next /\ \A b \in HeapBlocks : x < b => heap[x].next <= b
          BY <2>6, <4>6 DEF HeapTilesOK
        <5>2. heap[x].next \in Nat /\ x \in Nat
          BY <4>6, HeapBounds
        <5>3. CASE y \in HeapBlocks
          BY <3>3, <5>1, <5>3
        <5>4. CASE y = c
          <6>1. a < x => r.next <= x
            BY <4>3, <4>6
          <6>2. x < a
            BY <1>2, <2>4, <3>3, <4>6, <5>2, <5>4, <6>1
          <6>3. heap[x].next <= a
            BY <5>1, <6>2
          <6> QED
            BY <1>2, <2>4, <5>1, <5>2, <5>4, <6>3
        <5> QED
          BY <4>2, <5>3, <5>4
      <4> QED
        BY <4>1, <4>4, <4>5, <4>6
    <3> QED
      BY <3>1, <3>2, <3>3 DEF HeapTilesOK
  <2>8. HeapTotalOK'
    <3>1. HeapUnused' = (HeapUnused \ {a}) \cup {c}
      <4>1. \A x \in HeapBlocks \ {a} : heap'[x].used <=> heap[x].used
        BY <2>6
      <4>2. heap'[a].used /\ ~heap'[c].used
        BY <2>2, <2>6
      <4> QED
        BY <2>4, <2>5, <2>6, <4>1, <4>2 DEF HeapUnused
    <3>2. HeapSizes'[c] = r.size - need /\ \A x \in HeapUnused \ {a} : HeapSizes'[x] = HeapSizes[x]
      BY <1>3, <2>2, <2>6 DEF HeapSizes, HeapBlocks
    <3>3. IsFiniteSet(HeapUnused \ {a}) /\ c \notin HeapUnused \ {a}
      BY <1>3, <1>4, <2>5
    <3>4. \A x \in (HeapUnused \ {a}) \cup {c} : HeapSizes'[x] \in Nat
      BY <1>3, <2>4, <3>2
    <3>5. SumFunctionOnSet(HeapSizes', (HeapUnused \ {a}) \cup {c})
            = HeapSizes'[c] + SumFunctionOnSet(HeapSizes', HeapUnused \ {a})
      BY <3>3, <3>4, SumPutIn
    <3>6. SumFunctionOnSet(HeapSizes', HeapUnused \ {a})
            = SumFunctionOnSet(HeapSizes, HeapUnused \ {a})
      <4>1. HeapBlocks \subseteq HeapBlocks'
        BY <2>6
      <4> QED
        BY <1>7, <2>6, <4>1
    <3>7. heapFreeTotal' = (HeapSizes[a] + SumFunctionOnSet(HeapSizes, HeapUnused \ {a})) - need
      BY <1>5, <2>2, <2>6 DEF HeapTotalOK
    <3>8. heapFreeTotal' = SumFunctionOnSet(HeapSizes', HeapUnused')
      BY <1>2, <1>6, <2>4, <3>1, <3>2, <3>5, <3>6, <3>7
    <3> QED
      BY <3>8 DEF HeapTotalOK
  <2>9. heap'[a].used /\ heap'[a].next = c /\ heap'[c].used = FALSE
    BY <2>2, <2>6
  <2>10. /\ heap'[a].used /\ a + need <= heap'[a].next /\ HeapBlocks \subseteq HeapBlocks'
         /\ heap'[a].next <= heap[a].next
         /\ \A x \in HeapBlocks \ {a} : heap'[x] = heap[x]
    <3>1. HeapBlocks \subseteq HeapBlocks' /\ \A x \in HeapBlocks \ {a} : heap'[x] = heap[x]
      BY <2>6
    <3>2. heap'[a].used /\ a + need <= heap'[a].next /\ heap'[a].next <= heap[a].next
      BY <1>1, <1>2, <2>1, <2>4, <2>9
    <3> QED
      BY <3>1, <3>2
  <2>11. \A x \in HeapBlocks' \ HeapBlocks :
           ~heap'[x].used /\ a < x /\ x < heap[a].next /\ heap'[a].next <= x
    <3>1. c <= c
      BY <2>4
    <3> QED
      BY <1>1, <2>4, <2>6, <2>9, <3>1
  <2> QED
    BY <2>7, <2>8, <2>10, <2>11
<1>9. CASE ~ (r.size >= need + HB_HDR + HB_MIN)
  <2>1. heap' = [heap EXCEPT ![a].used = TRUE]
    BY <1>1, <1>9 DEF HeapTake
  <2>2. PICK p : p = [r EXCEPT !.used = TRUE]
    OBVIOUS
  <2>3. heap' = [heap EXCEPT ![a] = p]
    BY <1>1, <2>1, <2>2
  <2>4. HeapBlocks' = HeapBlocks /\ heap'[a] = p /\ \A x \in HeapBlocks \ {a} : heap'[x] = heap[x]
    BY <2>3 DEF HeapBlocks
  <2>5. /\ p.used = TRUE /\ p.next = r.next /\ p.size = r.size
        /\ p \in [size : 1..HEAP_UNITS, used : BOOLEAN, next : 1..HEAP_UNITS]
    BY <1>2, <2>2
  <2>6. \A x \in HeapBlocks : heap'[x].next = heap[x].next /\ heap'[x].size = heap[x].size
    BY <1>1, <2>4, <2>5
  <2>7. HeapTilesOK'
    <3>1. \A x \in HeapBlocks :
            heap'[x] \in [size : 1..HEAP_UNITS, used : BOOLEAN, next : 1..HEAP_UNITS]
      BY <2>4, <2>5 DEF HeapTilesOK
    <3> QED
      BY <2>4, <2>6, <3>1 DEF HeapTilesOK
  <2>8. HeapTotalOK'
    <3>1. HeapUnused' = HeapUnused \ {a}
      <4>1. \A x \in HeapBlocks \ {a} : heap'[x].used <=> heap[x].used
        BY <2>4
      <4>2. heap'[a].used
        BY <2>4, <2>5
      <4> QED
        BY <2>4, <4>1, <4>2 DEF HeapUnused
    <3>2. SumFunctionOnSet(HeapSizes', HeapUnused \ {a})
            = SumFunctionOnSet(HeapSizes, HeapUnused \ {a})
      <4>1. HeapBlocks \subseteq HeapBlocks'
        BY <2>4
      <4> QED
        BY <1>7, <2>4, <4>1
    <3>3. heapFreeTotal' = (HeapSizes[a] + SumFunctionOnSet(HeapSizes, HeapUnused \ {a})) - r.size
      BY <1>5, <2>4, <2>5 DEF HeapTotalOK
    <3>4. heapFreeTotal' = SumFunctionOnSet(HeapSizes', HeapUnused')
      BY <1>2, <1>6, <3>1, <3>2, <3>3
    <3> QED
      BY <3>4 DEF HeapTotalOK
  <2>9. a + need <= heap'[a].next /\ heap'[a].next <= heap[a].next
    BY <1>1, <1>2, <2>4, <2>5
  <2> QED
    BY <2>4, <2>5, <2>7, <2>8, <2>9
<1> QED
  BY <1>8, <1>9

\* What a release does to the blocks: it grows over the free ones behind it.
LEMMA HeapReleases ==
  ASSUME HeapTilesOK, HeapTotalOK, NEW a \in HeapBlocks, heap[a].used,
         heap' = HeapRelease(a), heapFreeTotal' = heapFreeTotal + heap[a].size
  PROVE  /\ HeapTilesOK' /\ HeapTotalOK' /\ a \in HeapBlocks' /\ HeapBlocks' \subseteq HeapBlocks
         /\ ~heap'[a].used
         /\ \A x \in HeapBlocks' \ {a} : heap'[x] = heap[x]
         /\ \A x \in HeapBlocks \ {a} : heap[x].used => x \in HeapBlocks'
<1>1. PICK gone : gone = HeapAbsorbed(a)
  OBVIOUS
<1>2. gone = {y \in HeapBlocks : a < y /\ \A z \in HeapBlocks : a < z /\ z <= y => ~heap[z].used}
  BY <1>1, HeapAbsorbs
<1>3. /\ HEAP_UNITS \in Nat /\ a \in Nat /\ a \notin HeapUnused
      /\ \A b \in HeapBlocks : b \in Nat /\ HeapSizes[b] \in Nat /\ HeapSizes[b] = heap[b].size
      /\ \A b \in HeapBlocks : b <= HEAP_UNITS
      /\ IsFiniteSet(HeapUnused) /\ IsFiniteSet(HeapBlocks) /\ HeapUnused \subseteq HeapBlocks
  <2>1. \A b \in HeapBlocks : b <= HEAP_UNITS
    BY HeapBounds DEF HeapTilesOK, HeapUnits
  <2> QED
    BY <2>1, HeapBounds DEF HeapUnused
<1>4. PICK all : all = {a} \cup gone
  OBVIOUS
<1>5. all \subseteq HeapBlocks /\ all # {} /\ a \in all
  BY <1>2, <1>4
<1>6. PICK m : m = Max(all)
  OBVIOUS
<1>7. m \in all /\ m \in HeapBlocks /\ \A x \in all : x <= m
  <2>1. all \subseteq Nat /\ \A x \in all : x <= HEAP_UNITS
    BY <1>3, <1>5
  <2> QED
    BY <1>3, <1>5, <1>6, <2>1, MaxIsIn
<1>8. all = {b \in HeapBlocks : a <= b /\ b <= m}
  <2>1. ASSUME NEW b \in all PROVE a <= b /\ b <= m
    BY <1>2, <1>3, <1>4, <1>7, <2>1
  <2>2. ASSUME NEW b \in HeapBlocks, a <= b, b <= m PROVE b \in all
    <3>1. CASE b = a
      BY <1>5, <3>1
    <3>2. CASE b # a
      <4>1. a < b /\ b \in Nat /\ m \in Nat
        BY <1>3, <1>7, <2>2, <3>2
      <4>2. m \in gone
        BY <1>3, <1>4, <1>7, <2>2, <4>1
      <4>3. \A z \in HeapBlocks : a < z /\ z <= b => ~heap[z].used
        <5>1. \A z \in HeapBlocks : z <= b => z <= m
          BY <1>3, <2>2, <4>1
        <5> QED
          BY <1>2, <4>2, <5>1
      <4>4. b \in gone
        BY <1>2, <4>1, <4>3
      <4> QED
        BY <1>4, <4>4
    <3> QED
      BY <3>1, <3>2
  <2> QED
    BY <1>5, <2>1, <2>2
<1>9. PICK n, sz : n = heap[m].next /\ sz = SumFunctionOnSet(HeapSizes, all)
  OBVIOUS
<1>10. /\ n \in Nat /\ m < n /\ n <= HEAP_UNITS /\ n \in HeapBlocks \cup {HeapNull}
       /\ sz = n - a /\ a <= m /\ m \in Nat
       /\ \A b \in HeapBlocks : m < b => n <= b
  <2>1. a <= m
    BY <1>5, <1>7
  <2>2. sz = n - a
    BY <1>7, <1>8, <1>9, <2>1, HeapSpan
  <2> QED
    BY <1>7, <1>9, <2>1, <2>2, HeapBounds DEF HeapTilesOK
<1>11. PICK r : r = [size |-> sz, used |-> FALSE, next |-> n]
  OBVIOUS
<1>12. heap' = [x \in DOMAIN heap \ gone |-> IF x = a THEN r ELSE heap[x]]
  BY <1>1, <1>4, <1>6, <1>9, <1>11 DEF HeapRelease
<1>13. a \notin gone
  BY <1>2, <1>3
<1>14. /\ HeapBlocks' = HeapBlocks \ gone /\ heap'[a] = r
       /\ \A x \in (HeapBlocks \ gone) \ {a} : heap'[x] = heap[x]
  BY <1>12, <1>13 DEF HeapBlocks
<1>15. \A x \in HeapBlocks \ gone : x = a \/ x < a \/ n <= x
  BY <1>3, <1>4, <1>8, <1>10
<1>16. HeapTilesOK'
  <2>1. 0 \in HeapBlocks' /\ HeapBlocks' \subseteq HeapUnits
    <3>1. 0 \notin gone
      BY <1>2, <1>3
    <3> QED
      BY <1>14, <3>1 DEF HeapTilesOK
  <2>2. n \in HeapBlocks' \cup {HeapNull}
    <3>1. n \notin gone
      BY <1>4, <1>7, <1>10
    <3> QED
      BY <1>10, <1>14, <3>1
  <2>3. ASSUME NEW x \in HeapBlocks'
        PROVE  /\ heap'[x] \in [size : 1..HEAP_UNITS, used : BOOLEAN, next : 1..HEAP_UNITS]
               /\ heap'[x].next = x + heap'[x].size
               /\ heap'[x].next \in HeapBlocks' \cup {HeapNull}
    <3>1. CASE x = a
      <4>1. sz \in 1..HEAP_UNITS /\ n \in 1..HEAP_UNITS /\ n = a + sz
        BY <1>3, <1>10
      <4>2. /\ r \in [size : 1..HEAP_UNITS, used : BOOLEAN, next : 1..HEAP_UNITS]
            /\ r.next = n /\ r.size = sz
        BY <1>11, <4>1
      <4>3. heap'[x] = r
        BY <1>14, <3>1
      <4> QED
        BY <2>2, <3>1, <4>1, <4>2, <4>3
    <3>2. CASE x # a
      <4>1. x \in HeapBlocks \ gone /\ heap'[x] = heap[x]
        BY <1>14, <2>3, <3>2
      <4>2. PICK y : y = heap[x].next
        OBVIOUS
      <4>3. /\ heap[x] \in [size : 1..HEAP_UNITS, used : BOOLEAN, next : 1..HEAP_UNITS]
            /\ heap[x].next = x + heap[x].size
            /\ y \in HeapBlocks \cup {HeapNull} /\ x < y
            /\ \A b \in HeapBlocks : x < b => y <= b
        BY <4>1, <4>2, HeapBounds DEF HeapTilesOK
      <4>4. x \in Nat /\ y \in Nat
        BY <1>3, <4>1, <4>2, HeapBounds
      <4>5. y \notin gone
        <5>1. CASE x < a
          <6>1. y <= a
            BY <4>3, <5>1
          <6> QED
            BY <1>2, <1>3, <4>4, <6>1
        <5>2. CASE n <= x
          <6>1. ~ (y <= m)
            BY <1>10, <4>3, <4>4, <5>2
          <6> QED
            BY <1>4, <1>7, <6>1
        <5> QED
          BY <1>15, <3>2, <4>1, <5>1, <5>2
      <4> QED
        BY <1>14, <4>1, <4>2, <4>3, <4>5
    <3> QED
      BY <3>1, <3>2
  <2>4. ASSUME NEW x \in HeapBlocks', NEW y \in HeapBlocks', x < y
        PROVE  heap'[x].next <= y
    <3>1. x \in HeapBlocks \ gone /\ y \in HeapBlocks \ gone /\ x \in Nat /\ y \in Nat
      BY <1>3, <1>14
    <3>2. CASE x = a
      <4>1. n <= y
        BY <1>3, <1>15, <2>4, <3>1, <3>2
      <4>2. heap'[x].next = n
        BY <1>11, <1>14, <3>2
      <4> QED
        BY <4>1, <4>2
    <3>3. CASE x # a
      <4>1. heap'[x] = heap[x]
        BY <1>14, <3>1, <3>3
      <4> QED
        BY <2>4, <3>1, <4>1 DEF HeapTilesOK
    <3> QED
      BY <3>2, <3>3
  <2> QED
    BY <2>1, <2>3, <2>4 DEF HeapTilesOK
<1>17. gone \subseteq HeapUnused
  <2> SUFFICES ASSUME NEW y \in gone PROVE y \in HeapUnused
    OBVIOUS
  <2>1. y \in HeapBlocks /\ a < y /\ y <= y
    BY <1>2, <1>3
  <2> QED
    BY <1>2, <2>1 DEF HeapUnused
<1>18. HeapTotalOK'
  <2>1. PICK rest : rest = HeapUnused \ gone
    OBVIOUS
  <2>2. HeapUnused' = rest \cup {a} /\ a \notin rest
    <3>1. \A x \in (HeapBlocks \ gone) \ {a} : heap'[x].used <=> heap[x].used
      BY <1>14
    <3>2. ~heap'[a].used
      BY <1>11, <1>14
    <3> QED
      BY <1>3, <1>13, <1>14, <2>1, <3>1, <3>2 DEF HeapUnused
  <2>3. IsFiniteSet(rest) /\ IsFiniteSet(gone) /\ rest \cap gone = {} /\ rest \cup gone = HeapUnused
    BY <1>3, <1>17, <2>1, FS_Subset
  <2>4. \A x \in HeapUnused : HeapSizes[x] \in Nat
    BY <1>3
  <2>5. SumFunctionOnSet(HeapSizes, HeapUnused)
          = SumFunctionOnSet(HeapSizes, rest) + SumFunctionOnSet(HeapSizes, gone)
    <3>1. \A x \in rest \cup gone : HeapSizes[x] \in Nat
      BY <2>3, <2>4
    <3>2. SumFunctionOnSet(HeapSizes, rest \cup gone)
            = SumFunctionOnSet(HeapSizes, rest) + SumFunctionOnSet(HeapSizes, gone)
      BY <2>3, <3>1, SumUnion
    <3> QED
      BY <2>3, <3>2
  <2>6. SumFunctionOnSet(HeapSizes, rest) \in Nat /\ SumFunctionOnSet(HeapSizes, gone) \in Nat
    <3>1. \A x \in rest : HeapSizes[x] \in Nat
      BY <2>3, <2>4
    <3>2. \A x \in gone : HeapSizes[x] \in Nat
      BY <2>3, <2>4
    <3> QED
      BY <2>3, <3>1, <3>2, SumNat
  <2>7. sz = HeapSizes[a] + SumFunctionOnSet(HeapSizes, gone)
    <3>1. all = gone \cup {a} /\ \A x \in gone \cup {a} : HeapSizes[x] \in Nat
      BY <1>3, <1>4, <2>3, <2>4
    <3>2. SumFunctionOnSet(HeapSizes, gone \cup {a}) = HeapSizes[a] + SumFunctionOnSet(HeapSizes, gone)
      BY <1>13, <2>3, <3>1, SumPutIn
    <3> QED
      BY <1>9, <3>1, <3>2
  <2>8. HeapSizes'[a] = sz /\ \A x \in rest : HeapSizes'[x] = HeapSizes[x]
    <3>1. HeapSizes' = [x \in HeapBlocks' |-> heap'[x].size]
      BY DEF HeapSizes, HeapBlocks
    <3>2. HeapSizes'[a] = sz
      BY <1>11, <1>13, <1>14, <3>1
    <3>3. ASSUME NEW x \in rest PROVE HeapSizes'[x] = HeapSizes[x]
      <4>1. x \in (HeapBlocks \ gone) \ {a}
        BY <1>3, <2>1, <2>2
      <4> QED
        BY <1>3, <1>14, <3>1, <4>1
    <3> QED
      BY <3>2, <3>3
  <2>9. SumFunctionOnSet(HeapSizes', rest) = SumFunctionOnSet(HeapSizes, rest)
    BY <2>3, <2>8, SumSame
  <2>10. sz \in Nat
    BY <1>3, <1>10
  <2>11. SumFunctionOnSet(HeapSizes', rest \cup {a}) = sz + SumFunctionOnSet(HeapSizes, rest)
    <3>1. \A x \in rest \cup {a} : HeapSizes'[x] \in Nat
      BY <2>3, <2>4, <2>8, <2>10
    <3>2. SumFunctionOnSet(HeapSizes', rest \cup {a})
            = HeapSizes'[a] + SumFunctionOnSet(HeapSizes', rest)
      BY <2>2, <2>3, <3>1, SumPutIn
    <3> QED
      BY <2>8, <2>9, <3>2
  <2>12. heapFreeTotal' = (SumFunctionOnSet(HeapSizes, rest) + SumFunctionOnSet(HeapSizes, gone))
                            + HeapSizes[a]
    BY <1>3, <2>5 DEF HeapTotalOK
  <2>13. heapFreeTotal' = SumFunctionOnSet(HeapSizes', HeapUnused')
    BY <1>3, <2>2, <2>6, <2>7, <2>11, <2>12
  <2> QED
    BY <2>13 DEF HeapTotalOK
<1>19. ~heap'[a].used
  BY <1>11, <1>14
<1>20. \A x \in HeapBlocks \ {a} : heap[x].used => x \in HeapBlocks'
  BY <1>14, <1>17 DEF HeapUnused
<1>21. a \in HeapBlocks' /\ HeapBlocks' \subseteq HeapBlocks
       /\ \A x \in HeapBlocks' \ {a} : heap'[x] = heap[x]
  BY <1>13, <1>14
<1> QED
  BY <1>16, <1>18, <1>19, <1>20, <1>21

\* A request of some bytes needs a header and at least one unit, and no more units than
\* hold the bytes.
LEMMA HeapNeeds ==
  ASSUME NEW bytes \in Nat
  PROVE  /\ HeapNeed(bytes) \in Nat /\ 1 < HeapNeed(bytes)
         /\ \A room \in Int : bytes # 0 /\ 8 * room >= bytes => HeapNeed(bytes) - HB_HDR <= room
         /\ \A room \in Int : 8 * room < bytes => room <= HeapNeed(bytes) - HB_HDR
<1>1. PICK n : n = IF bytes = 0 THEN 1 ELSE bytes
  OBVIOUS
<1>2. n \in Nat /\ 1 <= n /\ bytes <= n /\ (bytes # 0 => n = bytes)
  BY <1>1
<1>3. HeapNeed(bytes) = (n + 7) \div 8 + 1
  BY <1>1 DEF HeapNeed, HB_ALIGN, HB_HDR
<1>4. PICK q : q = (n + 7) \div 8
  OBVIOUS
<1>5. q \in Int /\ 8 * q <= n + 7 /\ n + 7 < 8 * q + 8
  BY <1>2, <1>4
<1>6. HeapNeed(bytes) = q + 1 /\ HeapNeed(bytes) - HB_HDR = q
  BY <1>3, <1>4, <1>5 DEF HB_HDR
<1>7. 1 <= q
  BY <1>2, <1>5
<1>8. \A room \in Int : bytes # 0 /\ 8 * room >= bytes => q <= room
  BY <1>2, <1>5
<1>9. \A room \in Int : 8 * room < bytes => room <= q
  BY <1>2, <1>5
<1> QED
  BY <1>5, <1>6, <1>7, <1>8, <1>9

\* What is inside one block is outside the others.
LEMMA HeapApart ==
  ASSUME HeapTilesOK, NEW a \in HeapBlocks, NEW b \in HeapBlocks, a # b,
         NEW u \in Int, a <= u, u < heap[a].next
  PROVE  ~ (b <= u /\ u < heap[b].next)
<1>1. /\ a \in Nat /\ b \in Nat /\ heap[a].next \in Nat /\ heap[b].next \in Nat
      /\ a < b => heap[a].next <= b
      /\ b < a => heap[b].next <= a
  BY HeapBounds DEF HeapTilesOK
<1> QED
  BY <1>1

\* What a caller may hold: memory inside a block in use.
LEMMA HeapInside ==
  ASSUME HeapTilesOK, NEW h \in [ptr : HeapUnits, units : 0..HEAP_UNITS], HeapBlockOK(h), h.ptr # 0
  PROVE  /\ h.ptr - 1 \in HeapBlocks /\ heap[h.ptr - 1].used /\ h.ptr \in Nat /\ h.units \in Nat
         /\ h.ptr + h.units <= heap[h.ptr - 1].next
         /\ h.units <= heap[h.ptr - 1].size - 1
<1>1. HEAP_UNITS \in Nat
  BY HeapAssumption
<1>2. h.ptr \in Nat /\ h.units \in Nat
  BY <1>1 DEF HeapUnits
<1>3. h # HeapNothing
  BY DEF HeapNothing
<1>4. h.ptr - 1 \in HeapBlocks /\ heap[h.ptr - 1].used /\ h.ptr + h.units <= heap[h.ptr - 1].next
  BY <1>3 DEF HeapBlockOK
<1>5. PICK b, r : b = h.ptr - 1 /\ r = heap[b]
  OBVIOUS
<1>6. r.next = b + r.size /\ r.size \in Nat /\ r.next \in Nat /\ b \in Nat
  BY <1>4, <1>5, HeapBounds DEF HeapTilesOK
<1>7. h.ptr + h.units <= r.next
  BY <1>4, <1>5
<1>8. h.units <= r.size - 1
  BY <1>2, <1>5, <1>6, <1>7
<1> QED
  BY <1>2, <1>4, <1>5, <1>8

\* A pointer is 0 just when nothing is held.
LEMMA HeapNothingIs ==
  ASSUME NEW h \in [ptr : HeapUnits, units : 0..HEAP_UNITS], HeapBlockOK(h)
  PROVE  h.ptr = 0 <=> h = HeapNothing
BY DEF HeapBlockOK, HeapNothing

\* A write inside one block leaves what is held elsewhere, and the headers.
LEMMA HeapWrites ==
  ASSUME HeapTilesOK, NEW b \in HeapBlocks,
         \A u \in HeapUnits : ~ (b < u /\ u < heap[b].next) => heapMem'[u] = heapMem[u]
  PROVE  /\ \A x \in HeapBlocks : heapMem'[x] = heapMem[x]
         /\ \A h \in [ptr : HeapUnits, units : 0..HEAP_UNITS] :
              HeapBlockOK(h) /\ (h.ptr # 0 => h.ptr - 1 # b) =>
                \A u \in HeapPayload(h) : heapMem'[u] = heapMem[u]
<1>0. HEAP_UNITS \in Nat
  BY HeapAssumption
<1>1. ASSUME NEW x \in HeapBlocks PROVE heapMem'[x] = heapMem[x]
  <2>1. x \in Nat /\ b \in Nat /\ x < heap[x].next /\ x \in HeapUnits /\ heap[b].next \in Nat
    BY HeapBounds DEF HeapTilesOK
  <2>2. ~ (b < x /\ x < heap[b].next)
    <3>1. CASE b = x
      BY <2>1, <3>1
    <3>2. CASE b # x
      <4>1. x \in Int /\ x <= x
        BY <2>1
      <4>2. ~ (b <= x /\ x < heap[b].next)
        BY <2>1, <3>2, <4>1, HeapApart
      <4> QED
        BY <2>1, <4>2
    <3> QED
      BY <3>1, <3>2
  <2> QED
    BY <2>1, <2>2
<1>2. ASSUME NEW h \in [ptr : HeapUnits, units : 0..HEAP_UNITS], HeapBlockOK(h),
             h.ptr # 0 => h.ptr - 1 # b, NEW u \in HeapPayload(h)
      PROVE  heapMem'[u] = heapMem[u]
  <2>1. CASE h.ptr = 0
    <3>1. h.units = 0
      BY <1>2, <2>1, HeapNothingIs DEF HeapNothing
    <3> QED
      BY <1>2, <2>1, <3>1 DEF HeapPayload
  <2>2. CASE h.ptr # 0
    <3>1. PICK a : a = h.ptr - 1
      OBVIOUS
    <3>2. /\ a \in HeapBlocks /\ h.ptr \in Nat /\ h.units \in Nat /\ h.ptr + h.units <= heap[a].next
          /\ a # b /\ heap[a].next \in Nat /\ heap[a].next <= HEAP_UNITS /\ heap[b].next \in Nat
          /\ b \in Nat
      BY <1>2, <2>2, <3>1, HeapInside, HeapBounds
    <3>3. u \in Nat /\ h.ptr <= u /\ u < h.ptr + h.units
      BY <1>2, <3>2 DEF HeapPayload
    <3>4. u \in Int /\ a <= u /\ u < heap[a].next /\ u \in HeapUnits
      BY <1>0, <3>1, <3>2, <3>3 DEF HeapUnits
    <3>5. ~ (b <= u /\ u < heap[b].next)
      BY <3>2, <3>4, HeapApart
    <3> QED
      BY <3>2, <3>4, <3>5
  <2> QED
    BY <2>1, <2>2
<1> QED
  BY <1>1, <1>2

\* What another caller has written is still there.
LEMMA HeapOthersKeep ==
  ASSUME HeapInv, NEW t \in HeapTasks, NEW b \in HeapBlocks,
         \A u \in HeapUnits : ~ (b < u /\ u < heap[b].next) => heapMem'[u] = heapMem[u],
         NEW s \in HeapTasks, s # t,
         heapHeld'[s] = heapHeld[s], heapNew'[s] = heapNew[s], heapPc'[s] = heapPc[s],
         heapHeld[s].ptr # 0 => heapHeld[s].ptr - 1 # b,
         heapNew[s].ptr # 0 => heapNew[s].ptr - 1 # b
  PROVE  /\ \A u \in HeapPayload(heapHeld'[s]) : heapMem'[u] = s
         /\ heapPc'[s] = "free" =>
              \A u \in heapNew'[s].ptr .. heapNew'[s].ptr + heapHeld'[s].units - 1 : heapMem'[u] = s
<1>1. PICK h, n : h = heapHeld[s] /\ n = heapNew[s]
  OBVIOUS
<1>2. /\ h \in [ptr : HeapUnits, units : 0..HEAP_UNITS] /\ HeapBlockOK(h)
      /\ n \in [ptr : HeapUnits, units : 0..HEAP_UNITS] /\ HeapBlockOK(n)
  BY <1>1 DEF HeapInv, HeapOwnersOK, HeapPtrs
<1>3. /\ \A u \in HeapPayload(h) : heapMem'[u] = heapMem[u]
      /\ \A u \in HeapPayload(n) : heapMem'[u] = heapMem[u]
  <2>1. /\ h.ptr # 0 => h.ptr - 1 # b
        /\ n.ptr # 0 => n.ptr - 1 # b
    BY <1>1
  <2>2. HeapTilesOK
    BY DEF HeapInv
  <2> QED
    BY <1>2, <2>1, <2>2, HeapWrites
<1>4. \A u \in HeapPayload(h) : heapMem[u] = s
  BY <1>1 DEF HeapInv, HeapMemOK
<1>5. ASSUME heapPc[s] = "free", NEW u \in n.ptr .. n.ptr + h.units - 1
      PROVE  heapMem'[u] = s
  <2>1. heapMem[u] = s
    BY <1>1, <1>5 DEF HeapInv, HeapMemOK
  <2>2. h.ptr # 0 /\ n.ptr # 0 /\ heap[h.ptr - 1].size - 1 <= n.units
    BY <1>1, <1>5 DEF HeapInv, HeapCallsOK
  <2>3. HeapTilesOK
    BY DEF HeapInv
  <2>4. /\ h.ptr - 1 \in HeapBlocks /\ h.units <= heap[h.ptr - 1].size - 1
        /\ n.ptr \in Nat /\ n.units \in Nat /\ h.units \in Nat
    BY <1>2, <2>2, <2>3, HeapInside
  <2>5. heap[h.ptr - 1].size \in Nat
    BY <2>3, <2>4, HeapBounds
  <2>6. h.units <= n.units
    BY <2>2, <2>4, <2>5
  <2>7. u \in HeapPayload(n)
    BY <1>5, <2>4, <2>6 DEF HeapPayload
  <2> QED
    BY <1>3, <2>1, <2>7
<1> QED
  BY <1>1, <1>3, <1>4, <1>5

\* Nobody else holds the block of what a caller holds.
LEMMA HeapAlone ==
  ASSUME HeapInv, NEW t \in HeapTasks, NEW s \in HeapTasks
  PROVE  /\ t # s /\ heapHeld[t].ptr # 0 /\ heapHeld[s].ptr # 0 =>
              heapHeld[s].ptr - 1 # heapHeld[t].ptr - 1
         /\ t # s /\ heapNew[t].ptr # 0 /\ heapNew[s].ptr # 0 =>
              heapNew[s].ptr - 1 # heapNew[t].ptr - 1
         /\ heapHeld[t].ptr # 0 /\ heapNew[s].ptr # 0 =>
              heapNew[s].ptr - 1 # heapHeld[t].ptr - 1
<1>1. HEAP_UNITS \in Nat
  BY HeapAssumption
<1>2. \A x \in HeapTasks : heapHeld[x].ptr \in HeapUnits /\ heapNew[x].ptr \in HeapUnits
  BY DEF HeapInv, HeapOwnersOK, HeapPtrs
<1>3. PICK p, q, m, n : /\ p = heapHeld[t].ptr /\ q = heapHeld[s].ptr
                        /\ m = heapNew[t].ptr /\ n = heapNew[s].ptr
  OBVIOUS
<1>4. p \in Int /\ q \in Int /\ m \in Int /\ n \in Int
  BY <1>1, <1>2, <1>3 DEF HeapUnits
<1>5. /\ t # s /\ p # 0 => q # p
      /\ t # s /\ m # 0 => n # m
      /\ p # 0 => n # p
  BY <1>3 DEF HeapInv, HeapOwnersOK
<1> QED
  BY <1>3, <1>4, <1>5

LEMMA HeapInitInv == HeapInit => HeapInv
<1> SUFFICES ASSUME HeapInit PROVE HeapInv
  OBVIOUS
<1>1. HEAP_UNITS \in Nat \ {0} /\ HeapMaxCalls \in Nat
  BY HeapAssumption
<1>2. PICK r : r = [size |-> HEAP_UNITS, used |-> FALSE, next |-> HeapNull]
  OBVIOUS
<1>3. HeapBlocks = {0} /\ heap[0] = r
  BY <1>2 DEF HeapInit, HeapBlocks
<1>4. /\ r \in [size : 1..HEAP_UNITS, used : BOOLEAN, next : 1..HEAP_UNITS]
      /\ r.next = HEAP_UNITS /\ r.size = HEAP_UNITS /\ r.used = FALSE
  BY <1>1, <1>2 DEF HeapNull
<1>5. HeapTilesOK
  BY <1>1, <1>3, <1>4 DEF HeapTilesOK, HeapUnits, HeapNull
<1>6. HeapTotalOK
  <2>1. HeapUnused = {0}
    BY <1>3, <1>4 DEF HeapUnused
  <2>2. HeapSizes[0] = HEAP_UNITS
    BY <1>3, <1>4 DEF HeapSizes, HeapBlocks
  <2>3. SumFunctionOnSet(HeapSizes, {0}) = HEAP_UNITS
    BY <1>1, <2>2, SumOne
  <2> QED
    BY <2>1, <2>3 DEF HeapTotalOK, HeapInit
<1>7. HeapNothing \in [ptr : HeapUnits, units : 0..HEAP_UNITS] /\ HeapNothing.ptr = 0
  BY <1>1 DEF HeapNothing, HeapUnits
<1>8. /\ \A t \in HeapTasks : heapHeld[t] = HeapNothing /\ heapNew[t] = HeapNothing
      /\ heapHeld \in HeapPtrs /\ heapNew \in HeapPtrs
  BY <1>7 DEF HeapInit, HeapPtrs
<1>9. HeapOwnersOK
  BY <1>3, <1>4, <1>7, <1>8 DEF HeapOwnersOK, HeapBlockOK
<1>10. HeapCallsOK
  BY <1>1, <1>8 DEF HeapInit, HeapCallsOK
<1>11. HeapMemOK
  <2>1. HeapPayload(HeapNothing) = {}
    BY DEF HeapPayload, HeapNothing
  <2>2. \A t \in HeapTasks : HeapPayload(heapHeld[t]) = {} /\ heapPc[t] # "free"
    BY <1>8, <2>1 DEF HeapInit
  <2>3. 0 \in HeapUnits
    BY <1>1 DEF HeapUnits
  <2>4. heapMem \in [HeapUnits -> HeapTasks \cup {"header", "none"}] /\ heapMem[0] = "header"
    BY <2>3 DEF HeapInit
  <2> QED
    BY <1>3, <2>2, <2>4 DEF HeapMemOK
<1> QED
  BY <1>5, <1>6, <1>9, <1>10, <1>11 DEF HeapInv

\* esp_shim_malloc gives nothing and changes nothing, or gives memory inside a block that
\* was free; the header of a new block is inside the old one too.
HeapGiven(a, got) ==
  /\ a \in HeapBlocks /\ ~heap[a].used /\ got.ptr = a + 1 /\ got.units \in Nat \ {0}
  /\ HeapTilesOK' /\ HeapTotalOK' /\ HeapBlocks \subseteq HeapBlocks'
  /\ heap'[a].used /\ got.ptr + got.units <= heap'[a].next /\ heap'[a].next <= heap[a].next
  /\ \A x \in HeapBlocks \ {a} : heap'[x] = heap[x]
  /\ \A x \in HeapBlocks' \ HeapBlocks :
       ~heap'[x].used /\ a < x /\ x < heap[a].next /\ heap'[a].next <= x

LEMMA HeapMallocGives ==
  ASSUME HeapTilesOK, HeapTotalOK, NEW bytes \in Nat, NEW got, HeapMalloc(bytes, got)
  PROVE  \/ got = HeapNothing /\ heap' = heap /\ heapFreeTotal' = heapFreeTotal
         \/ got.units = HeapNeed(bytes) - HB_HDR /\ \E a \in HeapBlocks : HeapGiven(a, got)
<1>1. PICK need : need = HeapNeed(bytes)
  OBVIOUS
<1>2. need \in Nat /\ 1 < need
  BY <1>1, HeapNeeds
<1>3. CASE HeapFits(need) = {}
  BY <1>1, <1>3 DEF HeapMalloc
<1>4. CASE HeapFits(need) # {}
  <2>1. PICK a : a = Min(HeapFits(need))
    OBVIOUS
  <2>2. HeapFits(need) \subseteq Nat
    BY HeapListedAll, HeapBounds DEF HeapFits
  <2>3. a \in HeapFits(need)
    BY <1>4, <2>1, <2>2, MinIsIn
  <2>4. a \in HeapBlocks /\ ~heap[a].used /\ heap[a].size >= need
    BY <2>3, HeapListedAll DEF HeapFits
  <2>5. /\ got = [ptr |-> a + HB_HDR, units |-> need - HB_HDR]
        /\ heap' = HeapTake(a, need) /\ heapFreeTotal' = heapFreeTotal - heap'[a].size
    BY <1>1, <1>4, <2>1 DEF HeapMalloc
  <2>6. heap[a].size \in Nat /\ need <= heap[a].size /\ a \in Nat /\ heap[a].next \in Nat
    BY <1>2, <2>4, HeapBounds
  <2>7. /\ HeapTilesOK' /\ HeapTotalOK' /\ HeapBlocks \subseteq HeapBlocks'
        /\ heap'[a].used /\ a + need <= heap'[a].next /\ heap'[a].next <= heap[a].next
        /\ \A x \in HeapBlocks \ {a} : heap'[x] = heap[x]
        /\ \A x \in HeapBlocks' \ HeapBlocks :
             ~heap'[x].used /\ a < x /\ x < heap[a].next /\ heap'[a].next <= x
    BY <1>2, <2>4, <2>5, <2>6, HeapTakes
  <2>8. got.ptr = a + 1 /\ got.units = need - 1 /\ got.units \in Nat \ {0}
    BY <1>2, <2>5 DEF HB_HDR
  <2>9. got.ptr + got.units = a + need
    BY <1>2, <2>6, <2>8
  <2> QED
    BY <1>1, <2>4, <2>5, <2>7, <2>8, <2>9 DEF HeapGiven, HB_HDR
<1> QED
  BY <1>3, <1>4

HeapPtr == [ptr : HeapUnits, units : 0..HEAP_UNITS]

\* The memory given is inside heap_area.
LEMMA HeapGivenInside ==
  ASSUME HeapTilesOK, NEW a, NEW got, HeapGiven(a, got)
  PROVE  got.ptr \in HeapUnits /\ got.units \in 0..HEAP_UNITS
<1>1. /\ HEAP_UNITS \in Nat /\ a \in HeapBlocks /\ a \in Nat /\ got.ptr = a + 1
      /\ got.units \in Nat \ {0} /\ heap[a].next \in Nat /\ heap[a].next <= HEAP_UNITS
  BY HeapAssumption, HeapBounds DEF HeapGiven
<1>2. PICK e : e = heap'[a].next
  OBVIOUS
<1>3. HeapTilesOK' /\ a \in HeapBlocks'
  BY <1>1 DEF HeapGiven
<1>4. PICK r : r = heap'[a]
  OBVIOUS
<1>5. r \in [size : 1..HEAP_UNITS, used : BOOLEAN, next : 1..HEAP_UNITS] /\ r.next = a + r.size
  BY <1>3, <1>4 DEF HeapTilesOK
<1>6. e \in Nat /\ e <= HEAP_UNITS /\ got.ptr + got.units <= e
  BY <1>1, <1>2, <1>4, <1>5 DEF HeapGiven
<1>7. CASE got.ptr < HEAP_UNITS
  BY <1>1, <1>6, <1>7 DEF HeapUnits
<1>8. CASE got.ptr >= HEAP_UNITS
  BY <1>1, <1>6, <1>8
<1> QED
  BY <1>1, <1>7, <1>8

\* An allocation takes nothing of what is held already.
LEMMA HeapGains ==
  ASSUME HeapTilesOK, NEW a, NEW got \in HeapPtr, HeapGiven(a, got)
  PROVE  /\ HeapBlockOK(got)'
         /\ \A h \in HeapPtr : HeapBlockOK(h) =>
              /\ HeapBlockOK(h)' /\ h.ptr # got.ptr
              /\ h.ptr # 0 => h.ptr - 1 # a /\ heap'[h.ptr - 1] = heap[h.ptr - 1]
         /\ \A x \in HeapBlocks' : heap'[x].used =>
              x + 1 = got.ptr \/ (x \in HeapBlocks /\ heap[x].used)
<1>0. HEAP_UNITS \in Nat /\ a \in HeapBlocks /\ a \in Nat /\ got.ptr = a + 1 /\ a \in HeapBlocks'
  BY HeapAssumption, HeapBounds DEF HeapGiven
<1>1. got.ptr - 1 = a /\ got.ptr # 0
  BY <1>0
<1>2. HeapBlockOK(got)'
  BY <1>0, <1>1 DEF HeapGiven, HeapBlockOK
<1>3. ASSUME NEW h \in HeapPtr, HeapBlockOK(h)
      PROVE  /\ HeapBlockOK(h)' /\ h.ptr # got.ptr
             /\ h.ptr # 0 => h.ptr - 1 # a /\ heap'[h.ptr - 1] = heap[h.ptr - 1]
  <2>1. CASE h.ptr = 0
    <3>1. h = HeapNothing
      BY <1>3, <2>1, HeapNothingIs DEF HeapPtr
    <3>2. HeapBlockOK(h)'
      BY <3>1 DEF HeapBlockOK
    <3> QED
      BY <1>1, <2>1, <3>2
  <2>2. CASE h.ptr # 0
    <3>1. h.ptr - 1 \in HeapBlocks /\ heap[h.ptr - 1].used /\ h.ptr + h.units <= heap[h.ptr - 1].next
      BY <1>3, <2>2, HeapInside DEF HeapPtr
    <3>2. h.ptr - 1 # a
      BY <3>1 DEF HeapGiven
    <3>3. heap'[h.ptr - 1] = heap[h.ptr - 1] /\ h.ptr - 1 \in HeapBlocks'
      BY <3>1, <3>2 DEF HeapGiven
    <3>4. HeapBlockOK(h)'
      BY <2>2, <3>1, <3>3 DEF HeapBlockOK
    <3>5. h.ptr # got.ptr
      BY <1>1, <3>2
    <3> QED
      BY <3>2, <3>3, <3>4, <3>5
  <2> QED
    BY <2>1, <2>2
<1>4. ASSUME NEW x \in HeapBlocks', heap'[x].used
      PROVE  x + 1 = got.ptr \/ (x \in HeapBlocks /\ heap[x].used)
  <2>1. CASE x = a
    BY <1>0, <2>1
  <2>2. CASE x # a
    <3>1. x \in HeapBlocks
      BY <1>4 DEF HeapGiven
    <3>2. heap'[x] = heap[x]
      BY <2>2, <3>1 DEF HeapGiven
    <3> QED
      BY <1>4, <3>1, <3>2
  <2> QED
    BY <2>1, <2>2
<1> QED
  BY <1>2, <1>3, <1>4

\* What is written after an allocation is inside the block given.
LEMMA HeapGainMem ==
  ASSUME HeapTilesOK, HeapMemOK, NEW a, NEW got \in HeapPtr, HeapGiven(a, got),
         NEW W, W \subseteq HeapPayload(got), NEW t,
         \A u \in HeapUnits : heapMem'[u] = IF u \in W THEN t
                                ELSE IF u \in HeapBlocks' \ HeapBlocks THEN "header"
                                ELSE heapMem[u]
  PROVE  /\ \A u \in HeapUnits : ~ (a < u /\ u < heap[a].next) => heapMem'[u] = heapMem[u]
         /\ \A x \in HeapBlocks' : heapMem'[x] = "header"
<1>0. /\ HEAP_UNITS \in Nat /\ a \in HeapBlocks /\ a \in Nat /\ got.ptr = a + 1
      /\ got.units \in Nat /\ heap[a].next \in Nat
  BY HeapAssumption, HeapBounds DEF HeapGiven
<1>1. PICK e : e = heap'[a].next
  OBVIOUS
<1>2. HeapTilesOK' /\ a \in HeapBlocks'
  BY <1>0 DEF HeapGiven
<1>3. e \in Nat
  <2>1. heap'[a] \in [size : 1..HEAP_UNITS, used : BOOLEAN, next : 1..HEAP_UNITS]
    BY <1>2 DEF HeapTilesOK
  <2> QED
    BY <1>0, <1>1, <2>1
<1>4. got.ptr + got.units <= e /\ e <= heap[a].next
  BY <1>1 DEF HeapGiven
<1>5. \A u \in W : u \in Nat /\ a < u /\ u < e
  BY <1>0, <1>3, <1>4 DEF HeapPayload
<1>6. ASSUME NEW u \in HeapUnits, ~ (a < u /\ u < heap[a].next)
      PROVE  heapMem'[u] = heapMem[u]
  <2>1. u \in Nat
    BY <1>0 DEF HeapUnits
  <2>2. u \notin W
    BY <1>0, <1>3, <1>4, <1>5, <1>6
  <2>3. u \notin HeapBlocks' \ HeapBlocks
    BY <1>6 DEF HeapGiven
  <2> QED
    BY <2>2, <2>3
<1>7. ASSUME NEW x \in HeapBlocks'
      PROVE  heapMem'[x] = "header"
  <2>1. x \in HeapUnits
    BY <1>2 DEF HeapTilesOK, HeapUnits
  <2>2. CASE x \in HeapBlocks
    <3>1. \A b \in HeapBlocks : heapMem'[b] = heapMem[b]
      BY <1>0, <1>6, HeapWrites
    <3> QED
      BY <2>2, <3>1 DEF HeapMemOK
  <2>3. CASE x \notin HeapBlocks
    <3>1. e <= x /\ x \in Nat
      BY <1>0, <1>1, <2>1, <2>3 DEF HeapGiven, HeapUnits
    <3>2. x \notin W
      BY <1>3, <1>5, <3>1
    <3> QED
      BY <2>1, <2>3, <3>2
  <2> QED
    BY <2>2, <2>3
<1> QED
  BY <1>6, <1>7

\* What a release leaves of the blocks of the others.
LEMMA HeapLoses ==
  ASSUME HeapTilesOK, HeapTotalOK, NEW p \in HeapPtr, p.ptr # 0, HeapBlockOK(p), HeapFreeBlock(p.ptr)
  PROVE  /\ HeapTilesOK' /\ HeapTotalOK' /\ HeapBlocks' \subseteq HeapBlocks
         /\ \A h \in HeapPtr : HeapBlockOK(h) /\ (h.ptr # 0 => h.ptr # p.ptr) =>
              /\ HeapBlockOK(h)'
              /\ h.ptr # 0 => heap'[h.ptr - 1] = heap[h.ptr - 1]
         /\ \A x \in HeapBlocks' : heap'[x].used => x + 1 # p.ptr /\ heap[x].used
<1>0. HEAP_UNITS \in Nat
  BY HeapAssumption
<1>1. PICK a : a = p.ptr - 1
  OBVIOUS
<1>2. a \in HeapBlocks /\ heap[a].used /\ p.ptr \in Nat
  BY <1>1, HeapInside DEF HeapPtr
<1>3. heap' = HeapRelease(a) /\ heapFreeTotal' = heapFreeTotal + heap[a].size
  BY <1>1 DEF HeapFreeBlock, HB_HDR
<1>4. /\ HeapTilesOK' /\ HeapTotalOK' /\ a \in HeapBlocks' /\ HeapBlocks' \subseteq HeapBlocks
      /\ ~heap'[a].used
      /\ \A x \in HeapBlocks' \ {a} : heap'[x] = heap[x]
      /\ \A x \in HeapBlocks \ {a} : heap[x].used => x \in HeapBlocks'
  BY <1>2, <1>3, HeapReleases
<1>5. ASSUME NEW h \in HeapPtr, HeapBlockOK(h), h.ptr # 0 => h.ptr # p.ptr
      PROVE  /\ HeapBlockOK(h)'
             /\ h.ptr # 0 => heap'[h.ptr - 1] = heap[h.ptr - 1]
  <2>1. CASE h.ptr = 0
    <3>1. h = HeapNothing
      BY <1>5, <2>1, HeapNothingIs DEF HeapPtr
    <3>2. HeapBlockOK(h)'
      BY <3>1 DEF HeapBlockOK
    <3> QED
      BY <2>1, <3>2
  <2>2. CASE h.ptr # 0
    <3>1. /\ h.ptr - 1 \in HeapBlocks /\ heap[h.ptr - 1].used /\ h.ptr \in Nat
          /\ h.ptr + h.units <= heap[h.ptr - 1].next
      BY <1>5, <2>2, HeapInside DEF HeapPtr
    <3>2. h.ptr - 1 # a
      BY <1>1, <1>2, <1>5, <2>2, <3>1
    <3>3. h.ptr - 1 \in HeapBlocks' /\ heap'[h.ptr - 1] = heap[h.ptr - 1]
      BY <1>4, <3>1, <3>2
    <3>4. HeapBlockOK(h)'
      BY <2>2, <3>1, <3>3 DEF HeapBlockOK
    <3> QED
      BY <3>3, <3>4
  <2> QED
    BY <2>1, <2>2
<1>6. ASSUME NEW x \in HeapBlocks', heap'[x].used
      PROVE  x + 1 # p.ptr /\ heap[x].used
  <2>1. x # a
    BY <1>4, <1>6
  <2>2. x \in Nat
    BY <1>4, HeapBounds
  <2>3. heap'[x] = heap[x]
    BY <1>4, <2>1
  <2> QED
    BY <1>1, <1>2, <1>6, <2>1, <2>2, <2>3
<1> QED
  BY <1>4, <1>5, <1>6

LEMMA HeapFacts ==
  ASSUME HeapInv
  PROVE  /\ HEAP_UNITS \in Nat /\ HeapMaxCalls \in Nat /\ HeapNothing \in HeapPtr
         /\ HeapNothing.ptr = 0 /\ HeapPayload(HeapNothing) = {} /\ HeapBlockOK(HeapNothing)'
         /\ HeapTilesOK /\ HeapTotalOK /\ HeapMemOK
         /\ \A t \in HeapTasks :
              /\ heapHeld[t] \in HeapPtr /\ HeapBlockOK(heapHeld[t])
              /\ heapNew[t] \in HeapPtr /\ HeapBlockOK(heapNew[t])
              /\ heapHeld[t].ptr = 0 <=> heapHeld[t] = HeapNothing
              /\ heapNew[t].ptr = 0 <=> heapNew[t] = HeapNothing
<1>1. HEAP_UNITS \in Nat /\ HeapMaxCalls \in Nat /\ 0 \in HeapUnits
  BY HeapAssumption DEF HeapUnits
<1>2. HeapNothing \in HeapPtr /\ HeapNothing.ptr = 0 /\ HeapPayload(HeapNothing) = {}
  BY <1>1 DEF HeapNothing, HeapPtr, HeapPayload
<1>3. HeapBlockOK(HeapNothing)'
  BY DEF HeapBlockOK
<1>4. HeapTilesOK /\ HeapTotalOK /\ HeapMemOK
  BY DEF HeapInv
<1>5. ASSUME NEW t \in HeapTasks
      PROVE  /\ heapHeld[t] \in HeapPtr /\ HeapBlockOK(heapHeld[t])
             /\ heapNew[t] \in HeapPtr /\ HeapBlockOK(heapNew[t])
             /\ heapHeld[t].ptr = 0 <=> heapHeld[t] = HeapNothing
             /\ heapNew[t].ptr = 0 <=> heapNew[t] = HeapNothing
  <2>1. /\ heapHeld[t] \in HeapPtr /\ HeapBlockOK(heapHeld[t])
        /\ heapNew[t] \in HeapPtr /\ HeapBlockOK(heapNew[t])
    BY DEF HeapInv, HeapOwnersOK, HeapPtrs, HeapPtr
  <2> QED
    BY <2>1, HeapNothingIs DEF HeapPtr
<1> QED
  BY <1>1, <1>2, <1>3, <1>4, <1>5

\* An allocation that finds a block.
LEMMA HeapAllocGets ==
  ASSUME HeapInv, NEW t \in HeapTasks, NEW bytes \in HeapRequests, NEW a, NEW got \in HeapPtr,
         HeapAlloc(t), HeapGiven(a, got),
         heapHeld' = [heapHeld EXCEPT ![t] = got],
         heapMem' = HeapWrite(HeapHeaders(heapMem), HeapPayload(got), t)
  PROVE  HeapInv'
<1>1. /\ heapPc[t] = "idle" /\ heapHeld[t] = HeapNothing
      /\ heapPc' = heapPc /\ heapNew' = heapNew
      /\ heapCalls < HeapMaxCalls /\ heapCalls' = heapCalls + 1
  BY DEF HeapAlloc, HeapCall
<1>2. /\ HEAP_UNITS \in Nat /\ HeapMaxCalls \in Nat /\ HeapNothing.ptr = 0
      /\ HeapTilesOK /\ HeapTotalOK /\ HeapMemOK
      /\ \A s \in HeapTasks : /\ heapHeld[s] \in HeapPtr /\ HeapBlockOK(heapHeld[s])
                              /\ heapNew[s] \in HeapPtr /\ HeapBlockOK(heapNew[s])
  BY HeapFacts
<1>3. /\ HeapTilesOK' /\ HeapTotalOK' /\ a \in HeapBlocks /\ got.ptr = a + 1 /\ a \in Nat
      /\ got.ptr # 0 /\ HeapBlocks \subseteq HeapBlocks'
  BY <1>2, HeapBounds DEF HeapGiven
<1>4. /\ HeapBlockOK(got)'
      /\ \A h \in HeapPtr : HeapBlockOK(h) =>
           /\ HeapBlockOK(h)' /\ h.ptr # got.ptr
           /\ h.ptr # 0 => h.ptr - 1 # a /\ heap'[h.ptr - 1] = heap[h.ptr - 1]
      /\ \A x \in HeapBlocks' : heap'[x].used =>
           x + 1 = got.ptr \/ (x \in HeapBlocks /\ heap[x].used)
  BY <1>2, HeapGains
<1>5. heapHeld' \in HeapPtrs /\ heapNew' \in HeapPtrs /\ heapHeld'[t] = got
  BY <1>1 DEF HeapInv, HeapOwnersOK, HeapPtrs, HeapPtr
<1>6. \A s \in HeapTasks : s # t => heapHeld'[s] = heapHeld[s]
  BY DEF HeapInv, HeapOwnersOK, HeapPtrs
<1>7. \A s \in HeapTasks :
        /\ heapHeld[s].ptr # got.ptr /\ heapNew[s].ptr # got.ptr
        /\ heapHeld[s].ptr # 0 => heapHeld[s].ptr - 1 # a
        /\ heapNew[s].ptr # 0 => heapNew[s].ptr - 1 # a
        /\ heapHeld[s].ptr # 0 => heap'[heapHeld[s].ptr - 1] = heap[heapHeld[s].ptr - 1]
  BY <1>2, <1>4
<1>8. HeapOwnersOK'
  <2>1. ASSUME NEW s \in HeapTasks
        PROVE  HeapBlockOK(heapHeld[s])' /\ HeapBlockOK(heapNew[s])'
    <3>1. PICK h, n : h = heapHeld'[s] /\ n = heapNew'[s]
      OBVIOUS
    <3>2. HeapBlockOK(n)'
      BY <1>1, <1>2, <1>4, <3>1
    <3>3. HeapBlockOK(h)'
      BY <1>2, <1>4, <1>5, <1>6, <3>1
    <3> QED
      BY <3>1, <3>2, <3>3 DEF HeapBlockOK
  <2>2. /\ \A x, s \in HeapTasks : x # s /\ heapHeld'[x].ptr # 0 => heapHeld'[s].ptr # heapHeld'[x].ptr
        /\ \A x, s \in HeapTasks : x # s /\ heapNew'[x].ptr # 0 => heapNew'[s].ptr # heapNew'[x].ptr
        /\ \A x, s \in HeapTasks : heapHeld'[x].ptr # 0 => heapNew'[s].ptr # heapHeld'[x].ptr
    BY <1>1, <1>5, <1>6, <1>7 DEF HeapInv, HeapOwnersOK
  <2>3. ASSUME NEW x \in HeapBlocks', heap'[x].used
        PROVE  \E s \in HeapTasks : heapHeld'[s].ptr = x + 1 \/ heapNew'[s].ptr = x + 1
    <3>1. CASE x + 1 = got.ptr
      BY <1>5, <3>1
    <3>2. CASE x \in HeapBlocks /\ heap[x].used
      <4>1. PICK s \in HeapTasks : heapHeld[s].ptr = x + 1 \/ heapNew[s].ptr = x + 1
        BY <3>2 DEF HeapInv, HeapOwnersOK
      <4>2. x + 1 # 0
        BY <1>2, <3>2, HeapBounds
      <4> QED
        BY <1>1, <1>2, <1>6, <4>1, <4>2
    <3> QED
      BY <1>4, <2>3, <3>1, <3>2
  <2> QED
    BY <1>5, <2>1, <2>2, <2>3 DEF HeapOwnersOK
<1>9. HeapCallsOK'
  <2>1. heapCalls' \in 0..HeapMaxCalls
    BY <1>1, <1>2 DEF HeapInv, HeapCallsOK
  <2>2. ASSUME NEW s \in HeapTasks, heapPc'[s] # "idle"
        PROVE  /\ heapHeld'[s].ptr # 0 /\ heapNew'[s].ptr # 0
               /\ heap'[heapHeld'[s].ptr - 1].size - 1 <= heapNew'[s].units
    <3>1. s # t /\ heapHeld'[s] = heapHeld[s] /\ heapPc[s] # "idle"
      BY <1>1, <1>6, <2>2
    <3>2. /\ heapHeld[s].ptr # 0 /\ heapNew[s].ptr # 0
          /\ heap[heapHeld[s].ptr - 1].size - 1 <= heapNew[s].units
      BY <3>1 DEF HeapInv, HeapCallsOK
    <3> QED
      BY <1>1, <1>7, <3>1, <3>2
  <2> QED
    BY <1>1, <2>1, <2>2 DEF HeapInv, HeapCallsOK
<1>10. HeapMemOK'
  <2>1. /\ heapMem' \in [HeapUnits -> HeapTasks \cup {"header", "none"}]
        /\ \A u \in HeapUnits : heapMem'[u] = IF u \in HeapPayload(got) THEN t
             ELSE IF u \in HeapBlocks' \ HeapBlocks THEN "header" ELSE heapMem[u]
    BY <1>2 DEF HeapWrite, HeapHeaders, HeapMemOK, HeapBlocks
  <2>2. /\ \A u \in HeapUnits : ~ (a < u /\ u < heap[a].next) => heapMem'[u] = heapMem[u]
        /\ \A x \in HeapBlocks' : heapMem'[x] = "header"
    BY <1>2, <2>1, HeapGainMem
  <2>3. ASSUME NEW s \in HeapTasks, s # t
        PROVE  /\ \A u \in HeapPayload(heapHeld'[s]) : heapMem'[u] = s
               /\ heapPc'[s] = "free" =>
                    \A u \in heapNew'[s].ptr .. heapNew'[s].ptr + heapHeld'[s].units - 1 : heapMem'[u] = s
    <3>1. /\ heapHeld'[s] = heapHeld[s] /\ heapNew'[s] = heapNew[s] /\ heapPc'[s] = heapPc[s]
          /\ heapHeld[s].ptr # 0 => heapHeld[s].ptr - 1 # a
          /\ heapNew[s].ptr # 0 => heapNew[s].ptr - 1 # a
      BY <1>1, <1>6, <1>7, <2>3
    <3> QED
      BY <1>3, <2>2, <2>3, <3>1, HeapOthersKeep
  <2>4. ASSUME NEW u \in HeapPayload(got)
        PROVE  heapMem'[u] = t
    <3>1. PICK e : e = heap'[a].next
      OBVIOUS
    <3>2. e \in Nat /\ e <= HEAP_UNITS /\ got.ptr + got.units <= e
      <4>1. heap'[a] \in [size : 1..HEAP_UNITS, used : BOOLEAN, next : 1..HEAP_UNITS]
        BY <1>3 DEF HeapTilesOK
      <4> QED
        BY <1>2, <3>1, <4>1 DEF HeapGiven
    <3>3. got.ptr \in Nat /\ got.units \in Nat
      BY <1>2 DEF HeapPtr, HeapUnits
    <3>4. u \in HeapUnits
      BY <1>2, <3>2, <3>3 DEF HeapPayload, HeapUnits
    <3> QED
      BY <2>1, <3>4
  <2>5. heapPc'[t] # "free"
    BY <1>1
  <2> QED
    BY <1>5, <2>1, <2>2, <2>3, <2>4, <2>5 DEF HeapMemOK
<1> QED
  BY <1>3, <1>8, <1>9, <1>10 DEF HeapInv

LEMMA HeapStutters ==
  ASSUME HeapInv, heap' = heap, heapFreeTotal' = heapFreeTotal, heapMem' = heapMem,
         heapHeld' = heapHeld, heapPc' = heapPc, heapNew' = heapNew,
         heapCalls' \in 0..HeapMaxCalls
  PROVE  HeapInv'
<1>1. HeapTilesOK' /\ HeapTotalOK'
  BY DEF HeapInv, HeapTilesOK, HeapTotalOK, HeapBlocks, HeapUnused, HeapSizes
<1>2. HeapOwnersOK'
  BY DEF HeapInv, HeapOwnersOK, HeapBlockOK, HeapBlocks
<1>3. HeapCallsOK' /\ HeapMemOK'
  BY DEF HeapInv, HeapCallsOK, HeapMemOK, HeapBlocks, HeapPayload
<1> QED
  BY <1>1, <1>2, <1>3 DEF HeapInv

LEMMA HeapAllocStep ==
  ASSUME HeapInv, NEW t \in HeapTasks, HeapAlloc(t)
  PROVE  HeapInv'
<1>1. PICK bytes \in HeapRequests :
        \E got \in [ptr : HeapUnits, units : {0, HeapNeed(bytes) - HB_HDR}] :
          /\ HeapMalloc(bytes, got)
          /\ heapHeld' = [heapHeld EXCEPT ![t] = got]
          /\ heapMem' = HeapWrite(HeapHeaders(heapMem), HeapPayload(got), t)
  BY DEF HeapAlloc
<1>2. PICK got \in [ptr : HeapUnits, units : {0, HeapNeed(bytes) - HB_HDR}] :
          /\ HeapMalloc(bytes, got)
          /\ heapHeld' = [heapHeld EXCEPT ![t] = got]
          /\ heapMem' = HeapWrite(HeapHeaders(heapMem), HeapPayload(got), t)
  BY <1>1
<1>3. HeapTilesOK /\ HeapTotalOK /\ bytes \in Nat
  BY HeapAssumption DEF HeapInv
<1>4. CASE got = HeapNothing /\ heap' = heap /\ heapFreeTotal' = heapFreeTotal
  <2>1. HeapPayload(got) = {} /\ heapHeld[t] = HeapNothing /\ HeapMaxCalls \in Nat
    BY <1>4, HeapFacts DEF HeapAlloc
  <2>2. heapHeld' = heapHeld
    BY <1>2, <1>4, <2>1 DEF HeapInv, HeapOwnersOK, HeapPtrs
  <2>3. heapMem' = heapMem
    <3>1. heapMem \in [HeapUnits -> HeapTasks \cup {"header", "none"}]
      BY DEF HeapInv, HeapMemOK
    <3>2. DOMAIN heap' \ DOMAIN heap = {}
      BY <1>4
    <3>3. HeapHeaders(heapMem) = [u \in HeapUnits |-> heapMem[u]]
      BY <3>2 DEF HeapHeaders, HeapWrite
    <3>4. heapMem' = [u \in HeapUnits |-> heapMem[u]]
      BY <1>2, <2>1, <3>3 DEF HeapWrite
    <3> QED
      BY <3>1, <3>4
  <2>4. heapPc' = heapPc /\ heapNew' = heapNew /\ heapCalls' \in 0..HeapMaxCalls
    BY <2>1 DEF HeapAlloc, HeapCall, HeapInv, HeapCallsOK
  <2> QED
    BY <1>4, <2>2, <2>3, <2>4, HeapStutters
<1>5. CASE got.units = HeapNeed(bytes) - HB_HDR /\ \E a \in HeapBlocks : HeapGiven(a, got)
  <2>1. PICK a : HeapGiven(a, got)
    BY <1>5
  <2>2. got \in HeapPtr
    BY <1>2, <1>3, <2>1, HeapGivenInside DEF HeapPtr
  <2> QED
    BY <1>2, <2>1, <2>2, HeapAllocGets
<1> QED
  BY <1>2, <1>3, <1>4, <1>5, HeapMallocGives

LEMMA HeapFreeStep ==
  ASSUME HeapInv, NEW t \in HeapTasks, HeapFree(t)
  PROVE  HeapInv'
<1>1. /\ heapPc[t] = "idle" /\ heapHeld[t] # HeapNothing /\ HeapFreeBlock(heapHeld[t].ptr)
      /\ heapHeld' = [heapHeld EXCEPT ![t] = HeapNothing]
      /\ heapMem' = heapMem /\ heapPc' = heapPc /\ heapNew' = heapNew
      /\ heapCalls < HeapMaxCalls /\ heapCalls' = heapCalls + 1
  BY DEF HeapFree, HeapCall
<1>2. /\ HEAP_UNITS \in Nat /\ HeapMaxCalls \in Nat /\ HeapNothing.ptr = 0
      /\ HeapNothing \in HeapPtr /\ HeapPayload(HeapNothing) = {} /\ HeapBlockOK(HeapNothing)'
      /\ HeapTilesOK /\ HeapTotalOK /\ HeapMemOK
      /\ \A s \in HeapTasks : /\ heapHeld[s] \in HeapPtr /\ HeapBlockOK(heapHeld[s])
                              /\ heapNew[s] \in HeapPtr /\ HeapBlockOK(heapNew[s])
                              /\ heapHeld[s].ptr = 0 <=> heapHeld[s] = HeapNothing
                              /\ heapNew[s].ptr = 0 <=> heapNew[s] = HeapNothing
  BY HeapFacts
<1>3. PICK p : p = heapHeld[t]
  OBVIOUS
<1>4. p \in HeapPtr /\ p.ptr # 0 /\ HeapBlockOK(p) /\ HeapFreeBlock(p.ptr)
  BY <1>1, <1>2, <1>3
<1>5. /\ HeapTilesOK' /\ HeapTotalOK' /\ HeapBlocks' \subseteq HeapBlocks
      /\ \A h \in HeapPtr : HeapBlockOK(h) /\ (h.ptr # 0 => h.ptr # p.ptr) =>
           /\ HeapBlockOK(h)'
           /\ h.ptr # 0 => heap'[h.ptr - 1] = heap[h.ptr - 1]
      /\ \A x \in HeapBlocks' : heap'[x].used => x + 1 # p.ptr /\ heap[x].used
  BY <1>2, <1>4, HeapLoses
<1>6. /\ heapHeld' \in HeapPtrs /\ heapNew' \in HeapPtrs /\ heapHeld'[t] = HeapNothing
      /\ \A s \in HeapTasks : s # t => heapHeld'[s] = heapHeld[s]
  BY <1>1, <1>2 DEF HeapInv, HeapOwnersOK, HeapPtrs, HeapPtr
<1>7. \A s \in HeapTasks : /\ s # t => heapHeld[s].ptr # p.ptr
                           /\ heapNew[s].ptr # p.ptr
  BY <1>3, <1>4 DEF HeapInv, HeapOwnersOK
<1>8. HeapOwnersOK'
  <2>1. ASSUME NEW s \in HeapTasks
        PROVE  HeapBlockOK(heapHeld[s])' /\ HeapBlockOK(heapNew[s])'
    <3>1. PICK h, n : h = heapHeld'[s] /\ n = heapNew'[s]
      OBVIOUS
    <3>2. HeapBlockOK(n)'
      BY <1>1, <1>2, <1>5, <1>7, <3>1
    <3>3. HeapBlockOK(h)'
      BY <1>2, <1>5, <1>6, <1>7, <3>1
    <3> QED
      BY <3>1, <3>2, <3>3 DEF HeapBlockOK
  <2>2. /\ \A x, s \in HeapTasks : x # s /\ heapHeld'[x].ptr # 0 => heapHeld'[s].ptr # heapHeld'[x].ptr
        /\ \A x, s \in HeapTasks : x # s /\ heapNew'[x].ptr # 0 => heapNew'[s].ptr # heapNew'[x].ptr
        /\ \A x, s \in HeapTasks : heapHeld'[x].ptr # 0 => heapNew'[s].ptr # heapHeld'[x].ptr
    BY <1>1, <1>2, <1>6 DEF HeapInv, HeapOwnersOK
  <2>3. ASSUME NEW x \in HeapBlocks', heap'[x].used
        PROVE  \E s \in HeapTasks : heapHeld'[s].ptr = x + 1 \/ heapNew'[s].ptr = x + 1
    <3>1. x + 1 # p.ptr /\ heap[x].used /\ x \in HeapBlocks
      BY <1>5, <2>3
    <3>2. PICK s \in HeapTasks : heapHeld[s].ptr = x + 1 \/ heapNew[s].ptr = x + 1
      BY <3>1 DEF HeapInv, HeapOwnersOK
    <3> QED
      BY <1>1, <1>3, <1>6, <3>1, <3>2
  <2> QED
    BY <1>6, <2>1, <2>2, <2>3 DEF HeapOwnersOK
<1>9. HeapCallsOK'
  <2>1. heapCalls' \in 0..HeapMaxCalls
    BY <1>1, <1>2 DEF HeapInv, HeapCallsOK
  <2>2. ASSUME NEW s \in HeapTasks, heapPc'[s] # "idle"
        PROVE  /\ heapHeld'[s].ptr # 0 /\ heapNew'[s].ptr # 0
               /\ heap'[heapHeld'[s].ptr - 1].size - 1 <= heapNew'[s].units
    <3>1. s # t /\ heapHeld'[s] = heapHeld[s] /\ heapPc[s] # "idle"
      BY <1>1, <1>6, <2>2
    <3>2. /\ heapHeld[s].ptr # 0 /\ heapNew[s].ptr # 0
          /\ heap[heapHeld[s].ptr - 1].size - 1 <= heapNew[s].units
      BY <3>1 DEF HeapInv, HeapCallsOK
    <3>3. heap'[heapHeld[s].ptr - 1] = heap[heapHeld[s].ptr - 1]
      BY <1>2, <1>5, <1>7, <3>1, <3>2
    <3> QED
      BY <1>1, <3>1, <3>2, <3>3
  <2> QED
    BY <1>1, <2>1, <2>2 DEF HeapInv, HeapCallsOK
<1>10. HeapMemOK'
  <2>1. ASSUME NEW s \in HeapTasks
        PROVE  /\ \A u \in HeapPayload(heapHeld'[s]) : heapMem[u] = s
               /\ heapPc[s] = "free" =>
                    \A u \in heapNew[s].ptr .. heapNew[s].ptr + heapHeld'[s].units - 1 : heapMem[u] = s
    <3>1. CASE s = t
      BY <1>1, <1>2, <1>6, <3>1
    <3>2. CASE s # t
      BY <1>2, <1>6, <3>2 DEF HeapMemOK
    <3> QED
      BY <3>1, <3>2
  <2> QED
    BY <1>1, <1>2, <1>5, <2>1 DEF HeapMemOK
<1> QED
  BY <1>5, <1>8, <1>9, <1>10 DEF HeapInv

\* realloc that keeps the block.
LEMMA HeapKeepsBlock ==
  ASSUME HeapInv, NEW t \in HeapTasks, heapHeld[t] # HeapNothing, heapPc[t] = "idle",
         HeapCall, NEW bytes \in HeapRequests \ {0},
         8 * (heap[heapHeld[t].ptr - HB_HDR].size - HB_HDR) >= bytes,
         heapHeld' = [heapHeld EXCEPT ![t].units = HeapNeed(bytes) - HB_HDR],
         heapMem' = HeapWrite(heapMem, HeapPayload(heapHeld'[t]), t),
         UNCHANGED <<heap, heapFreeTotal, heapPc, heapNew>>
  PROVE  HeapInv'
<1>1. /\ heap' = heap /\ heapFreeTotal' = heapFreeTotal /\ heapPc' = heapPc /\ heapNew' = heapNew
      /\ heapCalls < HeapMaxCalls /\ heapCalls' = heapCalls + 1
  BY DEF HeapCall
<1>2. /\ HEAP_UNITS \in Nat /\ HeapMaxCalls \in Nat
      /\ HeapTilesOK /\ HeapTotalOK /\ HeapMemOK
      /\ \A s \in HeapTasks : /\ heapHeld[s] \in HeapPtr /\ HeapBlockOK(heapHeld[s])
                              /\ heapNew[s] \in HeapPtr /\ HeapBlockOK(heapNew[s])
                              /\ heapHeld[s].ptr = 0 <=> heapHeld[s] = HeapNothing
                              /\ heapNew[s].ptr = 0 <=> heapNew[s] = HeapNothing
  BY HeapFacts
<1>3. PICK p, b, r, n : /\ p = heapHeld[t] /\ b = p.ptr - 1 /\ r = heap[b]
                        /\ n = HeapNeed(bytes) - HB_HDR
  OBVIOUS
<1>4. /\ p \in HeapPtr /\ p.ptr # 0 /\ b \in HeapBlocks /\ r.used /\ p.ptr \in Nat /\ b \in Nat
      /\ p.ptr = b + 1 /\ r.size \in Nat /\ r.next = b + r.size /\ r.next <= HEAP_UNITS
  <2>1. p \in HeapPtr /\ HeapBlockOK(p) /\ p.ptr # 0
    BY <1>2, <1>3
  <2>2. b \in HeapBlocks /\ r.used /\ p.ptr \in Nat
    BY <1>2, <1>3, <2>1, HeapInside DEF HeapPtr
  <2> QED
    BY <1>2, <1>3, <2>1, <2>2, HeapBounds DEF HeapTilesOK
<1>5. n \in Nat /\ n <= r.size - 1
  <2>1. bytes \in Nat /\ bytes # 0
    BY HeapAssumption
  <2>2. r.size - 1 \in Int /\ 8 * (r.size - 1) >= bytes
    BY <1>3, <1>4 DEF HB_HDR
  <2>3. n <= r.size - 1
    BY <1>3, <2>1, <2>2, HeapNeeds
  <2>4. n \in Nat
    BY <1>3, <2>1, HeapNeeds DEF HB_HDR
  <2> QED
    BY <2>3, <2>4
<1>6. PICK q : q = [ptr |-> p.ptr, units |-> n]
  OBVIOUS
<1>7. q \in HeapPtr /\ q.ptr = p.ptr /\ q.units = n /\ q.ptr + q.units <= r.next
  BY <1>2, <1>4, <1>5, <1>6 DEF HeapPtr
<1>8. /\ heapHeld' \in HeapPtrs /\ heapHeld'[t] = q
      /\ \A s \in HeapTasks : s # t => heapHeld'[s] = heapHeld[s]
  <2>1. heapHeld \in [HeapTasks -> HeapPtr]
    BY DEF HeapInv, HeapOwnersOK, HeapPtrs, HeapPtr
  <2>2. [heapHeld[t] EXCEPT !.units = n] = q
    <3>1. p \in [ptr : HeapUnits, units : 0..HEAP_UNITS]
      BY <1>4 DEF HeapPtr
    <3>2. [p EXCEPT !.units = n] = [ptr |-> p.ptr, units |-> n]
      BY <3>1
    <3> QED
      BY <1>3, <1>6, <3>2
  <2>3. heapHeld' = [heapHeld EXCEPT ![t] = q]
    BY <1>3, <2>1, <2>2
  <2> QED
    BY <1>7, <2>1, <2>3 DEF HeapPtrs, HeapPtr
<1>9. HeapTilesOK' /\ HeapTotalOK'
  BY <1>1, <1>2 DEF HeapTilesOK, HeapTotalOK, HeapBlocks, HeapUnused, HeapSizes
<1>10. \A s \in HeapTasks : heapHeld'[s].ptr = heapHeld[s].ptr
  BY <1>3, <1>7, <1>8
<1>11. HeapOwnersOK'
  <2>1. ASSUME NEW s \in HeapTasks
        PROVE  HeapBlockOK(heapHeld[s])' /\ HeapBlockOK(heapNew[s])'
    <3>1. HeapBlockOK(heapNew[s])'
      BY <1>1, <1>2 DEF HeapBlockOK, HeapBlocks
    <3>2. CASE s = t
      BY <1>1, <1>3, <1>4, <1>7, <1>8, <3>1, <3>2 DEF HeapBlockOK, HeapBlocks
    <3>3. CASE s # t
      BY <1>1, <1>2, <1>8, <3>1, <3>3 DEF HeapBlockOK, HeapBlocks
    <3> QED
      BY <3>2, <3>3
  <2>2. heapNew' \in HeapPtrs /\ HeapBlocks' = HeapBlocks
    BY <1>1 DEF HeapInv, HeapOwnersOK, HeapBlocks
  <2> QED
    BY <1>1, <1>8, <1>10, <2>1, <2>2 DEF HeapInv, HeapOwnersOK
<1>12. HeapCallsOK'
  BY <1>1, <1>2, <1>10 DEF HeapInv, HeapCallsOK
<1>13. HeapMemOK'
  <2>1. /\ heapMem' \in [HeapUnits -> HeapTasks \cup {"header", "none"}]
        /\ \A u \in HeapUnits : heapMem'[u] = IF u \in HeapPayload(q) THEN t ELSE heapMem[u]
    BY <1>2, <1>8 DEF HeapWrite, HeapMemOK
  <2>2. ASSUME NEW u \in HeapPayload(q)
        PROVE  u \in HeapUnits /\ b < u /\ u < r.next
    <3>1. PICK k : k = r.next
      OBVIOUS
    <3>2. /\ k \in Nat /\ k <= HEAP_UNITS /\ HEAP_UNITS \in Nat /\ p.ptr + n <= k
          /\ p.ptr = b + 1 /\ b \in Nat /\ n \in Nat
      BY <1>2, <1>4, <1>5, <1>7, <3>1
    <3>3. u \in p.ptr .. p.ptr + n - 1
      BY <1>7 DEF HeapPayload
    <3>4. u \in 0 .. HEAP_UNITS - 1 /\ b < u /\ u < k
      BY <3>2, <3>3
    <3> QED
      BY <3>1, <3>4 DEF HeapUnits
  <2>3. \A u \in HeapUnits : ~ (b < u /\ u < heap[b].next) => heapMem'[u] = heapMem[u]
    BY <1>3, <2>1, <2>2
  <2>4. ASSUME NEW s \in HeapTasks, s # t
        PROVE  /\ \A u \in HeapPayload(heapHeld'[s]) : heapMem'[u] = s
               /\ heapPc'[s] = "free" =>
                    \A u \in heapNew'[s].ptr .. heapNew'[s].ptr + heapHeld'[s].units - 1 : heapMem'[u] = s
    <3>1. /\ heapHeld'[s] = heapHeld[s] /\ heapNew'[s] = heapNew[s] /\ heapPc'[s] = heapPc[s]
      BY <1>1, <1>8, <2>4
    <3>2. /\ heapHeld[s].ptr # 0 => heapHeld[s].ptr - 1 # b
          /\ heapNew[s].ptr # 0 => heapNew[s].ptr - 1 # b
      BY <1>3, <1>4, <2>4, HeapAlone
    <3> QED
      BY <1>4, <2>3, <2>4, <3>1, <3>2, HeapOthersKeep
  <2>5. \A x \in HeapBlocks' : heapMem'[x] = "header"
    <3>1. \A x \in HeapBlocks : heapMem'[x] = heapMem[x]
      BY <1>2, <1>4, <2>3, HeapWrites
    <3> QED
      BY <1>1, <1>2, <3>1 DEF HeapMemOK, HeapBlocks
  <2>6. \A u \in HeapPayload(heapHeld'[t]) : heapMem'[u] = t
    BY <1>8, <2>1, <2>2
  <2>7. heapPc'[t] # "free"
    BY <1>1
  <2> QED
    BY <2>1, <2>4, <2>5, <2>6, <2>7 DEF HeapMemOK
<1> QED
  BY <1>9, <1>11, <1>12, <1>13 DEF HeapInv

\* realloc that has found a larger block.
LEMMA HeapGetsAnother ==
  ASSUME HeapInv, NEW t \in HeapTasks, heapHeld[t] # HeapNothing, heapPc[t] = "idle",
         HeapCall, NEW a, NEW got \in HeapPtr, HeapGiven(a, got),
         heap[heapHeld[t].ptr - HB_HDR].size - HB_HDR <= got.units,
         heapNew' = [heapNew EXCEPT ![t] = got],
         heapPc' = [heapPc EXCEPT ![t] = "memcpy"],
         heapMem' = HeapHeaders(heapMem), heapHeld' = heapHeld
  PROVE  HeapInv'
<1>1. heapCalls < HeapMaxCalls /\ heapCalls' = heapCalls + 1
  BY DEF HeapCall
<1>2. /\ HEAP_UNITS \in Nat /\ HeapMaxCalls \in Nat /\ HeapNothing.ptr = 0
      /\ HeapTilesOK /\ HeapTotalOK /\ HeapMemOK
      /\ \A s \in HeapTasks : /\ heapHeld[s] \in HeapPtr /\ HeapBlockOK(heapHeld[s])
                              /\ heapNew[s] \in HeapPtr /\ HeapBlockOK(heapNew[s])
                              /\ heapHeld[s].ptr = 0 <=> heapHeld[s] = HeapNothing
  BY HeapFacts
<1>3. /\ HeapTilesOK' /\ HeapTotalOK' /\ a \in HeapBlocks /\ got.ptr = a + 1 /\ a \in Nat
      /\ got.ptr # 0 /\ HeapBlocks \subseteq HeapBlocks'
  BY <1>2, HeapBounds DEF HeapGiven
<1>4. /\ HeapBlockOK(got)'
      /\ \A h \in HeapPtr : HeapBlockOK(h) =>
           /\ HeapBlockOK(h)' /\ h.ptr # got.ptr
           /\ h.ptr # 0 => h.ptr - 1 # a /\ heap'[h.ptr - 1] = heap[h.ptr - 1]
      /\ \A x \in HeapBlocks' : heap'[x].used =>
           x + 1 = got.ptr \/ (x \in HeapBlocks /\ heap[x].used)
  BY <1>2, HeapGains
<1>5. heapHeld' \in HeapPtrs /\ heapNew' \in HeapPtrs /\ heapNew'[t] = got
  BY DEF HeapInv, HeapOwnersOK, HeapPtrs, HeapPtr
<1>6. /\ \A s \in HeapTasks : s # t => heapNew'[s] = heapNew[s] /\ heapPc'[s] = heapPc[s]
      /\ heapPc' \in [HeapTasks -> {"idle", "memcpy", "free"}] /\ heapPc'[t] = "memcpy"
      /\ heapNew[t].ptr = 0
  BY <1>2 DEF HeapInv, HeapOwnersOK, HeapCallsOK, HeapPtrs
<1>7. \A s \in HeapTasks :
        /\ heapHeld[s].ptr # got.ptr /\ heapNew[s].ptr # got.ptr
        /\ heapHeld[s].ptr # 0 => heapHeld[s].ptr - 1 # a
        /\ heapNew[s].ptr # 0 => heapNew[s].ptr - 1 # a
        /\ heapHeld[s].ptr # 0 => heap'[heapHeld[s].ptr - 1] = heap[heapHeld[s].ptr - 1]
  BY <1>2, <1>4
<1>8. HeapOwnersOK'
  <2>1. ASSUME NEW s \in HeapTasks
        PROVE  HeapBlockOK(heapHeld[s])' /\ HeapBlockOK(heapNew[s])'
    <3>1. PICK h, n : h = heapHeld'[s] /\ n = heapNew'[s]
      OBVIOUS
    <3>2. HeapBlockOK(n)'
      BY <1>2, <1>4, <1>5, <1>6, <3>1
    <3>3. HeapBlockOK(h)'
      BY <1>2, <1>4, <3>1
    <3> QED
      BY <3>1, <3>2, <3>3 DEF HeapBlockOK
  <2>2. /\ \A x, s \in HeapTasks : x # s /\ heapHeld'[x].ptr # 0 => heapHeld'[s].ptr # heapHeld'[x].ptr
        /\ \A x, s \in HeapTasks : x # s /\ heapNew'[x].ptr # 0 => heapNew'[s].ptr # heapNew'[x].ptr
        /\ \A x, s \in HeapTasks : heapHeld'[x].ptr # 0 => heapNew'[s].ptr # heapHeld'[x].ptr
    BY <1>5, <1>6, <1>7 DEF HeapInv, HeapOwnersOK
  <2>3. ASSUME NEW x \in HeapBlocks', heap'[x].used
        PROVE  \E s \in HeapTasks : heapHeld'[s].ptr = x + 1 \/ heapNew'[s].ptr = x + 1
    <3>1. CASE x + 1 = got.ptr
      BY <1>5, <3>1
    <3>2. CASE x \in HeapBlocks /\ heap[x].used
      <4>1. PICK s \in HeapTasks : heapHeld[s].ptr = x + 1 \/ heapNew[s].ptr = x + 1
        BY <3>2 DEF HeapInv, HeapOwnersOK
      <4>2. x + 1 # 0
        BY <1>2, <3>2, HeapBounds
      <4> QED
        BY <1>6, <4>1, <4>2
    <3> QED
      BY <1>4, <2>3, <3>1, <3>2
  <2> QED
    BY <1>5, <2>1, <2>2, <2>3 DEF HeapOwnersOK
<1>9. HeapCallsOK'
  <2>1. heapCalls' \in 0..HeapMaxCalls
    BY <1>1, <1>2 DEF HeapInv, HeapCallsOK
  <2>2. ASSUME NEW s \in HeapTasks, heapPc'[s] # "idle"
        PROVE  /\ heapHeld'[s].ptr # 0 /\ heapNew'[s].ptr # 0
               /\ heap'[heapHeld'[s].ptr - 1].size - 1 <= heapNew'[s].units
    <3>1. CASE s = t
      BY <1>2, <1>3, <1>5, <1>7, <3>1 DEF HB_HDR
    <3>2. CASE s # t
      <4>1. /\ heapHeld[s].ptr # 0 /\ heapNew[s].ptr # 0
            /\ heap[heapHeld[s].ptr - 1].size - 1 <= heapNew[s].units
        BY <1>6, <2>2, <3>2 DEF HeapInv, HeapCallsOK
      <4> QED
        BY <1>6, <1>7, <3>2, <4>1
    <3> QED
      BY <3>1, <3>2
  <2>3. \A s \in HeapTasks : heapPc'[s] = "idle" => heapNew'[s] = HeapNothing
    BY <1>6 DEF HeapInv, HeapCallsOK
  <2> QED
    BY <1>6, <2>1, <2>2, <2>3 DEF HeapCallsOK
<1>10. HeapMemOK'
  <2>1. /\ heapMem' \in [HeapUnits -> HeapTasks \cup {"header", "none"}]
        /\ \A u \in HeapUnits : heapMem'[u] = IF u \in {} THEN t
             ELSE IF u \in HeapBlocks' \ HeapBlocks THEN "header" ELSE heapMem[u]
    BY <1>2 DEF HeapWrite, HeapHeaders, HeapMemOK, HeapBlocks
  <2>2. /\ \A u \in HeapUnits : ~ (a < u /\ u < heap[a].next) => heapMem'[u] = heapMem[u]
        /\ \A x \in HeapBlocks' : heapMem'[x] = "header"
    <3>1. PICK W : W = {}
      OBVIOUS
    <3>2. /\ W \subseteq HeapPayload(got)
          /\ \A u \in HeapUnits : heapMem'[u] = IF u \in W THEN t
               ELSE IF u \in HeapBlocks' \ HeapBlocks THEN "header" ELSE heapMem[u]
      BY <2>1, <3>1
    <3>3. HeapTilesOK /\ HeapMemOK /\ HeapGiven(a, got)
      BY <1>2
    <3> QED
      BY <3>2, <3>3, HeapGainMem
  <2>3. ASSUME NEW s \in HeapTasks, s # t
        PROVE  /\ \A u \in HeapPayload(heapHeld'[s]) : heapMem'[u] = s
               /\ heapPc'[s] = "free" =>
                    \A u \in heapNew'[s].ptr .. heapNew'[s].ptr + heapHeld'[s].units - 1 : heapMem'[u] = s
    <3>1. /\ heapHeld'[s] = heapHeld[s] /\ heapNew'[s] = heapNew[s] /\ heapPc'[s] = heapPc[s]
          /\ heapHeld[s].ptr # 0 => heapHeld[s].ptr - 1 # a
          /\ heapNew[s].ptr # 0 => heapNew[s].ptr - 1 # a
      BY <1>6, <1>7, <2>3
    <3> QED
      BY <1>3, <2>2, <2>3, <3>1, HeapOthersKeep
  <2>4. ASSUME NEW u \in HeapPayload(heapHeld[t])
        PROVE  heapMem'[u] = t
    <3>1. PICK h : h = heapHeld[t]
      OBVIOUS
    <3>2. /\ h \in [ptr : HeapUnits, units : 0..HEAP_UNITS] /\ HeapBlockOK(h)
          /\ h.ptr # 0 => h.ptr - 1 # a
      BY <1>2, <1>7, <3>1 DEF HeapPtr
    <3>3. \A v \in HeapPayload(h) : heapMem'[v] = heapMem[v]
      BY <1>2, <1>3, <2>2, <3>2, HeapWrites
    <3> QED
      BY <1>2, <2>4, <3>1, <3>3 DEF HeapMemOK
  <2>5. heapPc'[t] # "free"
    BY <1>6
  <2> QED
    BY <2>1, <2>2, <2>3, <2>4, <2>5 DEF HeapMemOK
<1> QED
  BY <1>3, <1>8, <1>9, <1>10 DEF HeapInv

LEMMA HeapReallocStep ==
  ASSUME HeapInv, NEW t \in HeapTasks, HeapRealloc(t)
  PROVE  HeapInv'
<1>1. /\ HeapCall /\ heapPc[t] = "idle" /\ heapHeld[t] # HeapNothing
      /\ HeapMaxCalls \in Nat /\ HeapTilesOK /\ HeapTotalOK
  BY HeapFacts DEF HeapRealloc
<1>2. PICK room : room = heap[heapHeld[t].ptr - HB_HDR].size - HB_HDR
  OBVIOUS
<1>3. room \in Int
  <2>1. PICK h : h = heapHeld[t]
    OBVIOUS
  <2>2. h \in [ptr : HeapUnits, units : 0..HEAP_UNITS] /\ HeapBlockOK(h) /\ h.ptr # 0
    BY <1>1, <2>1, HeapFacts DEF HeapPtr
  <2>3. h.ptr - 1 \in HeapBlocks
    BY <1>1, <2>2, HeapInside
  <2>4. heap[h.ptr - 1].size \in Nat
    BY <1>1, <2>3, HeapBounds
  <2> QED
    BY <1>2, <2>1, <2>4 DEF HB_HDR
<1>4. PICK bytes \in HeapRequests \ {0} :
          \/ /\ 8 * room >= bytes
             /\ heapHeld' = [heapHeld EXCEPT ![t].units = HeapNeed(bytes) - HB_HDR]
             /\ heapMem' = HeapWrite(heapMem, HeapPayload(heapHeld'[t]), t)
             /\ UNCHANGED <<heap, heapFreeTotal, heapPc, heapNew>>
          \/ /\ 8 * room < bytes
             /\ \E got \in [ptr : HeapUnits, units : {0, HeapNeed(bytes) - HB_HDR}] :
                  /\ HeapMalloc(bytes, got)
                  /\ heapNew' = [heapNew EXCEPT ![t] = got]
                  /\ heapPc' = [heapPc EXCEPT ![t] = IF got = HeapNothing THEN "idle"
                                                     ELSE "memcpy"]
             /\ heapMem' = HeapHeaders(heapMem)
             /\ UNCHANGED heapHeld
  BY <1>2 DEF HeapRealloc
<1>5. bytes \in Nat /\ bytes # 0
  BY HeapAssumption
<1>6. CASE /\ 8 * room >= bytes
           /\ heapHeld' = [heapHeld EXCEPT ![t].units = HeapNeed(bytes) - HB_HDR]
           /\ heapMem' = HeapWrite(heapMem, HeapPayload(heapHeld'[t]), t)
           /\ UNCHANGED <<heap, heapFreeTotal, heapPc, heapNew>>
  BY <1>1, <1>2, <1>6, HeapKeepsBlock
<1>7. CASE /\ 8 * room < bytes
           /\ \E got \in [ptr : HeapUnits, units : {0, HeapNeed(bytes) - HB_HDR}] :
                /\ HeapMalloc(bytes, got)
                /\ heapNew' = [heapNew EXCEPT ![t] = got]
                /\ heapPc' = [heapPc EXCEPT ![t] = IF got = HeapNothing THEN "idle"
                                                   ELSE "memcpy"]
           /\ heapMem' = HeapHeaders(heapMem)
           /\ UNCHANGED heapHeld
  <2>1. PICK got \in [ptr : HeapUnits, units : {0, HeapNeed(bytes) - HB_HDR}] :
                /\ HeapMalloc(bytes, got)
                /\ heapNew' = [heapNew EXCEPT ![t] = got]
                /\ heapPc' = [heapPc EXCEPT ![t] = IF got = HeapNothing THEN "idle"
                                                   ELSE "memcpy"]
    BY <1>7
  <2>2. CASE got = HeapNothing /\ heap' = heap /\ heapFreeTotal' = heapFreeTotal
    <3>1. heapNew[t] = HeapNothing
      BY <1>1 DEF HeapInv, HeapCallsOK
    <3>2. heapNew' = heapNew /\ heapPc' = heapPc
      BY <1>1, <2>1, <2>2, <3>1 DEF HeapInv, HeapOwnersOK, HeapCallsOK, HeapPtrs
    <3>3. heapMem' = heapMem
      <4>1. heapMem \in [HeapUnits -> HeapTasks \cup {"header", "none"}]
        BY DEF HeapInv, HeapMemOK
      <4>2. DOMAIN heap' \ DOMAIN heap = {}
        BY <2>2
      <4>3. heapMem' = [u \in HeapUnits |-> heapMem[u]]
        BY <1>7, <4>2 DEF HeapHeaders, HeapWrite
      <4> QED
        BY <4>1, <4>3
    <3>4. heapHeld' = heapHeld /\ heapCalls' \in 0..HeapMaxCalls
      BY <1>1, <1>7 DEF HeapCall, HeapInv, HeapCallsOK
    <3> QED
      BY <2>2, <3>2, <3>3, <3>4, HeapStutters
  <2>3. CASE got.units = HeapNeed(bytes) - HB_HDR /\ \E a \in HeapBlocks : HeapGiven(a, got)
    <3>1. PICK a : HeapGiven(a, got)
      BY <2>3
    <3>2. got \in HeapPtr
      BY <1>1, <2>1, <3>1, HeapGivenInside DEF HeapPtr
    <3>3. got # HeapNothing
      BY <3>1 DEF HeapGiven, HeapNothing
    <3>4. room <= got.units
      BY <1>3, <1>5, <1>7, <2>3, HeapNeeds
    <3>5. heapPc' = [heapPc EXCEPT ![t] = "memcpy"]
      BY <2>1, <3>3
    <3> QED
      BY <1>1, <1>2, <1>7, <2>1, <3>1, <3>2, <3>4, <3>5, HeapGetsAnother
  <2> QED
    BY <1>1, <1>5, <2>1, <2>2, <2>3, HeapMallocGives
<1> QED
  BY <1>4, <1>6, <1>7

LEMMA HeapMemcpyStep ==
  ASSUME HeapInv, NEW t \in HeapTasks, HeapMemcpy(t)
  PROVE  HeapInv'
<1>1. /\ heap' = heap /\ heapFreeTotal' = heapFreeTotal /\ heapHeld' = heapHeld
      /\ heapNew' = heapNew /\ heapCalls' = heapCalls
      /\ heapPc[t] = "memcpy" /\ heapPc' = [heapPc EXCEPT ![t] = "free"]
  BY DEF HeapMemcpy
<1>2. /\ HEAP_UNITS \in Nat /\ HeapTilesOK /\ HeapTotalOK /\ HeapMemOK
      /\ \A s \in HeapTasks : /\ heapHeld[s] \in HeapPtr /\ HeapBlockOK(heapHeld[s])
                              /\ heapNew[s] \in HeapPtr /\ HeapBlockOK(heapNew[s])
  BY HeapFacts
<1>3. PICK p, q, b, old : /\ p = heapHeld[t] /\ q = heapNew[t] /\ b = q.ptr - 1
                          /\ old = heap[p.ptr - 1].size - 1
  OBVIOUS
<1>4. p.ptr # 0 /\ q.ptr # 0 /\ old <= q.units
  BY <1>1, <1>3 DEF HeapInv, HeapCallsOK
<1>5. p \in HeapPtr /\ HeapBlockOK(p) /\ q \in HeapPtr /\ HeapBlockOK(q)
  BY <1>2, <1>3
<1>6. /\ p.ptr \in Nat /\ p.units \in Nat /\ p.ptr - 1 \in HeapBlocks
      /\ p.ptr + p.units <= heap[p.ptr - 1].next /\ p.units <= old
  BY <1>2, <1>3, <1>4, <1>5, HeapInside DEF HeapPtr
<1>7. /\ q.ptr \in Nat /\ q.units \in Nat /\ b \in HeapBlocks /\ q.ptr + q.units <= heap[b].next
  BY <1>2, <1>3, <1>4, <1>5, HeapInside DEF HeapPtr
<1>8. /\ heap[p.ptr - 1].size \in Nat /\ heap[p.ptr - 1].next \in Nat
      /\ heap[p.ptr - 1].next = p.ptr - 1 + heap[p.ptr - 1].size
      /\ heap[p.ptr - 1].next <= HEAP_UNITS
      /\ heap[b].next \in Nat /\ heap[b].next <= HEAP_UNITS /\ b \in Nat
  BY <1>2, <1>6, <1>7, HeapBounds DEF HeapTilesOK
<1>9. old \in Int
  BY <1>3, <1>8
<1>10. heapMem' = [u \in HeapUnits |-> IF u \in q.ptr .. q.ptr + old - 1
                                       THEN heapMem[p.ptr + u - q.ptr] ELSE heapMem[u]]
  BY <1>3 DEF HeapMemcpy, HB_HDR
<1>11. ASSUME NEW u \in q.ptr .. q.ptr + old - 1
       PROVE  /\ u \in Nat /\ u \in HeapUnits /\ b < u /\ u < heap[b].next
              /\ p.ptr + u - q.ptr \in HeapUnits
  <2>1. PICK e, k : e = heap[b].next /\ k = heap[p.ptr - 1].next
    OBVIOUS
  <2>2. /\ u \in Int /\ q.ptr <= u /\ u <= q.ptr + old - 1 /\ b = q.ptr - 1
        /\ q.ptr + q.units <= e /\ e <= HEAP_UNITS /\ e \in Nat
        /\ k = p.ptr + old /\ k <= HEAP_UNITS
    BY <1>3, <1>6, <1>7, <1>8, <1>9, <2>1
  <2>3. /\ u \in Nat /\ u \in 0 .. HEAP_UNITS - 1 /\ b < u /\ u < e
        /\ p.ptr + u - q.ptr \in 0 .. HEAP_UNITS - 1
    BY <1>2, <1>4, <1>6, <1>7, <1>9, <2>2
  <2> QED
    BY <2>1, <2>3 DEF HeapUnits
<1>12. \A u \in HeapUnits : ~ (b < u /\ u < heap[b].next) => heapMem'[u] = heapMem[u]
  BY <1>10, <1>11
<1>13. HeapTilesOK' /\ HeapTotalOK'
  BY <1>1, <1>2 DEF HeapTilesOK, HeapTotalOK, HeapBlocks, HeapUnused, HeapSizes
<1>14. HeapOwnersOK'
  BY <1>1 DEF HeapInv, HeapOwnersOK, HeapBlockOK, HeapBlocks
<1>15. /\ heapPc' \in [HeapTasks -> {"idle", "memcpy", "free"}] /\ heapPc'[t] = "free"
       /\ \A s \in HeapTasks : s # t => heapPc'[s] = heapPc[s]
  BY <1>1 DEF HeapInv, HeapCallsOK
<1>16. HeapCallsOK'
  <2>1. \A s \in HeapTasks : heapPc'[s] = "idle" <=> heapPc[s] = "idle"
    BY <1>1, <1>15
  <2> QED
    BY <1>1, <1>15, <2>1 DEF HeapInv, HeapCallsOK
<1>17. HeapMemOK'
  <2>1. heapMem' \in [HeapUnits -> HeapTasks \cup {"header", "none"}]
    BY <1>2, <1>10, <1>11 DEF HeapMemOK
  <2>2. /\ \A x \in HeapBlocks : heapMem'[x] = heapMem[x]
        /\ \A h \in [ptr : HeapUnits, units : 0..HEAP_UNITS] :
             HeapBlockOK(h) /\ (h.ptr # 0 => h.ptr - 1 # b) =>
               \A u \in HeapPayload(h) : heapMem'[u] = heapMem[u]
    BY <1>2, <1>7, <1>12, HeapWrites
  <2>3. \A x \in HeapBlocks' : heapMem'[x] = "header"
    BY <1>1, <1>2, <2>2 DEF HeapMemOK, HeapBlocks
  <2>4. p.ptr - 1 # b
    BY <1>3, <1>4, HeapAlone
  <2>5. \A u \in HeapPayload(p) : heapMem'[u] = heapMem[u]
    BY <1>5, <2>2, <2>4 DEF HeapPtr
  <2>6. \A u \in HeapPayload(p) : heapMem[u] = t
    BY <1>2, <1>3 DEF HeapMemOK
  <2>7. ASSUME NEW u \in q.ptr .. q.ptr + p.units - 1
        PROVE  heapMem'[u] = t
    <3>1. u \in q.ptr .. q.ptr + old - 1
      BY <1>6, <1>7, <1>9
    <3>2. p.ptr + u - q.ptr \in HeapPayload(p)
      BY <1>6, <1>7 DEF HeapPayload
    <3>3. u \in HeapUnits
      BY <1>11, <3>1
    <3> QED
      BY <1>10, <2>6, <3>1, <3>2, <3>3
  <2>8. ASSUME NEW s \in HeapTasks, s # t
        PROVE  /\ \A u \in HeapPayload(heapHeld'[s]) : heapMem'[u] = s
               /\ heapPc'[s] = "free" =>
                    \A u \in heapNew'[s].ptr .. heapNew'[s].ptr + heapHeld'[s].units - 1 : heapMem'[u] = s
    <3>1. /\ heapHeld'[s] = heapHeld[s] /\ heapNew'[s] = heapNew[s] /\ heapPc'[s] = heapPc[s]
      BY <1>1, <1>15, <2>8
    <3>2. /\ heapHeld[s].ptr # 0 => heapHeld[s].ptr - 1 # b
          /\ heapNew[s].ptr # 0 => heapNew[s].ptr - 1 # b
      BY <1>3, <1>4, <2>8, HeapAlone
    <3> QED
      BY <1>7, <1>12, <2>8, <3>1, <3>2, HeapOthersKeep
  <2>9. ASSUME NEW s \in HeapTasks
        PROVE  /\ \A u \in HeapPayload(heapHeld'[s]) : heapMem'[u] = s
               /\ heapPc'[s] = "free" =>
                    \A u \in heapNew'[s].ptr .. heapNew'[s].ptr + heapHeld'[s].units - 1 : heapMem'[u] = s
    <3>1. CASE s = t
      <4>1. heapHeld'[t] = p /\ heapNew'[t] = q
        BY <1>1, <1>3
      <4>2. /\ \A u \in HeapPayload(p) : heapMem'[u] = t
            /\ \A u \in q.ptr .. q.ptr + p.units - 1 : heapMem'[u] = t
        BY <2>5, <2>6, <2>7
      <4> QED
        BY <3>1, <4>1, <4>2
    <3> QED
      BY <2>8, <3>1
  <2> QED
    BY <2>1, <2>3, <2>9 DEF HeapMemOK
<1> QED
  BY <1>13, <1>14, <1>16, <1>17 DEF HeapInv

LEMMA HeapReallocDoneStep ==
  ASSUME HeapInv, NEW t \in HeapTasks, HeapReallocDone(t)
  PROVE  HeapInv'
<1>1. /\ heapPc[t] = "free" /\ HeapFreeBlock(heapHeld[t].ptr)
      /\ heapHeld' = [heapHeld EXCEPT ![t] = heapNew[t]]
      /\ heapNew' = [heapNew EXCEPT ![t] = HeapNothing]
      /\ heapPc' = [heapPc EXCEPT ![t] = "idle"] /\ heapCalls' = heapCalls
  BY DEF HeapReallocDone
<1>2. /\ HEAP_UNITS \in Nat /\ HeapMaxCalls \in Nat /\ HeapNothing.ptr = 0
      /\ HeapNothing \in HeapPtr /\ HeapBlockOK(HeapNothing)'
      /\ HeapTilesOK /\ HeapTotalOK /\ HeapMemOK
      /\ \A s \in HeapTasks : /\ heapHeld[s] \in HeapPtr /\ HeapBlockOK(heapHeld[s])
                              /\ heapNew[s] \in HeapPtr /\ HeapBlockOK(heapNew[s])
  BY HeapFacts
<1>3. PICK p, q, b : p = heapHeld[t] /\ q = heapNew[t] /\ b = q.ptr - 1
  OBVIOUS
<1>4. /\ p \in HeapPtr /\ p.ptr # 0 /\ HeapBlockOK(p) /\ HeapFreeBlock(p.ptr)
      /\ q \in HeapPtr /\ q.ptr # 0 /\ HeapBlockOK(q)
  BY <1>1, <1>2, <1>3 DEF HeapInv, HeapCallsOK
<1>5. /\ HeapTilesOK' /\ HeapTotalOK' /\ HeapBlocks' \subseteq HeapBlocks
      /\ \A h \in HeapPtr : HeapBlockOK(h) /\ (h.ptr # 0 => h.ptr # p.ptr) =>
           /\ HeapBlockOK(h)'
           /\ h.ptr # 0 => heap'[h.ptr - 1] = heap[h.ptr - 1]
      /\ \A x \in HeapBlocks' : heap'[x].used => x + 1 # p.ptr /\ heap[x].used
  BY <1>2, <1>4, HeapLoses
<1>6. /\ heapHeld' \in HeapPtrs /\ heapNew' \in HeapPtrs
      /\ heapHeld'[t] = q /\ heapNew'[t] = HeapNothing
      /\ \A s \in HeapTasks : s # t => /\ heapHeld'[s] = heapHeld[s]
                                       /\ heapNew'[s] = heapNew[s]
  BY <1>1, <1>2, <1>3 DEF HeapInv, HeapOwnersOK, HeapPtrs, HeapPtr
<1>7. /\ heapPc' \in [HeapTasks -> {"idle", "memcpy", "free"}] /\ heapPc'[t] = "idle"
      /\ \A s \in HeapTasks : s # t => heapPc'[s] = heapPc[s]
  BY <1>1 DEF HeapInv, HeapCallsOK
<1>8. \A s \in HeapTasks : /\ s # t => heapHeld[s].ptr # p.ptr
                           /\ heapNew[s].ptr # p.ptr
                           /\ heapHeld[s].ptr # q.ptr
                           /\ s # t => heapNew[s].ptr # q.ptr
  BY <1>3, <1>4 DEF HeapInv, HeapOwnersOK
<1>9. HeapOwnersOK'
  <2>1. ASSUME NEW s \in HeapTasks
        PROVE  HeapBlockOK(heapHeld[s])' /\ HeapBlockOK(heapNew[s])'
    <3>1. PICK h, n : h = heapHeld'[s] /\ n = heapNew'[s]
      OBVIOUS
    <3>2. CASE s = t
      <4>1. HeapBlockOK(q)'
        BY <1>2, <1>3, <1>4, <1>5, <1>8
      <4> QED
        BY <1>2, <1>6, <3>2, <4>1 DEF HeapBlockOK
    <3>3. CASE s # t
      <4>1. h = heapHeld[s] /\ n = heapNew[s]
        BY <1>6, <3>1, <3>3
      <4>2. HeapBlockOK(h)' /\ HeapBlockOK(n)'
        BY <1>2, <1>5, <1>8, <3>3, <4>1
      <4> QED
        BY <3>1, <4>2 DEF HeapBlockOK
    <3> QED
      BY <3>2, <3>3
  <2>2. ASSUME NEW x \in HeapTasks, NEW s \in HeapTasks
        PROVE  /\ x # s /\ heapHeld'[x].ptr # 0 => heapHeld'[s].ptr # heapHeld'[x].ptr
               /\ x # s /\ heapNew'[x].ptr # 0 => heapNew'[s].ptr # heapNew'[x].ptr
               /\ heapHeld'[x].ptr # 0 => heapNew'[s].ptr # heapHeld'[x].ptr
    <3>1. PICK hx, hs, nx, ns : /\ hx = heapHeld[x].ptr /\ hs = heapHeld[s].ptr
                                /\ nx = heapNew[x].ptr /\ ns = heapNew[s].ptr
      OBVIOUS
    <3>2. /\ x # s /\ hx # 0 => hs # hx
          /\ x # s /\ nx # 0 => ns # nx
          /\ hx # 0 => ns # hx
      BY <3>1 DEF HeapInv, HeapOwnersOK
    <3>3. /\ heapHeld'[x].ptr = IF x = t THEN q.ptr ELSE hx
          /\ heapHeld'[s].ptr = IF s = t THEN q.ptr ELSE hs
          /\ heapNew'[x].ptr = IF x = t THEN 0 ELSE nx
          /\ heapNew'[s].ptr = IF s = t THEN 0 ELSE ns
      BY <1>2, <1>6, <3>1
    <3>4. hx # q.ptr /\ hs # q.ptr /\ (x # t => nx # q.ptr) /\ (s # t => ns # q.ptr)
      BY <1>8, <3>1
    <3> QED
      BY <1>4, <3>2, <3>3, <3>4
  <2>3. ASSUME NEW x \in HeapBlocks', heap'[x].used
        PROVE  \E s \in HeapTasks : heapHeld'[s].ptr = x + 1 \/ heapNew'[s].ptr = x + 1
    <3>1. x + 1 # p.ptr /\ heap[x].used /\ x \in HeapBlocks
      BY <1>5, <2>3
    <3>2. PICK s \in HeapTasks : heapHeld[s].ptr = x + 1 \/ heapNew[s].ptr = x + 1
      BY <3>1 DEF HeapInv, HeapOwnersOK
    <3>3. CASE s = t
      <4>1. heapHeld'[t].ptr = x + 1
        BY <1>3, <1>6, <3>1, <3>2, <3>3
      <4> QED
        BY <4>1
    <3>4. CASE s # t
      BY <1>6, <3>2, <3>4
    <3> QED
      BY <3>3, <3>4
  <2> QED
    BY <1>6, <2>1, <2>2, <2>3 DEF HeapOwnersOK
<1>10. HeapCallsOK'
  <2>1. ASSUME NEW s \in HeapTasks, heapPc'[s] # "idle"
        PROVE  /\ heapHeld'[s].ptr # 0 /\ heapNew'[s].ptr # 0
               /\ heap'[heapHeld'[s].ptr - 1].size - 1 <= heapNew'[s].units
    <3>1. /\ s # t /\ heapHeld'[s] = heapHeld[s] /\ heapPc[s] # "idle"
          /\ heapNew'[s] = heapNew[s]
      BY <1>6, <1>7, <2>1
    <3>2. /\ heapHeld[s].ptr # 0 /\ heapNew[s].ptr # 0
          /\ heap[heapHeld[s].ptr - 1].size - 1 <= heapNew[s].units
      BY <3>1 DEF HeapInv, HeapCallsOK
    <3>3. heap'[heapHeld[s].ptr - 1] = heap[heapHeld[s].ptr - 1]
      BY <1>2, <1>5, <1>8, <3>1, <3>2
    <3> QED
      BY <3>1, <3>2, <3>3
  <2>2. \A s \in HeapTasks : heapPc'[s] = "idle" => heapNew'[s] = HeapNothing
    BY <1>6, <1>7 DEF HeapInv, HeapCallsOK
  <2> QED
    BY <1>1, <1>7, <2>1, <2>2 DEF HeapInv, HeapCallsOK
<1>11. HeapMemOK'
  <2>1. PICK W : W = q.ptr + p.units .. q.ptr + q.units - 1
    OBVIOUS
  <2>2. /\ heapMem' \in [HeapUnits -> HeapTasks \cup {"header", "none"}]
        /\ \A u \in HeapUnits : heapMem'[u] = IF u \in W THEN t ELSE heapMem[u]
    BY <1>2, <1>3, <2>1 DEF HeapReallocDone, HeapWrite, HeapMemOK
  <2>3. /\ p.ptr \in Nat /\ p.units \in Nat /\ q.ptr \in Nat /\ q.units \in Nat
        /\ b \in HeapBlocks /\ q.ptr + q.units <= heap[b].next /\ q.ptr = b + 1
    <3>1. /\ p.ptr \in Nat /\ p.units \in Nat
      BY <1>2, <1>4, HeapInside DEF HeapPtr
    <3>2. /\ q.ptr \in Nat /\ q.units \in Nat
          /\ q.ptr - 1 \in HeapBlocks /\ q.ptr + q.units <= heap[q.ptr - 1].next
      BY <1>2, <1>4, HeapInside DEF HeapPtr
    <3> QED
      BY <1>3, <3>1, <3>2
  <2>4. heap[b].next \in Nat /\ heap[b].next <= HEAP_UNITS /\ b \in Nat
    BY <1>2, <2>3, HeapBounds
  <2>5. ASSUME NEW u \in HeapPayload(q)
        PROVE  u \in HeapUnits /\ b < u /\ u < heap[b].next /\ u \in Nat
    <3>1. PICK e : e = heap[b].next
      OBVIOUS
    <3>2. /\ e \in Nat /\ e <= HEAP_UNITS /\ q.ptr + q.units <= e
      BY <2>3, <2>4, <3>1
    <3>3. u \in Int /\ q.ptr <= u /\ u <= q.ptr + q.units - 1
      BY <2>3 DEF HeapPayload
    <3>4. u \in 0 .. HEAP_UNITS - 1 /\ b < u /\ u < e /\ u \in Nat
      BY <1>2, <2>3, <2>4, <3>2, <3>3
    <3> QED
      BY <3>1, <3>4 DEF HeapUnits
  <2>6. W \subseteq HeapPayload(q)
    BY <2>1, <2>3 DEF HeapPayload
  <2>7. \A u \in HeapUnits : ~ (b < u /\ u < heap[b].next) => heapMem'[u] = heapMem[u]
    BY <2>2, <2>5, <2>6
  <2>8. \A x \in HeapBlocks' : heapMem'[x] = "header"
    <3>1. \A x \in HeapBlocks : heapMem'[x] = heapMem[x]
      BY <1>2, <2>3, <2>7, HeapWrites
    <3> QED
      BY <1>2, <1>5, <3>1 DEF HeapMemOK
  <2>9. ASSUME NEW u \in HeapPayload(q)
        PROVE  heapMem'[u] = t
    <3>1. CASE u \in W
      BY <2>2, <2>5, <3>1
    <3>2. CASE u \notin W
      <4>1. u \in q.ptr .. q.ptr + q.units - 1
        BY DEF HeapPayload
      <4>2. u \in q.ptr .. q.ptr + p.units - 1
        BY <2>1, <2>3, <3>2, <4>1
      <4>3. heapMem[u] = t
        BY <1>1, <1>2, <1>3, <4>2 DEF HeapMemOK
      <4> QED
        BY <2>2, <2>5, <3>2, <4>3
    <3> QED
      BY <3>1, <3>2
  <2>10. ASSUME NEW s \in HeapTasks, s # t
         PROVE  /\ \A u \in HeapPayload(heapHeld'[s]) : heapMem'[u] = s
                /\ heapPc'[s] = "free" =>
                     \A u \in heapNew'[s].ptr .. heapNew'[s].ptr + heapHeld'[s].units - 1 : heapMem'[u] = s
    <3>1. /\ heapHeld'[s] = heapHeld[s] /\ heapNew'[s] = heapNew[s] /\ heapPc'[s] = heapPc[s]
      BY <1>6, <1>7, <2>10
    <3>2. /\ heapNew[s].ptr # 0 => heapNew[s].ptr - 1 # b
          /\ heapHeld[s].ptr # 0 => heapHeld[s].ptr - 1 # b
      BY <1>3, <1>4, <2>10, HeapAlone
    <3> QED
      BY <2>3, <2>7, <2>10, <3>1, <3>2, HeapOthersKeep
  <2> QED
    BY <1>6, <1>7, <2>2, <2>8, <2>9, <2>10 DEF HeapMemOK
<1> QED
  BY <1>5, <1>9, <1>10, <1>11 DEF HeapInv

LEMMA HeapNextInv == HeapInv /\ [HeapNext]_heapVars => HeapInv'
<1> SUFFICES ASSUME HeapInv, [HeapNext]_heapVars PROVE HeapInv'
  OBVIOUS
<1>1. CASE UNCHANGED heapVars
  <2>1. heapCalls' \in 0..HeapMaxCalls
    BY <1>1 DEF heapVars, HeapInv, HeapCallsOK
  <2> QED
    BY <1>1, <2>1, HeapStutters DEF heapVars
<1>2. CASE HeapNext
  BY <1>2, HeapAllocStep, HeapFreeStep, HeapReallocStep, HeapMemcpyStep, HeapReallocDoneStep
     DEF HeapNext
<1> QED
  BY <1>1, <1>2

LEMMA HeapInvIsSound ==
  ASSUME HeapInv
  PROVE  HeapTypeOK /\ HeapSound
<1>1. HeapTilesOK /\ HeapTotalOK /\ HeapMemOK /\ HEAP_UNITS \in Nat
  BY HeapFacts
<1>2. heapFreeTotal \in 0..HEAP_UNITS
  <2>1. /\ IsFiniteSet(HeapBlocks) /\ IsFiniteSet(HeapUnused) /\ HeapBlocks \subseteq Nat
        /\ \A a \in HeapBlocks : HeapSizes[a] \in Nat /\ heap[a].next \in Nat
                                 /\ heap[a].next <= HEAP_UNITS
        /\ 0 \in HeapBlocks /\ HeapUnused \subseteq HeapBlocks
    BY <1>1, HeapBounds DEF HeapTilesOK, HeapUnused
  <2>2. PICK m : m = Max(HeapBlocks)
    OBVIOUS
  <2>3. m \in HeapBlocks /\ \A x \in HeapBlocks : x <= m
    <3>1. HeapBlocks # {} /\ \A x \in HeapBlocks : x <= HEAP_UNITS
      BY <1>1, <2>1 DEF HeapTilesOK, HeapUnits
    <3> QED
      BY <1>1, <2>1, <2>2, <3>1, MaxIsIn
  <2>4. {b \in HeapBlocks : 0 <= b /\ b <= m} = HeapBlocks
    <3>1. ASSUME NEW b \in HeapBlocks PROVE 0 <= b /\ b <= m
      <4>1. b \in Nat
        BY <2>1
      <4> QED
        BY <2>3, <4>1
    <3> QED
      BY <3>1
  <2>5. 0 <= m
    BY <2>1, <2>3
  <2>6. SumFunctionOnSet(HeapSizes, {b \in HeapBlocks : 0 <= b /\ b <= m}) = heap[m].next - 0
    BY <1>1, <2>1, <2>3, <2>5, HeapSpan
  <2>7. SumFunctionOnSet(HeapSizes, HeapBlocks) = heap[m].next
    <3>1. SumFunctionOnSet(HeapSizes, HeapBlocks) = heap[m].next - 0
      BY <2>4, <2>6, Zenon
    <3>2. heap[m].next - 0 = heap[m].next
      BY <2>1, <2>3
    <3> QED
      BY <3>1, <3>2
  <2>8. PICK R : R = HeapBlocks \ HeapUnused
    OBVIOUS
  <2>9. /\ HeapUnused \cup R = HeapBlocks /\ HeapUnused \cap R = {} /\ R \subseteq HeapBlocks
    BY <2>1, <2>8
  <2>10. IsFiniteSet(R)
    BY <2>1, <2>9, FS_Subset
  <2>11. /\ \A x \in HeapUnused : HeapSizes[x] \in Nat
         /\ \A x \in R : HeapSizes[x] \in Nat
         /\ \A x \in HeapUnused \cup R : HeapSizes[x] \in Nat
    BY <2>1, <2>9
  <2>12. SumFunctionOnSet(HeapSizes, HeapUnused \cup R)
         = SumFunctionOnSet(HeapSizes, HeapUnused) + SumFunctionOnSet(HeapSizes, R)
    BY <2>1, <2>9, <2>10, <2>11, SumUnion
  <2>13. /\ SumFunctionOnSet(HeapSizes, HeapUnused) \in Nat
         /\ SumFunctionOnSet(HeapSizes, R) \in Nat
    BY <2>1, <2>10, <2>11, SumNat
  <2>14. PICK e, f, g : /\ e = heap[m].next /\ f = SumFunctionOnSet(HeapSizes, HeapUnused)
                        /\ g = SumFunctionOnSet(HeapSizes, R)
    OBVIOUS
  <2>15. /\ e = f + g /\ f \in Nat /\ g \in Nat /\ heapFreeTotal = f
    BY <1>1, <2>7, <2>9, <2>12, <2>13, <2>14 DEF HeapTotalOK
  <2>16. e \in Nat /\ e <= HEAP_UNITS
    BY <2>1, <2>3, <2>14
  <2> QED
    BY <1>1, <2>15, <2>16
<1>3. HeapTypeOK
  BY <1>1, <1>2 DEF HeapTypeOK, HeapInv, HeapTilesOK, HeapOwnersOK, HeapPtrs, HeapCallsOK, HeapMemOK,
                    HeapBlocks
<1>4. {a \in DOMAIN heap : heap[a].used} = {p - HB_HDR : p \in HeapPointers \ {0}}
  <2>1. ASSUME NEW a \in HeapBlocks, heap[a].used
        PROVE  a \in {p - HB_HDR : p \in HeapPointers \ {0}}
    <3>1. PICK t \in HeapTasks : heapHeld[t].ptr = a + 1 \/ heapNew[t].ptr = a + 1
      BY <2>1 DEF HeapInv, HeapOwnersOK
    <3>2. a \in Nat
      BY <1>1, HeapBounds
    <3>3. PICK p : p = a + 1
      OBVIOUS
    <3>4. p \in HeapPointers \ {0} /\ a = p - HB_HDR
      BY <3>1, <3>2, <3>3 DEF HeapPointers, HB_HDR
    <3>5. \E x \in HeapPointers \ {0} : a = x - HB_HDR
      BY <3>4
    <3> QED
      BY <3>5
  <2>2. ASSUME NEW p \in HeapPointers \ {0}
        PROVE  p - HB_HDR \in HeapBlocks /\ heap[p - HB_HDR].used
    <3>1. PICK t \in HeapTasks : p = heapHeld[t].ptr \/ p = heapNew[t].ptr
      BY DEF HeapPointers
    <3>2. PICK h \in HeapPtr : HeapBlockOK(h) /\ h.ptr = p
      BY <3>1, HeapFacts
    <3> QED
      BY <1>1, <2>2, <3>2, HeapInside DEF HeapPtr, HB_HDR
  <2>3. \A x : x \in {a \in HeapBlocks : heap[a].used} <=> x \in {p - HB_HDR : p \in HeapPointers \ {0}}
    BY <2>1, <2>2
  <2> QED
    BY <2>3 DEF HeapBlocks
<1>5. HeapTiled
  <2>1. DOMAIN heap = HeapListed
    BY <1>1, HeapListedAll DEF HeapBlocks
  <2>2. \A a \in DOMAIN heap : heap[a].next = a + heap[a].size
    BY <1>1 DEF HeapTilesOK, HeapBlocks
  <2>3. heapFreeTotal = SumFunctionOnSet(HeapSizes, {a \in DOMAIN heap : ~heap[a].used})
    BY <1>1 DEF HeapTotalOK, HeapUnused, HeapBlocks
  <2> QED
    BY <1>4, <2>1, <2>2, <2>3 DEF HeapTiled
<1>6. HeapKept
  BY <1>1 DEF HeapMemOK, HeapKept, HeapBlocks
<1> QED
  BY <1>3, <1>5, <1>6 DEF HeapSound

\* Whatever the callers allocate, free and move, in any order and however the copy of a
\* realloc is interleaved: the list runs through heap_area without gap or overlap, the
\* blocks in use are the ones the callers hold, heap_free_total is the size of the others,
\* no header is written over, and what a caller wrote into its memory is still there
\* (esp_shim_malloc, esp_shim_free, esp_shim_realloc).
THEOREM HeapIsSound == HeapSpec => [](HeapTypeOK /\ HeapSound)
<1>1. HeapSpec => []HeapInv
  BY HeapInitInv, HeapNextInv, PTL DEF HeapSpec
<1>2. HeapInv => HeapTypeOK /\ HeapSound
  BY HeapInvIsSound
<1> QED
  BY <1>1, <1>2, PTL

(***************************************************************************)
(* The semaphore of each task.  A task of the pool is alone with its       *)
(* entry; a task outside it is until a second one calls.                   *)
(***************************************************************************)

\* The task's entry is its own, or the only task outside the pool uses theirs.
ThrAlone(t) == t \in ThrPool \/ (\A u \in ThrOutside : ThrUses(u) => u = t)

\* Semaphores are numbered as they are made, and no two entries have the same; a task
\* alone with its entry has been given what is there, and makes one only where there is
\* none; the tasks outside the pool have never been given a semaphore of an entry.
ThrInv ==
  /\ ThrTypeOK
  /\ \A e \in ThrEntries : thrSem[e] <= thrMade
  /\ \A e, f \in ThrEntries : e # f /\ thrSem[e] = thrSem[f] => thrSem[e] = 0
  /\ \A t \in ThrTasks : \A a \in thrGot[t] : a <= thrMade
  /\ \A t \in ThrTasks : ThrAlone(t) =>
       /\ \A a \in thrGot[t] : a = 0 \/ a = thrSem[ThrEntry(t)]
       /\ thrPc[t] = "create" => thrSem[ThrEntry(t)] = 0
  /\ \A t \in ThrOutside, e \in ThrPool : \A a \in thrGot[t] : a = 0 \/ a # thrSem[e]
  /\ \A t \in ThrPool : thrPc[t] \notin {"owner", "claim"}

LEMMA ThrBounds ==
  /\ THR_NUM_SEM \in Nat
  /\ \A t \in ThrTasks : ThrEntry(t) \in ThrEntries
  /\ \A t \in ThrPool : t \in ThrEntries /\ t \in ThrTasks /\ t # ThrMain /\ t \notin ThrOutside
  /\ \A t \in ThrOutside : t \in ThrTasks /\ t \notin ThrPool /\ ThrEntry(t) = ThrMain
  BY ThrAssumption DEF ThrAssumption, ThrTasks, ThrEntries, ThrEntry

\* Steps that move one task and touch neither its result nor a semaphore.
LEMMA ThrMoves ==
  ASSUME ThrInv, NEW t \in ThrTasks, NEW l \in {"owner", "claim", "sem", "create", "return"},
         NEW k \in {"idle", "owner", "claim", "sem"},
         thrPc[t] = k, thrPc' = [thrPc EXCEPT ![t] = l], UNCHANGED <<thrSem, thrMade, thrGot>>,
         l = "create" => thrSem[ThrEntry(t)] = 0, t \in ThrPool => l \notin {"owner", "claim"},
         thrOwner' \in ThrOutside \cup {ThrNobody}, thrConflict' \in BOOLEAN
  PROVE  ThrInv'
<1>1. \A u \in ThrTasks : ThrUses(u) => ThrUses(u)'
  BY DEF ThrUses, ThrInv, ThrTypeOK
<1>2. \A u \in ThrTasks : ThrAlone(u)' => ThrAlone(u)
  BY <1>1, ThrBounds DEF ThrAlone
<1>3. \A u \in ThrTasks : thrPc'[u] = "create" => thrPc[u] = "create" \/ thrSem[ThrEntry(u)] = 0
  BY DEF ThrInv, ThrTypeOK
<1>4. ThrTypeOK'
  BY DEF ThrInv, ThrTypeOK
<1> QED
  BY <1>2, <1>3, <1>4 DEF ThrInv, ThrEntry

LEMMA ThrCreateInv == ASSUME ThrInv, NEW t \in ThrTasks, ThrCreate(t) PROVE ThrInv'
<1> DEFINE e == ThrEntry(t)
<1>1. /\ e \in ThrEntries /\ thrPc[t] = "create" /\ thrPc' = [thrPc EXCEPT ![t] = "return"]
      /\ UNCHANGED <<thrOwner, thrConflict, thrGot>>
      /\ thrMade \in 0..THR_NUM_SEM /\ THR_NUM_SEM \in Nat
  BY ThrBounds DEF ThrCreate, ThrGo, ThrInv, ThrTypeOK
<1>2. PICK n \in ThrSems \cup {0} :
        /\ thrSem' = [thrSem EXCEPT ![e] = n]
        /\ (n = 0 /\ thrMade' = thrMade) \/ (n = thrMade + 1 /\ thrMade' = n)
  BY <1>1 DEF ThrCreate, ThrSems
<1>3. /\ thrSem'[e] = n /\ \A f \in ThrEntries : f # e => thrSem'[f] = thrSem[f]
      /\ thrMade' \in 0..THR_NUM_SEM /\ thrMade <= thrMade'
  BY <1>1, <1>2 DEF ThrInv, ThrTypeOK, ThrSems
<1>4. ThrTypeOK'
  BY <1>1, <1>2, <1>3 DEF ThrInv, ThrTypeOK
<1>5. \A u \in ThrTasks : ThrAlone(u)' => ThrAlone(u)
  BY <1>1, ThrBounds DEF ThrAlone, ThrUses, ThrInv, ThrTypeOK
<1>6. ASSUME NEW u \in ThrTasks, ThrAlone(u)'
      PROVE  /\ \A a \in thrGot'[u] : a = 0 \/ a = thrSem'[ThrEntry(u)]
             /\ thrPc'[u] = "create" => thrSem'[ThrEntry(u)] = 0
  <2>1. CASE u = t
    BY <1>1, <1>3, <1>5, <1>6, <2>1 DEF ThrInv, ThrTypeOK
  <2>2. CASE u # t
    <3>1. ThrEntry(u) # e
      <4>1. ThrUses(t)'  /\ t \in ThrPool \cup ThrOutside
        BY <1>1 DEF ThrUses, ThrInv, ThrTypeOK, ThrTasks
      <4>2. u \in ThrPool \/ t \in ThrPool
        BY <1>6, <2>2, <4>1 DEF ThrAlone
      <4> QED
        BY <2>2, <4>2, ThrBounds DEF ThrEntry
    <3> QED
      BY <1>1, <1>3, <1>5, <1>6, <2>2, <3>1, ThrBounds DEF ThrInv, ThrTypeOK
  <2> QED
    BY <2>1, <2>2
<1>7. /\ \A f \in ThrEntries : thrSem'[f] <= thrMade'
      /\ \A f, g \in ThrEntries : f # g /\ thrSem'[f] = thrSem'[g] => thrSem'[f] = 0
  BY <1>1, <1>2, <1>3 DEF ThrInv, ThrTypeOK, ThrSems
<1>8. \A u \in ThrTasks : \A a \in thrGot'[u] : a <= thrMade'
  BY <1>1, <1>3 DEF ThrInv, ThrTypeOK, ThrSems
<1>9. \A u \in ThrOutside, f \in ThrPool : \A a \in thrGot'[u] : a = 0 \/ a # thrSem'[f]
  <2> SUFFICES ASSUME NEW u \in ThrOutside, NEW f \in ThrPool, NEW a \in thrGot[u]
               PROVE  a = 0 \/ a # thrSem'[f]
    BY <1>1
  <2>1. /\ u \in ThrTasks /\ f \in ThrEntries /\ a \in ThrSems \cup {0} /\ a <= thrMade
        /\ a = 0 \/ a # thrSem[f]
    BY ThrBounds DEF ThrInv, ThrTypeOK
  <2> QED
    BY <1>1, <1>2, <1>3, <2>1 DEF ThrSems
<1>10. \A u \in ThrPool : thrPc'[u] \notin {"owner", "claim"}
  BY <1>1, ThrBounds DEF ThrInv, ThrTypeOK
<1> QED
  BY <1>4, <1>6, <1>7, <1>8, <1>9, <1>10 DEF ThrInv

LEMMA ThrReturnInv == ASSUME ThrInv, NEW t \in ThrTasks, ThrReturn(t) PROVE ThrInv'
<1> DEFINE a == thrSem[ThrEntry(t)]
<1>1. /\ thrPc[t] = "return" /\ thrPc' = [thrPc EXCEPT ![t] = "idle"]
      /\ thrGot' = [thrGot EXCEPT ![t] = @ \cup {a}]
      /\ UNCHANGED <<thrSem, thrOwner, thrConflict, thrMade>>
      /\ ThrEntry(t) \in ThrEntries /\ a \in ThrSems \cup {0} /\ a <= thrMade
  BY ThrBounds DEF ThrReturn, ThrGo, ThrInv, ThrTypeOK
<1>2. /\ thrGot'[t] = thrGot[t] \cup {a} /\ \A u \in ThrTasks : u # t => thrGot'[u] = thrGot[u]
      /\ \A u \in ThrTasks : thrPc'[u] = "create" => thrPc[u] = "create"
  BY <1>1 DEF ThrInv, ThrTypeOK
<1>3. ThrTypeOK'
  BY <1>1, <1>2 DEF ThrInv, ThrTypeOK
<1>4. \A u \in ThrTasks : ThrAlone(u)' => ThrAlone(u)
  BY <1>1, <1>2, ThrBounds DEF ThrAlone, ThrUses, ThrInv, ThrTypeOK
<1>5. \A u \in ThrOutside, f \in ThrPool : \A b \in thrGot'[u] : b = 0 \/ b # thrSem'[f]
  <2>1. ASSUME t \in ThrOutside, NEW f \in ThrPool PROVE a = 0 \/ a # thrSem[f]
    <3>1. ThrEntry(t) = ThrMain /\ f # ThrMain /\ f \in ThrEntries
      BY <2>1, ThrBounds
    <3> QED
      BY <1>1, <3>1 DEF ThrInv
  <2> QED
    BY <1>1, <1>2, <2>1, ThrBounds DEF ThrInv
<1>6. ASSUME NEW u \in ThrTasks, ThrAlone(u)'
      PROVE  /\ \A b \in thrGot'[u] : b = 0 \/ b = thrSem'[ThrEntry(u)]
             /\ thrPc'[u] = "create" => thrSem'[ThrEntry(u)] = 0
  BY <1>1, <1>2, <1>4, <1>6 DEF ThrInv, ThrEntry
<1>7. \A u \in ThrPool : thrPc'[u] \notin {"owner", "claim"}
  BY <1>1, ThrBounds DEF ThrInv, ThrTypeOK
<1>8. \A u \in ThrTasks : \A b \in thrGot'[u] : b <= thrMade'
  BY <1>1, <1>2 DEF ThrInv
<1> QED
  BY <1>1, <1>3, <1>5, <1>6, <1>7, <1>8 DEF ThrInv

LEMMA ThrInitInv == ThrInit => ThrInv
<1> SUFFICES ASSUME ThrInit PROVE ThrInv
  OBVIOUS
<1>1. ThrTypeOK
  <2>1. 0 \in 0..THR_NUM_SEM /\ 0 \in ThrSems \cup {0}
    BY ThrBounds
  <2> QED
    BY <2>1, ThrBounds DEF ThrInit, ThrTypeOK
<1>2. \A t \in ThrTasks : thrGot[t] = {} /\ thrPc[t] = "idle"
  BY DEF ThrInit
<1>3. \A e \in ThrEntries : thrSem[e] = 0 /\ thrMade = 0
  BY DEF ThrInit
<1> QED
  BY <1>1, <1>2, <1>3, ThrBounds DEF ThrInv

LEMMA ThrNextInv == ThrInv /\ [ThrNext]_thrVars => ThrInv'
<1> SUFFICES ASSUME ThrInv, [ThrNext]_thrVars PROVE ThrInv'
  OBVIOUS
<1>1. CASE UNCHANGED thrVars
  <2>1. \A t \in ThrTasks : ThrAlone(t)' => ThrAlone(t)
    BY <1>1 DEF thrVars, ThrAlone, ThrUses
  <2> QED
    BY <1>1, <2>1 DEF thrVars, ThrInv, ThrTypeOK, ThrEntry
<1>2. ASSUME NEW t \in ThrTasks, ThrCall(t) \/ ThrReadOwner(t) \/ ThrClaim(t) \/ ThrReadSem(t)
      PROVE  ThrInv'
  <2>1. /\ UNCHANGED <<thrSem, thrMade, thrGot>>
        /\ \E k \in {"idle", "owner", "claim", "sem"}, l \in {"owner", "claim", "sem", "create", "return"} :
             /\ thrPc[t] = k /\ thrPc' = [thrPc EXCEPT ![t] = l]
             /\ l = "create" => thrSem[ThrEntry(t)] = 0
             /\ t \in ThrPool => l \notin {"owner", "claim"}
    BY <1>2, ThrBounds DEF ThrCall, ThrReadOwner, ThrClaim, ThrReadSem, ThrGo, ThrEntry, ThrInv
  <2>2. thrOwner' \in ThrOutside \cup {ThrNobody} /\ thrConflict' \in BOOLEAN
    BY <1>2 DEF ThrCall, ThrReadOwner, ThrClaim, ThrReadSem, ThrGo, ThrInv, ThrTypeOK, ThrTasks
  <2> QED
    BY <2>1, <2>2, ThrMoves
<1>3. ASSUME NEW t \in ThrTasks, ThrCreate(t) \/ ThrReturn(t) PROVE ThrInv'
  BY <1>3, ThrCreateInv, ThrReturnInv
<1> QED
  BY <1>1, <1>2, <1>3 DEF ThrNext

\* Whatever the order in which the tasks test and set the owner and the semaphores, a task
\* of the pool shares its semaphore with nobody and is given the same one at every call, as
\* is the task outside the pool as long as it is the only one (esp_shim_thread_semphr_get).
THEOREM SemaphoresApart == ThrSpec => [](ThrTypeOK /\ ThrSemsApart)
<1>1. ThrInv => ThrTypeOK /\ ThrSemsApart
  <2> SUFFICES ASSUME ThrInv PROVE ThrSemsApart
    BY DEF ThrInv
  <2>1. ASSUME NEW t \in ThrTasks, t \in ThrPool \/ (\A u \in ThrOutside : ThrUses(u) => u = t)
        PROVE  \A a \in thrGot[t] : a = 0 \/ a = thrSem[ThrEntry(t)]
    BY <2>1 DEF ThrInv, ThrAlone
  <2>2. ASSUME NEW t \in ThrPool, NEW u \in ThrTasks, t # u, NEW a \in thrGot[t] \cap thrGot[u]
        PROVE  a = 0
    <3>1. t \in ThrEntries /\ t \in ThrTasks /\ ThrEntry(t) = t /\ (a = 0 \/ a = thrSem[t])
      BY <2>1, <2>2, ThrBounds DEF ThrEntry
    <3>2. CASE u \in ThrPool
      BY <2>1, <2>2, <3>1, <3>2, ThrBounds DEF ThrEntry, ThrInv
    <3>3. CASE u \in ThrOutside
      BY <2>2, <3>1, <3>3 DEF ThrInv
    <3> QED
      BY <3>2, <3>3 DEF ThrTasks
  <2> QED
    BY <2>1, <2>2 DEF ThrSemsApart
<1> QED
  BY <1>1, ThrInitInv, ThrNextInv, PTL DEF ThrSpec
=============================================================================
