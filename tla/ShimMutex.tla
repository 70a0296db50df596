------------------------------ MODULE ShimMutex ------------------------------
(***************************************************************************)
(* The recursive mutexes of the shim (esp_shim_mutex_create to _unlock in  *)
(* src/esp/common/wifi/esp_shim_core.c): a wrapper with an owner and a     *)
(* count, read and written without the lock, around a mutex of the kernel  *)
(* that refuses (TA_NULL) to be locked again by its holder.  Each access   *)
(* and each kernel call is a step.  External: the kernel's mutexes.        *)
(***************************************************************************)
EXTENDS Integers

CONSTANTS
  MtxTasks,
  ESP_SHIM_NUM_MTX,
  MtxMaxDepth,   \* bound: how deep a task locks
  MtxMaxCreates, \* bound: number of mutexes created
  MtxNobody      \* owner 0

MtxSlots == 1 .. ESP_SHIM_NUM_MTX

ASSUME MtxAssumption == /\ MtxNobody \notin MtxTasks
                        /\ {ESP_SHIM_NUM_MTX, MtxMaxDepth, MtxMaxCreates} \subseteq Nat

VARIABLES
  mtx,         \* shim_mtx: used (mtxid # 0), owner, count, recursive
  mtxKernel,   \* who holds each kernel mutex
  mtxPc,       \* where each task is in its call
  mtxArg,      \* the mutex of the call
  mtxDepth,    \* history: how often each task has locked each mutex
  mtxCreates   \* history: number of mutexes created

mtxVars == <<mtx, mtxKernel, mtxPc, mtxArg, mtxDepth, mtxCreates>>

MtxTypeOK ==
  /\ mtx \in [MtxSlots -> [used : BOOLEAN, owner : MtxTasks \cup {MtxNobody},
                           count : Nat, recursive : BOOLEAN]]
  /\ mtxKernel \in [MtxSlots -> MtxTasks \cup {MtxNobody}]
  /\ mtxPc \in [MtxTasks -> {"idle", "lock", "loc_mtx", "own", "unlock", "unl_mtx", "disown"}]
  /\ mtxArg \in [MtxTasks -> MtxSlots \cup {0}]
  /\ mtxDepth \in [MtxTasks -> [MtxSlots -> 0..MtxMaxDepth]]
  /\ mtxCreates \in 0..MtxMaxCreates

MtxInit ==
  /\ mtx = [m \in MtxSlots |-> [used |-> FALSE, owner |-> MtxNobody, count |-> 0,
                                recursive |-> FALSE]]
  /\ mtxKernel = [m \in MtxSlots |-> MtxNobody]
  /\ mtxPc = [t \in MtxTasks |-> "idle"] /\ mtxArg = [t \in MtxTasks |-> 0]
  /\ mtxDepth = [t \in MtxTasks |-> [m \in MtxSlots |-> 0]]
  /\ mtxCreates = 0

MtxGo(t, l, k) == mtxPc[t] = l /\ mtxPc' = [mtxPc EXCEPT ![t] = k]

\* The locked search of esp_shim_mutex_create, which fails when no slot is free.
MtxCreate ==
  /\ mtxCreates < MtxMaxCreates /\ mtxCreates' = mtxCreates + 1
  /\ LET free == {m \in MtxSlots : ~mtx[m].used}
     IN \/ free = {} /\ UNCHANGED mtx
        \/ \E m \in free, r \in BOOLEAN :
             /\ \A k \in free : m <= k
             /\ mtx' = [mtx EXCEPT ![m] = [used |-> TRUE, owner |-> MtxNobody,
                                          count |-> 0, recursive |-> r]]
  /\ UNCHANGED <<mtxKernel, mtxPc, mtxArg, mtxDepth>>

\* A mutex nobody uses is deleted: mtxid is cleared without the lock.
MtxDelete ==
  /\ \E m \in MtxSlots :
       /\ mtx[m].used
       /\ \A t \in MtxTasks : mtxArg[t] # m /\ mtxDepth[t][m] = 0
       /\ mtx' = [mtx EXCEPT ![m].used = FALSE]
  /\ UNCHANGED <<mtxKernel, mtxPc, mtxArg, mtxDepth, mtxCreates>>

\* A task calls lock, or unlock when it has locked.
MtxCall(t) ==
  /\ \E m \in MtxSlots :
       /\ mtx[m].used
       /\ mtxArg' = [mtxArg EXCEPT ![t] = m]
       /\ \/ mtxDepth[t][m] < MtxMaxDepth /\ MtxGo(t, "idle", "lock")
          \/ mtxDepth[t][m] > 0 /\ MtxGo(t, "idle", "unlock")
  /\ UNCHANGED <<mtx, mtxKernel, mtxDepth, mtxCreates>>

MtxReturn(t, l, d) ==
  /\ MtxGo(t, l, "idle")
  /\ mtxArg' = [mtxArg EXCEPT ![t] = 0]
  /\ mtxDepth' = [mtxDepth EXCEPT ![t][mtxArg[t]] = @ + d]
  /\ UNCHANGED mtxCreates

\* The owner of a recursive mutex counts; any other calls the kernel.
MtxLock(t) ==
  LET m == mtxArg[t]
  IN /\ mtxPc[t] = "lock"
     /\ \/ /\ mtx[m].recursive /\ mtx[m].owner = t
           /\ MtxReturn(t, "lock", 1)
           /\ mtx' = [mtx EXCEPT ![m].count = @ + 1]
        \/ /\ ~(mtx[m].recursive /\ mtx[m].owner = t)
           /\ MtxGo(t, "lock", "loc_mtx")
           /\ UNCHANGED <<mtx, mtxArg, mtxDepth, mtxCreates>>
     /\ UNCHANGED mtxKernel

\* loc_mtx waits for the mutex; its holder gets an error and the lock fails.
MtxLocMtx(t) ==
  LET m == mtxArg[t]
  IN /\ mtxPc[t] = "loc_mtx"
     /\ \/ /\ mtxKernel[m] = MtxNobody /\ MtxGo(t, "loc_mtx", "own")
           /\ mtxKernel' = [mtxKernel EXCEPT ![m] = t]
           /\ UNCHANGED <<mtxArg, mtxDepth, mtxCreates>>
        \/ mtxKernel[m] = t /\ MtxReturn(t, "loc_mtx", 0) /\ UNCHANGED mtxKernel
     /\ UNCHANGED mtx

MtxOwn(t) ==
  /\ MtxReturn(t, "own", 1)
  /\ mtx' = [mtx EXCEPT ![mtxArg[t]].owner = t, ![mtxArg[t]].count = 1]
  /\ UNCHANGED mtxKernel

\* A nested unlock only counts.
MtxUnlock(t) ==
  LET m == mtxArg[t]
  IN /\ mtxPc[t] = "unlock" /\ mtx[m].recursive /\ mtx[m].count > 1
     /\ MtxReturn(t, "unlock", -1)
     /\ mtx' = [mtx EXCEPT ![m].count = @ - 1]
     /\ UNCHANGED mtxKernel

\* Mutant: the kernel's mutex is unlocked before the owner is forgotten.
MtxRelease(t) ==
  LET m == mtxArg[t]
  IN \/ /\ MtxGo(t, "unlock", "disown")
        /\ ~(mtx[m].recursive /\ mtx[m].count > 1)
        /\ mtxKernel' = [mtxKernel EXCEPT ![m] = MtxNobody]
        /\ UNCHANGED <<mtx, mtxArg, mtxDepth, mtxCreates>>
     \/ /\ MtxReturn(t, "disown", -1)
        /\ mtx' = [mtx EXCEPT ![m].owner = MtxNobody, ![m].count = 0]
        /\ UNCHANGED mtxKernel

\* The last forgets the owner and the count, then calls unl_mtx.
MtxLastUnlock(t) ==
  LET m == mtxArg[t]
  IN \/ /\ MtxGo(t, "unlock", "unl_mtx")
        /\ ~(mtx[m].recursive /\ mtx[m].count > 1)
        /\ mtx' = [mtx EXCEPT ![m].owner = MtxNobody, ![m].count = 0]
        /\ UNCHANGED <<mtxKernel, mtxArg, mtxDepth, mtxCreates>>
     \/ /\ MtxReturn(t, "unl_mtx", -1)
        /\ mtxKernel' = [mtxKernel EXCEPT ![m] = MtxNobody]
        /\ UNCHANGED mtx

MtxNext ==
  \/ MtxCreate \/ MtxDelete
  \/ \E t \in MtxTasks : \/ MtxCall(t) \/ MtxLock(t) \/ MtxLocMtx(t) \/ MtxOwn(t)
                         \/ MtxUnlock(t) \/ MtxLastUnlock(t)

MtxSpec == MtxInit /\ [][MtxNext]_mtxVars

-----------------------------------------------------------------------------
(* Properties                                                              *)

\* A mutex has one holder, which holds it until it has unlocked as often as it has
\* locked, although owner and count are read and written without a lock: a stale
\* owner never lets a second task in, and the count is the holder's depth.
MtxExclusive ==
  \A m \in MtxSlots :
    /\ \A t, u \in MtxTasks : mtxDepth[t][m] > 0 /\ mtxDepth[u][m] > 0 => t = u
    /\ \A t \in MtxTasks : mtxDepth[t][m] > 0 =>
         /\ mtxKernel[m] = t
         /\ (mtxArg[t] # m) => mtx[m].owner = t /\ mtx[m].count = mtxDepth[t][m]
=============================================================================
