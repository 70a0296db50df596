------------------------------ MODULE ShimTask -------------------------------
(***************************************************************************)
(* The task pool of the shim: esp_shim_task_create                         *)
(* (src/esp/c3/wifi/esp_shim.c), esp_shim_task_entry and                   *)
(* esp_shim_task_delete (src/esp/common/wifi/esp_shim_core.c).             *)
(*                                                                         *)
(* Each slot has its kernel task.  A function that ends gives its slot     *)
(* back before the kernel task has ended, so that the slot's next function *)
(* may be activated while the last is still on its way to ext_tsk: the     *)
(* kernel then queues the activation (once) and starts the task again.     *)
(* External: the kernel's tasks, and the callers, which delete only tasks  *)
(* whose function has begun and does not end by itself meanwhile.          *)
(***************************************************************************)
EXTENDS Integers, FiniteSets, FiniteSetsExt

CONSTANTS
  TskCreators,      \* the tasks that create and delete tasks
  ESP_SHIM_NUM_TSK,
  TskMaxCreates     \* bound: number of tasks created

TskSlots == 1 .. ESP_SHIM_NUM_TSK
TskIds   == 1 .. TskMaxCreates   \* the functions, in the order of their creation

ASSUME TskAssumption == ESP_SHIM_NUM_TSK \in Nat \ {0} /\ TskMaxCreates \in Nat

VARIABLES
  tskUsed,    \* shim_tsk[].used
  tskFn,      \* shim_tsk[].fn, 0 for none yet
  tskState,   \* the kernel task: dormant, about to read its function, in it,
              \* or on its way to ext_tsk
  tskQueued,  \* its queued activation
  tskPc,      \* where each creator is
  tskSlot,    \* the slot it has in hand, or 0
  tskNext,    \* history: number of tasks asked for
  tskMade,    \* history: the functions whose creation has succeeded
  tskRuns     \* history: how often each function has been started

tskPool == <<tskUsed, tskFn>>
tskKern == <<tskState, tskQueued>>
tskHist == <<tskNext, tskMade, tskRuns>>
tskVars == <<tskPool, tskKern, tskPc, tskSlot, tskHist>>

TskTypeOK ==
  /\ tskUsed \in [TskSlots -> BOOLEAN] /\ tskFn \in [TskSlots -> TskIds \cup {0}]
  /\ tskState \in [TskSlots -> {"dormant", "start", "run", "exit"}]
  /\ tskQueued \in [TskSlots -> BOOLEAN]
  /\ tskPc \in [TskCreators -> {"idle", "found", "act", "free"}]
  /\ tskSlot \in [TskCreators -> TskSlots \cup {0}]
  /\ tskNext \in 0..TskMaxCreates /\ tskMade \subseteq TskIds
  /\ tskRuns \in [TskIds -> 0..2]

TskInit ==
  /\ tskUsed = [s \in TskSlots |-> FALSE] /\ tskFn = [s \in TskSlots |-> 0]
  /\ tskState = [s \in TskSlots |-> "dormant"] /\ tskQueued = [s \in TskSlots |-> FALSE]
  /\ tskPc = [c \in TskCreators |-> "idle"] /\ tskSlot = [c \in TskCreators |-> 0]
  /\ tskNext = 0 /\ tskMade = {} /\ tskRuns = [i \in TskIds |-> 0]

TskGo(c, l, m) == tskPc[c] = l /\ tskPc' = [tskPc EXCEPT ![c] = m]
TskFree == {s \in TskSlots : ~tskUsed[s]}
TskFill(s) == /\ tskUsed' = [tskUsed EXCEPT ![s] = TRUE]
              /\ tskFn' = [tskFn EXCEPT ![s] = tskNext']

-----------------------------------------------------------------------------
(* esp_shim_task_create                                                    *)

\* Mutant: the slot is looked for without the lock, and taken later.
TskTakeUnlocked(c) ==
  /\ \/ /\ tskNext < TskMaxCreates /\ TskFree # {} /\ TskGo(c, "idle", "found")
        /\ tskSlot' = [tskSlot EXCEPT ![c] = Min(TskFree)]
        /\ UNCHANGED <<tskPool, tskNext>>
     \/ /\ tskNext < TskMaxCreates /\ TskGo(c, "found", "act")
        /\ tskNext' = tskNext + 1
        /\ TskFill(tskSlot[c])
        /\ UNCHANGED tskSlot
  /\ UNCHANGED <<tskKern, tskMade, tskRuns>>

\* Under the lock the first free slot is taken and filled; without one the call
\* fails.
TskTake(c) ==
  /\ tskNext < TskMaxCreates /\ tskNext' = tskNext + 1
  /\ \/ TskFree = {} /\ TskGo(c, "idle", "idle") /\ UNCHANGED <<tskPool, tskSlot>>
     \/ /\ TskFree # {} /\ TskGo(c, "idle", "act")
        /\ TskFill(Min(TskFree))
        /\ tskSlot' = [tskSlot EXCEPT ![c] = Min(TskFree)]
  /\ UNCHANGED <<tskKern, tskMade, tskRuns>>

\* act_tsk: the task is started, or its activation queued while it still exits;
\* a second one would be refused, and the slot given back.
TskActivate(c) ==
  /\ TskGo(c, "act", "idle")
  /\ LET s == tskSlot[c]
     IN \/ /\ tskState[s] = "dormant"
           /\ tskState' = [tskState EXCEPT ![s] = "start"]
           /\ tskMade' = tskMade \cup {tskFn[s]}
           /\ UNCHANGED <<tskQueued, tskUsed>>
        \/ /\ tskState[s] # "dormant" /\ ~tskQueued[s]
           /\ tskQueued' = [tskQueued EXCEPT ![s] = TRUE]
           /\ tskMade' = tskMade \cup {tskFn[s]}
           /\ UNCHANGED <<tskState, tskUsed>>
        \/ /\ tskState[s] # "dormant" /\ tskQueued[s]
           /\ tskUsed' = [tskUsed EXCEPT ![s] = FALSE]
           /\ UNCHANGED <<tskKern, tskMade>>
  /\ tskSlot' = [tskSlot EXCEPT ![c] = 0]
  /\ UNCHANGED <<tskFn, tskNext, tskRuns>>

-----------------------------------------------------------------------------
(* esp_shim_task_entry                                                     *)

\* The task reads its slot's function and calls it.
TskStart(s) ==
  /\ tskState[s] = "start"
  /\ tskState' = [tskState EXCEPT ![s] = "run"]
  /\ tskRuns' = [tskRuns EXCEPT ![tskFn[s]] = @ + 1]
  /\ UNCHANGED <<tskPool, tskQueued, tskPc, tskSlot, tskNext, tskMade>>

\* The function returns, or deletes its own task: the slot is free again ...
TskEnd(s) ==
  /\ tskState[s] = "run"
  /\ \A c \in TskCreators : tskSlot[c] # s
  /\ tskUsed' = [tskUsed EXCEPT ![s] = FALSE]
  /\ tskState' = [tskState EXCEPT ![s] = "exit"]
  /\ UNCHANGED <<tskFn, tskQueued, tskPc, tskSlot, tskHist>>

\* The kernel ends a task, and starts it again for a queued activation.
TskDormant(s) ==
  /\ tskState' = [tskState EXCEPT ![s] = IF tskQueued[s] THEN "start" ELSE "dormant"]
  /\ tskQueued' = [tskQueued EXCEPT ![s] = FALSE]

\* ... and then ext_tsk is called.
TskExit(s) ==
  /\ tskState[s] = "exit"
  /\ TskDormant(s)
  /\ UNCHANGED <<tskPool, tskPc, tskSlot, tskHist>>

\* esp_shim_task_delete of another task: ter_tsk, then the slot under the lock.
TskDelete(c) ==
  /\ \/ \E s \in TskSlots :
          /\ tskState[s] = "run" /\ \A d \in TskCreators : tskSlot[d] # s
          /\ TskGo(c, "idle", "free")
          /\ TskDormant(s)
          /\ tskSlot' = [tskSlot EXCEPT ![c] = s]
          /\ UNCHANGED tskUsed
     \/ /\ TskGo(c, "free", "idle")
        /\ tskUsed' = [tskUsed EXCEPT ![tskSlot[c]] = FALSE]
        /\ tskSlot' = [tskSlot EXCEPT ![c] = 0]
        /\ UNCHANGED tskKern
  /\ UNCHANGED <<tskFn, tskHist>>

TskNext ==
  \/ \E c \in TskCreators : TskTake(c) \/ TskActivate(c) \/ TskDelete(c)
  \/ \E s \in TskSlots : TskStart(s) \/ TskEnd(s) \/ TskExit(s)

TskSpec == TskInit /\ [][TskNext]_tskVars

-----------------------------------------------------------------------------
(* Properties                                                              *)

\* Every function whose creation succeeds is called once, by the task of its own
\* slot, though the slot is given back before the task has ended: it has been
\* called or its start is on its way, and no slot is free while a function runs
\* or is to run there, nor lost when none does.
TskEachOnce ==
  /\ \A i \in TskIds : tskRuns[i] <= 1
  /\ \A i \in tskMade : \/ tskRuns[i] = 1
                        \/ \E s \in TskSlots : /\ tskFn[s] = i
                                               /\ tskState[s] = "start" \/ tskQueued[s]
  /\ \A s \in TskSlots :
       tskUsed[s] <=> \/ tskState[s] \in {"start", "run"} \/ tskQueued[s]
                      \/ \E c \in TskCreators : tskSlot[c] = s /\ tskPc[c] \in {"act", "free"}
=============================================================================
