---------------------------- MODULE ShimThreadSem ----------------------------
(***************************************************************************)
(* The semaphore of each task (esp_shim_thread_semphr_get in               *)
(* src/esp/common/wifi/esp_shim_core.c), made at its first use.  A task of *)
(* the shim's pool has one in its entry of shim_tsk; all other tasks share *)
(* shim_main_thread_sem, which is meant for one of them: the first is      *)
(* recorded and a second one is reported.  Nothing is locked: each access  *)
(* to a shared variable is a step.  A semaphore just created is known to   *)
(* its creator only, so that creating it and storing it are one step.      *)
(***************************************************************************)
EXTENDS Integers

CONSTANTS
  ThrPool,      \* the tasks of the pool, each with its entry of shim_tsk
  ThrOutside,   \* the other tasks that use Wi-Fi
  ThrMain,      \* what get_current returns for them
  THR_NUM_SEM,  \* the semaphores esp_shim_sem_create has left
  ThrNobody     \* owner 0

ThrTasks   == ThrPool \cup ThrOutside
ThrEntries == ThrPool \cup {ThrMain}
ThrSems    == 1 .. THR_NUM_SEM

ASSUME ThrAssumption == /\ ThrPool \cap ThrOutside = {} /\ ThrMain \notin ThrPool
                        /\ ThrNobody \notin ThrOutside
                        /\ THR_NUM_SEM \in Nat

VARIABLES
  thrSem,       \* thread_sem of each entry and shim_main_thread_sem, 0 for NULL
  thrOwner,     \* shim_main_thread_owner
  thrConflict,  \* shim_main_thread_conflict # 0
  thrMade,      \* number of semaphores created, which are numbered
  thrPc,        \* where each task is in its call
  thrGot        \* history: what each task has been given

thrVars == <<thrSem, thrOwner, thrConflict, thrMade, thrPc, thrGot>>

ThrTypeOK ==
  /\ thrSem \in [ThrEntries -> ThrSems \cup {0}]
  /\ thrOwner \in ThrOutside \cup {ThrNobody}
  /\ thrConflict \in BOOLEAN
  /\ thrMade \in 0..THR_NUM_SEM
  /\ thrPc \in [ThrTasks -> {"idle", "owner", "claim", "sem", "create", "return"}]
  /\ thrGot \in [ThrTasks -> SUBSET (ThrSems \cup {0})]

ThrInit ==
  /\ thrSem = [e \in ThrEntries |-> 0]
  /\ thrOwner = ThrNobody /\ thrConflict = FALSE
  /\ thrMade = 0
  /\ thrPc = [t \in ThrTasks |-> "idle"]
  /\ thrGot = [t \in ThrTasks |-> {}]

ThrGo(t, l, k) == thrPc[t] = l /\ thrPc' = [thrPc EXCEPT ![t] = k]

\* Mutant: the scan takes the first entry in use, whosever it is.
ThrFirstEntry(t) ==
  IF t \in ThrPool THEN CHOOSE e \in ThrPool : TRUE ELSE ThrMain

\* esp_shim_task_get_current: an entry is in use as long as its task runs.
ThrEntry(t) == IF t \in ThrPool THEN t ELSE ThrMain

ThrCall(t) ==
  /\ ThrGo(t, "idle", IF ThrEntry(t) = ThrMain THEN "owner" ELSE "sem")
  /\ UNCHANGED <<thrSem, thrOwner, thrConflict, thrMade, thrGot>>

\* The owner is looked up: nobody, another task, which is reported, or the caller.
ThrReadOwner(t) ==
  /\ \/ thrOwner = ThrNobody /\ ThrGo(t, "owner", "claim") /\ UNCHANGED thrConflict
     \/ thrOwner \notin {ThrNobody, t} /\ ThrGo(t, "owner", "sem") /\ thrConflict' = TRUE
     \/ thrOwner = t /\ ThrGo(t, "owner", "sem") /\ UNCHANGED thrConflict
  /\ UNCHANGED <<thrSem, thrOwner, thrMade, thrGot>>

ThrClaim(t) ==
  /\ ThrGo(t, "claim", "sem")
  /\ thrOwner' = t
  /\ UNCHANGED <<thrSem, thrConflict, thrMade, thrGot>>

ThrReadSem(t) ==
  /\ ThrGo(t, "sem", IF thrSem[ThrEntry(t)] = 0 THEN "create" ELSE "return")
  /\ UNCHANGED <<thrSem, thrOwner, thrConflict, thrMade, thrGot>>

\* esp_shim_sem_create(1, 0), which returns NULL when no semaphore is left; what it
\* returns is stored whatever has been stored there meanwhile.
ThrCreate(t) ==
  /\ ThrGo(t, "create", "return")
  /\ \/ /\ thrMade < THR_NUM_SEM
        /\ thrMade' = thrMade + 1
        /\ thrSem' = [thrSem EXCEPT ![ThrEntry(t)] = thrMade + 1]
     \/ /\ thrMade = THR_NUM_SEM
        /\ thrSem' = [thrSem EXCEPT ![ThrEntry(t)] = 0]
        /\ UNCHANGED thrMade
  /\ UNCHANGED <<thrOwner, thrConflict, thrGot>>

\* The variable is read again for the result.
ThrReturn(t) ==
  /\ ThrGo(t, "return", "idle")
  /\ thrGot' = [thrGot EXCEPT ![t] = @ \cup {thrSem[ThrEntry(t)]}]
  /\ UNCHANGED <<thrSem, thrOwner, thrConflict, thrMade>>

ThrNext == \E t \in ThrTasks :
             \/ ThrCall(t) \/ ThrReadOwner(t) \/ ThrClaim(t)
             \/ ThrReadSem(t) \/ ThrCreate(t) \/ ThrReturn(t)

ThrSpec == ThrInit /\ [][ThrNext]_thrVars

-----------------------------------------------------------------------------
(* Properties                                                              *)

\* Has the task called?
ThrUses(t) == thrPc[t] # "idle" \/ thrGot[t] # {}

\* A task of the pool waits on a semaphore nobody else is given, and on the same one at
\* every call; so does the task outside it as long as it is the only one.  A give for one
\* task would else wake another, or nobody.
ThrSemsApart ==
  /\ \A t, u \in ThrTasks : t # u /\ t \in ThrPool => thrGot[t] \cap thrGot[u] \subseteq {0}
  /\ \A t \in ThrTasks :
       t \in ThrPool \/ (\A u \in ThrOutside : ThrUses(u) => u = t) =>
         \A a, b \in thrGot[t] \ {0} : a = b
=============================================================================
