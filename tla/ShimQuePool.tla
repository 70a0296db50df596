----------------------------- MODULE ShimQuePool ------------------------------
(***************************************************************************)
(* Creation and deletion of the shim's queues (esp_shim_queue_create and   *)
(* esp_shim_queue_delete in src/esp/common/wifi/esp_shim_core.c) and what  *)
(* a queue inherits from the one that had its pool entry before.           *)
(*                                                                         *)
(* An entry stands for a kernel data queue and a semaphore, which keep     *)
(* their contents over a deletion, and for three blocks of the heap.  What *)
(* a queue does while it lives is ShimQueue's subject: here each call is   *)
(* one step on its accounts.  External: the callers, who use and delete    *)
(* only a queue that creation has returned to them and that no other       *)
(* context is in, and the heap, which may refuse any allocation.  A flush  *)
(* does not preempt a deletion: see QueFlush.                              *)
(***************************************************************************)
EXTENDS Integers, FiniteSets, FiniteSetsExt, Functions

CONSTANTS
  QueTasks,          \* the tasks that create, use and delete queues
  ESP_SHIM_NUM_DTQ,
  ESP_SHIM_DTQ_CNT,
  QueLens,           \* the lengths asked for
  QueNumBlocks,      \* blocks of the heap
  QueMaxCalls        \* bound: number of creations and sends

QueEntries == 1 .. ESP_SHIM_NUM_DTQ
QueBlocks  == 1 .. QueNumBlocks

ASSUME QueAssumption ==
  /\ {ESP_SHIM_NUM_DTQ, ESP_SHIM_DTQ_CNT, QueNumBlocks, QueMaxCalls} \subseteq Nat
  /\ QueLens \subseteq Nat \ {0}

VARIABLES
  que,        \* shim_que: used (dtqid # 0), blocks, depth, free (free_top), pend
              \* (pend_cnt), debt (sem_debt)
  queTok,     \* count of each shim_qsem
  queDtq,     \* entries in each shim_dtq
  queTotal,   \* shim_que_pend_total
  queHeap,    \* the free blocks of the heap
  quePc,      \* where each task is
  queMem,     \* the blocks it has allocated for a queue to be
  queLen,     \* the depth of that queue
  queHandle,  \* the entry it has in hand, or 0
  queCalls    \* history: number of creations and sends

queKern  == <<queTok, queDtq>>
queLocal == <<queMem, queLen>>
queVars  == <<que, queKern, queTotal, queHeap, quePc, queLocal, queHandle, queCalls>>

QueTypeOK ==
  /\ que \in [QueEntries -> [used : BOOLEAN, blocks : SUBSET QueBlocks,
                             depth : 0..ESP_SHIM_DTQ_CNT, free : 0..ESP_SHIM_DTQ_CNT,
                             pend : 0..ESP_SHIM_DTQ_CNT, debt : 0..ESP_SHIM_DTQ_CNT]]
  /\ queTok \in [QueEntries -> 0..ESP_SHIM_DTQ_CNT]
  /\ queDtq \in [QueEntries -> 0..ESP_SHIM_DTQ_CNT]
  /\ queTotal \in Nat /\ queHeap \subseteq QueBlocks
  /\ quePc \in [QueTasks -> {"idle", "claim", "giveback", "drain", "fill", "polsem", "pend",
                             "free", "clear"}]
  /\ queMem \in [QueTasks -> SUBSET QueBlocks]
  /\ queLen \in [QueTasks -> 0..ESP_SHIM_DTQ_CNT]
  /\ queHandle \in [QueTasks -> QueEntries \cup {0}]
  /\ queCalls \in 0..QueMaxCalls

QueInit ==
  /\ que = [e \in QueEntries |-> [used |-> FALSE, blocks |-> {}, depth |-> 0, free |-> 0,
                                  pend |-> 0, debt |-> 0]]
  /\ queTok = [e \in QueEntries |-> 0] /\ queDtq = [e \in QueEntries |-> 0]
  /\ queTotal = 0 /\ queHeap = QueBlocks
  /\ quePc = [p \in QueTasks |-> "idle"]
  /\ queMem = [p \in QueTasks |-> {}] /\ queLen = [p \in QueTasks |-> 0]
  /\ queHandle = [p \in QueTasks |-> 0] /\ queCalls = 0

QueGo(p, l, m) == quePc[p] = l /\ quePc' = [quePc EXCEPT ![p] = m]
QueCall        == queCalls < QueMaxCalls /\ queCalls' = queCalls + 1

-----------------------------------------------------------------------------
(* esp_shim_queue_create                                                   *)

\* The length is cut to the pool's, and three blocks are asked for, of which the heap
\* gives n, its first free ones.
QueAlloc(p) ==
  /\ QueCall /\ queHandle[p] = 0
  /\ \E n \in 0..Min({3, Cardinality(queHeap)}) :
       LET got == {b \in queHeap : Cardinality({c \in queHeap : c < b}) < n}
       IN /\ QueGo(p, "idle", IF n = 3 THEN "claim" ELSE "giveback")
          /\ queMem' = [queMem EXCEPT ![p] = got]
          /\ queHeap' = queHeap \ got
  /\ \E len \in QueLens : queLen' = [queLen EXCEPT ![p] = Min({len, ESP_SHIM_DTQ_CNT})]
  /\ UNCHANGED <<que, queKern, queTotal, queHandle>>

\* Under the lock the first free entry is filled in; without one the call fails.
QueClaim(p) ==
  /\ LET free == {e \in QueEntries : ~que[e].used}
         d    == queLen[p]
     IN \/ free = {} /\ QueGo(p, "claim", "giveback") /\ UNCHANGED <<que, queMem, queHandle>>
        \/ /\ free # {} /\ QueGo(p, "claim", "drain")
           /\ que' = [que EXCEPT ![Min(free)] =
                        [used |-> TRUE, blocks |-> queMem[p], depth |-> d, free |-> d,
                         pend |-> 0, debt |-> 0]]
           /\ queMem' = [queMem EXCEPT ![p] = {}]
           /\ queHandle' = [queHandle EXCEPT ![p] = Min(free)]
  /\ UNCHANGED <<queKern, queTotal, queHeap, queLen, queCalls>>

\* A creation that fails frees what it was given.
QueGiveBack(p) ==
  /\ QueGo(p, "giveback", "idle")
  /\ queHeap' = queHeap \cup queMem[p]
  /\ queMem' = [queMem EXCEPT ![p] = {}] /\ queLen' = [queLen EXCEPT ![p] = 0]
  /\ UNCHANGED <<que, queKern, queTotal, queHandle, queCalls>>

\* The semaphore is emptied and given one token for each slot; the data queue is taken as
\* it is.
QueFill(p) ==
  /\ \/ QueGo(p, "drain", "fill") /\ queTok' = [queTok EXCEPT ![queHandle[p]] = 0]
        /\ UNCHANGED queLen
     \/ QueGo(p, "fill", "idle") /\ queTok' = [queTok EXCEPT ![queHandle[p]] = @ + queLen[p]]
        /\ queLen' = [queLen EXCEPT ![p] = 0]
  /\ UNCHANGED <<que, queDtq, queTotal, queHeap, queMem, queHandle, queCalls>>

-----------------------------------------------------------------------------
(* The accounts of a living queue                                          *)

\* A send with a token, or with interrupts masked, which pends on debt.
QueSend(p) ==
  LET e == queHandle[p]
  IN /\ QueGo(p, "idle", "idle") /\ QueCall
     /\ e # 0 /\ que[e].free > 0
     /\ \/ /\ queTok[e] > 0
           /\ queTok' = [queTok EXCEPT ![e] = @ - 1]
           /\ queDtq' = [queDtq EXCEPT ![e] = @ + 1]
           /\ que' = [que EXCEPT ![e].free = @ - 1]
           /\ UNCHANGED queTotal
        \/ /\ que' = [que EXCEPT ![e].free = @ - 1, ![e].pend = @ + 1, ![e].debt = @ + 1]
           /\ queTotal' = queTotal + 1
           /\ UNCHANGED queKern
     /\ UNCHANGED <<queHeap, queLocal, queHandle>>

\* A receive, whose release of the slot repays a debt before it returns a token.
QueRecv(p) ==
  LET e == queHandle[p]
  IN /\ QueGo(p, "idle", "idle")
     /\ e # 0 /\ queDtq[e] > 0
     /\ queDtq' = [queDtq EXCEPT ![e] = @ - 1]
     /\ IF que[e].debt > 0
        THEN /\ que' = [que EXCEPT ![e].free = @ + 1, ![e].debt = @ - 1]
             /\ UNCHANGED queTok
        ELSE /\ que' = [que EXCEPT ![e].free = @ + 1]
             /\ queTok' = [queTok EXCEPT ![e] = @ + 1]
     /\ UNCHANGED <<queTotal, queHeap, queLocal, queHandle, queCalls>>

\* The flush, by any context, of an entry that nobody is deleting: one that comes after
\* the deletion has emptied the data queue would leave an item to the entry's next user.
QueFlush ==
  /\ queTotal > 0
  /\ \E e \in QueEntries :
       /\ que[e].used /\ que[e].pend > 0
       /\ \A p \in QueTasks : queHandle[p] = e => quePc[p] \notin {"polsem", "pend"}
       /\ que' = [que EXCEPT ![e].pend = @ - 1]
       /\ queDtq' = [queDtq EXCEPT ![e] = @ + 1]
  /\ queTotal' = queTotal - 1
  /\ UNCHANGED <<queTok, queHeap, quePc, queLocal, queHandle, queCalls>>

-----------------------------------------------------------------------------
(* esp_shim_queue_delete                                                   *)

\* The data queue is emptied, then the semaphore, ...
QueEmpty(p) ==
  /\ queHandle[p] # 0
  /\ \/ /\ QueGo(p, "idle", "polsem")
        /\ queDtq' = [queDtq EXCEPT ![queHandle[p]] = 0] /\ UNCHANGED queTok
     \/ /\ QueGo(p, "polsem", "pend")
        /\ queTok' = [queTok EXCEPT ![queHandle[p]] = 0] /\ UNCHANGED queDtq
  /\ UNCHANGED <<que, queTotal, queHeap, queLocal, queHandle, queCalls>>

\* ... then, under the lock, the pend ring, ...
QueDropPended(p) ==
  /\ QueGo(p, "pend", "free")
  /\ queTotal' = queTotal - que[queHandle[p]].pend
  /\ que' = [que EXCEPT ![queHandle[p]].pend = 0]
  /\ UNCHANGED <<queKern, queHeap, queLocal, queHandle, queCalls>>

\* Mutant: the entry is given up before its blocks are freed.
QueReleaseClearsFirst(p) ==
  /\ \/ /\ QueGo(p, "free", "clear")
        /\ que' = [que EXCEPT ![queHandle[p]].used = FALSE]
        /\ UNCHANGED <<queHeap, queHandle>>
     \/ /\ QueGo(p, "clear", "idle")
        /\ queHeap' = queHeap \cup que[queHandle[p]].blocks
        /\ que' = [que EXCEPT ![queHandle[p]].blocks = {}]
        /\ queHandle' = [queHandle EXCEPT ![p] = 0]
  /\ UNCHANGED <<queKern, queTotal, queLocal, queCalls>>

\* ... then the blocks are freed and, without the lock, the entry is given up.
QueRelease(p) ==
  /\ \/ /\ QueGo(p, "free", "clear")
        /\ queHeap' = queHeap \cup que[queHandle[p]].blocks
        /\ UNCHANGED <<que, queHandle>>
     \/ /\ QueGo(p, "clear", "idle")
        /\ que' = [que EXCEPT ![queHandle[p]].used = FALSE, ![queHandle[p]].blocks = {}]
        /\ queHandle' = [queHandle EXCEPT ![p] = 0]
        /\ UNCHANGED queHeap
  /\ UNCHANGED <<queKern, queTotal, queLocal, queCalls>>

QueNext ==
  \/ \E p \in QueTasks :
       \/ QueAlloc(p) \/ QueClaim(p) \/ QueGiveBack(p) \/ QueFill(p)
       \/ QueSend(p) \/ QueRecv(p)
       \/ QueEmpty(p) \/ QueDropPended(p) \/ QueRelease(p)
  \/ QueFlush

QueSpec == QueInit /\ [][QueNext]_queVars

-----------------------------------------------------------------------------
(* Properties                                                              *)

\* The tasks that have been given a queue and are not deleting it.
QueLive == {p \in QueTasks : queHandle[p] # 0 /\ quePc[p] = "idle"}

QueBlocksOf(p) ==
  IF queHandle[p] # 0 /\ quePc[p] # "clear" THEN que[queHandle[p]].blocks ELSE queMem[p]

\* A queue starts with a token for each of its slots and with nothing of the queue before
\* it, although data queue and semaphore are reused and the drained data queue is taken
\* unseen ("drained by queue_delete", line 656); its memory is its own, failing creations
\* and deletions leak none, and the total of the pended items counts those there are.
QueReusedClean ==
  /\ \A p \in QueLive :
       LET e == queHandle[p]
       IN /\ que[e].used
          /\ que[e].free + queDtq[e] + que[e].pend = que[e].depth
          /\ queTok[e] + queDtq[e] + que[e].pend = que[e].depth + que[e].debt
          /\ \A q \in QueLive \ {p} : queHandle[q] # e
  /\ \A e \in QueEntries : ~que[e].used => queDtq[e] = 0 /\ queTok[e] = 0
  /\ queTotal = SumFunction([e \in QueEntries |-> que[e].pend])
  /\ \A p, q \in QueTasks : p # q => QueBlocksOf(p) \cap QueBlocksOf(q) = {}
  /\ queHeap = QueBlocks \ UNION {QueBlocksOf(p) : p \in QueTasks}
=============================================================================
