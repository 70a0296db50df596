------------------------------- MODULE ShimHeap -------------------------------
(***************************************************************************)
(* The heap of the shim (esp_shim_malloc to esp_shim_realloc in            *)
(* src/esp/common/wifi/esp_shim_core.c): first fit over a list of blocks   *)
(* in the order of their addresses.  Addresses and sizes of blocks count   *)
(* units of 8 bytes, the alignment and the size of a HEAP_BLOCK; a caller  *)
(* asks for bytes.  heapMem says who wrote each unit last: a header, or    *)
(* the memory its owner asked for.  malloc and free hold the kernel lock   *)
(* throughout; realloc is three calls, and copies between them.            *)
(***************************************************************************)
EXTENDS Integers, FiniteSets, FiniteSetsExt, Functions

CONSTANTS
  HeapTasks,      \* callers, each with at most one allocation
  HEAP_UNITS,     \* units of heap_area
  HeapRequests,   \* bytes asked for
  HeapMaxCalls    \* bound: number of calls

ASSUME HeapAssumption ==
  HEAP_UNITS \in Nat \ {0} /\ HeapRequests \subseteq Nat /\ HeapMaxCalls \in Nat

VARIABLES
  heap,             \* HEAP_BLOCKs: size, used and next, by address
  heapFreeTotal,    \* heap_free_total
  heapMem,          \* the last writer of each unit
  heapHeld,         \* what each caller holds: pointer (0: none) and units asked for
  heapPc,           \* where each caller is in realloc
  heapNew,          \* np of realloc
  heapCalls         \* history: number of calls

heapVars == <<heap, heapFreeTotal, heapMem, heapHeld, heapPc, heapNew, heapCalls>>

HeapUnits == 0 .. HEAP_UNITS - 1
HeapNull  == HEAP_UNITS            \* a null next
HB_HDR    == 1                     \* sizeof(HEAP_BLOCK)
HB_MIN    == 2                     \* a rest smaller than this is not split off

HeapNothing == [ptr |-> 0, units |-> 0]

HeapTypeOK ==
  /\ DOMAIN heap \subseteq HeapUnits
  /\ \A a \in DOMAIN heap :
       heap[a] \in [size : 1..HEAP_UNITS, used : BOOLEAN, next : 1..HEAP_UNITS]
  /\ heapFreeTotal \in 0..HEAP_UNITS
  /\ heapMem \in [HeapUnits -> HeapTasks \cup {"header", "none"}]
  /\ heapHeld \in [HeapTasks -> [ptr : HeapUnits, units : 0..HEAP_UNITS]]
  /\ heapPc \in [HeapTasks -> {"idle", "memcpy", "free"}]
  /\ heapNew \in [HeapTasks -> [ptr : HeapUnits, units : 0..HEAP_UNITS]]
  /\ heapCalls \in 0..HeapMaxCalls

-----------------------------------------------------------------------------
(* Blocks                                                                  *)

\* The payload of a request in units: 0 counts as 1 byte, and sizes are rounded up.
HB_ALIGN(bytes) == (IF bytes = 0 THEN 1 ELSE bytes) + 7

HeapNeed(bytes) == HB_ALIGN(bytes) \div 8 + HB_HDR

HeapPayload(h) == h.ptr .. h.ptr + h.units - 1

HeapWrite(mem, units, w) == [u \in HeapUnits |-> IF u \in units THEN w ELSE mem[u]]

HeapSizes == [a \in DOMAIN heap |-> heap[a].size]

\* The blocks on the list from heap_top.
HeapListed ==
  LET from[a \in 0..HEAP_UNITS] ==
        IF a \notin DOMAIN heap THEN {}
        ELSE {a} \cup (IF heap[a].next > a THEN from[heap[a].next] ELSE {})
  IN from[0]

HeapFits(need) == {a \in HeapListed : ~heap[a].used /\ heap[a].size >= need}

\* Mutant: the rest keeps the size of the whole block.
HeapTakeKeepsSize(a, need) ==
  LET b == heap[a]
  IN IF b.size >= need + HB_HDR + HB_MIN
     THEN [x \in DOMAIN heap \cup {a + need} |->
             CASE x = a        -> [size |-> need, used |-> TRUE, next |-> a + need]
               [] x = a + need -> [size |-> b.size, used |-> FALSE, next |-> b.next]
               [] OTHER        -> heap[x]]
     ELSE [heap EXCEPT ![a].used = TRUE]

\* Block a gives need units and the rest becomes a block, unless it is too small for one.
HeapTake(a, need) ==
  LET b == heap[a]
  IN IF b.size >= need + HB_HDR + HB_MIN
     THEN [x \in DOMAIN heap \cup {a + need} |->
             CASE x = a        -> [size |-> need, used |-> TRUE, next |-> a + need]
               [] x = a + need -> [size |-> b.size - need, used |-> FALSE, next |-> b.next]
               [] OTHER        -> heap[x]]
     ELSE [heap EXCEPT ![a].used = TRUE]

\* The freed block a absorbs the free blocks that follow it; it is not absorbed itself
\* by a free block in front of it.
HeapAbsorbed(a) ==
  LET after[x \in 1..HEAP_UNITS] ==
        IF x \notin DOMAIN heap \/ heap[x].used THEN {}
        ELSE {x} \cup (IF heap[x].next = x + heap[x].size THEN after[heap[x].next] ELSE {})
  IN IF heap[a].next = a + heap[a].size THEN after[heap[a].next] ELSE {}

\* Mutant: the blocks absorbed stay on the list.
HeapReleaseKeepsNext(a) ==
  [x \in DOMAIN heap |->
     IF x = a THEN [size |-> SumFunctionOnSet(HeapSizes, {a} \cup HeapAbsorbed(a)),
                    used |-> FALSE, next |-> heap[a].next]
     ELSE heap[x]]

HeapRelease(a) ==
  LET gone == HeapAbsorbed(a)
  IN [x \in DOMAIN heap \ gone |->
        IF x = a THEN [size |-> SumFunctionOnSet(HeapSizes, {a} \cup gone),
                       used |-> FALSE, next |-> heap[Max({a} \cup gone)].next]
        ELSE heap[x]]

-----------------------------------------------------------------------------
(* Calls                                                                   *)

\* esp_shim_heap_initialize.
HeapInit ==
  /\ heap = [a \in {0} |-> [size |-> HEAP_UNITS, used |-> FALSE, next |-> HeapNull]]
  /\ heapFreeTotal = HEAP_UNITS
  /\ heapMem = [u \in HeapUnits |-> IF u = 0 THEN "header" ELSE "none"]
  /\ heapHeld = [t \in HeapTasks |-> HeapNothing]
  /\ heapPc = [t \in HeapTasks |-> "idle"]
  /\ heapNew = [t \in HeapTasks |-> HeapNothing]
  /\ heapCalls = 0

HeapCall == heapCalls < HeapMaxCalls /\ heapCalls' = heapCalls + 1

\* The allocation of bytes by esp_shim_malloc, at the first block that fits.
HeapMalloc(bytes, got) ==
  LET need == HeapNeed(bytes)
      a    == Min(HeapFits(need))
  IN IF HeapFits(need) = {}
     THEN got = HeapNothing /\ UNCHANGED <<heap, heapFreeTotal>>
     ELSE /\ got = [ptr |-> a + HB_HDR, units |-> need - HB_HDR]
          /\ heap' = HeapTake(a, need)
          /\ heapFreeTotal' = heapFreeTotal - heap'[a].size

HeapHeaders(mem) == HeapWrite(mem, DOMAIN heap' \ DOMAIN heap, "header")

\* A caller without memory asks for some (malloc, calloc, or realloc of NULL) and
\* fills what it asked for.
HeapAlloc(t) ==
  /\ HeapCall /\ heapPc[t] = "idle" /\ heapHeld[t] = HeapNothing
  /\ \E bytes \in HeapRequests :
       \E got \in [ptr : HeapUnits, units : {0, HeapNeed(bytes) - HB_HDR}] :
         /\ HeapMalloc(bytes, got)
         /\ heapHeld' = [heapHeld EXCEPT ![t] = got]
         /\ heapMem' = HeapWrite(HeapHeaders(heapMem), HeapPayload(got), t)
  /\ UNCHANGED <<heapPc, heapNew>>

\* Mutant: the free size is counted after the blocks that follow are absorbed.
HeapFreeBlockMerged(ptr) ==
  /\ heap' = HeapRelease(ptr - HB_HDR)
  /\ heapFreeTotal' = heapFreeTotal + heap'[ptr - HB_HDR].size

\* The locked part of esp_shim_free.
HeapFreeBlock(ptr) ==
  /\ heap' = HeapRelease(ptr - HB_HDR)
  /\ heapFreeTotal' = heapFreeTotal + heap[ptr - HB_HDR].size

\* A caller frees what it holds (free, or realloc to 0 bytes).
HeapFree(t) ==
  /\ HeapCall /\ heapPc[t] = "idle" /\ heapHeld[t] # HeapNothing
  /\ HeapFreeBlock(heapHeld[t].ptr)
  /\ heapHeld' = [heapHeld EXCEPT ![t] = HeapNothing]
  /\ UNCHANGED <<heapMem, heapPc, heapNew>>

\* esp_shim_realloc keeps a block that is large enough, and else asks for another; when
\* there is none it fails, and the caller still holds the old.
HeapRealloc(t) ==
  LET old  == heapHeld[t]
      room == heap[old.ptr - HB_HDR].size - HB_HDR
  IN /\ HeapCall /\ heapPc[t] = "idle" /\ old # HeapNothing
     /\ \E bytes \in HeapRequests \ {0} :
          \/ /\ 8 * room >= bytes
             /\ heapHeld' = [heapHeld EXCEPT ![t].units = HeapNeed(bytes) - HB_HDR]
             /\ heapMem' = HeapWrite(heapMem, HeapPayload(heapHeld'[t]), t)
             /\ UNCHANGED <<heap, heapFreeTotal, heapPc, heapNew>>
          \/ /\ 8 * room < bytes
             /\ \E got \in [ptr : HeapUnits, units : {0, HeapNeed(bytes) - HB_HDR}] :
                  /\ HeapMalloc(bytes, got)
                  /\ heapNew' = [heapNew EXCEPT ![t] = got]
                  /\ heapPc' = [heapPc EXCEPT ![t] = IF got = HeapNothing THEN "idle"
                                                     ELSE "memcpy"]
             /\ heapMem' = HeapHeaders(heapMem)
             /\ UNCHANGED heapHeld

\* memcpy of everything the old block can hold, without the lock.
HeapMemcpy(t) ==
  LET from == heapHeld[t].ptr
      np   == heapNew[t].ptr
      old  == heap[from - HB_HDR].size - HB_HDR
  IN /\ heapPc[t] = "memcpy"
     /\ heapMem' = [u \in HeapUnits |-> IF u \in np .. np + old - 1
                                        THEN heapMem[from + u - np] ELSE heapMem[u]]
     /\ heapPc' = [heapPc EXCEPT ![t] = "free"]
     /\ UNCHANGED <<heap, heapFreeTotal, heapHeld, heapNew, heapCalls>>

\* realloc frees the old block and returns; the caller fills what it has gained.
HeapReallocDone(t) ==
  LET gained == heapNew[t].ptr + heapHeld[t].units .. heapNew[t].ptr + heapNew[t].units - 1
  IN /\ heapPc[t] = "free"
     /\ HeapFreeBlock(heapHeld[t].ptr)
     /\ heapMem' = HeapWrite(heapMem, gained, t)
     /\ heapHeld' = [heapHeld EXCEPT ![t] = heapNew[t]]
     /\ heapNew' = [heapNew EXCEPT ![t] = HeapNothing]
     /\ heapPc' = [heapPc EXCEPT ![t] = "idle"]
     /\ UNCHANGED heapCalls

HeapNext ==
  \E t \in HeapTasks : \/ HeapAlloc(t) \/ HeapFree(t) \/ HeapRealloc(t)
                       \/ HeapMemcpy(t) \/ HeapReallocDone(t)

HeapSpec == HeapInit /\ [][HeapNext]_heapVars

-----------------------------------------------------------------------------
(* Properties                                                              *)

HeapPointers == {heapHeld[t].ptr : t \in HeapTasks} \cup {heapNew[t].ptr : t \in HeapTasks}

\* The list runs through heap_area without gap or overlap, the blocks in use are the ones
\* callers hold (none leaks), and heap_free_total is the size of the others.
HeapTiled ==
  /\ DOMAIN heap = HeapListed
  /\ \A a \in DOMAIN heap : heap[a].next = a + heap[a].size
  /\ {a \in DOMAIN heap : heap[a].used} = {p - HB_HDR : p \in HeapPointers \ {0}}
  /\ heapFreeTotal = SumFunctionOnSet(HeapSizes, {a \in DOMAIN heap : ~heap[a].used})

\* What a caller wrote into its memory is still there, whatever the others allocate, free
\* and move, and through its own realloc; and no caller writes over a header.
HeapKept ==
  /\ \A t \in HeapTasks : \A u \in HeapPayload(heapHeld[t]) : heapMem[u] = t
  /\ \A a \in DOMAIN heap : heapMem[a] = "header"

HeapSound == HeapTiled /\ HeapKept
=============================================================================
