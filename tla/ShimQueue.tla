------------------------------ MODULE ShimQueue ------------------------------
(***************************************************************************)
(* One queue of the Wi-Fi/BT OS-adapter shim                               *)
(* (src/esp/common/wifi/esp_shim_core.c, SHIM_QUE) together with the       *)
(* nesting critical section of src/esp/c3/wifi/esp_shim.c.                 *)
(*                                                                         *)
(* An item lives in a slot of a fixed pool.  A kernel data queue carries   *)
(* slot numbers, a counting semaphore holds one token per free slot, and   *)
(* a stack lists the free slots.  A sender that may not call the kernel    *)
(* (interrupts masked) or may not take a token (interrupt handler) takes a *)
(* slot without a token and records the debt; the next release of a slot   *)
(* repays it by not returning a token.  With interrupts masked not even    *)
(* the data queue can be used: the slot goes to a pend ring, which is      *)
(* flushed to the data queue later.                                        *)
(*                                                                         *)
(* The chip has one core.  A region between SHIM_LOCK and SHIM_UNLOCK, or  *)
(* one kernel call, is one action; control can change between any two of   *)
(* them.  While interrupts are masked only the context that masked them    *)
(* runs, a task runs only when no handler does, and a task runs only when  *)
(* every task of higher priority (smaller number) is suspended.            *)
(***************************************************************************)
EXTENDS Integers, Sequences, FiniteSets

CONSTANTS
  Tasks,      \* the tasks that use the queue
  Isrs,       \* the interrupt handlers that use it
  Prio,       \* [Tasks -> Int], smaller is more urgent
  Ops,        \* [Procs -> SUBSET OpNames]: what each context calls
  Tmos,       \* the kinds of timeout callers pass
  Depth,      \* number of slots: min(len, ESP_SHIM_DTQ_CNT)
  DtqCnt,     \* capacity of the kernel data queue, ESP_SHIM_DTQ_CNT
  MaxSend,    \* bound: number of send calls
  MaxNest,    \* bound: nesting of the critical section
  NoProc

Procs   == Tasks \cup Isrs
Slots   == 1..Depth
NoSlot  == 0
Msgs    == 1..MaxSend
NoMsg   == 0
OpNames == {"send", "send_from_isr", "recv", "reset", "critical", "int_disable"}
TmoKinds == {"poll", "timed", "forever"}

ASSUME DepthAssumption == /\ Depth \in Nat \ {0}
                          /\ DtqCnt \in Nat
                          /\ Depth <= DtqCnt
ASSUME ProcsAssumption == /\ IsFiniteSet(Procs)
                          /\ Tasks \cap Isrs = {}
                          /\ NoProc \notin Procs
ASSUME BoundsAssumption == MaxSend \in Nat /\ MaxNest \in Nat
ASSUME CallsAssumption  == /\ Prio \in [Tasks -> Int]
                           /\ Ops \in [Procs -> SUBSET OpNames]
                           /\ Tmos \subseteq TmoKinds

VARIABLES
  tok,        \* count of the free-slot semaphore (semid)
  free,       \* free_stk[0 .. free_top-1]; the last element is the top
  dtq,        \* slot numbers in the kernel data queue
  pend,       \* pend_ring from pend_rd to pend_wr
  debt,       \* sem_debt
  pool,       \* the item stored in each slot
  pc,         \* where each context is in its call
  hand,       \* the slot a context holds between two steps
  msg,        \* the item a sender passes
  wait,       \* the timeout a caller passed
  fret,       \* where flush_pending returns to
  nret,       \* where slot_free_notify returns to
  owner,      \* the context that runs with mstatus.MIE = 0, or NoProc
  nest,       \* esp_shim_crit_nest
  saved,      \* esp_shim_crit_saved # 0
  idis,       \* inside esp_shim_int_disable .. esp_shim_int_restore
  sent,       \* history: number of send calls
  fate,       \* history: what became of each item
  lost        \* history: tokens a failing sig_sem did not return

qvars    == <<tok, free, dtq, pend, debt, pool>>
pvars    == <<pc, hand, msg, wait, fret, nret>>
critvars == <<owner, nest, saved, idis>>
hvars    == <<sent, fate, lost>>
vars     == <<qvars, pvars, critvars, hvars>>

Labels == {"idle", "fpop", "fpsnd", "twai", "wsem", "alloc", "giveback", "tsnd",
           "pushp", "polsem", "ipsnd", "trcv", "wdtq", "copyout", "prcv",
           "notify", "sig"}
Fates  == {"unsent", "calling", "sent", "refused", "delivered", "dropped", "reset"}

TypeOK ==
  /\ tok \in Nat /\ debt \in Nat /\ lost \in Nat
  /\ free \in Seq(Slots) /\ dtq \in Seq(Slots) /\ pend \in Seq(Slots)
  /\ pool \in [Slots -> Msgs \cup {NoMsg}]
  /\ pc \in [Procs -> Labels]
  /\ hand \in [Procs -> Slots \cup {NoSlot}]
  /\ msg \in [Procs -> Msgs \cup {NoMsg}]
  /\ wait \in [Procs -> TmoKinds]
  /\ fret \in [Procs -> {"idle", "twai", "trcv", "prcv"}]
  /\ nret \in [Procs -> {"idle", "fpop", "prcv"}]
  /\ owner \in Procs \cup {NoProc}
  /\ nest \in Nat /\ saved \in BOOLEAN /\ idis \in BOOLEAN
  /\ sent \in 0..MaxSend
  /\ fate \in [Msgs -> Fates]

Init ==
  /\ tok = Depth
  /\ free = [i \in Slots |-> i]
  /\ dtq = <<>> /\ pend = <<>> /\ debt = 0
  /\ pool = [s \in Slots |-> NoMsg]
  /\ pc = [p \in Procs |-> "idle"]
  /\ hand = [p \in Procs |-> NoSlot]
  /\ msg = [p \in Procs |-> NoMsg]
  /\ wait = [p \in Procs |-> "poll"]
  /\ fret = [p \in Procs |-> "idle"]
  /\ nret = [p \in Procs |-> "idle"]
  /\ owner = NoProc /\ nest = 0 /\ saved = FALSE /\ idis = FALSE
  /\ sent = 0
  /\ fate = [m \in Msgs |-> "unsent"]
  /\ lost = 0

-----------------------------------------------------------------------------
(* Scheduling and the context rules of the kernel.                         *)

Suspended(q) == pc[q] \in {"idle", "wsem", "wdtq"}

CanRun(p) ==
  /\ owner \in {p, NoProc}
  /\ p \in Tasks =>
       /\ \A i \in Isrs : pc[i] = "idle"
       /\ \A q \in Tasks : Prio[q] < Prio[p] => Suspended(q)

At(p, l) == pc[p] = l /\ CanRun(p)
Go(p, l) == pc' = [pc EXCEPT ![p] = l]

\* mstatus.MIE = 0: every service call returns E_CTX (sense_lock()).
Masked(p) == owner = p
\* Task-context-only calls (twai_sem, pol_sem, trcv_dtq, prcv_dtq) return E_CTX.
TaskCallRefused(p) == Masked(p) \/ p \in Isrs

SemWaiters == {w \in Tasks : pc[w] = "wsem"}
DtqWaiters == {w \in Tasks : pc[w] = "wdtq"}

\* sig_sem(q->semid) in context p, which continues at l.  A waiting task is
\* handed the token; with MIE = 0 the call fails and its result is ignored.
SigSem(p, l) ==
  \/ /\ Masked(p)
     /\ lost' = lost + 1
     /\ Go(p, l)
     /\ UNCHANGED tok
  \/ /\ ~Masked(p)
     /\ \E w \in SemWaiters : pc' = [pc EXCEPT ![w] = "alloc", ![p] = l]
     /\ UNCHANGED <<tok, lost>>
  \/ /\ ~Masked(p) /\ SemWaiters = {}
     /\ tok' = tok + 1
     /\ Go(p, l)
     /\ UNCHANGED lost

\* psnd_dtq(q->dtqid, slot) succeeding in context p, which continues at l.  A
\* waiting receiver is handed the slot number.  The error branches for a full
\* data queue are left out: RoomForSlot shows that they are unreachable.
PutDtq(p, l) ==
  \/ /\ \E w \in DtqWaiters :
          /\ pc' = [pc EXCEPT ![w] = "copyout", ![p] = l]
          /\ hand' = [hand EXCEPT ![w] = hand[p], ![p] = NoSlot]
     /\ UNCHANGED dtq
  \/ /\ DtqWaiters = {} /\ Len(dtq) < DtqCnt
     /\ dtq' = Append(dtq, hand[p])
     /\ hand' = [hand EXCEPT ![p] = NoSlot]
     /\ Go(p, l)

SetFate(m, f) == fate' = [fate EXCEPT ![m] = f]

\* The call fails: the slot in hand goes back through slot_free_notify, which
\* returns to l.
FreeThen(p, l) ==
  /\ Go(p, "notify")
  /\ nret' = [nret EXCEPT ![p] = l]

\* Mutant: the slot is read from the wrong end of the stack.
TopWrongEnd == free[1]

Top   == free[Len(free)]
Pop   == SubSeq(free, 1, Len(free) - 1)

-----------------------------------------------------------------------------
(* esp_shim_queue_flush_pending                                            *)

FlushPop(p) ==
  /\ At(p, "fpop")
  /\ pend # <<>>
  /\ hand' = [hand EXCEPT ![p] = Head(pend)]
  /\ pend' = Tail(pend)
  /\ Go(p, "fpsnd")
  /\ UNCHANGED <<tok, free, dtq, debt, pool, msg, wait, fret, nret, critvars, hvars>>

\* The data queue takes the item.
FlushPost(p) ==
  /\ At(p, "fpsnd")
  /\ ~Masked(p)
  /\ PutDtq(p, "fpop")
  /\ UNCHANGED <<tok, free, pend, debt, pool, msg, wait, fret, nret, critvars, hvars>>

\* psnd_dtq fails with E_CTX when MIE = 0: the slot is freed.
FlushFail(p) ==
  /\ At(p, "fpsnd")
  /\ Masked(p)
  /\ SetFate(pool[hand[p]], "dropped")
  /\ FreeThen(p, "fpop")
  /\ UNCHANGED <<qvars, hand, msg, wait, fret, critvars, sent, lost>>

FlushDone(p) ==
  /\ At(p, "fpop")
  /\ pend = <<>>
  /\ Go(p, fret[p])
  /\ fret' = [fret EXCEPT ![p] = "idle"]
  /\ UNCHANGED <<qvars, hand, msg, wait, nret, critvars, hvars>>

-----------------------------------------------------------------------------
(* shim_que_slot_free_notify: the slot goes back under the lock; the token *)
(* is returned after it, unless a debt is repaid.                          *)

\* Mutants: the debt is repaid without looking whether there is one; a repaying
\* release returns a token all the same; an ordinary release returns none.
FreeSlotBlindRepay(p) ==
  /\ At(p, "notify")
  /\ free' = Append(free, hand[p])
  /\ hand' = [hand EXCEPT ![p] = NoSlot]
  /\ debt' = debt - 1
  /\ Go(p, nret[p])
  /\ nret' = [nret EXCEPT ![p] = "idle"]
  /\ UNCHANGED <<tok, dtq, pend, pool, msg, wait, fret, critvars, hvars>>

FreeSlotRepaysTwice(p) ==
  /\ At(p, "notify")
  /\ free' = Append(free, hand[p])
  /\ hand' = [hand EXCEPT ![p] = NoSlot]
  /\ debt' = IF debt > 0 THEN debt - 1 ELSE debt
  /\ Go(p, "sig")
  /\ UNCHANGED <<tok, dtq, pend, pool, msg, wait, fret, nret, critvars, hvars>>

FreeSlotSilent(p) ==
  /\ At(p, "notify")
  /\ free' = Append(free, hand[p])
  /\ hand' = [hand EXCEPT ![p] = NoSlot]
  /\ debt' = IF debt > 0 THEN debt - 1 ELSE debt
  /\ Go(p, nret[p])
  /\ nret' = [nret EXCEPT ![p] = "idle"]
  /\ UNCHANGED <<tok, dtq, pend, pool, msg, wait, fret, critvars, hvars>>

FreeSlot(p) ==
  /\ At(p, "notify")
  /\ free' = Append(free, hand[p])
  /\ hand' = [hand EXCEPT ![p] = NoSlot]
  /\ \/ /\ debt > 0
        /\ debt' = debt - 1
        /\ Go(p, nret[p])
        /\ nret' = [nret EXCEPT ![p] = "idle"]
     \/ /\ debt = 0
        /\ Go(p, "sig")
        /\ UNCHANGED <<debt, nret>>
  /\ UNCHANGED <<tok, dtq, pend, pool, msg, wait, fret, critvars, hvars>>

ReturnToken(p) ==
  /\ At(p, "sig")
  /\ SigSem(p, nret[p])
  /\ nret' = [nret EXCEPT ![p] = "idle"]
  /\ UNCHANGED <<free, dtq, pend, debt, pool, hand, msg, wait, fret, critvars, sent, fate>>

-----------------------------------------------------------------------------
(* esp_shim_queue_send                                                     *)

\* Every send names a fresh item.
NewItem(p) ==
  /\ sent < MaxSend
  /\ sent' = sent + 1
  /\ msg' = [msg EXCEPT ![p] = sent + 1]
  /\ SetFate(sent + 1, "calling")

Refuse(p) ==
  /\ SetFate(msg[p], "refused")
  /\ msg' = [msg EXCEPT ![p] = NoMsg]

Accept(p) ==
  /\ SetFate(msg[p], "sent")
  /\ msg' = [msg EXCEPT ![p] = NoMsg]

\* Mutant: the opportunistic flush is left out.
SendCallNoFlush(p) ==
  /\ At(p, "idle") /\ "send" \in Ops[p]
  /\ NewItem(p)
  /\ \E t \in Tmos : wait' = [wait EXCEPT ![p] = t]
  /\ Go(p, "twai")
  /\ UNCHANGED <<qvars, hand, fret, nret, critvars, lost>>

SendCall(p) ==
  /\ At(p, "idle") /\ "send" \in Ops[p]
  /\ NewItem(p)
  /\ \E t \in Tmos : wait' = [wait EXCEPT ![p] = t]
  /\ fret' = [fret EXCEPT ![p] = "twai"]
  /\ Go(p, "fpop")
  /\ UNCHANGED <<qvars, hand, nret, critvars, lost>>

\* twai_sem succeeds, or the caller starts to wait.
TakeToken(p) ==
  /\ At(p, "twai") /\ ~TaskCallRefused(p)
  /\ \/ /\ tok > 0
        /\ tok' = tok - 1
        /\ Go(p, "alloc")
     \/ /\ tok = 0 /\ wait[p] # "poll"
        /\ Go(p, "wsem")
        /\ UNCHANGED tok
  /\ UNCHANGED <<free, dtq, pend, debt, pool, hand, msg, wait, fret, nret, critvars, hvars>>

\* twai_sem returns E_TMOUT.
SendTimeout(p) ==
  /\ \/ At(p, "twai") /\ ~TaskCallRefused(p) /\ tok = 0 /\ wait[p] = "poll"
     \/ At(p, "wsem") /\ wait[p] = "timed"
  /\ Refuse(p)
  /\ Go(p, "idle")
  /\ UNCHANGED <<qvars, hand, wait, fret, nret, critvars, sent, lost>>

\* shim_que_slot_alloc_debt_copy under SHIM_LOCK; the caller goes on at l.
AllocDebt(p, l) ==
  \/ /\ free = <<>>
     /\ Refuse(p)
     /\ Go(p, "idle")
     /\ UNCHANGED <<free, debt, pool, hand>>
  \/ /\ free # <<>>
     /\ hand' = [hand EXCEPT ![p] = Top]
     /\ free' = Pop
     /\ debt' = debt + 1
     /\ pool' = [pool EXCEPT ![Top] = msg[p]]
     /\ Go(p, l)
     /\ UNCHANGED <<msg, fate>>

\* twai_sem and pol_sem both return E_CTX: shim_que_pend_push.
SendNoToken(p) ==
  /\ At(p, "twai") /\ TaskCallRefused(p)
  /\ AllocDebt(p, "pushp")
  /\ UNCHANGED <<tok, dtq, pend, wait, fret, nret, critvars, sent, lost>>

\* shim_que_pend_push_slot
PendPush(p) ==
  /\ \/ At(p, "pushp")
     \/ At(p, "ipsnd") /\ Masked(p)
  /\ pend' = Append(pend, hand[p])
  /\ hand' = [hand EXCEPT ![p] = NoSlot]
  /\ Accept(p)
  /\ Go(p, "idle")
  /\ UNCHANGED <<tok, free, dtq, debt, pool, wait, fret, nret, critvars, sent, lost>>

\* Mutant: free_top is not decremented.
AllocSlotNoPop(p) ==
  /\ At(p, "alloc")
  /\ free # <<>>
  /\ hand' = [hand EXCEPT ![p] = Top]
  /\ Go(p, "tsnd")
  /\ UNCHANGED <<qvars, msg, wait, fret, nret, critvars, hvars>>

\* shim_que_slot_alloc by a sender that holds a token.
AllocSlot(p) ==
  /\ At(p, "alloc")
  /\ \/ /\ free = <<>>
        /\ Go(p, "giveback")
        /\ UNCHANGED <<free, hand>>
     \/ /\ free # <<>>
        /\ hand' = [hand EXCEPT ![p] = Top]
        /\ free' = Pop
        /\ Go(p, "tsnd")
  /\ UNCHANGED <<tok, dtq, pend, debt, pool, msg, wait, fret, nret, critvars, hvars>>

\* No slot for the token (shim_que_debt_conflict): it is returned, the send fails.
GiveBack(p) ==
  /\ At(p, "giveback")
  /\ SigSem(p, "idle")
  /\ Refuse(p)
  /\ UNCHANGED <<free, dtq, pend, debt, pool, hand, wait, fret, nret, critvars, sent>>

\* memcpy into the slot, then tsnd_dtq (psnd_dtq from send_from_isr).
CopyAndPost(p) ==
  /\ At(p, "tsnd")
  /\ pool' = [pool EXCEPT ![hand[p]] = msg[p]]
  /\ PutDtq(p, "idle")
  /\ Accept(p)
  /\ UNCHANGED <<tok, free, pend, debt, wait, fret, nret, critvars, sent, lost>>

-----------------------------------------------------------------------------
(* esp_shim_queue_send_from_isr: never waits, and is also called by tasks. *)

IsrSendCall(p) ==
  /\ At(p, "idle") /\ "send_from_isr" \in Ops[p]
  /\ NewItem(p)
  /\ wait' = [wait EXCEPT ![p] = "poll"]
  /\ Go(p, "polsem")
  /\ UNCHANGED <<qvars, hand, fret, nret, critvars, lost>>

PolToken(p) ==
  /\ At(p, "polsem") /\ ~TaskCallRefused(p)
  /\ \/ /\ tok > 0
        /\ tok' = tok - 1
        /\ Go(p, "alloc")
        /\ UNCHANGED <<msg, fate>>
     \/ /\ tok = 0
        /\ Refuse(p)
        /\ Go(p, "idle")
        /\ UNCHANGED tok
  /\ UNCHANGED <<free, dtq, pend, debt, pool, hand, wait, fret, nret, critvars, sent, lost>>

IsrAlloc(p) ==
  /\ At(p, "polsem") /\ TaskCallRefused(p)
  /\ AllocDebt(p, "ipsnd")
  /\ UNCHANGED <<tok, dtq, pend, wait, fret, nret, critvars, sent, lost>>

IsrPost(p) ==
  /\ At(p, "ipsnd") /\ ~Masked(p)
  /\ PutDtq(p, "idle")
  /\ Accept(p)
  /\ UNCHANGED <<tok, free, pend, debt, pool, wait, fret, nret, critvars, sent, lost>>

-----------------------------------------------------------------------------
(* esp_shim_queue_recv and esp_shim_queue_reset                            *)

RecvCall(p) ==
  /\ At(p, "idle") /\ "recv" \in Ops[p]
  /\ \E t \in Tmos : wait' = [wait EXCEPT ![p] = t]
  /\ fret' = [fret EXCEPT ![p] = "trcv"]
  /\ Go(p, "fpop")
  /\ UNCHANGED <<qvars, hand, msg, nret, critvars, hvars>>

\* Mutant: the slot number stays in the data queue.
RecvTakeKeeps(p) ==
  /\ At(p, "trcv") /\ ~TaskCallRefused(p)
  /\ dtq # <<>>
  /\ hand' = [hand EXCEPT ![p] = Head(dtq)]
  /\ Go(p, "copyout")
  /\ UNCHANGED <<qvars, msg, wait, fret, nret, critvars, hvars>>

\* trcv_dtq hands over the oldest slot number, or the caller starts to wait.
RecvTake(p) ==
  /\ At(p, "trcv") /\ ~TaskCallRefused(p)
  /\ \/ /\ dtq # <<>>
        /\ hand' = [hand EXCEPT ![p] = Head(dtq)]
        /\ dtq' = Tail(dtq)
        /\ Go(p, "copyout")
     \/ /\ dtq = <<>> /\ wait[p] # "poll"
        /\ Go(p, "wdtq")
        /\ UNCHANGED <<hand, dtq>>
  /\ UNCHANGED <<tok, free, pend, debt, pool, msg, wait, fret, nret, critvars, hvars>>

\* Nothing is received: E_TMOUT, or E_CTX from trcv_dtq and prcv_dtq.
RecvFail(p) ==
  /\ \/ At(p, "trcv") /\ TaskCallRefused(p)
     \/ At(p, "trcv") /\ dtq = <<>> /\ wait[p] = "poll"
     \/ At(p, "wdtq") /\ wait[p] = "timed"
  /\ Go(p, "idle")
  /\ UNCHANGED <<qvars, hand, msg, wait, fret, nret, critvars, hvars>>

\* memcpy out of the slot; the slot is then released.
CopyOut(p) ==
  /\ At(p, "copyout")
  /\ SetFate(pool[hand[p]], "delivered")
  /\ FreeThen(p, "idle")
  /\ UNCHANGED <<qvars, hand, msg, wait, fret, critvars, sent, lost>>

ResetCall(p) ==
  /\ At(p, "idle") /\ "reset" \in Ops[p]
  /\ fret' = [fret EXCEPT ![p] = "prcv"]
  /\ Go(p, "fpop")
  /\ UNCHANGED <<qvars, hand, msg, wait, nret, critvars, hvars>>

ResetTake(p) ==
  /\ At(p, "prcv") /\ ~TaskCallRefused(p)
  /\ dtq # <<>>
  /\ hand' = [hand EXCEPT ![p] = Head(dtq)]
  /\ dtq' = Tail(dtq)
  /\ SetFate(pool[Head(dtq)], "reset")
  /\ FreeThen(p, "prcv")
  /\ UNCHANGED <<tok, free, pend, debt, pool, msg, wait, fret, critvars, sent, lost>>

ResetDone(p) ==
  /\ At(p, "prcv")
  /\ dtq = <<>> \/ TaskCallRefused(p)
  /\ Go(p, "idle")
  /\ UNCHANGED <<qvars, hand, msg, wait, fret, nret, critvars, hvars>>

-----------------------------------------------------------------------------
(* Critical sections.  A context enters and leaves them between its calls  *)
(* and nests them; esp_shim_int_disable is only ever the outermost of them *)
(* here, inside another section it changes nothing.                        *)

EnterCritical(p) ==
  /\ At(p, "idle") /\ "critical" \in Ops[p]
  /\ nest < MaxNest
  /\ saved' = IF nest = 0 THEN ~Masked(p) ELSE saved
  /\ nest' = nest + 1
  /\ owner' = p
  /\ UNCHANGED <<qvars, pvars, idis, hvars>>

\* Mutant: the outermost exit does not flush.
ExitCriticalNoFlush(p) ==
  /\ At(p, "idle") /\ Masked(p)
  /\ nest > 0
  /\ nest' = nest - 1
  /\ owner' = IF nest = 1 /\ saved THEN NoProc ELSE owner
  /\ UNCHANGED <<qvars, pvars, saved, idis, hvars>>

\* The outermost exit that saved MIE = 1 restores it and flushes.
ExitCritical(p) ==
  /\ At(p, "idle") /\ Masked(p)
  /\ nest > 0
  /\ nest' = nest - 1
  /\ \/ /\ nest = 1 /\ saved
        /\ owner' = NoProc
        /\ Go(p, "fpop")
     \/ /\ nest > 1 \/ ~saved
        /\ UNCHANGED <<owner, pc>>
  /\ UNCHANGED <<qvars, hand, msg, wait, fret, nret, saved, idis, hvars>>

IntDisable(p) ==
  /\ At(p, "idle") /\ "int_disable" \in Ops[p]
  /\ owner = NoProc
  /\ owner' = p /\ idis' = TRUE
  /\ UNCHANGED <<qvars, pvars, nest, saved, hvars>>

IntRestore(p) ==
  /\ At(p, "idle") /\ Masked(p)
  /\ idis /\ nest = 0
  /\ owner' = NoProc /\ idis' = FALSE
  /\ UNCHANGED <<qvars, pvars, nest, saved, hvars>>

-----------------------------------------------------------------------------
\* The steps a context takes inside a call, whatever it calls next.
Work(p) ==
  \/ FlushPop(p) \/ FlushPost(p) \/ FlushFail(p) \/ FlushDone(p)
  \/ FreeSlot(p) \/ ReturnToken(p)
  \/ TakeToken(p) \/ SendTimeout(p) \/ SendNoToken(p) \/ PendPush(p)
  \/ AllocSlot(p) \/ GiveBack(p) \/ CopyAndPost(p)
  \/ PolToken(p) \/ IsrAlloc(p) \/ IsrPost(p)
  \/ RecvTake(p) \/ RecvFail(p) \/ CopyOut(p)
  \/ ResetTake(p) \/ ResetDone(p)

Call(p) ==
  \/ SendCall(p) \/ IsrSendCall(p) \/ RecvCall(p) \/ ResetCall(p)
  \/ EnterCritical(p) \/ IntDisable(p)

Leave(p) == ExitCritical(p) \/ IntRestore(p)

Next == \E p \in Procs : Work(p) \/ Call(p) \/ Leave(p)

Spec == Init /\ [][Next]_vars

\* The kernel runs the most urgent ready task, and code inside a call or a
\* critical section does not stop.  A receiver task is a loop: between two
\* receives it is ready, so it receives again although others mask interrupts.
Fairness ==
  \A p \in Procs : /\ WF_vars(Work(p))
                   /\ WF_vars(Leave(p))
                   /\ SF_vars(RecvCall(p))

FairSpec == Spec /\ Fairness

-----------------------------------------------------------------------------
(* Safety.                                                                 *)

CountIn(S) == Cardinality({p \in Procs : pc[p] \in S})

\* Contexts between taking a token and taking its slot, or between releasing a
\* slot and returning its token.
OwesToken == {"alloc", "giveback", "sig"}

\* The accounting of sem_debt (esp_shim_core.c:564-567): at every step, under
\* every interleaving, the tokens in the semaphore, those owed by contexts in
\* the middle of a call and those a failing sig_sem lost make up the free slots
\* plus the debt.
TokenConservation ==
  tok + CountIn(OwesToken) + lost = Len(free) + debt

Holders == {p \in Procs : hand[p] # NoSlot}

\* A context holds a slot exactly where its call has taken one from a structure
\* and has not yet put it into another.
HoldsSlot == {"fpsnd", "tsnd", "pushp", "ipsnd", "copyout", "notify"}
HandOK == \A p \in Procs : hand[p] # NoSlot <=> pc[p] \in HoldsSlot

\* No slot is ever lost: the free stack, the data queue, the pend ring and the
\* hands of contexts in the middle of a call together always hold Depth slots.
SlotConservation ==
  Len(free) + Len(dtq) + Len(pend) + Cardinality(Holders) = Depth

\* Every debt is owed by a slot in use, so that some later release repays it.
DebtCovered == debt <= Depth - Len(free)

\* The accounts of a queue balance, each of them resting on the others: a repaid debt
\* keeps the tokens right only if a slot in use covers it, and a slot that is lost would
\* take its token along.
Accounts == TokenConservation /\ SlotConservation /\ DebtCovered

\* A context that is about to post a slot finds room in the data queue: the
\* remark at esp_shim_core.c:911 that psnd_dtq cannot meet a full data queue.
RoomForSlot ==
  \A p \in Procs : pc[p] \in {"fpsnd", "tsnd", "ipsnd"} => Len(dtq) < DtqCnt

\* The slots whose items were accepted and not yet taken out of the queue.
TransitSlots ==
  {dtq[i] : i \in DOMAIN dtq} \cup {pend[i] : i \in DOMAIN pend}
    \cup {hand[p] : p \in {q \in Procs : pc[q] \in {"fpsnd", "copyout"}}}

\* Each accepted item sits, unharmed, in exactly one slot until it is received
\* or discarded, and no other slot in transit carries anything: no slot is
\* handed out twice and none is overwritten while its item is in transit.
ItemIntegrity ==
  /\ \A s \in TransitSlots : pool[s] # NoMsg /\ fate[pool[s]] = "sent"
  /\ \A m \in Msgs : fate[m] = "sent" =>
       Cardinality({s \in TransitSlots : pool[s] = m}) = 1
  /\ Len(dtq) + Len(pend) + CountIn({"fpsnd", "copyout"}) = Cardinality(TransitSlots)

\* An item that reached the end of its life stays there: nothing is delivered
\* twice, delivered after its send reported failure, or lost after delivery.
FateIsFinal ==
  [][\A m \in Msgs : fate[m] \in {"refused", "delivered", "dropped", "reset"}
                       => fate'[m] = fate[m]]_vars

\* Where critical sections are entered only with esp_shim_enter_critical by
\* tasks, an item on the pend ring always has somebody who will flush it: the
\* section is still open or a context is inside flush_pending.
NoStrandedItem ==
  pend # <<>> =>
    \/ owner # NoProc
    \/ \E p \in Procs : \/ pc[p] \in {"fpop", "fpsnd"}
                        \/ pc[p] \in {"notify", "sig"} /\ nret[p] = "fpop"

\* Seen through the slots in transit the queue is the bounded channel: what the
\* pool promises FreeRTOS callers who neither reset it nor mask interrupts.
Channel == INSTANCE BoundedChannel WITH
             Items <- Msgs, Capacity <- Depth,
             chan  <- {pool[s] : s \in TransitSlots},
             got   <- {m \in Msgs : fate[m] = "delivered"}
IsBoundedChannel == Channel!Spec

\* Where one task sends with esp_shim_queue_send and a more urgent one receives,
\* items arrive in the order of the send calls, whether they went through the
\* pend ring or not: the send flushes the ring before it posts
\* (esp_shim_core.c:870).  Two calls of esp_shim_queue_send_from_isr in one
\* critical section both pend their items; the receiver can then take the second
\* from under a flush that holds the first.
SendOrderKept ==
  [][\A m, k \in Msgs : /\ k < m /\ fate[m] = "sent" /\ fate'[m] = "delivered"
                        => fate[k] # "sent"]_vars

-----------------------------------------------------------------------------
(* Claims of the source that the code does not keep; see the README.       *)

\* esp_shim_core.c:895: a sender that obtained a token finds a free slot.
TokenMeansSlot == \A p \in Procs : pc[p] # "giveback"

\* esp_shim_core.c:562-564: an item that went to the pend ring reaches the data
\* queue when MIE is restored or at the next send or receive.
PendedItemIsPosted == \A m \in Msgs : fate[m] # "dropped"

-----------------------------------------------------------------------------
(* Liveness.                                                               *)

\* An accepted item that is in the queue when interrupts are not masked is received, if
\* receivers keep receiving, nobody resets the queue and one context alone masks, by
\* critical sections: an item sent in a section is posted by the flush at its end.
\* Before that end another call in the section may drop it (PendedItemIsPosted).
AcceptedIsDelivered ==
  \A m \in Msgs : (fate[m] = "sent" /\ owner = NoProc) ~> fate[m] = "delivered"

\* A send call returns, if receivers keep receiving.
SendReturns == \A m \in Msgs : fate[m] = "calling" ~> fate[m] # "calling"
=============================================================================
