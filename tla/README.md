# TLA+ verification of the ESP-IDF shim on TOPPERS/ASP3

This directory models the concurrent and persistent core of `asp3_esp_idf`: the
layer that lets the binary Wi-Fi and Bluetooth libraries of ESP-IDF, written
for FreeRTOS, run on the TOPPERS/ASP3 kernel of the ESP32-C3, C5 and C6, and
the parts of the port around it that hold a protocol of their own.

The centre is `src/esp/common/wifi/esp_shim_core.c` with
`src/esp/c3/wifi/esp_shim.c`, and `src/esp/common/bt/ble_store_flash.c`. Around
it are modelled the timers of `src/esp/c3/bt/bt_shim.c`, the network port and
interface (`src/esp/common/net`, with `esp_event_shim.c` and the connect loop of
`src/apps/wifi_dhcp`), the high-resolution timer of the C6, the USB console
driver of the C3 and the interrupt controller code of the C5. What those files
call outside the repository's source (the kernel `asp3_core`, the ROM's flash
functions, lwIP, the binary libraries) is modelled from its use and is marked
external in `PROJECT.json`.

## The system

One core runs ASP3 tasks by fixed priority, and interrupt handlers above them.
`mstatus.MIE = 0` masks everything; in that state every kernel call answers
`E_CTX`. In a handler with `MIE = 1`, calls that could wait or take
(`twai_sem`, `pol_sem`, `trcv_dtq`) answer `E_CTX`, while `sig_sem` and
`psnd_dtq` work. The libraries know neither rule: they send, give and arm timers
inside critical sections and handlers. Most of the shim's difficulty is to
accept such calls and settle them later, and most of the properties here are
about that settlement.

### Components

| Component | State | Operations | Interaction | Hard part | Correct when |
|---|---|---|---|---|---|
| Queue (`esp_shim_queue_*`) | slot pool, free stack, token semaphore, `sem_debt`, data queue, pend ring | create, delete, send, send_from_isr, recv, reset, flush_pending | critical section exit flushes it; every send and receive flushes too | token and slot taken in separate locked regions; sends without a token; flush preempted by sends | tokens and slots are conserved, items arrive once, in order, and do not strand |
| Semaphore pool (`esp_shim_sem_*`) | used flags, kernel counts, pending gives and their total | create, delete, take, give, flush | critical section exit flushes | a give settled after its semaphore was deleted and reused | gives are conserved per user, pended gives wake |
| Timers (`esp_shim_timer_*`) | linked list, SHIM_TIMER_SEM, pended wakeups | setfn, arm, disarm, done, timer task | functions run in the timer task and call back | find-or-add outside the lock; arm against going to sleep | a timer fires when due and only then |
| Bond store (`ble_store_flash.c`) | RAM image, flash sector | read, write, delete, load | callbacks of the NimBLE host | erase and write are not atomic; calls fail | an acknowledged bond survives a reset |
| Critical sections | nesting, saved MIE, owner | enter, exit, int_disable, int_restore | hooks of all flushes | nesting with pended work | nothing pended is forgotten at the outermost exit |
| Heap | free list in a static arena | malloc, free, calloc, realloc | timers, queues | coalescing, wrap of sizes | blocks do not overlap and are reunited |
| Recursive mutexes | pool, owner, depth | create, delete, lock, unlock | Wi-Fi adapter | owner cleared before `unl_mtx` | owner agrees with the kernel's |
| Tasks, per-task semaphores | pool of static tasks | create, delete, entry, semphr_get | all | id freed before the task ends | one task per entry |
| Time conversions | none | tick_to_tmo, ms to us | adapters | wrap and clamp | monotone, never shorter than asked |
| Handler table | array of handlers | set_isr | kernel configuration | - | - |
| Event shim | handler table | register, post | Wi-Fi adapter, netif | handlers run in the caller | every match called once |
| Wi-Fi OS adapters, coexistence | none of their own | function tables | libraries, shim | conversions | arguments arrive unchanged |
| Bluetooth shims | esp_timer slots, interrupt slots | timer create, start, stop, delete; intr_alloc | own timer task | callback taken under the lock, called outside | a stopped timer does not fire |
| lwIP port | pools of semaphores, mailboxes, threads | sem, mbox, thread | kernel, tcpip thread | free against a waiting post | no message lost |
| Network interface | link, DHCP, address reported | up, down, receive, status | Wi-Fi events, lwIP callbacks | order of DHCP start and its callback | one report per address |
| High-resolution timers | comparator | set event, handler | kernel's time events | target passes while it is set | no event missed |
| Interrupt controllers, start-up | CLIC, matrix, clocks | mask, priority, route | kernel | register order | hardware-defined |
| Serial drivers, tracing, C library, demos | - | - | - | - | - |

`PROJECT.json` lists the same components with their sources and what is
modelled of each.

## Modules

| Module | Models |
|---|---|
| `ShimQueue` | one queue, the critical section and `int_disable`, several tasks and handlers |
| `BoundedChannel` | the abstract promise of a queue: bounded, each item received once |
| `ShimQueueProofs` | theorems about `ShimQueue`: types and accounts |
| `ShimItemProofs` | theorems about `ShimQueue`: items, fates, the refinement of `BoundedChannel`, nothing strands, order is kept |
| `ShimSem` | the semaphore pool with its pending gives |
| `ShimSemProofs` | theorems about `ShimSem` |
| `ShimTimer` | the timer list, the timer task, wakeups and a clock |
| `AlarmClock` | the abstract promise of the shim's timers and of the Bluetooth timers |
| `ShimTimerProofs` | theorems about `ShimTimer` |
| `BondStore` | the bond store, flash failures and loss of power |
| `DurableMap` | the abstract promise of the bond store: a map that is saved whole |
| `BondStoreProofs` | theorems about `BondStore` |
| `ShimQuePool` | create and delete of queues, and what a queue hands on to the next user of its entry |
| `ShimMutex` | the recursive mutexes |
| `ShimTask` | the task pool: create, delete and the entry wrapper |
| `ShimThreadSem` | the semaphore that each task fetches for itself (`thread_semphr_get`) |
| `ShimHeap` | the heap |
| `BtTimer` | the esp_timers of the Bluetooth shim and their task |
| `NetLink` | Wi-Fi event, connect loop, network interface and DHCP, across three threads |
| `SysArch` | semaphores, mailboxes and the thread of the lwIP port |
| `Hrt` | the high-resolution timer driver against its comparator |
| `Serial` | the USB Serial/JTAG console driver |
| `Clic` | interrupt levels, masks and routing of the C5 |
| `ShimPartsProofs` | theorems about `ShimMutex`, `ShimTask`, `ShimThreadSem`, `ShimQuePool` and `ShimHeap` |
| `PortProofs` | theorems about `Serial`, `Hrt`, `Clic`, `SysArch`, `NetLink` and `BtTimer`, and about `ShimParts` |
| `SetLemmas` | lemmas about minimum, maximum and sums over finite sets, for the proofs |
| `MCShimQueue`, `MCShimSem`, `MCShimTimer`, `MCBondStore` | constants of the runs |
| `ShimParts` | the eleven modules from `ShimQuePool` to `Clic` beside each other, one of which runs |
| `MCShimParts` | the constants of its run |

### What is one step

In the three shim modules a region between `SHIM_LOCK` and `SHIM_UNLOCK`, or one
kernel call, is one action, and control can change between any two actions.
`pc[p]` says where context `p` is in its call, `hand`, `on`, `ptr` or `job` hold
its local variables. `CanRun(p)` is the dispatcher: with interrupts masked
only the masking context runs; a task runs only when no handler is inside its
code and every more urgent task is suspended. A handler runs whenever interrupts
are open and, like a task, is inside at most one call. This is what makes the
interleavings of a single core faithful: a less urgent task never overtakes a
preempting one.

Statement order inside a step is the code's. The parts of a call that touch
only its caller's locals are merged into the next step that touches shared
state: for instance the copy of the item into its slot happens in `CopyAndPost`
together with `psnd_dtq`, since the slot is in no shared structure yet.

`ShimQueue`: `tok` is the count of `semid`, `free` the free stack, `dtq` the
kernel data queue, `pend` the pend ring, `debt` is `sem_debt`, `pool` the items in
slots. `SendCall`, `TakeToken`, `AllocSlot`, `CopyAndPost` are the good path of
`esp_shim_queue_send`; `SendTimeout`, `SendNoToken`, `GiveBack`, `PendPush` its
other branches; `PolToken`, `IsrAlloc`, `IsrPost` belong to
`esp_shim_queue_send_from_isr`; `RecvTake`, `RecvFail`, `CopyOut` to the
receive; `FlushPop`, `FlushPost`, `FlushFail`, `FlushDone` to the flush, which is
a step of every send, receive and outermost exit; `FreeSlot` and `ReturnToken`
are `shim_que_slot_free_notify`. `fate` and `lost` are history.

`ShimSem`: `cnt` are the kernel counts, `pend` and `total` are `shim_sem_pend`
and its total; `credit` is a history of what the present user of an entry gave
and took. `Create`, `Drain`, `InitialGive`, `CreateReturn` are the steps of a
create; `FlushStart`, `FlushPop`, `FlushNext`, `FlushSignal` those of a flush.

`ShimTimer`: `list` and `node` are the linked list and its nodes, `Find`,
`Alloc`, `Insert` the two locked regions of `esp_shim_timer_find` with the
allocation between; `SetFn`, `Arm`, `Disarm` the second half of each call,
`SignalOrPend` the wakeup. `ReadTime`, `ScanExpired` or `ScanNothing`,
`FunctionReturns`, `Sleep`, `SleepEnds` are the timer task's loop. `due` is the
history of what the callers asked for. `Tick` is the clock: it advances
between any two steps, also in a timer's function, and several deadlines may
pass at once.  It stops when no timer due by `MaxTime` is ahead. `Timeout` clamps a
sleep at both ends as the code does: it is raised to `MinSleep`, the 1000
microseconds, and cut down to `MaxSleep`, `TMAX_RELTIM`. So the task may wake after
a deadline that is less than `MinSleep` away, and `SleepCovered` allows that much.

`BondStore`: the callbacks run in the host task one at a time, so a call is one
step for the image and then the steps of `store_commit`: `Erase`, `WriteFlash`
or their failures. `PowerLoss` is possible everywhere; what an interrupted erase
or write leaves is `Erased`, `HalfErased` or `Torn(n)`. The CRC is taken as an
exact detector of half-written images. `newest`, `ours`, `good` and `acked` are
history. `Delete` of a CCCD removes all CCCDs of the peer as the code does; the
history then claims nothing of the other handles.

The three abstract specifications say what a caller sees and nothing of how it is
done. `BoundedChannel` is a bounded set of items put and got. `AlarmClock` has
a time, for each timer when it is due, and whether a function is being
called; timers are set and cancelled at any time, also while one rings. The shim's
timers map to it by the deadline of the node of a key, the Bluetooth timers by
the deadline of the slot that a caller's handle names. `DurableMap` is a map in
memory, one on disk, and whether the last save was reported; the bond store maps
to it by what `store_read` would return of the image and of the sector, so that
slots, holes and the CRC disappear.

The smaller modules prefix their names, since one run holds them all:

`ShimQuePool`: `que` is `shim_que`, with the number of free slots and pended
items instead of the slots themselves, which `ShimQueue` follows. `QueAlloc`,
`QueClaim`, `QueFill`, `QueGiveBack` are the allocation of the three blocks, the
locked search for an entry, the semaphore's drain and fill, and the way out when
something is missing; `QueEmpty`, `QueDropPended`, `QueRelease` the steps of a
delete. `QueSend`, `QueRecv` and `QueFlush` are one step each.

`ShimMutex`: `mtx` are the wrapper's owner and count, `mtxKernel` the kernel's
holder, `mtxDepth` how often a task really has locked. Between the calls of
`MtxLock`, `MtxLocMtx`, `MtxOwn` and within `MtxLastUnlock` any task may run,
which is what makes the unlocked reads of the owner interesting.

`ShimTask`: `tskState` and `tskQueued` are the kernel's task and its queued
activation. `TskTake` claims an entry, `TskActivate` is `act_tsk` with its way
out; `TskStart`, `TskEnd`, `TskExit` are `esp_shim_task_entry`, whose end gives the
entry back before `ext_tsk`; `TskDelete` is a delete by another task.

`ShimThreadSem`: `thrSem` are the `thread_sem` of the entries and
`shim_main_thread_sem`, `thrOwner` and `thrConflict` the record of the task outside
the pool. Nothing is locked in the code, so each access is a step: `ThrCall`,
`ThrReadOwner`, `ThrClaim`, `ThrReadSem`, `ThrCreate`, `ThrReturn`. An entry's
semaphore is never reset: the next task of the entry inherits it, with any count
that was left.

`ShimHeap`: `heap` maps the address of each `HEAP_BLOCK` to its size, use and
successor; `heapMem` says who wrote each unit last. malloc, calloc and free are
one step under the lock (`HeapAlloc`, `HeapFree`); realloc is `HeapRealloc`, the
copy `HeapMemcpy` outside any lock, and the free `HeapReallocDone`.

`BtTimer`: `btSlot` is `bt_timer_pool`, `btHandle` what the callers hold.
`BtCreate` then `BtFill` is the create, whose slot is filled after the unlock;
`BtStartAny`, `BtStop`, `BtDelete` the other calls, from the host, the timer
task's own callbacks and a handler; `BtSignal`, `BtExit`, `BtFlush` the wakeup
and its delay by a critical section. `BtReadNow`, `BtPick`, `BtCalled`,
`BtScanned`, `BtNap`, `BtTwai`, `BtTimeout` are the loop of `bt_timer_task`.

`NetLink`: `NetDriver` posts an event, `NetHandlerState` and `NetNotifyLink` are
the handler in the Wi-Fi task (the state, then the callback to the tcpip
thread); `NetStart`, `NetFirstConnect`, `NetCheckConnected`,
`NetCheckDisconnected`, `NetRetryConnect`, `NetAwaitIp` the demo's main task;
`NetTcpip`, `NetDhcp`, `NetRx` the tcpip thread, the DHCP client and packets.

`SysArch`: an object is taken from its pool in one step and emptied in the next
(`SysSemNew`, `SysSemReady`; `SysMboxNew`, `SysMboxReady`). A client's call of
the lwIP API is `SysPost`, `SysSemWait`, `SysSemFree`; a `select` may leave by
`SysSemTimeout` and `SysWithdraw` while the tcpip thread is between taking the
client's semaphore and signalling it (`SysServeApi`, `SysEvent`).

`Hrt`: each register access of `target_hrt_set_event` is a step (`HrtReadCurrent`,
`HrtRearm`, `HrtCheck`), and so is each of the handler (`HrtEnter`, `HrtAck`,
`HrtSignalTime`); `HrtTick` lets the counter run between any two of them and
fires the comparator, `HrtRelatch` latches it again while its target is past.

`Serial`: `SerOpn`..`SerClsDis` open and close, `SerWrite`, `SerWriteEna` send
from a task, `SerFput` is the low-level output, `SerEnter`, `SerIsrSnd`,
`SerIsrRcv` the handler; `SerHostReads` and `SerHostSends` are the host.

`Clic`: `ClicAccept` is the CPU taking a line with `irc_begin_int` in it,
`ClicHandled` the return through `irc_end_int` or `irc_end_exc`, `ClicLeave` the
`mret`, back to what was interrupted or on to the dispatcher, and `ClicDispatch`
the dispatcher's way into another task or the idle loop. `ClicSetThresh`,
`ClicRasClr`, `ClicDisEna`, `ClicRoute` are the services; `ClicProbe` is the
request flag as the code computes it.

## Runs

| Run | Question | Result | Bounds |
|---|---|---|---|
| `queue_full` | accounts of tokens, slots, debt and items under every mix of calls | holds | 2 slots, 3 sends, 2 tasks of equal priority, 1 handler, nesting 2, all operations |
| `queue_channel` | does the queue implement `BoundedChannel` | holds | 2 slots, 4 sends; no sections, no reset |
| `queue_live` | an accepted item is received once its critical section, if any, is over, unless a second call in the section dropped it (finding 2); every blocked send returns | holds | 2 slots, 4 sends, nesting 1, one task that masks |
| `queue_order` | items of a sender keep their order, pend ring or not | holds | 2 slots, 4 sends, nesting 2, int_disable |
| `queue_tokenslot` | does a token mean a slot | violated, finding 1 | 1 slot |
| `queue_pended` | does a pended item reach the data queue | violated, finding 2 | 2 slots, 2 sends |
| `sem_pool` | gives conserved and settled; a pended give wakes | holds | 2 entries, 2 creates, 3 gives, nesting 2 |
| `sem_ghost` | can a give reach the next user of its entry | violated, finding 3 | 2 entries, 3 creates |
| `timer` | timers are an `AlarmClock`: they fire when due and only then; no oversleeping by more than the shortest sleep | holds | 2 keys, 3 nodes, 4 calls, delays 1 and 4, shortest sleep 2, longest 3, time 3 |
| `bond_crash` | what a boot finds, what reads return; is the store a `DurableMap` | holds | 3 peers, 2 handles, 2 values, 2 + 2 slots, 4 calls |
| `bond_oursec` | OUR_SEC beside PEER_SEC | violated, finding 4 | the same |
| `parts` | do the eleven smaller components keep what they promise | holds | below |

Why these bounds are enough to meet the cases: with 2 slots and 3 sends a sender
blocks, a handler takes a slot on debt, a release repays it, and a reset meets a
sender that holds a token; one more context would add contexts in states that two
tasks and a handler already reach. In `queue_full` the tasks have equal
priority, so that each may preempt the other anywhere: it includes the
interleavings of every order of priorities. `DtqCnt = Depth` makes the kernel
queue as tight as the code's smallest. In `sem_pool` one entry is reused while
another has pending gives; the owner of the semaphores is the least urgent
context, so no delete preempts a flush: the other case is `sem_ghost`. In
`timer` the delay 1 is below the shortest sleep 2 and the delay 4 above the
longest, 3, so that both clamps happen, and after a tick also a wait between
them; and 3 nodes for 2 keys allow the loser of a race to have
allocated. In `bond_crash` three peers meet two slots, so the store fills up,
and four calls are enough to write, delete, write again and overwrite with a
reset anywhere between. `MaxSend`, `MaxNest`, `MaxCreate`, `MaxGive`, `MaxInit`,
`MaxTime` and `MaxCalls` are the bounds that the code does not have.

### The run `parts`

`ShimParts` chooses one component in its initial state and then takes the
steps of that one only: the components share no variable, so their states add up
and do not multiply (550 thousand in all, under two minutes). The names of BT
timers are symmetric. Its properties are invariants and one refinement without
liveness, so the run assumes no fairness.

| Module | Property | What it says | Bounds |
|---|---|---|---|
| all | `PartsTypeOK` | types; counts, pools and totals stay in range | - |
| `ShimQuePool` | `QueReusedClean` | a queue starts with a token for each slot and nothing of the queue before it; memory is neither shared nor leaked | 1 entry, 2 tasks, lengths 1 and 3 (above `ESP_SHIM_DTQ_CNT` = 2), 6 blocks, 5 calls |
| `ShimMutex` | `MtxExclusive` | one holder; owner and count are the holder's | 2 mutexes, 3 tasks, depth 2, 3 creates |
| `ShimTask` | `TskEachOnce` | every created task runs once, no entry is lost or shared | 2 entries, 2 creators, 4 creates |
| `ShimThreadSem` | `ThrSemsApart` | a task of the pool shares its semaphore with nobody and keeps it, as does a task that is alone outside the pool | 2 tasks in the pool, 2 outside, 3 semaphores |
| `ShimHeap` | `HeapSound` | blocks tile the arena, none leaks, memory keeps its contents | 11 units, 3 callers, requests of 0, 9 and 24 bytes, 5 calls |
| `BtTimer` | `BtTimersKept` | a slot is as last asked for, and no start is slept through | 3 timers, 2 slots, 4 calls, delays 1 and 2, longest sleep 1, time 3 |
| `BtTimer` | `BtIsAlarmClock` | the timers implement `AlarmClock` | the same |
| `NetLink` | `NetFollowsLink` | the interface follows the link; an address has been reported, and a report has its DHCP client and its ping | mailbox of 2, 3 retries, 7 events |
| `NetLink` | `NetRetryNotLost` | a failed connection is retried, whatever the order of handler and loop | the same |
| `SysArch` | `SysOwnEvents` | no wait returns for a signal, or message, of an earlier user | 1 semaphore, 1 mailbox of 2, 2 clients, 6 calls |
| `Hrt` | `HrtLossNorFlood` | an event pending has an interrupt to come; no flood of empty ones | longest delay 5, counter up to 4, 3 events |
| `Serial` | `SerNothingStranded` | buffered or received characters have an interrupt to come | buffers of 2, 6 calls and packets |
| `Clic` | `ClicLevelsRight` | handlers nest upwards, levels come back, requests are seen | 3 sources (one a FROM_CPU), 2 lines, 2 priorities, depth 3, 4 calls |

The bounds were chosen so that each pool is smaller than the number of its users
(2 slots for 3 timers, 1 entry for 2 tasks), each buffer can be full, an entry is
used at least twice, and each history is long enough for a wrong step to show:
every property has a mutant of the code, listed in `PROJECT.json`, that breaks it
under these bounds. In `ShimHeap` 11 units hold three blocks with headers, so a
free meets a free neighbour behind, in front and on both sides. In `Clic` two
lines are enough for one nesting, and depth 3 adds an exception on top.

What each part takes from outside: the kernel's semaphores, data queues,
mutexes and tasks, as their specification says; the heap may refuse any
allocation of a queue; callers use, unlock and delete only what they hold and
nobody else is in; the C6's comparator, of which the driver's comments say both
that it does not fire for the past and that it latches again, may do either;
the USB device gives each event once; the Wi-Fi driver posts one event for each
attempt and each loss and does not reconnect by itself; `tcpip_callback` may be
refused at any time, after which `NetFollowsLink` claims nothing; the CLIC raises
its level on acceptance and gives it back at `mret` only.

`CHECK_DEADLOCK FALSE` is set in the shim runs and in `parts` because the models
stop when the bounded number of calls is used up, possibly with a task waiting, as
a system whose input has ended does. The bond store never stops and is checked for
deadlock.

### Fairness

- `Work` of a context, weak in the queue and strong elsewhere: code inside a call
  does not stop, and the kernel runs the most urgent ready context. Strong
  fairness says that interrupts and more urgent tasks do not come so fast that a
  ready context never runs again, which ASP3 needs of any application.
- Leaving a critical section, weak (in the semaphores also strong for the
  outermost exit: sections do not nest for ever).
- `RecvCall`, strong: a receiver is a loop that is ready between two receives.
- `FunctionReturns`, strong: timer functions end. `Tick`, weak: time passes.

No fairness is assumed of loss of power, of failures or of the start of calls
other than receives.

## Findings

1. *A token does not mean a slot* (`queue_tokenslot`,
   `esp_shim_core.c:906`). The branch for an empty free stack is called
   unreachable at line 895. A handler's `send_from_isr` that takes the last slot
   on debt between a sender's `twai_sem` and `shim_que_slot_alloc` makes it
   happen, and a send with an infinite timeout returns 0. The accounts survive:
   `Accounts` holds in the same state.
2. *A pended item can be dropped* (`queue_pended`, `esp_shim_core.c:870`). The
   opportunistic flush at the start of send and receive does not ask whether MIE
   is 1. A second call within the same critical section flushes with MIE 0,
   `psnd_dtq` answers `E_CTX`, and the item whose send returned 1 is gone. If
   its debt was repaid by somebody else meanwhile, `sig_sem` fails too and a
   token is lost; `lost` counts those in the token part of `Accounts`.
3. *A ghost give* (`sem_ghost`, `esp_shim_core.c:371`). The flush takes a
   pending give off the list under the lock and signals after it. A more urgent
   task that deletes and creates in between inherits the give.
4. *One security record per peer* (`bond_oursec`, `ble_store_flash.c:342`).
   OUR_SEC and PEER_SEC share key and slot, so the later write wins, against the
   comment of the array that is sized for both.

Things met on the way that are stated nowhere as promises and are therefore
hazards with a note, not findings:

- Items, gives and wakeups pended under `esp_shim_int_disable` stay until the
  next send, receive or critical section exit, since `int_restore` does not
  flush. `ShimSem` and `ShimTimer` leave `int_disable` out.
- A sender at least as urgent as the receiver can overtake a flush between the pop
  and `psnd_dtq`: order holds where the sender is less urgent than all others who
  may flush (`queue_order`, `OrderIsKept`). That is so for `esp_shim_queue_send`,
  which flushes before it pends and so leaves at most one of its items on the
  ring. Two `esp_shim_queue_send_from_isr` in one critical section pend two items,
  and what they send may arrive reversed even then.
- The scan starts at the head again after every function, so a periodic timer at
  the head whose function takes its whole period starves the others. In the
  model time stops at `MaxTime`, so `OverdueIsServed` says that nothing is
  forgotten, not how soon it is served.
- An armed timer whose function is not set ends the scan and lets the task sleep
  for ever. The operation `arm_unset` of `ShimTimer` allows it; with it in
  `Ops`, TLC finds `SleepCovered` violated. No adapter makes the call.
- `esp_shim_timer_done` frees a node that another context may have found; the
  guard `Alone` is the callers' promise not to.
- A semaphore created in a critical section is neither drained nor given its
  initial count; `Create` is guarded by an open context.
- `NoGhostGive` and `GiveConservation` rest on priorities: they need the
  contexts that create and delete semaphores to be less urgent than every other
  task that flushes (`OwnersYield`). Nothing in the code asks for that.
- The flush runs in any context. One that preempts a deletion of a queue after
  its data queue was drained moves a pended item there, and the next queue of the
  entry starts with it, against the comment "drained by queue_delete"
  (`esp_shim_core.c:656`). `QueFlush` is guarded by no deletion of its entry being
  half done, since no caller in the sources deletes a queue with items pended;
  with the guard dropped TLC finds `QueReusedClean` violated.
- The callback of a Bluetooth timer picked before a stop or delete still runs
  after it; `BtTimer` allows it, as the code does.
- A refused `tcpip_callback` loses a link change, and nothing tries again.
- `handle_link_down` calls `ping_stop`, but that is an empty function in the builds
  that take lwIP from ESP-IDF (`netif_esp32c3.c:65-76`,
  `TOPPERS_LWIP_ESPIDF_SUPPLY`, set for the C3, C5 and C6). The ping of a link that
  is gone goes on until the next report starts it anew by `ping_init`. So
  `HandleLinkDown` leaves `ping` as it is, and `NetFollowsLink` claims only that a
  report has its ping, not that a ping has its link.
- The semaphore that tasks outside the pool share (`thread_semphr_get`) is tested
  and created without a lock. The comment at `esp_shim_core.c:1042` says that a
  second such task is reported at once; two whose first calls overlap both find the
  owner 0, both record themselves, and `shim_main_thread_conflict` stays 0 until
  the one whose record was overwritten calls again. `ShimThreadSem` has this
  behaviour. Either may also create the semaphore over the other's. The comment
  excludes such tasks, so `ThrSemsApart` claims what holds without them: it speaks
  of the tasks of the pool, and of a task outside it while it is the only one.
- Timeouts in milliseconds wrap in `uint32_t` above 71 minutes
  (`esp_wifi_adapter.c:596`), and `ms_to_tmo` of the lwIP port truncates likewise.
- `esp_intr_enable` and its siblings change the ENABLE register of the interrupt
  matrix in a read and a write without a lock, as the library does on its side.
- A boot that cannot read the flash starts empty, and the next commit overwrites
  what was persisted. A loss of power between erase and write loses all bonds:
  `AtomicRestore` allows it, as the source's comment does.

## Proofs

The theorems hold for all values of the constants under the named assumptions of
each module (finite sets of contexts, positive numbers of slots and entries,
bounds that are natural numbers). Each rests on an inductive invariant: the
property says what a reader wants to know, the invariant says in addition what a
call knows at each of its places, which is what the next step needs. TLC checked
every invariant on the bounds of the runs before it was proved. A proof has one
step or lemma per action and one part per conjunct the action can disturb.

Some theorems have a hypothesis on what the callers do. It is a definition of its
own, its reason is given below, and the runs satisfy it.

### The shim's core

- `ShimQueueProofs`. `IInv == TypeInv /\ Accounts`. `TypeInv` strengthens
  `TypeOK` by `HandOK`: a context holds a slot exactly at the places of its call
  where it has taken one; without it nothing ties a slot that has left the free
  stack to anything. `Accounts` (`AccountsBalance`) are `TokenConservation`,
  `SlotConservation` and `DebtCovered`, which need each other: a repaid debt keeps the tokens right only
  if the debt is covered. The lemmas on counting say how the number of contexts
  at given places changes when one context moves. `AlwaysRoom` follows: a
  context with a slot in its hand leaves fewer than `Depth` elsewhere, and
  `Depth <= DtqCnt`.
- `ShimItemProofs` adds the items to the slots. In `ItemInv`, `Apart` says that a
  slot is in one place only (free stack, data queue, pend ring or one context's
  hand), `SendersOK` that the sends under way have different items and that one
  about to pend its slot has filled it, `ItemsOK` that the slots in transit and the
  accepted items correspond one to one. `ItemsIntact` and `FatesAreFinal`
  (an item received, refused, dropped or reset stays so) follow.
  - `QueueIsChannel` is the refinement of `BoundedChannel` under `PlainUse`: no
    context masks interrupts or resets the queue. The channel's content is the
    set of accepted items, the step that accepts an item is its `Put`, `CopyOut`
    its `Get`, and every other step is a stutter. There is room for the `Put`
    because the sender's slot is outside the slots in transit. `PlainUse` is
    needed: a reset discards items, and an item flushed under a mask is dropped
    (finding 2).
  - `NothingStrands` (`NoStrandedItem`: a pended item has an open critical section
    or a flush to settle it) needs `CriticalUse`: nobody uses `int_disable`, whose
    end does not flush, and handlers send with `send_from_isr`, not with the call
    for tasks.
  - `OrderIsKept` (`SendOrderKept`) needs `OneSender`: one task sends, with
    `esp_shim_queue_send`, one task receives, and everybody else who may flush is
    more urgent than the sender. Then the sender, once it has flushed, has nothing
    behind the data queue (`Behind`: the pend ring and the slots in the hands of
    flushes), so that one slot at most is ever there, with an item newer than
    those in front.
- `ShimSemProofs`. `IInv` adds to `TypeOK` that a flush's index is in the
  pool, that sections nest only with an owner, and `TotalIsSum`, without
  which the decrement of the total could leave the natural numbers.
  `GivesNotStranded` then follows one step at a time: a step either keeps
  the flush that covers an entry, moves it to a smaller index, or passes an entry
  with nothing pending.
  - `GivesConserved` (`GiveConservation`) is proved under `OwnersYield`: whoever
    creates or deletes semaphores is a task less urgent than every other task that
    uses critical sections. Then no flush is between `FlushPop` and `FlushSignal`
    while an entry changes its user. The counterexample of `sem_ghost` is what
    happens without it, so the hypothesis is not for convenience. `GInv` adds that
    a creator has its entry for itself with nothing pending (`CreatorsOK`), that
    gives are pending or under way, and tasks wait, only at entries that users
    hold (`UsersOK`), and that only contexts with critical sections flush
    (`FlushersOK`).
- `ShimTimerProofs`. `ListOK`: no node is listed twice, a key has one node at most,
  a node's deadline is what the callers last asked for, an armed node has a
  function. `CallsOK` carries the result of the unlocked parts of a call: a node
  allocated and not yet inserted is nobody else's, and a node found is still in
  the list with its key. `TimeOK` bounds the clock. `SleepCovered` and
  `WakeupNotStranded` are part of the induction, because a task that goes to sleep
  relies on a wakeup signalled or pended since it read the time. From it:
  `TimerTypeCorrect`, `TimerListMatches`, `TimerSleepCovered`,
  `TimerWakeupNotStranded` and the action property `TimerFiresWhenDue`.
  `TimerIsAlarmClock` is the refinement: by the invariant the deadlines read off the
  list are the history `due`, so it is enough that each step changes `due`, the
  time and the place of the timer task as a step of `AlarmClock` does or not at all
  (`EveryStepIsClocked`). An arm is its `Set`, a disarm or end its `Cancel`,
  `ScanExpired` its `Ring`; a function's own calls come while one rings, and what
  searches, inserts and wakes on the way is a stutter. `FiresWhenDue` is contained
  in it, so the run checks the refinement only. The hypothesis `FunctionsFirst`
  leaves out `arm_unset`: with a timer armed before it has a function,
  `SleepCovered` is false (see above), and no adapter does it.
- `BondStoreProofs`. `IInv` adds `FlashWhole` (a right CRC means the sector
  holds the image last written, and it is right from a success until the next
  call), `Busy` (no commit is under way when a call is reported as done), and
  distinct keys in RAM and in the persisted image: a boot brings back the
  persisted one, so both are needed. `AckedIsDurable` and `BootIsAtomic`, together
  `BootsFindSaved`, are action properties from that invariant. `ReadsAreCurrent` (`ReadsSeeNewest`)
  needs `ImageIsNewest`, which says the same of the image whatever the history of
  the persisted copy, and `NothingClaimed` before the boot has loaded.
  `StoreIsDurableMap` maps each step to one of `DurableMap`: `ReadFinds` says that
  where keys are kept apart the read of a key is the value in its slot, whichever
  that is, so a write that reuses a slot or fills a free one is one `Put`
  (`PutIsPut`), and a delete that clears several slots one `Remove`
  (`DeleteIsRemove`). A commit that fails or is cut short is a `Wipe` or part of
  a `PowerLoss`, and `WriteFlash` is the `Save`.

### The shim's pools: `ShimPartsProofs`

- `MtxOneHolder`. `MtxExclusive` speaks of tasks that have locked; a task in
  the middle of a lock or unlock is what breaks its induction. `MtxInv` therefore
  says for each place of a call what it implies (`MtxStepsOK`: one about to record
  itself as owner has the kernel's mutex and no depth, one that has forgotten
  itself has depth 1), that the kernel's holder is exactly the task that has
  locked or is about to say so (`MtxKernelOK`), and that a recorded owner is one who
  has locked (`MtxOwnerOK`), so that an unlocked read of the owner answers "it is
  me" only to the holder.
- `FunctionsRunOnce` (`TskEachOnce`). An entry in use has exactly one who
  will give it back: its task, a queued activation, or a creator with the entry in
  hand, whose task is then on its way out at most. Entries in use hold different
  functions, and one still to be called has not run.
- `SemaphoresApart` (`ThrSemsApart`). `ThrInv` numbers the semaphores as they are
  made: no two entries have the same, nobody has been given one that is not made
  yet, and who is alone with its entry has been given what is stored there and is
  about to create one only where there is none. The tasks outside the pool share an
  entry, of which only a single user is alone.
- `QueuesStartClean` (`QueReusedClean`). `QueEntryOK` gives the accounts of an
  entry for each place of a create or delete; the total of pended items is the sum
  over the entries; the blocks of the heap are free or of one task. As in
  the model, no flush meets a deletion of its own entry half done.
- `HeapIsSound` (`HeapSound`). `HeapTilesOK` describes the tiling by addresses:
  each block ends where the next begins or at the end of the arena, with nothing
  between. `HeapTotalOK` keeps the total as the sum over the free blocks,
  `HeapOwnersOK` gives each used block one holder through one of its two pointers,
  `HeapCallsOK` says that the new block of a realloc takes all of the old one, and
  `HeapMemOK` that what is written inside a block is its holder's, in particular
  the copy a realloc makes outside the lock. The two recursive functions of the
  module, the walk along the list and the merge with free neighbours, are proved
  equal to what they mean in terms of positions, and every action is argued on
  those.

### The port: `PortProofs`

- `ConsoleStrandsNothing`. Buffered output has its interrupt enabled, apart from
  the end of the write that is about to enable it; an event whose cause is there is
  latched, or in the handler's hands.
- `TimerNeitherLosesNorFloods` (`HrtLossNorFlood`). The alarm follows the target
  through the register writes of a set. `HrtAccount` counts the `signal_time`
  calls that found nothing due against what each call of `set_event` allows: one
  is kept in reserve for a handler under way that will find nothing, and one more
  for a set in its middle.
- `LevelsRight` (`ClicLevelsRight`). The frames form a chain: each saved the
  mask in force below it, masks rise along the chain, and the threshold register is
  the mask on top. `mil` is 0 when no interrupt is handled, which the
  dispatcher relies on. A line's mask of sources is what the routing table says.
- `PoolsKeepApart` (`SysOwnEvents`). Semaphores and connections have one owner each;
  a semaphore is signalled only for the wait its client is in; a mailbox
  holds messages of its own connection once it has been emptied.
- `InterfaceFollowsLink` and `FailuresReachMainTask`. The last link change sent is
  the last one in the mailbox or, when none is there, the one handled
  (`NetPending`), and before each "up" comes a "down" (`NetAlternates`), so that
  DHCP is never started twice. The connect state is -1 after a failure, apart from
  the moment in which the main task is about to connect.
- `BtTimersAreKept`. A used slot is one timer's and is as last asked for, or is
  being filled. `BtNapOK` follows the timer task on its way to sleep: it has seen
  every deadline, or a wakeup is on its way (`BtComing`), in the semaphore, pended,
  or about to be signalled. `BtTimersAreAlarmClock` is the refinement of the same
  `AlarmClock` as the shim's timers have: `BtStartAny` is its `Set`, `BtStop` and
  `BtDelete` its `Cancel`, `BtPick` its `Ring`, and the return of the callback with
  the wakeup of its own calls, `BtCalled`, its `Return`. It needs that a handle
  names a slot of its own, so that a start or stop moves no other timer.
- `PartsTypes` and `PartsKeepTheirPromises` are about the composition `ShimParts`. A
  step of it is a step of each component or leaves it alone (`PartsSteps`), hence
  its behaviours are behaviours of each component (`PartsRunBt` and so on), and what is
  proved of a component by itself holds in the composition. The second theorem
  states all properties of the run `parts` at once.

### Lemmas on sets: `SetLemmas`

Minimum and maximum of sets of numbers, and sums over finite sets
(`SumFunctionOnSet`): taking a member out, putting one in, changing one value, the
union of two sets. The sums need induction over the subsets of a finite set, which
is done with the set of the subsets for which the claim holds in the place of a
predicate. `ShimQuePool`, `ShimHeap` and the timers rest on them.

### Only model-checked

- Liveness (`AcceptedIsDelivered`, `SendReturns`, `PendedGiveWakes`,
  `OverdueIsServed`), which is out of reach of the prover. `AcceptedIsDelivered`
  speaks of items that are in the queue while interrupts are not masked, with no
  resets and one context that masks, by critical sections only: `int_restore` does
  not flush, and a second such context may flush the ring under its own mask.
- The four claims that do not hold are refuted, not proved.

Every invariant and every refinement that a passing run checks is also a theorem.

## Not modelled

- Of the components modelled in part: the event shim's registration table, filled once at start-up; interrupt allocation and the HCI hooks of the
  Bluetooth shims; `ms_to_tmo`, `sys_now` and the protection level of the lwIP
  port; output and the address getters of the network interface.
- Within the modules: the 32-bit wrap of a request's size (`ShimHeap`), semaphores
  with an initial count (`SysArch`: those that stand for lwIP's mutexes), `E_CTX` of the mutex
  calls with interrupts masked (`ShimMutex`), and the error returns of the Wi-Fi
  start-up in the demo, after which it stops (`NetLink`).
- Conversions of time, random numbers, logging and the static handler table: no
  state that two contexts could disagree on, and no text that states their range.
- The function tables of the Wi-Fi and coexistence adapters: each entry converts
  its arguments and calls the shim, whose models stand for both.
- The C5's and C6's `esp_shim.c`, Bluetooth shims and timer drivers have the
  steps of the ones translated; their copies are not compared line by line.
- Start-up of clocks, watchdogs and PMU, the C3's and C6's interrupt matrix, the
  UART driver: register sequences whose meaning is in the hardware's manual.
- Tracing aids, the C library, glue for the libraries, and the demos: smoke and
  load tests on the target, settings, stubs and formatting.

These are most of the repository's lines: demos, generated `sdkconfig` stubs,
start-up of three chips, copies of the same file per chip, and adapters. What
holds state and a protocol is a small share of it, and that share is what the
modules translate. Data inside items, records and timer arguments is a model
value.

## Plan

The modules planned around the shim's core are written, and the safety properties
of every module are proved. What is left, in order of importance:

1. The registration table of the event shim; `ms_to_tmo` and `tick_to_tmo` over a bounded width.
2. Interrupt allocation of the Bluetooth shims, when the other writer of the
   ENABLE register can be described.
