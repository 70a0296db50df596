------------------------------- MODULE SysArch -------------------------------
(***************************************************************************)
(* The port of lwIP to the kernel (src/esp/common/net/port/sys_arch.c):    *)
(* pools of semaphores and mailboxes over static kernel objects, and the   *)
(* one thread.                                                             *)
(*                                                                         *)
(* An object keeps its count or its messages when it goes back to its      *)
(* pool; the next sys_sem_new or sys_mbox_new empties it, after the lock   *)
(* under which it was taken.  External: lwIP's use.  A client's API call   *)
(* takes a semaphore, sends a message to the tcpip thread and waits for    *)
(* its signal; a select waits for one with a timeout, so that the signal   *)
(* may come too late to be taken; a connection has a mailbox to which the  *)
(* tcpip thread posts what it receives.                                    *)
(***************************************************************************)
EXTENDS Integers, Sequences, FiniteSets, FiniteSetsExt

CONSTANTS
  SysClients,         \* the tasks that call lwIP
  SYS_ARCH_NUM_SEM, SYS_ARCH_NUM_MBOX, SYS_ARCH_MBOX_DEPTH,
  SysMaxCalls         \* bound: number of calls

SysSems  == 1 .. SYS_ARCH_NUM_SEM
SysMboxs == 1 .. SYS_ARCH_NUM_MBOX

ASSUME SysAssumption == /\ {SYS_ARCH_NUM_SEM, SYS_ARCH_NUM_MBOX} \subseteq Nat
                        /\ SYS_ARCH_MBOX_DEPTH \in Nat \ {0} /\ SysMaxCalls \in Nat

VARIABLES
  sysUp,        \* net_thread_started
  sysSemUsed,   \* net_sem_used
  sysCount,     \* count of each semaphore, at most 1
  sysMboxUsed,  \* net_mbox_used
  sysDtq,       \* the messages in each mailbox: whom they are for
  sysTcpip,     \* the tcpip thread's own mailbox: the callers of its API
  sysSelect,    \* the clients whose select waits for an event
  sysPc,        \* where each client is
  sysSem,       \* the semaphore it holds, or 0
  sysConn,      \* the mailbox of its connection, or 0
  sysServed,    \* history: the signal for its present wait has been given
  sysGot,       \* history: whom the last message fetched was for
  sysCalls      \* history: number of calls

sysPools == <<sysSemUsed, sysCount, sysMboxUsed, sysDtq>>
sysHist  == <<sysServed, sysGot, sysCalls>>
sysVars  == <<sysUp, sysPools, sysTcpip, sysSelect, sysPc, sysSem, sysConn, sysHist>>

SysTypeOK ==
  /\ sysUp \in BOOLEAN
  /\ sysSemUsed \in [SysSems -> BOOLEAN] /\ sysCount \in [SysSems -> 0..1]
  /\ sysMboxUsed \in [SysMboxs -> BOOLEAN]
  /\ sysDtq \in [SysMboxs -> Seq(SysClients)]
  /\ \A b \in SysMboxs : Len(sysDtq[b]) <= SYS_ARCH_MBOX_DEPTH
  /\ sysTcpip \in Seq(SysClients) /\ sysSelect \subseteq SysClients
  /\ sysPc \in [SysClients -> {"idle", "api", "select", "post", "wait", "waiting",
                               "withdraw", "free", "ini", "close"}]
  /\ sysSem \in [SysClients -> SysSems \cup {0}]
  /\ sysConn \in [SysClients -> SysMboxs \cup {0}]
  /\ sysServed \in [SysClients -> BOOLEAN]
  /\ sysGot \in [SysClients -> SysClients]
  /\ sysCalls \in 0..SysMaxCalls

SysInit ==
  /\ sysUp = FALSE
  /\ sysSemUsed = [s \in SysSems |-> FALSE] /\ sysCount = [s \in SysSems |-> 0]
  /\ sysMboxUsed = [b \in SysMboxs |-> FALSE] /\ sysDtq = [b \in SysMboxs |-> <<>>]
  /\ sysTcpip = <<>> /\ sysSelect = {}
  /\ sysPc = [c \in SysClients |-> "idle"]
  /\ sysSem = [c \in SysClients |-> 0] /\ sysConn = [c \in SysClients |-> 0]
  /\ sysServed = [c \in SysClients |-> FALSE]
  /\ sysGot = [c \in SysClients |-> c]
  /\ sysCalls = 0

SysGo(c, l, m) == sysPc[c] = l /\ sysPc' = [sysPc EXCEPT ![c] = m]
SysCall        == sysCalls < SysMaxCalls /\ sysCalls' = sysCalls + 1

\* sys_thread_new, which lwIP calls once.
SysThreadNew ==
  /\ ~sysUp /\ sysUp' = TRUE
  /\ UNCHANGED <<sysPools, sysTcpip, sysSelect, sysPc, sysSem, sysConn, sysHist>>

-----------------------------------------------------------------------------
(* Semaphores                                                              *)

\* The locked search of sys_sem_new.  Without a free one the call fails.
SysSemNew(c) ==
  /\ sysUp /\ SysCall
  /\ LET free == {s \in SysSems : ~sysSemUsed[s]}
     IN \/ free = {} /\ SysGo(c, "idle", "idle") /\ UNCHANGED <<sysSemUsed, sysSem>>
        \/ /\ free # {}
           /\ SysGo(c, "idle", "api") \/ SysGo(c, "idle", "select")
           /\ sysSemUsed' = [sysSemUsed EXCEPT ![Min(free)] = TRUE]
           /\ sysSem' = [sysSem EXCEPT ![c] = Min(free)]
  /\ UNCHANGED <<sysUp, sysCount, sysMboxUsed, sysDtq, sysTcpip, sysSelect, sysConn,
                 sysServed, sysGot>>

\* Mutant: a reused semaphore keeps its count.
SysNoDrain(c) == UNCHANGED sysCount

\* The pol_sem loop on a semaphore that was used before; count is 0 here.
SysDrain(c) == sysCount' = [sysCount EXCEPT ![sysSem[c]] = 0]

\* The rest of sys_sem_new; a select then registers for an event.
SysSemReady(c) ==
  /\ SysDrain(c)
  /\ \/ SysGo(c, "api", "post") /\ UNCHANGED sysSelect
     \/ SysGo(c, "select", "wait") /\ sysSelect' = sysSelect \cup {c}
  /\ sysServed' = [sysServed EXCEPT ![c] = FALSE]
  /\ UNCHANGED <<sysUp, sysSemUsed, sysMboxUsed, sysDtq, sysTcpip, sysSem, sysConn,
                 sysGot, sysCalls>>

\* sys_mbox_post waits for room.
SysPost(c) ==
  /\ SysGo(c, "post", "waiting")
  /\ Len(sysTcpip) < SYS_ARCH_MBOX_DEPTH
  /\ sysTcpip' = Append(sysTcpip, c)
  /\ UNCHANGED <<sysUp, sysPools, sysSelect, sysSem, sysConn, sysHist>>

\* sys_arch_sem_wait takes the count ...
SysSemWait(c) ==
  /\ SysGo(c, "wait", "withdraw") \/ SysGo(c, "waiting", "free")
  /\ sysCount[sysSem[c]] = 1
  /\ sysCount' = [sysCount EXCEPT ![sysSem[c]] = 0]
  /\ UNCHANGED <<sysUp, sysSemUsed, sysMboxUsed, sysDtq, sysTcpip, sysSelect, sysSem,
                 sysConn, sysHist>>

\* ... or times out, which serves a select too; ...
SysSemTimeout(c) ==
  /\ SysGo(c, "wait", "withdraw")
  /\ sysCount[sysSem[c]] = 0
  /\ sysServed' = [sysServed EXCEPT ![c] = TRUE]
  /\ UNCHANGED <<sysUp, sysPools, sysTcpip, sysSelect, sysSem, sysConn, sysGot, sysCalls>>

\* ... and the select is withdrawn, an event in between having signalled in vain.
SysWithdraw(c) ==
  /\ SysGo(c, "withdraw", "free")
  /\ sysSelect' = sysSelect \ {c}
  /\ UNCHANGED <<sysUp, sysPools, sysTcpip, sysSem, sysConn, sysHist>>

SysSemFree(c) ==
  /\ SysGo(c, "free", "idle")
  /\ sysSemUsed' = [sysSemUsed EXCEPT ![sysSem[c]] = FALSE]
  /\ sysSem' = [sysSem EXCEPT ![c] = 0]
  /\ UNCHANGED <<sysUp, sysCount, sysMboxUsed, sysDtq, sysTcpip, sysSelect, sysConn, sysHist>>

-----------------------------------------------------------------------------
(* Mailboxes of connections                                                *)

\* sys_mbox_new: the locked search, then ini_dtq; it fails without a free one.
SysMboxNew(c) ==
  /\ sysUp /\ SysCall /\ sysConn[c] = 0
  /\ LET free == {b \in SysMboxs : ~sysMboxUsed[b]}
     IN \/ free = {} /\ SysGo(c, "idle", "idle") /\ UNCHANGED <<sysMboxUsed, sysConn>>
        \/ /\ free # {} /\ SysGo(c, "idle", "ini")
           /\ sysMboxUsed' = [sysMboxUsed EXCEPT ![Min(free)] = TRUE]
           /\ sysConn' = [sysConn EXCEPT ![c] = Min(free)]
  /\ UNCHANGED <<sysUp, sysSemUsed, sysCount, sysDtq, sysTcpip, sysSelect, sysSem,
                 sysServed, sysGot>>

SysMboxReady(c) ==
  /\ SysGo(c, "ini", "idle")
  /\ sysDtq' = [sysDtq EXCEPT ![sysConn[c]] = <<>>]
  /\ UNCHANGED <<sysUp, sysSemUsed, sysCount, sysMboxUsed, sysTcpip, sysSelect, sysSem,
                 sysConn, sysHist>>

\* sys_mbox_trypost of the tcpip thread, which fails when the mailbox is full.
SysTryPost(c) ==
  /\ sysConn[c] # 0 /\ sysPc[c] \notin {"ini", "close"}
  /\ Len(sysDtq[sysConn[c]]) < SYS_ARCH_MBOX_DEPTH
  /\ sysDtq' = [sysDtq EXCEPT ![sysConn[c]] = Append(@, c)]
  /\ UNCHANGED <<sysUp, sysSemUsed, sysCount, sysMboxUsed, sysTcpip, sysSelect, sysPc,
                 sysSem, sysConn, sysHist>>

\* sys_arch_mbox_fetch and tryfetch; a timeout changes nothing.
SysFetch(c) ==
  /\ SysGo(c, "idle", "idle") /\ sysConn[c] # 0
  /\ sysDtq[sysConn[c]] # <<>>
  /\ sysGot' = [sysGot EXCEPT ![c] = Head(sysDtq[sysConn[c]])]
  /\ sysDtq' = [sysDtq EXCEPT ![sysConn[c]] = Tail(@)]
  /\ UNCHANGED <<sysUp, sysSemUsed, sysCount, sysMboxUsed, sysTcpip, sysSelect, sysSem,
                 sysConn, sysServed, sysCalls>>

\* sys_mbox_free: ini_dtq, then the entry of the pool under the lock.
SysMboxFree(c) ==
  /\ \/ /\ SysGo(c, "idle", "close") /\ sysConn[c] # 0
        /\ sysDtq' = [sysDtq EXCEPT ![sysConn[c]] = <<>>]
        /\ UNCHANGED <<sysMboxUsed, sysConn>>
     \/ /\ SysGo(c, "close", "idle")
        /\ sysMboxUsed' = [sysMboxUsed EXCEPT ![sysConn[c]] = FALSE]
        /\ sysConn' = [sysConn EXCEPT ![c] = 0]
        /\ UNCHANGED sysDtq
  /\ UNCHANGED <<sysUp, sysSemUsed, sysCount, sysTcpip, sysSelect, sysSem, sysHist>>

-----------------------------------------------------------------------------
(* The tcpip thread signals the caller of an API message, or a select.     *)

\* sys_sem_signal; a second signal is E_QOVR.
SysSignal(c) ==
  /\ sysCount' = [sysCount EXCEPT ![sysSem[c]] = 1]
  /\ sysServed' = [sysServed EXCEPT ![c] = TRUE]
  /\ UNCHANGED <<sysUp, sysSemUsed, sysMboxUsed, sysDtq, sysPc, sysSem, sysConn, sysGot,
                 sysCalls>>

SysServeApi ==
  /\ sysTcpip # <<>>
  /\ SysSignal(Head(sysTcpip))
  /\ sysTcpip' = Tail(sysTcpip)
  /\ UNCHANGED sysSelect

\* A select is signalled once.
SysEvent ==
  \E c \in sysSelect : /\ SysSignal(c)
                       /\ sysSelect' = sysSelect \ {c}
                       /\ UNCHANGED sysTcpip

SysNext ==
  \/ SysThreadNew
  \/ \E c \in SysClients :
       \/ SysSemNew(c) \/ SysSemReady(c) \/ SysPost(c) \/ SysSemWait(c)
       \/ SysSemTimeout(c) \/ SysWithdraw(c) \/ SysSemFree(c)
       \/ SysMboxNew(c) \/ SysMboxReady(c) \/ SysTryPost(c) \/ SysFetch(c) \/ SysMboxFree(c)
  \/ SysServeApi \/ SysEvent

SysSpec == SysInit /\ [][SysNext]_sysVars

-----------------------------------------------------------------------------
(* Properties                                                              *)

\* What a client of the pools gets is its own: no two hold the same object, a
\* call of lwIP's API does not return before the tcpip thread has done it,
\* whatever signals earlier holders left in the semaphore, and no message of
\* another connection is fetched.
SysOwnEvents ==
  \A c \in SysClients :
    /\ sysPc[c] = "free" => sysServed[c]
    /\ sysGot[c] = c
    /\ \A d \in SysClients \ {c} : /\ sysSem[c] # 0 => sysSem[c] # sysSem[d]
                                   /\ sysConn[c] # 0 => sysConn[c] # sysConn[d]
=============================================================================
