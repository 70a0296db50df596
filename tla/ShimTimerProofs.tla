--------------------------- MODULE ShimTimerProofs ---------------------------
(***************************************************************************)
(* What holds of the timers of the shim for any number of timers, nodes,   *)
(* tasks and handlers, any priorities and any delays.                      *)
(***************************************************************************)
EXTENDS ShimTimer, SetLemmas, SequenceTheorems, FiniteSetTheorems, TLAPS

\* Callers give a timer its function before they arm it.
FunctionsFirst == \A p \in Procs : "arm_unset" \notin Ops[p]

-----------------------------------------------------------------------------
(* Scans of the list.                                                      *)

\* Match finds a listed node of the key if there is one.
LEMMA MatchFinds ==
  ASSUME list \in Seq(Nodes), NEW k
  PROVE  \/ Match(k) = 0 /\ \A n \in Listed : node[n].key # k
         \/ /\ Match(k) \in DOMAIN list /\ Match(k) # 0
            /\ list[Match(k)] \in Listed /\ node[list[Match(k)]].key = k
<1> DEFINE I == {i \in 1..Len(list) : node[list[i]].key = k}
<1>1. Match(k) = IF I # {} THEN Min(I) ELSE 0
  BY DEF Match, SelectInSeq
<1>2. CASE I = {}
  <2>1. \A n \in Listed : node[n].key # k
    BY <1>2 DEF Listed, Range
  <2> QED
    BY <1>1, <1>2, <2>1
<1>3. CASE I # {}
  <2>1. I \subseteq 1 .. Len(list) /\ I \subseteq Nat
    OBVIOUS
  <2>2. Min(I) \in I
    BY <1>3, <2>1, MinIsIn
  <2>3. Match(k) \in I
    BY <1>1, <1>3, <2>2
  <2> QED
    BY <2>3 DEF Listed, Range
<1> QED
  BY <1>2, <1>3

\* The timer task's scan stops at an expired node, if there is one.
LEMMA FirstExpiredFinds ==
  ASSUME list \in Seq(Nodes)
  PROVE  \/ FirstExpired = 0 /\ \A n \in Listed : ~Expired(n)
         \/ /\ FirstExpired \in DOMAIN list /\ FirstExpired # 0
            /\ list[FirstExpired] \in Listed /\ Expired(list[FirstExpired])
<1> DEFINE I == {i \in 1..Len(list) : Expired(list[i])}
<1>1. FirstExpired = IF I # {} THEN Min(I) ELSE 0
  BY DEF FirstExpired, SelectInSeq
<1>2. CASE I = {}
  <2>1. \A n \in Listed : ~Expired(n)
    BY <1>2 DEF Listed, Range
  <2> QED
    BY <1>1, <1>2, <2>1
<1>3. CASE I # {}
  <2>1. I \subseteq 1 .. Len(list) /\ I \subseteq Nat
    OBVIOUS
  <2>2. Min(I) \in I
    BY <1>3, <2>1, MinIsIn
  <2>3. FirstExpired \in I
    BY <1>1, <1>3, <2>2
  <2> QED
    BY <2>3 DEF Listed, Range
<1> QED
  BY <1>2, <1>3

\* The task sleeps until the nearest deadline or less, or for the shortest sleep.
LEMMA TimeoutShort ==
  ASSUME NEW D, D \subseteq Nat, tnow \in Nat, \A d \in D : tnow < d
  PROVE  /\ Timeout(D) \in 0..MaxSleep
         /\ D # {} => Timeout(D) # Forever
         /\ \A d \in D : tnow + Timeout(D) <= d \/ Timeout(D) = MinSleep
<1>1. CASE D = {}
  BY <1>1, BoundsAssumption DEF Timeout, Forever
<1>2. CASE D # {}
  <2> DEFINE next == Nearest(D)
  <2>1. next \in D /\ \A e \in D : next <= e
    BY <1>2, NatMin DEF Nearest
  <2>2. Timeout(D) = Clamp(next - tnow)
    BY <1>2 DEF Timeout
  <2>3. next \in Nat /\ tnow < next
    BY <2>1
  <2> HIDE DEF next
  <2>4. /\ Timeout(D) \in 1..MaxSleep
        /\ tnow + Timeout(D) <= next \/ Timeout(D) = MinSleep
    BY <2>2, <2>3, BoundsAssumption DEF Clamp
  <2>5. ASSUME NEW d \in D PROVE tnow + Timeout(D) <= d \/ Timeout(D) = MinSleep
    BY <2>1, <2>3, <2>4, <2>5
  <2> QED
    BY <2>4, <2>5, BoundsAssumption DEF Forever
<1> QED
  BY <1>1, <1>2

\* A node put at the head is listed, and no other.
LEMMA Prepended ==
  ASSUME NEW s \in Seq(Nodes), NEW n \in Nodes
  PROVE  /\ <<n>> \o s \in Seq(Nodes)
         /\ Range(<<n>> \o s) = {n} \cup Range(s)
         /\ DOMAIN (<<n>> \o s) = 1 .. Len(s) + 1
         /\ (<<n>> \o s)[1] = n
         /\ \A i \in 1 .. Len(s) : (<<n>> \o s)[i + 1] = s[i]
<1> DEFINE t == <<n>> \o s
<1>1. t \in Seq(Nodes) /\ Len(t) = Len(s) + 1 /\ DOMAIN t = 1 .. Len(s) + 1
  OBVIOUS
<1>2. t[1] = n /\ \A i \in 1 .. Len(s) : t[i + 1] = s[i]
  OBVIOUS
<1>3. Range(t) \subseteq {n} \cup Range(s)
  <2>1. ASSUME NEW i \in 1 .. Len(s) + 1 PROVE t[i] \in {n} \cup Range(s)
    <3>1. CASE i = 1
      BY <3>1, <1>2
    <3>2. CASE i # 1
      <4>1. i - 1 \in 1 .. Len(s) /\ t[i] = s[i - 1]
        BY <3>2
      <4> QED
        BY <4>1 DEF Range
    <3> QED
      BY <3>1, <3>2
  <2> QED
    BY <2>1, <1>1 DEF Range
<1>4. {n} \cup Range(s) \subseteq Range(t)
  <2>1. ASSUME NEW i \in 1 .. Len(s) PROVE s[i] \in Range(t)
    <3>1. i + 1 \in DOMAIN t /\ t[i + 1] = s[i]
      BY <1>1, <1>2
    <3> QED
      BY <3>1 DEF Range
  <2>2. n \in Range(t)
    BY <1>1, <1>2 DEF Range
  <2> QED
    BY <2>1, <2>2 DEF Range
<1> QED
  BY <1>1, <1>2, <1>3, <1>4

\* Removing one place of a list without repetitions removes its node, and no other.
LEMMA Removed ==
  ASSUME NEW s \in Seq(Nodes), NEW k \in DOMAIN s,
         \A i, j \in DOMAIN s : s[i] = s[j] => i = j
  PROVE  /\ RemoveAt(s, k) \in Seq(Nodes)
         /\ Range(RemoveAt(s, k)) = Range(s) \ {s[k]}
         /\ \A i, j \in DOMAIN RemoveAt(s, k) :
              RemoveAt(s, k)[i] = RemoveAt(s, k)[j] => i = j
<1> DEFINE t == RemoveAt(s, k)
           old(i) == IF i < k THEN i ELSE i + 1
<1>1. k \in 1 .. Len(s) /\ Len(s) \in Nat /\ DOMAIN s = 1 .. Len(s)
  OBVIOUS
<1> DEFINE u == SubSeq(s, 1, k - 1)
           v == SubSeq(s, k + 1, Len(s))
<1>2. u \in Seq(Nodes) /\ Len(u) = k - 1 /\ \A i \in 1 .. k - 1 : u[i] = s[i]
  <2>1. \A i \in 1 .. k - 1 : s[i] \in Nodes
    BY <1>1
  <2> QED
    BY <1>1, <2>1, SubSeqProperties
<1>3. v \in Seq(Nodes) /\ Len(v) = Len(s) - k /\ \A i \in 1 .. Len(s) - k : v[i] = s[k + i]
  <2>1. \A i \in k + 1 .. Len(s) : s[i] \in Nodes
    BY <1>1
  <2>2. /\ v \in Seq(Nodes)
        /\ Len(v) = IF k + 1 <= Len(s) THEN Len(s) - (k + 1) + 1 ELSE 0
        /\ \A i \in 1 .. Len(s) - (k + 1) + 1 : v[i] = s[(k + 1) + i - 1]
    BY <1>1, <2>1, SubSeqProperties
  <2>3. Len(v) = Len(s) - k
    BY <1>1, <2>2
  <2>4. ASSUME NEW i \in 1 .. Len(s) - k PROVE v[i] = s[k + i]
    <3>1. i \in 1 .. Len(s) - (k + 1) + 1 /\ (k + 1) + i - 1 = k + i
      BY <1>1
    <3> QED
      BY <2>2, <3>1
  <2> QED
    BY <2>2, <2>3, <2>4
<1> HIDE DEF u, v
<1>t. t = u \o v
  BY DEF RemoveAt, u, v
<1> HIDE DEF t
<1>4. t \in Seq(Nodes) /\ Len(t) = Len(s) - 1 /\ DOMAIN t = 1 .. Len(s) - 1
  <2>1. t \in Seq(Nodes) /\ Len(t) = Len(u) + Len(v)
    BY <1>2, <1>3, <1>t, ConcatProperties
  <2>2. Len(t) = Len(s) - 1
    BY <2>1, <1>1, <1>2, <1>3
  <2> QED
    BY <2>1, <2>2
<1>5. ASSUME NEW i \in 1 .. Len(s) - 1 PROVE t[i] = s[old(i)]
  <2>1. t[i] = IF i <= Len(u) THEN u[i] ELSE v[i - Len(u)]
    BY <1>1, <1>2, <1>3, <1>t, ConcatProperties
  <2>2. CASE i < k
    BY <2>1, <2>2, <1>1, <1>2
  <2>3. CASE ~(i < k)
    <3>1. i - (k - 1) \in 1 .. Len(s) - k /\ k + (i - (k - 1)) = i + 1 /\ ~(i <= k - 1)
      BY <2>3, <1>1
    <3>2. t[i] = v[i - (k - 1)]
      BY <2>1, <3>1, <1>2
    <3>3. v[i - (k - 1)] = s[i + 1]
      BY <3>1, <1>3
    <3> QED
      BY <2>3, <3>2, <3>3
  <2> QED
    BY <2>2, <2>3
<1>6. \A i \in 1 .. Len(s) - 1 : old(i) \in DOMAIN s \ {k}
  BY <1>1
<1>7. \A i, j \in 1 .. Len(s) - 1 : old(i) = old(j) => i = j
  BY <1>1
<1>8. \A i, j \in DOMAIN t : t[i] = t[j] => i = j
  <2> SUFFICES ASSUME NEW i \in DOMAIN t, NEW j \in DOMAIN t, t[i] = t[j] PROVE i = j
    OBVIOUS
  <2>1. s[old(i)] = s[old(j)] /\ old(i) \in DOMAIN s /\ old(j) \in DOMAIN s
    BY <1>4, <1>5, <1>6
  <2> QED
    BY <2>1, <1>4, <1>7
<1>9. Range(t) \subseteq Range(s) \ {s[k]}
  <2>1. ASSUME NEW i \in DOMAIN t PROVE t[i] \in Range(s) \ {s[k]}
    <3>1. t[i] = s[old(i)] /\ old(i) \in DOMAIN s /\ old(i) # k
      BY <1>4, <1>5, <1>6
    <3> QED
      BY <3>1 DEF Range
  <2> QED
    BY <2>1 DEF Range
<1>10. Range(s) \ {s[k]} \subseteq Range(t)
  <2>1. ASSUME NEW j \in DOMAIN s, j # k PROVE s[j] \in Range(t)
    <3> DEFINE i == IF j < k THEN j ELSE j - 1
    <3>1. i \in 1 .. Len(s) - 1 /\ old(i) = j
      BY <2>1, <1>1
    <3>2. i \in DOMAIN t /\ t[i] = s[j]
      BY <3>1, <1>4, <1>5
    <3> QED
      BY <3>2 DEF Range
  <2> QED
    BY <2>1 DEF Range
<1> QED
  BY <1>4, <1>8, <1>9, <1>10 DEF t
-----------------------------------------------------------------------------
(* The inductive invariant.                                                *)

\* No node is listed twice.
Distinct == \A i, j \in DOMAIN list : list[i] = list[j] => i = j

\* One node at most has a key.
KeysOnce ==
  /\ \A n \in Listed : node[n].key \in Keys
  /\ \A m, n \in Listed : node[m].key = node[n].key => m = n

\* A listed node has the deadline the callers expect, and an unlisted timer none.
DuesRight ==
  /\ \A n \in Listed : node[n].dl = due[node[n].key]
  /\ \A k \in Keys : (\A n \in Listed : node[n].key # k) => due[k] = 0

\* The scan never meets an expired node without a function.
ArmedHaveFn == \A n \in Listed : Armed(n) => node[n].fn

ListOK == Distinct /\ KeysOnce /\ DuesRight /\ ArmedHaveFn

\* A node that has been allocated and is not yet in the list.
Fresh(p) == ptr[p] \in Nodes \ Listed /\ node[ptr[p]] = Unused

\* What a call knows between its locked regions: only a timer without a node is
\* given one, and the node it uses through its pointer is still its timer's.
CallOK(p) ==
  /\ pc[p] \in {"find", "alloc", "insert", "setfn", "arm", "disarm"} => job[p].key \in Keys
  /\ pc[p] = "find" => /\ job[p].op \in {"setfn", "arm", "disarm"}
                       /\ job[p].op = "arm" => HasFunction(job[p].key) /\ job[p].us \in Delays
  /\ pc[p] \in {"alloc", "insert"} => job[p].op = "setfn"
  /\ pc[p] = "insert" => Fresh(p)
  /\ pc[p] \in {"setfn", "arm", "disarm"} =>
       ptr[p] \in Listed /\ node[ptr[p]].key = job[p].key
  /\ pc[p] = "arm" => node[ptr[p]].fn /\ job[p].us \in Delays

CallsOK ==
  /\ \A p \in Procs : CallOK(p)
  /\ \A p, q \in Procs : pc[p] = "insert" /\ pc[q] = "insert" /\ ptr[p] = ptr[q] => p = q

\* No timer due by MaxTime is left, so that time has stopped.
LateOK == time > MaxTime /\ \A n \in Listed : Armed(n) => node[n].dl > MaxTime

TimeOK ==
  /\ tnow <= time
  /\ pc[TimerTask] = "scan" => time <= MaxTime \/ tnow = time
  /\ pc[TimerTask] = "sleep" => time <= MaxTime \/ LateOK
  /\ pc[TimerTask] = "wait" => (sleep # Forever => wake <= MaxTime + MaxSleep) \/ LateOK

IInv == TypeOK /\ ListOK /\ CallsOK /\ TimeOK /\ SleepCovered /\ WakeupNotStranded

-----------------------------------------------------------------------------
(* What a step that leaves them alone keeps.                               *)

Busy == {"find", "alloc", "insert", "setfn", "arm", "disarm"}

\* A context that returns forgets its call.
LEMMA ReturnTyped ==
  ASSUME TypeOK, NEW p \in Procs
  PROVE  /\ [job EXCEPT ![p] = NoJob]
              \in [Procs -> [op : OpNames \cup {"none"}, key : Keys \cup {NoKey},
                            us : Delays \cup {0}, repeat : BOOLEAN]]
         /\ [ptr EXCEPT ![p] = NoNode] \in [Procs -> Nodes \cup {NoNode}]
<1> DEFINE J == [op : OpNames \cup {"none"}, key : Keys \cup {NoKey},
                 us : Delays \cup {0}, repeat : BOOLEAN]
<1>1. job \in [Procs -> J] /\ ptr \in [Procs -> Nodes \cup {NoNode}]
  BY DEF TypeOK
<1>2. NoJob \in J
  BY DEF NoJob
<1> HIDE DEF J
<1>3. [job EXCEPT ![p] = NoJob] \in [Procs -> J]
  BY <1>1, <1>2
<1>4. [ptr EXCEPT ![p] = NoNode] \in [Procs -> Nodes \cup {NoNode}]
  BY <1>1
<1> QED
  BY <1>3, <1>4 DEF J

LEMMA ListKept ==
  ASSUME ListOK, UNCHANGED <<list, node, due>>
  PROVE  ListOK'
BY DEF ListOK, Distinct, KeysOnce, DuesRight, ArmedHaveFn, Listed, Armed

\* The calls of the contexts that go on as they were.
LEMMA CallsKept ==
  ASSUME CallsOK, UNCHANGED <<list, node>>,
         \A q \in Procs : pc'[q] \in Busy => 
             pc'[q] = pc[q] /\ job'[q] = job[q] /\ ptr'[q] = ptr[q]
  PROVE  CallsOK'
<1>1. ASSUME NEW q \in Procs PROVE CallOK(q)'
  <2>1. Listed' = Listed /\ \A k : HasFunction(k)' = HasFunction(k)
    BY DEF Listed, HasFunction
  <2>2. CallOK(q)
    BY DEF CallsOK
  <2>3. CASE pc'[q] \in Busy
    BY <2>1, <2>2, <2>3 DEF CallOK, Fresh, Busy
  <2>4. CASE pc'[q] \notin Busy
    BY <2>4 DEF CallOK, Busy
  <2> QED
    BY <2>3, <2>4
<1>2. ASSUME NEW q \in Procs, NEW r \in Procs,
             pc'[q] = "insert" /\ pc'[r] = "insert" /\ ptr'[q] = ptr'[r]
      PROVE  q = r
  <2>1. /\ pc[q] = "insert" /\ ptr'[q] = ptr[q]
        /\ pc[r] = "insert" /\ ptr'[r] = ptr[r]
    BY <1>2 DEF Busy
  <2> QED
    BY <2>1, <1>2 DEF CallsOK
<1> QED
  BY <1>1, <1>2 DEF CallsOK

\* A call goes on while another context changes the list, when its timer's node
\* stays and the node it has allocated is left alone.
LEMMA OtherKept ==
  ASSUME NEW q \in Procs, CallOK(q),
         pc'[q] = pc[q], job'[q] = job[q], ptr'[q] = ptr[q],
         \A n \in Listed : node[n].key = job[q].key =>
             n \in Listed' /\ node'[n].key = node[n].key /\ (node[n].fn => node'[n].fn),
         pc[q] = "insert" => ptr[q] \notin Listed' /\ node'[ptr[q]] = node[ptr[q]]
  PROVE  CallOK(q)'
<1>1. HasFunction(job[q].key) => HasFunction(job[q].key)'
  BY DEF HasFunction
<1>2. pc[q] = "insert" => Fresh(q)'
  BY DEF CallOK, Fresh
<1> QED
  BY <1>1, <1>2 DEF CallOK

LEMMA TimeKept ==
  ASSUME TypeOK, TypeOK', TimeOK, UNCHANGED clock,
         pc'[TimerTask] \in {"scan", "sleep", "wait"} => pc'[TimerTask] = pc[TimerTask],
         \A n \in Listed' : Armed(n)' =>
             \/ n \in Listed /\ node'[n].dl = node[n].dl
             \/ time < node'[n].dl
  PROVE  TimeOK'
<1>1. time \in Nat /\ MaxTime \in Nat
  BY BoundsAssumption DEF TypeOK
<1>2. \A n \in Nodes : node'[n].dl \in Nat
  BY DEF TypeOK
<1>4. Listed' \subseteq Nodes
  <2>1. list' \in Seq(Nodes)
    BY DEF TypeOK
  <2>2. Listed' = {list'[i] : i \in DOMAIN list'}
    BY DEF Listed, Range
  <2> QED
    BY <2>1, <2>2
<1>3. LateOK => LateOK'
  BY <1>1, <1>2, <1>4 DEF LateOK, Armed, clock
<1> QED
  BY <1>3 DEF TimeOK, clock

LEMMA SleepKept ==
  ASSUME SleepCovered, UNCHANGED <<tnow, sleep>>, WakeComing => WakeComing',
         pc'[TimerTask] \in {"sleep", "wait"} => pc[TimerTask] \in {"sleep", "wait"},
         \A n \in Listed' : Armed(n)' =>
             (n \in Listed /\ node'[n].dl = node[n].dl) \/ WakeComing'
  PROVE  SleepCovered'
BY DEF SleepCovered, Armed

\* The pending wakeup keeps its deliverer.
LEMMA StrandKept ==
  ASSUME WakeupNotStranded, wpend' => wpend, owner' = owner,
         \A p \in Procs : pc[p] \in {"wpop", "wsig"} => pc'[p] = pc[p]
  PROVE  WakeupNotStranded'
BY DEF WakeupNotStranded

\* So does a wakeup on its way.
LEMMA ComingKept ==
  ASSUME WakeComing, sem' = sem, wpend' = wpend,
         \A p \in Procs : pc[p] \in {"signal", "wsig"} => pc'[p] = pc[p]
  PROVE  WakeComing'
BY DEF WakeComing

-----------------------------------------------------------------------------
(* One lemma for each action.                                              *)

LEMMA InitOK == Init => IInv
<1> SUFFICES ASSUME Init PROVE IInv
  OBVIOUS
<1>1. Listed = {} /\ DOMAIN list = {}
  BY DEF Init, Listed, Range
<1>2. TypeOK
  <2>1. list \in Seq(Nodes)
    BY EmptySeq DEF Init
  <2>7. sem \in 0..1
    BY DEF Init
  <2>8. wpend \in BOOLEAN
    BY Zenon DEF Init
  <2>2. node \in [Nodes -> [key : Keys \cup {NoKey}, fn : BOOLEAN, dl : Nat, per : Nat]]
    BY DEF Init, Unused
  <2>3. pc \in [Procs -> Labels]
    BY DEF Init, Labels
  <2>4. job \in [Procs -> [op : OpNames \cup {"none"}, key : Keys \cup {NoKey},
                          us : Delays \cup {0}, repeat : BOOLEAN]]
    BY DEF Init, NoJob
  <2>5. ptr \in [Procs -> Nodes \cup {NoNode}] /\ owner \in Procs \cup {NoProc}
    BY DEF Init
  <2>6. /\ time \in 1..(MaxTime + MaxSleep) /\ tnow \in 0..(MaxTime + MaxSleep)
        /\ sleep \in 0..MaxSleep /\ wake \in Nat
        /\ due \in [Keys -> Nat] /\ calls \in 0..MaxCalls
    BY BoundsAssumption DEF Init, Forever
  <2> QED
    BY <2>1, <2>2, <2>3, <2>4, <2>5, <2>6, <2>7, <2>8 DEF TypeOK
<1>3. ListOK
  BY <1>1 DEF Init, ListOK, Distinct, KeysOnce, DuesRight, ArmedHaveFn
<1>4. \A p \in Procs : pc[p] \in {"now", "idle"}
  BY DEF Init
<1>5. CallsOK /\ TimeOK /\ SleepCovered
  BY <1>4, ProcsAssumption
  DEF Init, CallsOK, CallOK, TimeOK, SleepCovered, Procs
<1>6. WakeupNotStranded
  BY DEF Init, WakeupNotStranded
<1> QED
  BY <1>2, <1>3, <1>5, <1>6 DEF IInv

\* A call starts.
LEMMA StartOK ==
  ASSUME IInv, NEW p \in Procs, NEW op \in {"setfn", "arm", "disarm"}, NEW k \in Keys,
         NEW us \in Delays \cup {0}, NEW repeat \in BOOLEAN, Start(p, op, k, us, repeat),
         op = "arm" => HasFunction(k) /\ us \in Delays
  PROVE  IInv'
<1>1. pc[p] \in {"call", "idle"} /\ pc' = [pc EXCEPT ![p] = "find"]
  BY DEF Start, At, Rest, Go
<1>2. /\ UNCHANGED <<list, node, sem, wpend, ptr, owner, time, tnow, sleep, wake, due>>
      /\ job' = [job EXCEPT ![p] = [op |-> op, key |-> k, us |-> us, repeat |-> repeat]]
      /\ calls < MaxCalls /\ calls' = calls + 1
  BY DEF Start, tvars, semvars, clock
<1>3. TypeOK'
  BY <1>1, <1>2, BoundsAssumption DEF IInv, TypeOK, OpNames, Labels
<1>4. ListOK'
  BY <1>2, ListKept DEF IInv
<1>5. CallsOK'
  <2>1. pc \in [Procs -> Labels] /\ DOMAIN job = Procs
    BY DEF IInv, TypeOK
  <2>2. Listed' = Listed /\ \A h : HasFunction(h)' = HasFunction(h)
    BY <1>2 DEF Listed, HasFunction
  <2>3. ASSUME NEW q \in Procs PROVE CallOK(q)'
    <3>1. CASE q = p
      BY <3>1, <2>1, <2>2, <1>1, <1>2 DEF CallOK
    <3>2. CASE q # p
      <4>1. pc'[q] = pc[q] /\ job'[q] = job[q] /\ ptr'[q] = ptr[q]
        BY <3>2, <1>1, <1>2, <2>1
      <4>2. CallOK(q)
        BY DEF IInv, CallsOK
      <4> QED
        BY <4>1, <4>2, <2>2, <1>2 DEF CallOK, Fresh
    <3> QED
      BY <3>1, <3>2
  <2>4. ASSUME NEW q \in Procs, NEW r \in Procs,
               pc'[q] = "insert" /\ pc'[r] = "insert" /\ ptr'[q] = ptr'[r]
        PROVE  q = r
    BY <2>1, <2>4, <1>1, <1>2 DEF IInv, CallsOK
  <2> QED
    BY <2>3, <2>4 DEF CallsOK
<1>6. pc \in [Procs -> Labels] /\ TimerTask \in Procs
  BY ProcsAssumption DEF IInv, TypeOK, Procs
<1>7. \A n \in Listed' : n \in Listed /\ node'[n].dl = node[n].dl
  BY <1>2 DEF Listed
<1>8. TimeOK'
  BY <1>1, <1>2, <1>3, <1>6, <1>7, TimeKept DEF IInv, clock
<1>9. SleepCovered'
  <2>1. WakeComing => WakeComing'
    BY <1>1, <1>2, <1>6, ComingKept
  <2> QED
    BY <2>1, <1>1, <1>2, <1>6, <1>7, SleepKept DEF IInv
<1>10. WakeupNotStranded'
  BY <1>1, <1>2, <1>6, StrandKept DEF IInv
<1> QED
  BY <1>3, <1>4, <1>5, <1>8, <1>9, <1>10 DEF IInv

LEMMA CallOpOK ==
  ASSUME IInv, FunctionsFirst, NEW p \in Procs, SetFnCall(p) \/ DisarmCall(p) \/ ArmCall(p)
  PROVE  IInv'
<1>1. CASE SetFnCall(p)
  <2>1. PICK k \in Keys : Start(p, "setfn", k, 0, FALSE)
    BY <1>1 DEF SetFnCall
  <2> QED
    BY <2>1, StartOK
<1>2. CASE DisarmCall(p)
  <2>1. PICK k \in Keys : Start(p, "disarm", k, 0, FALSE)
    BY <1>2 DEF DisarmCall
  <2> QED
    BY <2>1, StartOK
<1>3. CASE ArmCall(p)
  <2>1. PICK k \in Keys, us \in Delays, repeat \in BOOLEAN :
          /\ HasFunction(k) \/ "arm_unset" \in Ops[p]
          /\ Start(p, "arm", k, us, repeat)
    BY <1>3 DEF ArmCall
  <2>2. HasFunction(k) /\ us \in Delays \cup {0}
    BY <2>1 DEF FunctionsFirst
  <2> QED
    BY <2>1, <2>2, StartOK
<1> QED
  BY <1>1, <1>2, <1>3

\* A call finds its timer's node, or has none to find.
LEMMA FindOK == ASSUME IInv, NEW p \in Procs, Find(p) PROVE IInv'
<1> DEFINE i == Match(job[p].key)
<1>1. /\ pc[p] = "find"
      /\ UNCHANGED <<list, node, sem, wpend, owner, time, tnow, sleep, wake, due, calls>>
  BY DEF Find, At, tvars, semvars, clock, hvars
<1>2. CallOK(p) /\ list \in Seq(Nodes) /\ pc \in [Procs -> Labels] /\ DOMAIN job = Procs
      /\ DOMAIN ptr = Procs /\ TimerTask \in Procs
  BY ProcsAssumption DEF IInv, TypeOK, CallsOK, Procs
<1>3. job[p].key \in Keys /\ job[p].op \in {"setfn", "arm", "disarm"}
  BY <1>1, <1>2 DEF CallOK
<1>4. /\ job[p].op = "arm" => job[p].us \in Delays
      /\ job[p].op = "arm" => \E n \in Listed : node[n].key = job[p].key /\ node[n].fn
  BY <1>1, <1>2 DEF CallOK, HasFunction
<1>5. \/ i = 0 /\ \A n \in Listed : node[n].key # job[p].key
      \/ i # 0 /\ list[i] \in Listed /\ node[list[i]].key = job[p].key
  BY <1>2, MatchFinds
<1>6. \/ /\ i # 0
         /\ ptr' = [ptr EXCEPT ![p] = list[i]]
         /\ pc' = [pc EXCEPT ![p] = job[p].op]
         /\ job' = job
      \/ /\ i = 0 /\ job[p].op = "disarm"
         /\ pc' = [pc EXCEPT ![p] = Rest(p)]
         /\ job' = [job EXCEPT ![p] = NoJob]
         /\ ptr' = [ptr EXCEPT ![p] = NoNode]
      \/ /\ i = 0 /\ job[p].op # "disarm"
         /\ pc' = [pc EXCEPT ![p] = "alloc"]
         /\ job' = job /\ ptr' = ptr
  BY DEF Find, Go, Return
<1> HIDE DEF i
<1>7. /\ \A q \in Procs \ {p} : pc'[q] = pc[q] /\ job'[q] = job[q] /\ ptr'[q] = ptr[q]
      /\ pc'[p] \in {"setfn", "arm", "disarm", "alloc", "idle", "call"}
  BY <1>2, <1>3, <1>6 DEF Rest
<1>8. Listed' = Listed /\ Listed \subseteq Nodes
  BY <1>1, <1>2 DEF Listed, Range
<1>9. TypeOK'
  <2>1. pc' \in [Procs -> Labels]
    BY <1>2, <1>3, <1>6 DEF Labels, Rest
  <2>2. job' \in [Procs -> [op : OpNames \cup {"none"}, key : Keys \cup {NoKey},
                          us : Delays \cup {0}, repeat : BOOLEAN]]
    BY <1>6, ReturnTyped DEF IInv, TypeOK
  <2>3. ptr' \in [Procs -> Nodes \cup {NoNode}]
    BY <1>5, <1>6, <1>8 DEF IInv, TypeOK
  <2> QED
    BY <2>1, <2>2, <2>3, <1>1 DEF IInv, TypeOK
<1>10. ListOK'
  BY <1>1, ListKept DEF IInv
<1>11. CallsOK'
  <2>1. \A h : HasFunction(h)' = HasFunction(h)
    BY <1>1, <1>8 DEF HasFunction
  <2>2. ASSUME NEW q \in Procs PROVE CallOK(q)'
    <3>1. CASE q = p /\ i # 0
      <4>1. pc'[q] = job[p].op /\ job'[q] = job[p] /\ ptr'[q] = list[i]
        BY <3>1, <1>2, <1>6
      <4>2. job[p].op = "arm" => node[list[i]].fn
        BY <3>1, <1>4, <1>5 DEF IInv, ListOK, KeysOnce
      <4> QED
        BY <4>1, <4>2, <3>1, <1>1, <1>3, <1>4, <1>5, <1>8 DEF CallOK
    <3>2. CASE q = p /\ i = 0
      <4>1. job[p].op # "arm"
        BY <3>2, <1>4, <1>5
      <4>2. \/ pc'[q] \in {"idle", "call"}
            \/ pc'[q] = "alloc" /\ job'[q] = job[p] /\ job[p].op = "setfn"
        BY <3>2, <4>1, <1>2, <1>3, <1>6 DEF Rest
      <4> QED
        BY <4>2, <1>3 DEF CallOK
    <3>3. CASE q # p
      <4>1. pc'[q] = pc[q] /\ job'[q] = job[q] /\ ptr'[q] = ptr[q]
        BY <3>3, <1>7
      <4>2. CallOK(q)
        BY DEF IInv, CallsOK
      <4> QED
        BY <4>1, <4>2, <2>1, <1>1, <1>8 DEF CallOK, Fresh
    <3> QED
      BY <3>1, <3>2, <3>3
  <2>3. ASSUME NEW q \in Procs, NEW r \in Procs,
               pc'[q] = "insert" /\ pc'[r] = "insert" /\ ptr'[q] = ptr'[r]
        PROVE  q = r
    BY <2>3, <1>7 DEF IInv, CallsOK
  <2> QED
    BY <2>2, <2>3 DEF CallsOK
<1>12. \A n \in Listed' : n \in Listed /\ node'[n].dl = node[n].dl
  BY <1>1, <1>8
<1>13. TimeOK'
  BY <1>1, <1>7, <1>9, <1>12, <1>2, TimeKept DEF IInv, clock
<1>14. SleepCovered'
  <2>1. WakeComing => WakeComing'
    BY <1>1, <1>7, ComingKept
  <2> QED
    BY <2>1, <1>1, <1>2, <1>7, <1>12, SleepKept DEF IInv
<1>15. WakeupNotStranded'
  BY <1>1, <1>7, StrandKept DEF IInv
<1> QED
  BY <1>9, <1>10, <1>11, <1>13, <1>14, <1>15 DEF IInv

\* A call allocates a node for its timer, or gives up.
LEMMA AllocOK == ASSUME IInv, NEW p \in Procs, Alloc(p) PROVE IInv'
<1>1. /\ pc[p] = "alloc"
      /\ UNCHANGED <<list, sem, wpend, owner, time, tnow, sleep, wake, due, calls>>
  BY DEF Alloc, At, semvars, clock, hvars
<1>2. CallOK(p) /\ list \in Seq(Nodes) /\ pc \in [Procs -> Labels] /\ DOMAIN job = Procs
      /\ DOMAIN ptr = Procs /\ TimerTask \in Procs /\ DOMAIN node = Nodes
  BY ProcsAssumption DEF IInv, TypeOK, CallsOK, Procs
<1>3. job[p].key \in Keys /\ job[p].op = "setfn"
  BY <1>1, <1>2 DEF CallOK
<1>4. Listed' = Listed /\ Listed \subseteq Nodes
  BY <1>1, <1>2 DEF Listed, Range
<1>5. CASE Return(p) /\ node' = node
  <2>1. /\ pc' = [pc EXCEPT ![p] = Rest(p)] /\ job' = [job EXCEPT ![p] = NoJob]
        /\ ptr' = [ptr EXCEPT ![p] = NoNode]
    BY <1>5 DEF Return, Go
  <2>2. /\ \A q \in Procs \ {p} : pc'[q] = pc[q] /\ job'[q] = job[q] /\ ptr'[q] = ptr[q]
        /\ pc'[p] \in {"idle", "call"}
    BY <1>2, <2>1 DEF Rest
  <2>3. TypeOK'
    <3>1. pc' \in [Procs -> Labels]
      BY <1>2, <2>1 DEF Labels, Rest
    <3> QED
      BY <3>1, <2>1, ReturnTyped, <1>1, <1>5 DEF IInv, TypeOK
  <2>4. ListOK'
    BY <1>1, <1>5, ListKept DEF IInv
  <2>5. CallsOK'
    BY <1>1, <1>5, <2>2, CallsKept DEF IInv, Busy
  <2>6. \A n \in Listed' : n \in Listed /\ node'[n].dl = node[n].dl
    BY <1>4, <1>5
  <2>7. TimeOK'
    BY <1>1, <1>2, <2>2, <2>3, <2>6, TimeKept DEF IInv, clock
  <2>8. WakeComing => WakeComing'
    BY <1>1, <2>2, ComingKept
  <2>9. SleepCovered'
    BY <1>1, <1>2, <2>2, <2>6, <2>8, SleepKept DEF IInv
  <2>10. WakeupNotStranded'
    BY <1>1, <2>2, StrandKept DEF IInv
  <2> QED
    BY <2>3, <2>4, <2>5, <2>7, <2>9, <2>10 DEF IInv
<1>6. CASE ~(Return(p) /\ node' = node)
  <2>1. PICK n \in Nodes \ Allocated :
          /\ node' = [node EXCEPT ![n] = Unused] /\ ptr' = [ptr EXCEPT ![p] = n]
          /\ pc' = [pc EXCEPT ![p] = "insert"] /\ job' = job
    BY <1>6 DEF Alloc, Go
  <2>2. n \notin Listed /\ \A q \in Procs : pc[q] = "insert" => ptr[q] # n
    BY <2>1 DEF Allocated
  <2>3. /\ \A q \in Procs \ {p} : pc'[q] = pc[q] /\ job'[q] = job[q] /\ ptr'[q] = ptr[q]
        /\ pc'[p] = "insert" /\ job'[p] = job[p] /\ ptr'[p] = n
    BY <1>2, <2>1
  <2>4. node'[n] = Unused /\ \A m \in Nodes \ {n} : node'[m] = node[m]
    BY <1>2, <2>1
  <2>5. TypeOK'
    <3>1. pc' \in [Procs -> Labels]
      BY <1>2, <2>1 DEF Labels
    <3>2. node' \in [Nodes -> [key : Keys \cup {NoKey}, fn : BOOLEAN, dl : Nat, per : Nat]]
      BY <2>1 DEF IInv, TypeOK, Unused
    <3>3. ptr' \in [Procs -> Nodes \cup {NoNode}]
      BY <2>1 DEF IInv, TypeOK
    <3> QED
      BY <3>1, <3>2, <3>3, <1>1, <2>1 DEF IInv, TypeOK
  <2>6. \A m \in Listed : node'[m] = node[m]
    BY <1>4, <2>2, <2>4
  <2>7. ListOK'
    BY <1>1, <1>4, <2>6
    DEF IInv, ListOK, Distinct, KeysOnce, DuesRight, ArmedHaveFn, Armed
  <2>8. CallsOK'
    <3>1. ASSUME NEW q \in Procs \ {p} PROVE CallOK(q)'
      <4>1. CallOK(q)
        BY DEF IInv, CallsOK
      <4>2. pc[q] = "insert" => ptr[q] \notin Listed' /\ node'[ptr[q]] = node[ptr[q]]
        BY <4>1, <1>4, <2>2, <2>4 DEF CallOK, Fresh
      <4> QED
        BY <4>1, <4>2, <2>3, <2>6, <1>4, OtherKept
    <3>2. CallOK(p)'
      BY <1>3, <1>4, <2>1, <2>2, <2>3, <2>4 DEF CallOK, Fresh
    <3>3. ASSUME NEW q \in Procs, NEW r \in Procs,
                 pc'[q] = "insert" /\ pc'[r] = "insert" /\ ptr'[q] = ptr'[r]
          PROVE  q = r
      BY <3>3, <2>2, <2>3 DEF IInv, CallsOK
    <3> QED
      BY <3>1, <3>2, <3>3 DEF CallsOK
  <2>9. \A m \in Listed' : m \in Listed /\ node'[m].dl = node[m].dl
    BY <1>4, <2>6
  <2>10. TimeOK'
    BY <1>1, <1>2, <2>3, <2>5, <2>9, TimeKept DEF IInv, clock
  <2>11. WakeComing => WakeComing'
    BY <1>1, <2>3, ComingKept
  <2>12. SleepCovered'
    BY <1>1, <1>2, <2>3, <2>9, <2>11, SleepKept DEF IInv
  <2>13. WakeupNotStranded'
    BY <1>1, <2>3, StrandKept DEF IInv
  <2> QED
    BY <2>5, <2>7, <2>8, <2>10, <2>12, <2>13 DEF IInv
<1> QED
  BY <1>5, <1>6

\* The new node goes into the list, unless another context has put one there.
LEMMA InsertOK == ASSUME IInv, NEW p \in Procs, Insert(p) PROVE IInv'
<1> DEFINE i == Match(job[p].key)
<1>1. /\ pc[p] = "insert" /\ pc' = [pc EXCEPT ![p] = job[p].op]
      /\ UNCHANGED <<sem, wpend, job, owner, time, tnow, sleep, wake, due, calls>>
  BY DEF Insert, At, Go, semvars, clock, hvars
<1>2. CallOK(p) /\ list \in Seq(Nodes) /\ pc \in [Procs -> Labels] /\ DOMAIN job = Procs
      /\ DOMAIN ptr = Procs /\ TimerTask \in Procs
  BY ProcsAssumption DEF IInv, TypeOK, CallsOK, Procs
<1>3. job[p].key \in Keys /\ job[p].op = "setfn" /\ Fresh(p)
  BY <1>1, <1>2 DEF CallOK
<1>4. \/ i = 0 /\ \A n \in Listed : node[n].key # job[p].key
      \/ i # 0 /\ list[i] \in Listed /\ node[list[i]].key = job[p].key
  BY <1>2, MatchFinds
<1>5. \/ i # 0 /\ ptr' = [ptr EXCEPT ![p] = list[i]] /\ list' = list /\ node' = node
      \/ /\ i = 0 /\ node' = [node EXCEPT ![ptr[p]].key = job[p].key]
         /\ list' = <<ptr[p]>> \o list /\ ptr' = ptr
  BY DEF Insert, tvars
<1> HIDE DEF i
<1>6. Listed \subseteq Nodes
  BY <1>2 DEF Listed, Range
<1>7. /\ \A q \in Procs \ {p} : pc'[q] = pc[q] /\ job'[q] = job[q] /\ ptr'[q] = ptr[q]
      /\ pc'[p] = "setfn" /\ job'[p] = job[p]
  BY <1>1, <1>2, <1>3, <1>5
<1>8. pc' \in [Procs -> Labels]
  BY <1>1, <1>2, <1>3 DEF Labels
<1>9. WakeComing => WakeComing'
  BY <1>1, <1>7, ComingKept
<1>10. WakeupNotStranded'
  BY <1>1, <1>7, StrandKept DEF IInv
<1>11. ASSUME NEW q \in Procs, NEW r \in Procs,
              pc'[q] = "insert" /\ pc'[r] = "insert" /\ ptr'[q] = ptr'[r]
       PROVE  q = r
  BY <1>11, <1>7 DEF IInv, CallsOK
<1>12. CASE i # 0
  <2>1. ptr' = [ptr EXCEPT ![p] = list[i]] /\ list' = list /\ node' = node /\ list[i] \in Listed
        /\ node[list[i]].key = job[p].key /\ Listed' = Listed
    BY <1>4, <1>5, <1>12 DEF Listed
  <2>2. ptr' \in [Procs -> Nodes \cup {NoNode}]
    BY <2>1, <1>6 DEF IInv, TypeOK
  <2>3. TypeOK'
    BY <2>1, <2>2, <1>1, <1>8 DEF IInv, TypeOK
  <2>4. ListOK'
    BY <2>1, <1>1, ListKept DEF IInv
  <2>5. CallsOK'
    <3>1. ASSUME NEW q \in Procs \ {p} PROVE CallOK(q)'
      <4>1. CallOK(q)
        BY DEF IInv, CallsOK
      <4>2. pc[q] = "insert" => ptr[q] \notin Listed' /\ node'[ptr[q]] = node[ptr[q]]
        BY <4>1, <2>1 DEF CallOK, Fresh
      <4> QED
        BY <4>1, <4>2, <2>1, <1>7, OtherKept
    <3>2. ptr'[p] = list[i]
      BY <2>1, <1>2
    <3>3. CallOK(p)'
      BY <3>2, <2>1, <1>3, <1>7 DEF CallOK
    <3> QED
      BY <3>1, <3>3, <1>11 DEF CallsOK
  <2>6. \A m \in Listed' : m \in Listed /\ node'[m].dl = node[m].dl
    BY <2>1
  <2>7. TimeOK'
    BY <1>1, <1>2, <1>7, <2>3, <2>6, TimeKept DEF IInv, clock
  <2>8. SleepCovered'
    BY <1>1, <1>2, <1>7, <1>9, <2>6, SleepKept DEF IInv
  <2> QED
    BY <2>3, <2>4, <2>5, <2>7, <2>8, <1>10 DEF IInv
<1>13. CASE i = 0
  <2> DEFINE n == ptr[p]
  <2>1. /\ n \in Nodes \ Listed /\ node[n] = Unused
        /\ node' = [node EXCEPT ![n].key = job[p].key]
        /\ list' = <<n>> \o list /\ ptr' = ptr /\ ptr'[p] = n
        /\ \A m \in Listed : node[m].key # job[p].key
    BY <1>3, <1>4, <1>5, <1>13 DEF Fresh
  <2> HIDE DEF n
  <2>2. /\ list' \in Seq(Nodes) /\ Listed' = {n} \cup Listed
        /\ DOMAIN list' = 1 .. Len(list) + 1
        /\ list'[1] = n /\ \A j \in 1 .. Len(list) : list'[j + 1] = list[j]
    BY <2>1, <1>2, Prepended DEF Listed
  <2>3. /\ node' \in [Nodes -> [key : Keys \cup {NoKey}, fn : BOOLEAN, dl : Nat, per : Nat]]
        /\ node'[n].key = job[p].key /\ node'[n].dl = 0
        /\ \A m \in Nodes \ {n} : node'[m] = node[m]
    <3>1. node \in [Nodes -> [key : Keys \cup {NoKey}, fn : BOOLEAN, dl : Nat, per : Nat]]
      BY DEF IInv, TypeOK
    <3>2. node'[n] = [node[n] EXCEPT !.key = job[p].key]
      BY <3>1, <2>1
    <3>3. node[n].dl = 0
      BY <2>1 DEF Unused
    <3>4. node'[n].dl = node[n].dl /\ node'[n].key = job[p].key
      BY <3>1, <3>2, <2>1
    <3>5. \A m \in Nodes \ {n} : node'[m] = node[m]
      BY <3>1, <2>1
    <3>6. node' \in [Nodes -> [key : Keys \cup {NoKey}, fn : BOOLEAN, dl : Nat, per : Nat]]
      <4> DEFINE R == [key : Keys \cup {NoKey}, fn : BOOLEAN, dl : Nat, per : Nat]
      <4>1. node[n] \in R
        BY <3>1, <2>1
      <4>2. [node[n] EXCEPT !.key = job[p].key] \in R
        BY <4>1, <1>3
      <4>3. node \in [Nodes -> R] /\ node'[n] \in R
        BY <3>1, <3>2, <4>2
      <4> HIDE DEF R
      <4>4. node' = [m \in Nodes |-> IF m = n THEN node'[n] ELSE node[m]]
        BY <4>3, <3>5, <2>1
      <4>5. node' \in [Nodes -> R]
        BY <4>3, <4>4
      <4> QED
        BY <4>5 DEF R
    <3> QED
      BY <3>3, <3>4, <3>5, <3>6
  <2>4. TypeOK'
    BY <2>1, <2>2, <2>3, <1>1, <1>8 DEF IInv, TypeOK
  <2>5. \A m \in Listed : node'[m] = node[m] /\ m # n
    BY <2>1, <2>3, <1>6
  <2>6. ListOK'
    <3>1. Distinct'
      <4> SUFFICES ASSUME NEW j \in DOMAIN list', NEW k \in DOMAIN list', list'[j] = list'[k]
                   PROVE  j = k
        BY DEF Distinct
      <4>1. \A h \in DOMAIN list : list[h] # n
        BY <2>1 DEF Listed, Range
      <4>2. Len(list) \in Nat /\ DOMAIN list = 1 .. Len(list)
        BY <1>2
      <4>3. \A h \in DOMAIN list' :
              h = 1 \/ (h - 1 \in DOMAIN list /\ list'[h] = list[h - 1])
        <5> SUFFICES ASSUME NEW h \in DOMAIN list', h # 1
                     PROVE  h - 1 \in DOMAIN list /\ list'[h] = list[h - 1]
          OBVIOUS
        <5>1. h - 1 \in 1 .. Len(list) /\ (h - 1) + 1 = h
          BY <2>2, <4>2
        <5>2. list'[(h - 1) + 1] = list[h - 1]
          BY <5>1, <2>2
        <5> QED
          BY <5>1, <5>2, <4>2
      <4>4. j \in Nat /\ k \in Nat
        BY <2>2, <4>2
      <4>5. CASE j = 1 \/ k = 1
        BY <4>5, <4>1, <4>3, <2>2
      <4>6. CASE j # 1 /\ k # 1
        <5>1. j - 1 = k - 1
          BY <4>6, <4>3 DEF IInv, ListOK, Distinct
        <5> QED
          BY <5>1, <4>4
      <4> QED
        BY <4>5, <4>6
    <3>2. KeysOnce'
      BY <2>1, <2>2, <2>3, <2>5, <1>3 DEF IInv, ListOK, KeysOnce
    <3>3. DuesRight'
      <4>1. due[job[p].key] = 0
        BY <2>1, <1>3 DEF IInv, ListOK, DuesRight
      <4>2. ASSUME NEW m \in Listed' PROVE node'[m].dl = due'[node'[m].key]
        <5>1. CASE m = n
          BY <5>1, <4>1, <2>3, <1>1
        <5>2. CASE m # n
          BY <5>2, <2>2, <2>5, <1>1 DEF IInv, ListOK, DuesRight
        <5> QED
          BY <5>1, <5>2
      <4>3. ASSUME NEW k \in Keys, \A m \in Listed' : node'[m].key # k PROVE due'[k] = 0
        BY <4>3, <2>2, <2>5, <1>1 DEF IInv, ListOK, DuesRight
      <4> QED
        BY <4>2, <4>3 DEF DuesRight
    <3>4. ArmedHaveFn'
      BY <2>2, <2>3, <2>5 DEF IInv, ListOK, ArmedHaveFn, Armed
    <3> QED
      BY <3>1, <3>2, <3>3, <3>4 DEF ListOK
  <2>7. CallsOK'
    <3>1. ASSUME NEW q \in Procs \ {p} PROVE CallOK(q)'
      <4>1. CallOK(q)
        BY DEF IInv, CallsOK
      <4>2. pc[q] = "insert" => ptr[q] # n
        BY <2>1, <1>1 DEF IInv, CallsOK, n
      <4>3. pc[q] = "insert" => ptr[q] \notin Listed' /\ node'[ptr[q]] = node[ptr[q]]
        BY <4>1, <4>2, <2>2, <2>3 DEF CallOK, Fresh
      <4>4. \A m \in Listed : m \in Listed' /\ node'[m] = node[m]
        BY <2>2, <2>5
      <4> QED
        BY <4>1, <4>3, <4>4, <1>7, OtherKept
    <3>3. CallOK(p)'
      BY <2>1, <2>2, <2>3, <1>3, <1>7 DEF CallOK
    <3> QED
      BY <3>1, <3>3, <1>11 DEF CallsOK
  <2>8. ASSUME NEW m \in Listed', Armed(m)' PROVE m \in Listed /\ node'[m].dl = node[m].dl
    <3>1. m # n
      BY <2>8, <2>3 DEF Armed
    <3> QED
      BY <3>1, <2>2, <2>5
  <2>9. TimeOK'
    BY <1>1, <1>2, <1>7, <2>4, <2>8, TimeKept DEF IInv, clock
  <2>10. SleepCovered'
    BY <1>1, <1>2, <1>7, <1>9, <2>8, SleepKept DEF IInv
  <2> QED
    BY <2>4, <2>6, <2>7, <2>9, <2>10, <1>10 DEF IInv
<1> QED
  BY <1>12, <1>13

-----------------------------------------------------------------------------
(* Steps that change one listed node.                                      *)

LEMMA NodeUpdated ==
  ASSUME TypeOK, ListOK, NEW n \in Listed, list' = list,
         \A m \in Nodes \ {n} : node'[m] = node[m], node'[n].key = node[n].key,
         node[n].fn => node'[n].fn, node'[n].dl # 0 => node'[n].fn,
         due' = [due EXCEPT ![node[n].key] = node'[n].dl]
  PROVE  /\ ListOK' /\ Listed' = Listed
         /\ \A m \in Listed : node'[m].key = node[m].key /\ (node[m].fn => node'[m].fn)
         /\ \A m \in Listed \ {n} : node'[m] = node[m]
<1>1. Listed' = Listed /\ Listed \subseteq Nodes /\ due \in [Keys -> Nat]
  <2>1. Listed' = Listed
    BY DEF Listed
  <2>2. list \in Seq(Nodes) /\ due \in [Keys -> Nat]
    BY DEF TypeOK
  <2> QED
    BY <2>1, <2>2 DEF Listed, Range
<1>2. \A m \in Listed \ {n} : node'[m] = node[m]
  BY <1>1
<1>3. \A m \in Listed : node'[m].key = node[m].key /\ (node[m].fn => node'[m].fn)
  BY <1>2
<1>4. Distinct'
  BY DEF ListOK, Distinct
<1>5. KeysOnce'
  BY <1>1, <1>3 DEF ListOK, KeysOnce
<1>6. DuesRight'
  <2>1. ASSUME NEW m \in Listed PROVE node'[m].dl = due'[node'[m].key]
    <3>1. node[m].key \in Keys /\ node[n].key \in Keys
      BY DEF ListOK, KeysOnce
    <3>2. CASE m = n
      BY <3>1, <3>2, <1>1
    <3>3. CASE m # n
      <4>1. node[m].key # node[n].key
        BY <3>3 DEF ListOK, KeysOnce
      <4>2. node'[m] = node[m] /\ node[m].dl = due[node[m].key]
        BY <3>3, <1>2 DEF ListOK, DuesRight
      <4> QED
        BY <3>1, <4>1, <4>2, <1>1
    <3> QED
      BY <3>2, <3>3
  <2>2. ASSUME NEW k \in Keys, \A m \in Listed : node'[m].key # k PROVE due'[k] = 0
    <3>1. \A m \in Listed : node[m].key # k
      BY <2>2, <1>3
    <3>2. due[k] = 0 /\ k # node[n].key
      BY <3>1 DEF ListOK, DuesRight
    <3> QED
      BY <3>2, <1>1
  <2> QED
    BY <2>1, <2>2, <1>1 DEF DuesRight
<1>7. ArmedHaveFn'
  BY <1>1, <1>2 DEF ListOK, ArmedHaveFn, Armed
<1> QED
  BY <1>1, <1>2, <1>3, <1>4, <1>5, <1>6, <1>7 DEF ListOK

LEMMA OthersThrough ==
  ASSUME TypeOK, ListOK, NEW q \in Procs, CallOK(q), NEW n \in Listed, list' = list,
         \A m \in Nodes \ {n} : node'[m] = node[m],
         Listed' = Listed,
         \A m \in Listed : node'[m].key = node[m].key /\ (node[m].fn => node'[m].fn),
         pc'[q] = pc[q], job'[q] = job[q], ptr'[q] = ptr[q]
  PROVE  CallOK(q)'
<1>1. pc[q] = "insert" => ptr[q] \notin Listed' /\ node'[ptr[q]] = node[ptr[q]]
  BY DEF CallOK, Fresh
<1> QED
  BY <1>1, OtherKept

\* esp_shim_timer_setfn's and disarm's second halves.
LEMMA ResetOK == ASSUME IInv, NEW p \in Procs, SetFn(p) \/ Disarm(p) PROVE IInv'
<1> DEFINE n == ptr[p]
           T == [key : Keys \cup {NoKey}, fn : BOOLEAN, dl : Nat, per : Nat]
<1>1. /\ pc[p] \in {"setfn", "disarm"} /\ pc' = [pc EXCEPT ![p] = Rest(p)]
      /\ job' = [job EXCEPT ![p] = NoJob] /\ ptr' = [ptr EXCEPT ![p] = NoNode]
      /\ due' = [due EXCEPT ![job[p].key] = 0]
      /\ UNCHANGED <<list, sem, wpend, owner, time, tnow, sleep, wake, calls>>
  BY DEF SetFn, Disarm, At, Return, Go, SetDue, semvars, clock
<1>2. CallOK(p) /\ pc \in [Procs -> Labels] /\ DOMAIN job = Procs
      /\ DOMAIN ptr = Procs /\ TimerTask \in Procs /\ node \in [Nodes -> T]
  BY ProcsAssumption DEF IInv, TypeOK, CallsOK, Procs
<1>3. n \in Listed /\ node[n].key = job[p].key /\ job[p].key \in Keys
  BY <1>1, <1>2 DEF CallOK
<1>4. Listed \subseteq Nodes
  <2>1. list \in Seq(Nodes)
    BY DEF IInv, TypeOK
  <2> QED
    BY <2>1 DEF Listed, Range
<1>5. \/ node' = [node EXCEPT ![n] = [node[n] EXCEPT !.fn = TRUE, !.dl = 0]]
      \/ node' = [node EXCEPT ![n] = [node[n] EXCEPT !.dl = 0]]
  <2>1. CASE SetFn(p)
    <3>1. node' = [node EXCEPT ![ptr[p]].fn = TRUE, ![ptr[p]].dl = 0]
      BY <2>1 DEF SetFn
    <3> QED
      BY <3>1, <1>2, <1>3, <1>4
  <2>2. CASE Disarm(p)
    BY <2>2 DEF Disarm
  <2> QED
    BY <2>1, <2>2
<1> HIDE DEF n
<1>6. /\ node' \in [Nodes -> T] /\ \A m \in Nodes \ {n} : node'[m] = node[m]
      /\ node'[n].key = node[n].key /\ (node[n].fn => node'[n].fn) /\ node'[n].dl = 0
  <2>1. node[n] \in T /\ n \in Nodes
    BY <1>2, <1>3, <1>4
  <2>2. /\ [node[n] EXCEPT !.fn = TRUE, !.dl = 0] \in T
        /\ [node[n] EXCEPT !.fn = TRUE, !.dl = 0].key = node[n].key
        /\ [node[n] EXCEPT !.fn = TRUE, !.dl = 0].fn
        /\ [node[n] EXCEPT !.fn = TRUE, !.dl = 0].dl = 0
    BY <2>1
  <2>3. /\ [node[n] EXCEPT !.dl = 0] \in T
        /\ [node[n] EXCEPT !.dl = 0].key = node[n].key
        /\ [node[n] EXCEPT !.dl = 0].fn = node[n].fn
        /\ [node[n] EXCEPT !.dl = 0].dl = 0
    BY <2>1
  <2> HIDE DEF T
  <2>4. \E t \in T : /\ node' = [node EXCEPT ![n] = t] /\ t.key = node[n].key
                    /\ (node[n].fn => t.fn) /\ t.dl = 0
    BY <1>5, <2>2, <2>3
  <2> QED
    BY <2>1, <2>4, <1>2
<1>7. /\ \A q \in Procs \ {p} : pc'[q] = pc[q] /\ job'[q] = job[q] /\ ptr'[q] = ptr[q]
      /\ pc'[p] \in {"idle", "call"}
  BY <1>1, <1>2 DEF Rest
<1>8. TypeOK'
  <2>1. pc' \in [Procs -> Labels]
    BY <1>1, <1>2 DEF Labels, Rest
  <2>2. due' \in [Keys -> Nat]
    BY <1>1 DEF IInv, TypeOK
  <2> QED
    BY <2>1, <2>2, <1>1, <1>6, ReturnTyped DEF IInv, TypeOK
<1>9. /\ ListOK' /\ Listed' = Listed
      /\ \A m \in Listed : node'[m].key = node[m].key /\ (node[m].fn => node'[m].fn)
      /\ \A m \in Listed \ {n} : node'[m] = node[m]
  BY <1>1, <1>3, <1>6, NodeUpdated DEF IInv
<1>10. CallsOK'
  <2>1. ASSUME NEW q \in Procs \ {p} PROVE CallOK(q)'
    BY <1>1, <1>3, <1>6, <1>7, <1>9, OthersThrough DEF IInv, CallsOK
  <2>2. CallOK(p)'
    BY <1>7 DEF CallOK
  <2>3. ASSUME NEW q \in Procs, NEW r \in Procs,
               pc'[q] = "insert" /\ pc'[r] = "insert" /\ ptr'[q] = ptr'[r]
        PROVE  q = r
    BY <2>3, <1>7 DEF IInv, CallsOK
  <2> QED
    BY <2>1, <2>2, <2>3 DEF CallsOK
<1>11. \A m \in Listed' : Armed(m)' => m \in Listed /\ node'[m].dl = node[m].dl
  BY <1>6, <1>9 DEF Armed
<1>12. TimeOK'
  BY <1>1, <1>2, <1>7, <1>8, <1>11, TimeKept DEF IInv, clock
<1>13. WakeComing => WakeComing'
  BY <1>1, <1>7, ComingKept
<1>14. SleepCovered'
  BY <1>1, <1>2, <1>7, <1>11, <1>13, SleepKept DEF IInv
<1>15. WakeupNotStranded'
  BY <1>1, <1>7, StrandKept DEF IInv
<1> QED
  BY <1>8, <1>9, <1>10, <1>12, <1>14, <1>15 DEF IInv

\* esp_shim_timer_arm_us's second half.
LEMMA ArmOK == ASSUME IInv, NEW p \in Procs, Arm(p) PROVE IInv'
<1> DEFINE n == ptr[p]
           d == time + job[p].us
           T == [key : Keys \cup {NoKey}, fn : BOOLEAN, dl : Nat, per : Nat]
           per == IF job[p].repeat THEN job[p].us ELSE 0
<1>1. /\ pc[p] = "arm" /\ pc' = [pc EXCEPT ![p] = "signal"]
      /\ due' = [due EXCEPT ![job[p].key] = d]
      /\ UNCHANGED <<list, sem, wpend, job, ptr, owner, time, tnow, sleep, wake, calls>>
  BY DEF Arm, At, Go, SetDue, semvars, clock
<1>2. CallOK(p) /\ pc \in [Procs -> Labels] /\ TimerTask \in Procs /\ node \in [Nodes -> T]
  BY ProcsAssumption DEF IInv, TypeOK, CallsOK, Procs
<1>3. /\ n \in Listed /\ node[n].key = job[p].key /\ job[p].key \in Keys
      /\ node[n].fn /\ job[p].us \in Delays
  BY <1>1, <1>2 DEF CallOK
<1>4. Listed \subseteq Nodes
  <2>1. list \in Seq(Nodes)
    BY DEF IInv, TypeOK
  <2> QED
    BY <2>1 DEF Listed, Range
<1>5. d \in Nat /\ time < d /\ time \in Nat /\ per \in Nat
  <2>1. time \in 1..(MaxTime + MaxSleep)
    BY DEF IInv, TypeOK
  <2>2. job[p].us \in Nat /\ job[p].us > 0
    BY <1>3, CallsAssumption
  <2>3. time \in Nat
    BY <2>1, BoundsAssumption
  <2> QED
    BY <2>2, <2>3
<1>6. node' = [node EXCEPT ![n] = [node[n] EXCEPT !.dl = d, !.per = per]]
  <2>1. node' = [node EXCEPT ![n].dl = d, ![n].per = per]
    BY DEF Arm
  <2> HIDE DEF n, d, per, T
  <2> QED
    BY <2>1, <1>2, <1>3, <1>4
<1> HIDE DEF n, d, per
<1>7. /\ node' \in [Nodes -> T] /\ \A m \in Nodes \ {n} : node'[m] = node[m]
      /\ node'[n].key = node[n].key /\ node'[n].fn /\ node'[n].dl = d
  <2> DEFINE t == [node[n] EXCEPT !.dl = d, !.per = per]
  <2>1. node[n] \in T /\ n \in Nodes
    BY <1>2, <1>3, <1>4
  <2>2. t \in T /\ t.key = node[n].key /\ t.fn = node[n].fn /\ t.dl = d
    BY <2>1, <1>5
  <2> HIDE DEF t, T
  <2>3. node' = [node EXCEPT ![n] = t]
    BY <1>6 DEF t
  <2> QED
    BY <2>1, <2>2, <2>3, <1>2, <1>3
<1>8. /\ \A q \in Procs \ {p} : pc'[q] = pc[q] /\ job'[q] = job[q] /\ ptr'[q] = ptr[q]
      /\ pc'[p] = "signal"
  BY <1>1, <1>2
<1>9. TypeOK'
  <2>1. pc' \in [Procs -> Labels]
    BY <1>1, <1>2 DEF Labels
  <2>2. due' \in [Keys -> Nat]
    BY <1>1, <1>5 DEF IInv, TypeOK
  <2> QED
    BY <2>1, <2>2, <1>1, <1>7 DEF IInv, TypeOK
<1>10. /\ ListOK' /\ Listed' = Listed
       /\ \A m \in Listed : node'[m].key = node[m].key /\ (node[m].fn => node'[m].fn)
       /\ \A m \in Listed \ {n} : node'[m] = node[m]
  BY <1>1, <1>3, <1>7, NodeUpdated DEF IInv
<1>11. CallsOK'
  <2>1. ASSUME NEW q \in Procs \ {p} PROVE CallOK(q)'
    BY <1>1, <1>3, <1>7, <1>8, <1>10, OthersThrough DEF IInv, CallsOK
  <2>2. CallOK(p)'
    BY <1>8 DEF CallOK
  <2>3. ASSUME NEW q \in Procs, NEW r \in Procs,
               pc'[q] = "insert" /\ pc'[r] = "insert" /\ ptr'[q] = ptr'[r]
        PROVE  q = r
    BY <2>3, <1>8 DEF IInv, CallsOK
  <2> QED
    BY <2>1, <2>2, <2>3 DEF CallsOK
<1>12. WakeComing'
  BY <1>8 DEF WakeComing
<1>13. \A m \in Listed' : Armed(m)' =>
         \/ m \in Listed /\ node'[m].dl = node[m].dl
         \/ time < node'[m].dl
  BY <1>5, <1>7, <1>10
<1>14. TimeOK'
  BY <1>1, <1>2, <1>8, <1>9, <1>13, TimeKept DEF IInv, clock
<1>15. SleepCovered'
  BY <1>12 DEF SleepCovered
<1>16. WakeupNotStranded'
  BY <1>1, <1>8, StrandKept DEF IInv
<1> QED
  BY <1>9, <1>10, <1>11, <1>14, <1>15, <1>16 DEF IInv

\* What sig_sem changes: the task waits no longer, or the count is one.
LEMMA SigSemDoes ==
  ASSUME TypeOK, NEW p \in Procs, pc[p] # "wait", NEW l \in Labels \ {"wait"}, SigSem(p, l)
  PROVE  /\ pc' \in [Procs -> Labels] /\ sem' \in 0..1 /\ pc'[p] = l
         /\ \A q \in Procs \ {p} : pc'[q] = pc[q] \/ (pc'[q] = "now" /\ pc[q] = "wait")
         /\ sem' = 1 \/ pc'[TimerTask] = "now"
<1>1. pc \in [Procs -> Labels] /\ sem \in 0..1 /\ TimerTask \in Procs
  BY ProcsAssumption DEF TypeOK, Procs
<1>2. "now" \in Labels
  BY DEF Labels
<1>3. CASE pc[TimerTask] = "wait"
  <2>1. pc' = [pc EXCEPT ![TimerTask] = "now", ![p] = l] /\ sem' = sem
    BY <1>3 DEF SigSem
  <2>2. TimerTask # p
    BY <1>3
  <2> QED
    BY <2>1, <2>2, <1>1, <1>2, <1>3
<1>4. CASE pc[TimerTask] # "wait"
  <2>1. pc' = [pc EXCEPT ![p] = l] /\ sem' = 1
    BY <1>4 DEF SigSem, Go
  <2> QED
    BY <2>1, <1>1
<1> QED
  BY <1>3, <1>4

\* esp_shim_signal_or_pend.
LEMMA SignalOK == ASSUME IInv, NEW p \in Procs, SignalOrPend(p) PROVE IInv'
<1>1. /\ pc[p] = "signal"
      /\ job' = [job EXCEPT ![p] = NoJob] /\ ptr' = [ptr EXCEPT ![p] = NoNode]
      /\ UNCHANGED <<list, node, owner, time, tnow, sleep, wake, due, calls>>
  BY DEF SignalOrPend, At, tvars, clock, hvars
<1>2. /\ pc \in [Procs -> Labels] /\ DOMAIN job = Procs /\ DOMAIN ptr = Procs
      /\ TimerTask \in Procs /\ owner \in Procs \cup {NoProc} /\ TypeOK
      /\ Rest(p) \in Labels \ {"wait"} /\ Rest(p) \in {"idle", "call"}
  BY ProcsAssumption DEF IInv, TypeOK, Procs, Rest, Labels
<1>3. /\ pc' \in [Procs -> Labels] /\ sem' \in 0..1 /\ pc'[p] = Rest(p)
      /\ \A q \in Procs \ {p} : pc'[q] = pc[q] \/ (pc'[q] = "now" /\ pc[q] = "wait")
      /\ wpend' \in BOOLEAN /\ (pc'[TimerTask] = "now" \/ WakeComing')
      /\ wpend' = wpend \/ owner # NoProc
  <2>1. CASE ~Masked(p) /\ SigSem(p, Rest(p)) /\ wpend' = wpend
    <3>1. wpend' \in BOOLEAN
      BY <2>1, Zenon DEF IInv, TypeOK
    <3>2. /\ pc' \in [Procs -> Labels] /\ sem' \in 0..1 /\ pc'[p] = Rest(p)
          /\ \A q \in Procs \ {p} : pc'[q] = pc[q] \/ (pc'[q] = "now" /\ pc[q] = "wait")
          /\ sem' = 1 \/ pc'[TimerTask] = "now"
      BY <2>1, <1>1, <1>2, SigSemDoes
    <3> QED
      BY <3>1, <3>2, <2>1 DEF WakeComing
  <2>2. CASE Masked(p) /\ wpend' = TRUE /\ pc' = [pc EXCEPT ![p] = Rest(p)] /\ sem' = sem
    <3>1. owner # NoProc
      BY <2>2, ProcsAssumption DEF Masked
    <3>2. sem' \in 0..1
      BY <2>2 DEF IInv, TypeOK
    <3>3. /\ pc' \in [Procs -> Labels] /\ pc'[p] = Rest(p)
          /\ \A q \in Procs \ {p} : pc'[q] = pc[q]
      BY <2>2, <1>2
    <3> QED
      BY <3>1, <3>2, <3>3, <2>2 DEF WakeComing
  <2> QED
    BY <2>1, <2>2 DEF SignalOrPend, Go
<1>4. \A q \in Procs : pc'[q] \in Busy =>
        pc'[q] = pc[q] /\ job'[q] = job[q] /\ ptr'[q] = ptr[q]
  BY <1>1, <1>2, <1>3 DEF Busy
<1>5. TypeOK'
  BY <1>1, <1>3, ReturnTyped DEF IInv, TypeOK
<1>6. ListOK' /\ CallsOK'
  BY <1>1, <1>4, ListKept, CallsKept DEF IInv
<1>7. \A m \in Listed' : m \in Listed /\ node'[m].dl = node[m].dl
  BY <1>1 DEF Listed
<1>8. TimeOK'
  BY <1>1, <1>2, <1>3, <1>5, <1>7, TimeKept DEF IInv, clock
<1>9. SleepCovered'
  BY <1>3 DEF SleepCovered
<1>10. WakeupNotStranded'
  BY <1>1, <1>2, <1>3 DEF IInv, WakeupNotStranded
<1> QED
  BY <1>5, <1>6, <1>8, <1>9, <1>10 DEF IInv

\* esp_shim_timer_done: the node of a timer nobody else uses is unlinked and freed.
LEMMA DoneOK == ASSUME IInv, NEW p \in Procs, Done(p) PROVE IInv'
<1>1. /\ pc[p] = Rest(p) /\ calls < MaxCalls /\ calls' = calls + 1
      /\ UNCHANGED <<sem, wpend, pc, job, ptr, owner, time, tnow, sleep, wake>>
  BY DEF Done, At, semvars, pvars, clock
<1>2. PICK k \in Keys :
        /\ Alone(p, k) /\ Match(k) # 0
        /\ list' = RemoveAt(list, Match(k))
        /\ node' = [node EXCEPT ![list[Match(k)]] = Unused]
        /\ due' = [due EXCEPT ![k] = 0]
  BY DEF Done, SetDue
<1> DEFINE n == list[Match(k)]
<1>3. list \in Seq(Nodes) /\ Distinct
  BY DEF IInv, TypeOK, ListOK
<1>4. Match(k) \in DOMAIN list /\ n \in Listed /\ node[n].key = k
  BY <1>2, <1>3, MatchFinds
<1>5. list' \in Seq(Nodes) /\ Listed' = Listed \ {n} /\ Distinct'
  BY <1>2, <1>3, <1>4, Removed DEF Distinct, Listed
<1>6. Listed \subseteq Nodes
  BY <1>3 DEF Listed, Range
<1>7. node' = [node EXCEPT ![n] = Unused]
  BY <1>2
<1> HIDE DEF n
<1>8. /\ node' \in [Nodes -> [key : Keys \cup {NoKey}, fn : BOOLEAN, dl : Nat, per : Nat]]
      /\ node'[n] = Unused /\ \A m \in Nodes \ {n} : node'[m] = node[m]
  BY <1>4, <1>6, <1>7 DEF IInv, TypeOK, Unused
<1>9. due' \in [Keys -> Nat] /\ due'[k] = 0 /\ \A h \in Keys \ {k} : due'[h] = due[h]
  BY <1>2 DEF IInv, TypeOK
<1>10. calls' \in 0..MaxCalls
  BY <1>1, BoundsAssumption DEF IInv, TypeOK
<1>11. TypeOK'
  BY <1>1, <1>5, <1>8, <1>9, <1>10 DEF IInv, TypeOK
<1>12. \A m \in Listed' : m \in Listed /\ m # n /\ node'[m] = node[m] /\ node[m].key # k
  BY <1>4, <1>5, <1>6, <1>8 DEF IInv, ListOK, KeysOnce
<1>13. ListOK'
  <2>1. KeysOnce'
    BY <1>12 DEF IInv, ListOK, KeysOnce
  <2>2. DuesRight'
    <3>1. \A m \in Listed' : node'[m].dl = due'[node'[m].key]
      BY <1>9, <1>12 DEF IInv, ListOK, DuesRight, KeysOnce
    <3>2. ASSUME NEW h \in Keys, \A m \in Listed' : node'[m].key # h PROVE due'[h] = 0
      <4>1. CASE h = k
        BY <4>1, <1>9
      <4>2. CASE h # k
        <5>1. ASSUME NEW m \in Listed PROVE node[m].key # h
          <6>1. CASE m = n
            BY <6>1, <4>2, <1>4
          <6>2. CASE m # n
            BY <6>2, <3>2, <1>5, <1>12
          <6> QED
            BY <6>1, <6>2
        <5> QED
          BY <5>1, <4>2, <1>9 DEF IInv, ListOK, DuesRight
      <4> QED
        BY <4>1, <4>2
    <3> QED
      BY <3>1, <3>2 DEF DuesRight
  <2>3. ArmedHaveFn'
    BY <1>12 DEF IInv, ListOK, ArmedHaveFn, Armed
  <2> QED
    BY <2>1, <2>2, <2>3, <1>5 DEF ListOK
<1>14. CallsOK'
  <2>1. ASSUME NEW q \in Procs \ {p} PROVE CallOK(q)'
    <3>1. CallOK(q) /\ job[q].key # k
      BY <1>2 DEF IInv, CallsOK, Alone
    <3>2. ASSUME NEW m \in Listed, node[m].key = job[q].key
          PROVE  m \in Listed' /\ node'[m] = node[m]
      BY <3>1, <3>2, <1>4, <1>5, <1>12
    <3>3. pc[q] = "insert" => ptr[q] \notin Listed' /\ node'[ptr[q]] = node[ptr[q]]
      BY <3>1, <1>4, <1>5, <1>8 DEF CallOK, Fresh
    <3> QED
      BY <3>1, <3>2, <3>3, <1>1, OtherKept
  <2>2. CallOK(p)'
    BY <1>1 DEF CallOK, Rest
  <2> QED
    BY <2>1, <2>2, <1>1 DEF IInv, CallsOK
<1>15. \A m \in Listed' : m \in Listed /\ node'[m].dl = node[m].dl
  BY <1>12
<1>16. TimeOK'
  BY <1>1, <1>11, <1>15, TimeKept DEF IInv, clock
<1>17. SleepCovered'
  <2>1. WakeComing => WakeComing'
    BY <1>1 DEF WakeComing
  <2> QED
    BY <2>1, <1>1, <1>15, SleepKept DEF IInv
<1>18. WakeupNotStranded'
  BY <1>1 DEF IInv, WakeupNotStranded
<1> QED
  BY <1>11, <1>13, <1>14, <1>16, <1>17, <1>18 DEF IInv

-----------------------------------------------------------------------------
(* The timer task and the clock.                                           *)

LEMMA TimerProc == TypeOK => TimerTask \in Procs /\ pc \in [Procs -> Labels]
BY ProcsAssumption DEF TypeOK, Procs

\* Only the timer task moves, to a label outside the calls.
LEMMA TaskMoves ==
  ASSUME IInv, NEW l \in Labels \ Busy, pc' = [pc EXCEPT ![TimerTask] = l],
         pc[TimerTask] \notin {"signal", "wsig", "wpop"}, UNCHANGED <<job, ptr>>
  PROVE  /\ pc' \in [Procs -> Labels] /\ pc'[TimerTask] = l
         /\ list' = list /\ node' = node => CallsOK'
         /\ wpend' = wpend /\ owner' = owner => WakeupNotStranded'
         /\ WakeComing /\ sem' = sem /\ wpend' = wpend => WakeComing'
<1>1. TimerTask \in Procs /\ pc \in [Procs -> Labels]
  BY TimerProc DEF IInv
<1>2. pc' \in [Procs -> Labels] /\ pc'[TimerTask] = l
      /\ \A q \in Procs \ {TimerTask} : pc'[q] = pc[q]
  BY <1>1
<1>3. ASSUME list' = list, node' = node PROVE CallsOK'
  BY <1>2, <1>3, CallsKept DEF IInv
<1>4. ASSUME wpend' = wpend, owner' = owner PROVE WakeupNotStranded'
  BY <1>2, <1>4, StrandKept DEF IInv
<1>5. ASSUME WakeComing, sem' = sem, wpend' = wpend PROVE WakeComing'
  BY <1>2, <1>5, ComingKept
<1> QED
  BY <1>2, <1>3, <1>4, <1>5

LEMMA ReadTimeOK == ASSUME IInv, ReadTime PROVE IInv'
<1>1. /\ pc[TimerTask] = "now" /\ pc' = [pc EXCEPT ![TimerTask] = "scan"]
      /\ tnow' = time /\ sleep' = Forever /\ wake' = 0
      /\ UNCHANGED <<list, node, sem, wpend, job, ptr, owner, time, due, calls>>
  BY DEF ReadTime, At, Go, tvars, semvars, hvars
<1>2. "scan" \in Labels \ Busy
  BY DEF Labels, Busy
<1>3. pc' \in [Procs -> Labels] /\ pc'[TimerTask] = "scan" /\ CallsOK' /\ WakeupNotStranded'
  BY <1>1, <1>2, TaskMoves
<1>4. tnow' \in 0..(MaxTime + MaxSleep) /\ sleep' \in 0..MaxSleep /\ wake' \in Nat
      /\ tnow' <= time
  BY <1>1, BoundsAssumption DEF IInv, TypeOK, Forever
<1>5. TypeOK'
  BY <1>1, <1>3, <1>4 DEF IInv, TypeOK
<1>6. ListOK'
  BY <1>1, ListKept DEF IInv
<1>7. TimeOK' /\ SleepCovered'
  BY <1>1, <1>3, <1>4 DEF TimeOK, SleepCovered
<1> QED
  BY <1>3, <1>5, <1>6, <1>7 DEF IInv

\* The scan meets only nodes with a function.
LEMMA ExpiredCalled ==
  ASSUME IInv, ScanExpired
  PROVE  LET n == list[FirstExpired]
             d == IF node[n].per # 0 THEN tnow + node[n].per ELSE 0
         IN /\ n \in Listed /\ Expired(n) /\ node[n].fn
            /\ node' = [node EXCEPT ![n].dl = d]
            /\ due' = [due EXCEPT ![node[n].key] = d]
            /\ pc[TimerTask] = "scan" /\ pc' = [pc EXCEPT ![TimerTask] = "call"]
            /\ UNCHANGED <<list, sem, wpend, job, ptr, owner, time, tnow, sleep, wake, calls>>
<1> DEFINE n == list[FirstExpired]
           d == IF node[n].per # 0 THEN tnow + node[n].per ELSE 0
<1>1. list \in Seq(Nodes)
  BY DEF IInv, TypeOK
<1>2. n \in Listed /\ Expired(n)
  BY <1>1, FirstExpiredFinds DEF ScanExpired
<1>3. node[n].fn
  BY <1>2 DEF IInv, ListOK, ArmedHaveFn, Expired
<1>4. /\ node' = [node EXCEPT ![n].dl = d]
      /\ due' = [due EXCEPT ![node[n].key] = d]
      /\ pc[TimerTask] = "scan" /\ pc' = [pc EXCEPT ![TimerTask] = "call"]
      /\ UNCHANGED <<list, sem, wpend, job, ptr, owner, time, tnow, sleep, wake, calls>>
  BY <1>3 DEF ScanExpired, At, Go, SetDue, semvars
<1> QED
  BY <1>2, <1>3, <1>4

LEMMA ScanExpiredOK == ASSUME IInv, ScanExpired PROVE IInv'
<1> DEFINE n == list[FirstExpired]
           d == IF node[n].per # 0 THEN tnow + node[n].per ELSE 0
           T == [key : Keys \cup {NoKey}, fn : BOOLEAN, dl : Nat, per : Nat]
<1>1. /\ n \in Listed /\ node[n].fn
      /\ node' = [node EXCEPT ![n].dl = d]
      /\ due' = [due EXCEPT ![node[n].key] = d]
      /\ pc[TimerTask] = "scan" /\ pc' = [pc EXCEPT ![TimerTask] = "call"]
      /\ UNCHANGED <<list, sem, wpend, job, ptr, owner, time, tnow, sleep, wake, calls>>
  BY ExpiredCalled
<1>2. node \in [Nodes -> T] /\ n \in Nodes /\ tnow \in Nat
  <2>1. list \in Seq(Nodes) /\ node \in [Nodes -> T]
    BY DEF IInv, TypeOK
  <2>2. tnow \in Nat
    BY BoundsAssumption DEF IInv, TypeOK
  <2> QED
    BY <2>1, <2>2, <1>1 DEF Listed, Range
<1>3. d \in Nat
  BY <1>2
<1> HIDE DEF n, d
<1>4. /\ node' \in [Nodes -> T] /\ \A m \in Nodes \ {n} : node'[m] = node[m]
      /\ node'[n].key = node[n].key /\ node'[n].fn = node[n].fn /\ node'[n].dl = d
  BY <1>1, <1>2, <1>3
<1>5. "call" \in Labels \ Busy /\ TimerTask \in Procs
  BY TimerProc DEF Labels, Busy, IInv
<1>6. pc' \in [Procs -> Labels] /\ pc'[TimerTask] = "call" /\ WakeupNotStranded'
  BY <1>1, <1>5, TaskMoves
<1>7. TypeOK'
  <2>1. due' \in [Keys -> Nat]
    BY <1>1, <1>3 DEF IInv, TypeOK
  <2> QED
    BY <2>1, <1>1, <1>4, <1>6 DEF IInv, TypeOK
<1>8. /\ ListOK' /\ Listed' = Listed
      /\ \A m \in Listed : node'[m].key = node[m].key /\ (node[m].fn => node'[m].fn)
  BY <1>1, <1>4, NodeUpdated DEF IInv
<1>9. CallsOK'
  <2>1. \A q \in Procs \ {TimerTask} : pc'[q] = pc[q]
    BY <1>1 DEF IInv, TypeOK
  <2>2. ASSUME NEW q \in Procs \ {TimerTask} PROVE CallOK(q)'
    BY <2>1, <1>1, <1>4, <1>8, OthersThrough DEF IInv, CallsOK
  <2>3. CallOK(TimerTask)'
    BY <1>6 DEF CallOK
  <2>4. ASSUME NEW q \in Procs, NEW r \in Procs,
               pc'[q] = "insert" /\ pc'[r] = "insert" /\ ptr'[q] = ptr'[r]
        PROVE  q = r
    BY <2>1, <2>4, <1>1, <1>6 DEF IInv, CallsOK
  <2> QED
    BY <2>2, <2>3, <2>4 DEF CallsOK
<1>10. TimeOK' /\ SleepCovered'
  BY <1>1, <1>6 DEF IInv, TimeOK, SleepCovered
<1> QED
  BY <1>6, <1>7, <1>8, <1>9, <1>10 DEF IInv

LEMMA ScanNothingOK == ASSUME IInv, ScanNothing PROVE IInv'
<1> DEFINE D == Deadlines(Len(list))
<1>1. /\ pc[TimerTask] = "scan" /\ pc' = [pc EXCEPT ![TimerTask] = "sleep"]
      /\ sleep' = Timeout(D) /\ FirstExpired = 0
      /\ UNCHANGED <<list, node, sem, wpend, job, ptr, owner, time, tnow, wake, due, calls>>
  BY DEF ScanNothing, At, Go, tvars, semvars, hvars
<1>2. list \in Seq(Nodes) /\ tnow \in Nat /\ time \in Nat /\ tnow <= time /\ MaxTime \in Nat
  <2>1. tnow \in Nat /\ time \in Nat /\ MaxTime \in Nat
    BY BoundsAssumption DEF IInv, TypeOK
  <2> QED
    BY <2>1 DEF IInv, TypeOK, TimeOK
<1>3. \A n \in Nodes : node[n].dl \in Nat
  BY DEF IInv, TypeOK
<1>4. Listed \subseteq Nodes
  BY <1>2 DEF Listed, Range
<1>5. ASSUME NEW n \in Listed, Armed(n) PROVE tnow < node[n].dl /\ node[n].dl \in D
  <2>1. ~Expired(n) /\ node[n].dl \in Nat
    BY <1>1, <1>2, <1>3, <1>4, FirstExpiredFinds
  <2>2. tnow < node[n].dl
    BY <2>1, <1>2, <1>5 DEF Expired
  <2>3. PICK j \in DOMAIN list : list[j] = n
    BY DEF Listed, Range
  <2>4. j \in 1 .. Len(list)
    BY <1>2
  <2> QED
    BY <2>2, <2>3, <2>4, <1>5 DEF Deadlines
<1>6. ASSUME NEW d \in D PROVE d \in Nat /\ tnow < d
  <2>1. PICK j \in 1 .. Len(list) : Armed(list[j]) /\ d = node[list[j]].dl
    BY DEF Deadlines
  <2>2. list[j] \in Listed
    BY <2>1, <1>2 DEF Listed, Range
  <2> QED
    BY <2>1, <2>2, <1>3, <1>4, <1>5
<1> HIDE DEF D
<1>7. /\ sleep' \in 0..MaxSleep
      /\ D # {} => sleep' # Forever
      /\ \A d \in D : tnow + sleep' <= d \/ sleep' = MinSleep
  <2>1. D \subseteq Nat /\ \A d \in D : tnow < d
    BY <1>6
  <2> QED
    BY <2>1, <1>1, <1>2, TimeoutShort
<1>8. "sleep" \in Labels \ Busy
  BY DEF Labels, Busy
<1>9. pc' \in [Procs -> Labels] /\ pc'[TimerTask] = "sleep" /\ CallsOK' /\ WakeupNotStranded'
  BY <1>1, <1>8, TaskMoves
<1>10. TypeOK'
  BY <1>1, <1>7, <1>9 DEF IInv, TypeOK
<1>11. ListOK'
  BY <1>1, ListKept DEF IInv
<1>12. TimeOK'
  <2>1. time <= MaxTime \/ tnow = time
    BY <1>1 DEF IInv, TimeOK
  <2>2. time <= MaxTime \/ LateOK'
    <3>1. CASE time <= MaxTime
      BY <3>1
    <3>2. CASE ~(time <= MaxTime)
      <4>1. time' > MaxTime /\ tnow = time /\ MaxTime < tnow
        BY <3>2, <2>1, <1>1, <1>2
      <4>2. ASSUME NEW n \in Listed', Armed(n)' PROVE node'[n].dl > MaxTime
        <5>1. n \in Listed /\ Armed(n) /\ node'[n].dl = node[n].dl
          BY <4>2, <1>1 DEF Listed, Armed
        <5>2. node[n].dl \in Nat /\ tnow < node[n].dl
          BY <5>1, <1>3, <1>4, <1>5
        <5> QED
          BY <5>1, <5>2, <4>1, <1>2
      <4> QED
        BY <4>1, <4>2 DEF LateOK
    <3> QED
      BY <3>1, <3>2
  <2> QED
    BY <2>2, <1>1, <1>2, <1>9 DEF TimeOK
<1>13. SleepCovered'
  <2> SUFFICES ASSUME NEW n \in Listed', Armed(n)'
               PROVE  /\ sleep' # Forever
                      /\ tnow' + sleep' <= node'[n].dl \/ sleep' = MinSleep
    BY DEF SleepCovered
  <2>1. n \in Listed /\ Armed(n)
    BY <1>1 DEF Listed, Armed
  <2>2. node[n].dl \in D
    BY <2>1, <1>5
  <2> QED
    BY <2>2, <1>1, <1>7
<1> QED
  BY <1>9, <1>10, <1>11, <1>12, <1>13 DEF IInv

\* A timer's function returns, or the kernel ends the wait.
LEMMA WakesOK == ASSUME IInv, FunctionReturns \/ SleepEnds PROVE IInv'
<1>1. /\ pc[TimerTask] \in {"call", "wait"} /\ pc' = [pc EXCEPT ![TimerTask] = "now"]
      /\ UNCHANGED <<list, node, sem, wpend, job, ptr, owner, due, calls>>
      /\ UNCHANGED <<time, tnow, sleep, wake>>
  BY DEF FunctionReturns, SleepEnds, At, Go, tvars, semvars, clock, hvars
<1>2. "now" \in Labels \ Busy
  BY DEF Labels, Busy
<1>3. pc' \in [Procs -> Labels] /\ pc'[TimerTask] = "now" /\ CallsOK' /\ WakeupNotStranded'
  BY <1>1, <1>2, TaskMoves
<1>4. TypeOK'
  BY <1>1, <1>3 DEF IInv, TypeOK
<1>5. ListOK'
  BY <1>1, ListKept DEF IInv
<1>6. TimeOK' /\ SleepCovered'
  BY <1>1, <1>3 DEF IInv, TimeOK, SleepCovered
<1> QED
  BY <1>3, <1>4, <1>5, <1>6 DEF IInv

LEMMA SleepOK == ASSUME IInv, Sleep PROVE IInv'
<1>1. /\ pc[TimerTask] = "sleep"
      /\ UNCHANGED <<list, node, wpend, job, ptr, owner, time, tnow, sleep, due, calls>>
  BY DEF Sleep, At, tvars, hvars
<1>2. ListOK'
  BY <1>1, ListKept DEF IInv
<1>3. CASE sem' = 0 /\ pc' = [pc EXCEPT ![TimerTask] = "now"] /\ wake' = wake
  <2>1. "now" \in Labels \ Busy
    BY DEF Labels, Busy
  <2>2. pc' \in [Procs -> Labels] /\ pc'[TimerTask] = "now" /\ CallsOK' /\ WakeupNotStranded'
    BY <1>1, <1>3, <2>1, TaskMoves
  <2>3. TypeOK'
    BY <1>1, <1>3, <2>2 DEF IInv, TypeOK
  <2>4. TimeOK' /\ SleepCovered'
    BY <1>1, <2>2 DEF IInv, TimeOK, SleepCovered
  <2> QED
    BY <2>2, <2>3, <2>4, <1>2 DEF IInv
<1>4. CASE sem' = sem /\ pc' = [pc EXCEPT ![TimerTask] = "wait"] /\ wake' = time + sleep
  <2>1. "wait" \in Labels \ Busy
    BY DEF Labels, Busy
  <2>2. /\ pc' \in [Procs -> Labels] /\ pc'[TimerTask] = "wait" /\ CallsOK'
        /\ WakeupNotStranded' /\ (WakeComing => WakeComing')
    BY <1>1, <1>4, <2>1, TaskMoves
  <2>3. time \in Nat /\ sleep \in 0..MaxSleep /\ MaxTime \in Nat /\ MaxSleep \in Nat
    BY BoundsAssumption DEF IInv, TypeOK
  <2>4. wake' \in Nat
    BY <1>4, <2>3
  <2>5. TypeOK'
    BY <1>1, <1>4, <2>2, <2>4 DEF IInv, TypeOK
  <2>6. TimeOK'
    <3>1. time <= MaxTime \/ LateOK
      BY <1>1 DEF IInv, TimeOK
    <3>2. LateOK => LateOK'
      BY <1>1 DEF LateOK, Listed, Armed
    <3>3. time <= MaxTime => wake' <= MaxTime + MaxSleep
      BY <1>4, <2>3
    <3> QED
      BY <3>1, <3>2, <3>3, <1>1, <2>2 DEF IInv, TimeOK
  <2>7. \A n \in Listed' : n \in Listed /\ node'[n].dl = node[n].dl
    BY <1>1 DEF Listed
  <2>8. SleepCovered'
    BY <1>1, <2>2, <2>7, SleepKept DEF IInv
  <2> QED
    BY <2>2, <2>5, <2>6, <2>8, <1>2 DEF IInv
<1> QED
  BY <1>3, <1>4 DEF Sleep, Go

LEMMA TickOK == ASSUME IInv, Tick PROVE IInv'
<1>1. /\ time' = time + 1
      /\ UNCHANGED <<list, node, sem, wpend, pc, job, ptr, owner, tnow, sleep, wake, due, calls>>
  BY DEF Tick, tvars, semvars, pvars, hvars
<1>2. PICK n \in Listed :
        /\ Armed(n) /\ node[n].dl <= MaxTime
        /\ \/ node[n].dl > time
           \/ pc[TimerTask] = "wait" /\ sleep # Forever /\ wake > time
  BY DEF Tick
<1>3. /\ time \in Nat /\ time \in 1..(MaxTime + MaxSleep) /\ MaxTime \in Nat /\ MaxSleep \in Nat
      /\ tnow \in Nat /\ tnow <= time /\ wake \in Nat
  <2>1. /\ time \in Nat /\ time \in 1..(MaxTime + MaxSleep) /\ MaxTime \in Nat
        /\ tnow \in Nat /\ wake \in Nat /\ MaxSleep \in Nat
    BY BoundsAssumption DEF IInv, TypeOK
  <2> QED
    BY <2>1 DEF IInv, TimeOK
<1>4. node[n].dl \in Nat
  <2>1. n \in Nodes
    <3>1. list \in Seq(Nodes)
      BY DEF IInv, TypeOK
    <3> QED
      BY <3>1 DEF Listed, Range
  <2> QED
    BY <2>1 DEF IInv, TypeOK
<1>5. ~LateOK
  BY <1>2, <1>3, <1>4 DEF LateOK
<1>6. \/ time' <= MaxTime
      \/ pc[TimerTask] = "wait" /\ wake <= MaxTime + MaxSleep /\ time' <= wake
  <2>1. CASE node[n].dl > time
    BY <2>1, <1>1, <1>2, <1>3, <1>4
  <2>2. CASE pc[TimerTask] = "wait" /\ sleep # Forever /\ wake > time
    BY <2>2, <1>1, <1>3, <1>5 DEF IInv, TimeOK
  <2> QED
    BY <2>1, <2>2, <1>2
<1>7. time' \in 1..(MaxTime + MaxSleep) /\ tnow' <= time'
  BY <1>1, <1>3, <1>6
<1>8. TypeOK'
  BY <1>1, <1>7 DEF IInv, TypeOK
<1>9. ListOK' /\ CallsOK'
  BY <1>1, ListKept, CallsKept DEF IInv, Busy
<1>10. TimeOK'
  BY <1>1, <1>5, <1>6, <1>7 DEF IInv, TimeOK
<1>11. SleepCovered' /\ WakeupNotStranded'
  BY <1>1 DEF IInv, SleepCovered, WakeupNotStranded, WakeComing, Listed, Armed
<1> QED
  BY <1>8, <1>9, <1>10, <1>11 DEF IInv

-----------------------------------------------------------------------------
(* Critical sections and the flush.                                        *)

\* A step that leaves the timers, the calls and the clock alone.
LEMMA FlushKept ==
  ASSUME IInv, UNCHANGED <<list, node, job, ptr, time, tnow, sleep, wake, due, calls>>,
         sem' \in 0..1, wpend' \in BOOLEAN, owner' \in Procs \cup {NoProc},
         pc' \in [Procs -> Labels],
         \A q \in Procs : pc'[q] # pc[q] => pc'[q] \notin Busy \cup {"scan", "sleep", "wait"},
         pc'[TimerTask] \in {"sleep", "wait"} /\ WakeComing => WakeComing',
         WakeupNotStranded'
  PROVE  IInv'
<1>1. TimerTask \in Procs
  BY TimerProc DEF IInv
<1>2. TypeOK'
  BY DEF IInv, TypeOK
<1>3. ListOK'
  BY ListKept DEF IInv
<1>4. CallsOK'
  BY CallsKept DEF IInv
<1>5. \A n \in Listed' : n \in Listed /\ node'[n].dl = node[n].dl
  BY DEF Listed
<1>6. TimeOK'
  BY <1>1, <1>2, <1>5, TimeKept DEF IInv, clock
<1>7. SleepCovered'
  BY <1>1, <1>5 DEF IInv, SleepCovered, Armed
<1> QED
  BY <1>2, <1>3, <1>4, <1>6, <1>7 DEF IInv

LEMMA CriticalOK ==
  ASSUME IInv, NEW p \in Procs, EnterCritical(p) \/ ExitCritical(p)
  PROVE  IInv'
<1>1. /\ pc[p] = Rest(p) /\ pc \in [Procs -> Labels]
      /\ UNCHANGED <<list, node, sem, wpend, job, ptr, time, tnow, sleep, wake, due, calls>>
  BY DEF EnterCritical, ExitCritical, At, tvars, semvars, pvars, clock, hvars, IInv, TypeOK
<1>2. sem' \in 0..1
  BY <1>1 DEF IInv, TypeOK
<1>3. wpend' \in BOOLEAN
  BY <1>1, Zenon DEF IInv, TypeOK
<1>4. CASE EnterCritical(p)
  <2>1. owner' = p /\ pc' = pc
    BY <1>4 DEF EnterCritical, pvars
  <2>2. WakeupNotStranded'
    BY <2>1, ProcsAssumption DEF WakeupNotStranded
  <2>3. WakeComing => WakeComing'
    BY <2>1, <1>1 DEF WakeComing
  <2> QED
    BY <2>1, <2>2, <2>3, <1>1, <1>2, <1>3, FlushKept
<1>5. CASE ExitCritical(p)
  <2>1. owner' = NoProc /\ pc' = [pc EXCEPT ![p] = "wpop"]
    BY <1>5 DEF ExitCritical, Go
  <2>2. pc' \in [Procs -> Labels] /\ pc'[p] = "wpop" /\ \A q \in Procs \ {p} : pc'[q] = pc[q]
    BY <2>1, <1>1 DEF Labels
  <2>3. WakeupNotStranded'
    BY <2>2 DEF WakeupNotStranded
  <2>4. WakeComing => WakeComing'
    BY <2>2, <1>1 DEF WakeComing, Rest
  <2> QED
    BY <2>1, <2>2, <2>3, <2>4, <1>1, <1>2, <1>3, FlushKept DEF Busy
<1> QED
  BY <1>4, <1>5

LEMMA WakeupPopOK == ASSUME IInv, NEW p \in Procs, WakeupPop(p) PROVE IInv'
<1>1. /\ pc[p] = "wpop" /\ pc \in [Procs -> Labels] /\ wpend' = FALSE
      /\ pc' = [pc EXCEPT ![p] = IF wpend THEN "wsig" ELSE Rest(p)]
      /\ UNCHANGED <<list, node, sem, job, ptr, owner, time, tnow, sleep, wake, due, calls>>
  BY DEF WakeupPop, At, Go, tvars, clock, hvars, IInv, TypeOK
<1>2. sem' \in 0..1 /\ owner' \in Procs \cup {NoProc}
  BY <1>1 DEF IInv, TypeOK
<1>3. wpend' \in BOOLEAN /\ WakeupNotStranded'
  BY <1>1 DEF WakeupNotStranded
<1>4. /\ pc' \in [Procs -> Labels] /\ pc'[p] \in {"wsig", "idle", "call"}
      /\ (wpend => pc'[p] = "wsig") /\ \A q \in Procs \ {p} : pc'[q] = pc[q]
  <2>1. CASE wpend
    BY <2>1, <1>1 DEF Labels
  <2>2. CASE ~wpend
    BY <2>2, <1>1 DEF Labels, Rest
  <2> QED
    BY <2>1, <2>2
<1>5. WakeComing => WakeComing'
  BY <1>1, <1>4 DEF WakeComing
<1> QED
  BY <1>1, <1>2, <1>3, <1>4, <1>5, FlushKept DEF Busy

LEMMA WakeupSignalOK == ASSUME IInv, NEW p \in Procs, WakeupSignal(p) PROVE IInv'
<1>1. /\ pc[p] = "wsig" /\ SigSem(p, "wpop")
      /\ UNCHANGED <<list, node, wpend, job, ptr, owner, time, tnow, sleep, wake, due, calls>>
  BY DEF WakeupSignal, At, tvars, clock, hvars
<1>2. /\ pc' \in [Procs -> Labels] /\ sem' \in 0..1 /\ pc'[p] = "wpop"
      /\ \A q \in Procs \ {p} : pc'[q] = pc[q] \/ (pc'[q] = "now" /\ pc[q] = "wait")
      /\ sem' = 1 \/ pc'[TimerTask] = "now"
  BY <1>1, SigSemDoes DEF IInv, Labels
<1>3. owner' \in Procs \cup {NoProc}
  BY <1>1 DEF IInv, TypeOK
<1>4. wpend' \in BOOLEAN
  BY <1>1, Zenon DEF IInv, TypeOK
<1>5. WakeupNotStranded'
  BY <1>2 DEF WakeupNotStranded
<1>6. pc'[TimerTask] \in {"sleep", "wait"} => WakeComing'
  BY <1>2 DEF WakeComing
<1> QED
  BY <1>1, <1>2, <1>3, <1>4, <1>5, <1>6, FlushKept DEF Busy

-----------------------------------------------------------------------------
(* The theorems.                                                           *)

LEMMA StepOK == IInv /\ FunctionsFirst /\ [Next]_vars => IInv'
<1> SUFFICES ASSUME IInv, FunctionsFirst, [Next]_vars PROVE IInv'
  OBVIOUS
<1>1. CASE UNCHANGED vars
  <2>1. UNCHANGED <<list, node, sem, wpend, pc, job, ptr, owner, time, tnow, sleep, wake, due,
                    calls>>
    BY <1>1 DEF vars, tvars, semvars, pvars, clock, hvars
  <2>2. TypeOK' /\ TimeOK' /\ SleepCovered' /\ WakeupNotStranded'
    BY <2>1 DEF IInv, TypeOK, TimeOK, LateOK, SleepCovered, WakeupNotStranded, WakeComing,
                Listed, Armed
  <2> QED
    BY <2>1, <2>2, ListKept, CallsKept DEF IInv
<1>2. CASE \E p \in Procs : Work(p) \/ ExitCritical(p) \/ Call(p)
  BY <1>2, FindOK, AllocOK, InsertOK, ResetOK, ArmOK, SignalOK, WakeupPopOK, WakeupSignalOK,
     CriticalOK, CallOpOK, DoneOK DEF Work, Call
<1>3. CASE TaskWork
  BY <1>3, ReadTimeOK, ScanExpiredOK, ScanNothingOK, SleepOK, WakesOK DEF TaskWork
<1>4. CASE Tick
  BY <1>4, TickOK
<1> QED
  BY <1>1, <1>2, <1>3, <1>4 DEF Next

\* Where the callers give a timer its function before they arm it, the inductive
\* invariant holds.
THEOREM TimerInductive == ASSUME FunctionsFirst PROVE Spec => []IInv
<1>1. Init => IInv
  BY InitOK
<1>2. IInv /\ [Next]_vars => IInv'
  BY StepOK, FunctionsFirst
<1> QED
  BY <1>1, <1>2, PTL DEF Spec

\* Every variable keeps its type; the clock stops by MaxTime + MaxSleep.
THEOREM TimerTypeCorrect == ASSUME FunctionsFirst PROVE Spec => []TypeOK
<1>1. Spec => []IInv
  BY TimerInductive, FunctionsFirst
<1>2. IInv => TypeOK
  BY DEF IInv
<1> QED
  BY <1>1, <1>2, PTL

\* Whoever creates the node of a timer, in whatever order the two locked regions
\* of esp_shim_timer_find are run, the timer has one node at most, armed for what
\* its callers last asked.
THEOREM TimerListMatches == ASSUME FunctionsFirst PROVE Spec => []ListMatchesDue
<1>1. Spec => []IInv
  BY TimerInductive, FunctionsFirst
<1>2. IInv => ListMatchesDue
  <2> SUFFICES ASSUME IInv, NEW k \in Keys
               PROVE  LET mine == {n \in Listed : node[n].key = k}
                      IN /\ Cardinality(mine) <= 1
                         /\ {node[n].dl : n \in mine} \cup {0} = {due[k], 0}
    BY DEF ListMatchesDue
  <2> DEFINE mine == {n \in Listed : node[n].key = k}
  <2>1. CASE mine = {}
    <3>1. due[k] = 0
      BY <2>1 DEF IInv, ListOK, DuesRight
    <3>2. Cardinality(mine) = 0
      BY <2>1, FS_EmptySet
    <3> QED
      BY <2>1, <3>1, <3>2
  <2>2. CASE mine # {}
    <3>1. PICK n \in Listed : node[n].key = k
      BY <2>2
    <3>2. mine = {n}
      BY <3>1 DEF IInv, ListOK, KeysOnce
    <3>3. Cardinality(mine) = 1
      BY <3>2, FS_Singleton
    <3>4. node[n].dl = due[k]
      BY <3>1 DEF IInv, ListOK, DuesRight
    <3> QED
      BY <3>2, <3>3, <3>4
  <2> QED
    BY <2>1, <2>2
<1> QED
  BY <1>1, <1>2, PTL

\* The timer task does not sleep past a deadline by more than its shortest sleep,
\* whoever arms a timer while it looks for the nearest one.
THEOREM TimerSleepCovered == ASSUME FunctionsFirst PROVE Spec => []SleepCovered
<1>1. Spec => []IInv
  BY TimerInductive, FunctionsFirst
<1>2. IInv => SleepCovered
  BY DEF IInv
<1> QED
  BY <1>1, <1>2, PTL

\* A wakeup left pending in a critical section has somebody to deliver it.
THEOREM TimerWakeupNotStranded == ASSUME FunctionsFirst PROVE Spec => []WakeupNotStranded
<1>1. Spec => []IInv
  BY TimerInductive, FunctionsFirst
<1>2. IInv => WakeupNotStranded
  BY DEF IInv
<1> QED
  BY <1>1, <1>2, PTL

\* A timer is called only after a deadline its callers still stand by.
THEOREM TimerFiresWhenDue == ASSUME FunctionsFirst PROVE Spec => FiresWhenDue
<1>1. Spec => []IInv
  BY TimerInductive, FunctionsFirst
<1>2. IInv /\ ScanExpired => LET k == node[list[FirstExpired]].key
                             IN due[k] # 0 /\ due[k] <= time
  <2> SUFFICES ASSUME IInv, ScanExpired
               PROVE  LET k == node[list[FirstExpired]].key
                      IN due[k] # 0 /\ due[k] <= time
    OBVIOUS
  <2> DEFINE n == list[FirstExpired]
  <2>1. n \in Listed /\ Expired(n)
    BY ExpiredCalled
  <2>2. node[n].dl = due[node[n].key]
    BY <2>1 DEF IInv, ListOK, DuesRight
  <2>3. n \in Nodes /\ node[n].dl \in Nat /\ tnow \in Nat /\ time \in Nat
    <3>1. list \in Seq(Nodes) /\ \A m \in Nodes : node[m].dl \in Nat
      BY DEF IInv, TypeOK
    <3>2. tnow \in Nat /\ time \in Nat
      BY BoundsAssumption DEF IInv, TypeOK
    <3> QED
      BY <2>1, <3>1, <3>2 DEF Listed, Range
  <2>4. node[n].dl # 0 /\ node[n].dl <= time
    BY <2>1, <2>3 DEF Expired, Armed, IInv, TimeOK
  <2> QED
    BY <2>2, <2>4
<1> QED
  BY <1>1, <1>2, PTL DEF Spec, FiresWhenDue

-----------------------------------------------------------------------------
(* The alarm clock.  By the invariant the list says of every timer what    *)
(* the history due does, so it is enough to follow due, the time and       *)
(* whether the task is in a timer's function.                              *)

\* The task is in no timer's function.
Quiet == {"now", "scan", "sleep", "wait"}

\* The list says of every timer when it is due.
LEMMA ListDueIsDue == ASSUME IInv PROVE [k \in Keys |-> ListDue(k)] = due
<1>1. ASSUME NEW k \in Keys PROVE ListDue(k) = due[k]
  <2>1. list \in Seq(Nodes)
    BY DEF IInv, TypeOK
  <2>2. CASE Match(k) = 0
    BY <2>1, <2>2, MatchFinds DEF ListDue, IInv, ListOK, DuesRight
  <2>3. CASE Match(k) # 0
    BY <2>1, <2>3, MatchFinds DEF ListDue, IInv, ListOK, DuesRight
  <2> QED
    BY <2>2, <2>3
<1>2. due \in [Keys -> Nat]
  BY DEF IInv, TypeOK
<1> QED
  BY <1>1, <1>2

\* A context's way through a call neither begins nor ends a timer's function.
LEMMA MovesKeepRinging ==
  ASSUME TypeOK, NEW p \in Procs, NEW l, pc' = [pc EXCEPT ![p] = l],
         pc[p] \notin Quiet, p = TimerTask => l \notin Quiet
  PROVE  pc'[TimerTask] \in Quiet <=> pc[TimerTask] \in Quiet
  BY TimerProc

LEMMA SigSemKeepsRinging ==
  ASSUME TypeOK, NEW p \in Procs, NEW l, SigSem(p, l),
         pc[p] \notin Quiet, p = TimerTask => l \notin Quiet
  PROVE  pc'[TimerTask] \in Quiet <=> pc[TimerTask] \in Quiet
<1>1. CASE pc[TimerTask] = "wait"
  <2>1. p # TimerTask /\ pc' = [pc EXCEPT ![TimerTask] = "now", ![p] = l]
    BY <1>1 DEF SigSem, Quiet
  <2> QED
    BY <1>1, <2>1, TimerProc DEF Quiet
<1>2. CASE pc[TimerTask] # "wait"
  BY <1>2, MovesKeepRinging DEF SigSem, Go
<1> QED
  BY <1>1, <1>2

\* Steps of the calls but the ones that set a deadline.
LEMMA WorkStutters ==
  ASSUME TypeOK, NEW p \in Procs,
         \/ Find(p) \/ Alloc(p) \/ Insert(p) \/ SignalOrPend(p) \/ WakeupPop(p)
         \/ WakeupSignal(p) \/ ExitCritical(p) \/ SetFnCall(p) \/ ArmCall(p)
         \/ DisarmCall(p) \/ EnterCritical(p),
         Find(p) \/ Insert(p) => job[p].op \in {"setfn", "arm", "disarm"}
  PROVE  time' = time /\ due' = due /\ (pc'[TimerTask] \in Quiet <=> pc[TimerTask] \in Quiet)
<1>s. Rest(p) \notin Quiet
  BY DEF Rest, Quiet
<1>0. time' = time /\ due' = due
  BY DEF Find, Alloc, Insert, SignalOrPend, WakeupPop, WakeupSignal, ExitCritical, SetFnCall,
         ArmCall, DisarmCall, EnterCritical, Start, clock, hvars
<1>1. CASE Find(p)
  <2>1. pc[p] = "find" /\ \E l \in {"alloc", job[p].op, Rest(p)} : pc' = [pc EXCEPT ![p] = l]
    BY <1>1 DEF Find, At, Go, Return
  <2>2. pc[p] \notin Quiet /\ {"alloc", job[p].op, Rest(p)} \cap Quiet = {}
    BY <1>1, <2>1, <1>s DEF Quiet
  <2> QED
    BY <1>0, <2>1, <2>2, MovesKeepRinging
<1>2. CASE Alloc(p)
  <2>1. pc[p] = "alloc" /\ \E l \in {"insert", Rest(p)} : pc' = [pc EXCEPT ![p] = l]
    BY <1>2 DEF Alloc, At, Go, Return
  <2>2. pc[p] \notin Quiet /\ {"insert", Rest(p)} \cap Quiet = {}
    BY <2>1, <1>s DEF Quiet
  <2> QED
    BY <1>0, <2>1, <2>2, MovesKeepRinging
<1>6. CASE Insert(p)
  <2>1. pc[p] = "insert" /\ pc' = [pc EXCEPT ![p] = job[p].op]
    BY <1>6 DEF Insert, At, Go
  <2>2. pc[p] \notin Quiet /\ job[p].op \notin Quiet
    BY <1>6, <2>1 DEF Quiet
  <2> QED
    BY <1>0, <2>1, <2>2, MovesKeepRinging
<1>3. CASE SignalOrPend(p) \/ WakeupSignal(p)
  <2>1. pc[p] \in {"signal", "wsig"}
        /\ \E l \in {"wpop", Rest(p)} : SigSem(p, l) \/ pc' = [pc EXCEPT ![p] = l]
    BY <1>3 DEF SignalOrPend, WakeupSignal, At, Go
  <2>2. pc[p] \notin Quiet /\ {"wpop", Rest(p)} \cap Quiet = {}
    BY <2>1, <1>s DEF Quiet
  <2> QED
    BY <1>0, <2>1, <2>2, MovesKeepRinging, SigSemKeepsRinging
<1>4. CASE WakeupPop(p) \/ ExitCritical(p) \/ SetFnCall(p) \/ ArmCall(p) \/ DisarmCall(p)
  <2>1. pc[p] \in {"wpop", Rest(p)}
        /\ \E l \in {"find", "wpop", "wsig", Rest(p)} : pc' = [pc EXCEPT ![p] = l]
    BY <1>4 DEF WakeupPop, ExitCritical, SetFnCall, ArmCall, DisarmCall, Start, At, Go
  <2>2. pc[p] \notin Quiet /\ {"find", "wpop", "wsig", Rest(p)} \cap Quiet = {}
    BY <2>1, <1>s DEF Quiet
  <2> QED
    BY <1>0, <2>1, <2>2, MovesKeepRinging
<1>5. CASE EnterCritical(p)
  BY <1>0, <1>5 DEF EnterCritical, pvars
<1> QED
  BY <1>1, <1>2, <1>3, <1>4, <1>5, <1>6

\* The effect of every step on the time, the deadlines and the call of a function.
ClockStep ==
  LET rings == pc[TimerTask] \notin Quiet
      sets(k, d) == due' = [due EXCEPT ![k] = d]
  IN \/ time' = time /\ due' = due /\ (rings' <=> rings)
     \/ \E k \in Keys, d \in Nat :
          sets(k, d) /\ (d = 0 \/ d > time) /\ time' = time /\ (rings' <=> rings)
     \/ \E k \in Keys, d \in Nat :
          /\ sets(k, d) /\ (d = 0 \/ d > due[k])
          /\ due[k] # 0 /\ due[k] <= time /\ time' = time
          /\ ~rings /\ rings'
     \/ time' = time /\ due' = due /\ rings /\ ~rings'
     \/ time' = time + 1 /\ due' = due /\ (rings' <=> rings)

LEMMA ResetSteps ==
  ASSUME IInv, NEW p \in Procs, SetFn(p) \/ Disarm(p) \/ Arm(p) \/ Done(p) PROVE ClockStep
<1>s. Rest(p) \notin Quiet
  BY DEF Rest, Quiet
<1>t. TypeOK /\ time \in Nat /\ time' = time
  BY BoundsAssumption DEF IInv, TypeOK, SetFn, Disarm, Arm, Done, clock
<1>1. CASE SetFn(p) \/ Disarm(p)
  <2>1. /\ pc[p] \in {"setfn", "disarm"} /\ pc' = [pc EXCEPT ![p] = Rest(p)]
        /\ due' = [due EXCEPT ![job[p].key] = 0]
    BY <1>1 DEF SetFn, Disarm, At, Go, Return, SetDue
  <2>2. job[p].key \in Keys
    BY <2>1 DEF IInv, CallsOK, CallOK
  <2>3. pc'[TimerTask] \in Quiet <=> pc[TimerTask] \in Quiet
    BY <1>s, <1>t, <2>1, MovesKeepRinging DEF Quiet
  <2> QED
    BY <1>t, <2>1, <2>2, <2>3 DEF ClockStep
<1>2. CASE Arm(p)
  <2>1. /\ pc[p] = "arm" /\ pc' = [pc EXCEPT ![p] = "signal"]
        /\ due' = [due EXCEPT ![job[p].key] = time + job[p].us]
    BY <1>2 DEF Arm, At, Go, SetDue
  <2>2. job[p].key \in Keys /\ job[p].us \in Delays
    BY <2>1 DEF IInv, CallsOK, CallOK
  <2>3. time + job[p].us \in Nat /\ time + job[p].us > time
    <3>1. job[p].us \in Nat /\ job[p].us # 0
      BY <2>2, CallsAssumption
    <3> QED
      BY <1>t, <3>1
  <2>4. pc'[TimerTask] \in Quiet <=> pc[TimerTask] \in Quiet
    BY <1>t, <2>1, MovesKeepRinging DEF Quiet
  <2> QED
    BY <1>t, <2>1, <2>2, <2>3, <2>4 DEF ClockStep
<1>3. CASE Done(p)
  <2>1. \E k \in Keys : due' = [due EXCEPT ![k] = 0]
    BY <1>3 DEF Done, SetDue
  <2>2. pc' = pc
    BY <1>3 DEF Done, pvars
  <2> QED
    BY <1>t, <2>1, <2>2 DEF ClockStep
<1> QED
  BY <1>1, <1>2, <1>3

LEMMA ScanSteps == ASSUME IInv, ScanExpired PROVE ClockStep
<1> DEFINE n == list[FirstExpired]
           k == node[n].key
           d == IF node[n].per # 0 THEN tnow + node[n].per ELSE 0
<1>1. /\ n \in Listed /\ Expired(n) /\ due' = [due EXCEPT ![k] = d]
      /\ pc[TimerTask] = "scan" /\ pc' = [pc EXCEPT ![TimerTask] = "call"] /\ time' = time
  BY ExpiredCalled
<1>2. n \in Nodes /\ node[n].dl \in Nat /\ node[n].per \in Nat /\ tnow \in Nat /\ time \in Nat
  <2>1. list \in Seq(Nodes) /\ \A m \in Nodes : node[m].dl \in Nat /\ node[m].per \in Nat
    BY DEF IInv, TypeOK
  <2>2. tnow \in Nat /\ time \in Nat
    BY BoundsAssumption DEF IInv, TypeOK
  <2> QED
    BY <1>1, <2>1, <2>2 DEF Listed, Range
<1>3. k \in Keys /\ node[n].dl = due[k]
  BY <1>1 DEF IInv, ListOK, KeysOnce, DuesRight
<1>4. due[k] # 0 /\ due[k] <= tnow /\ tnow <= time
  BY <1>1, <1>3 DEF Expired, Armed, IInv, TimeOK
<1>5. d \in Nat /\ (d = 0 \/ d > due[k]) /\ due[k] <= time
  BY <1>2, <1>3, <1>4
<1>6. pc[TimerTask] \in Quiet /\ pc'[TimerTask] \notin Quiet
  BY <1>1, TimerProc DEF Quiet, IInv
<1> QED
  BY <1>1, <1>3, <1>4, <1>5, <1>6 DEF ClockStep

LEMMA TaskSteps == ASSUME IInv, TaskWork \/ Tick PROVE ClockStep
<1>0. TimerTask \in Procs /\ pc \in [Procs -> Labels]
  BY TimerProc DEF IInv
<1>1. CASE ReadTime \/ ScanNothing \/ Sleep \/ SleepEnds
  <2>1. /\ pc[TimerTask] \in Quiet /\ time' = time /\ due' = due
        /\ \E l \in Quiet : pc' = [pc EXCEPT ![TimerTask] = l]
    BY <1>1 DEF ReadTime, ScanNothing, Sleep, SleepEnds, At, Go, Quiet, hvars, clock
  <2> QED
    BY <1>0, <2>1 DEF ClockStep
<1>2. CASE FunctionReturns
  <2>1. /\ pc[TimerTask] = "call" /\ time' = time /\ due' = due
        /\ pc' = [pc EXCEPT ![TimerTask] = "now"]
    BY <1>2 DEF FunctionReturns, At, Go, hvars, clock
  <2> QED
    BY <1>0, <2>1 DEF ClockStep, Quiet
<1>3. CASE Tick
  BY <1>3 DEF Tick, ClockStep, pvars, hvars
<1> QED
  BY <1>1, <1>2, <1>3, ScanSteps DEF TaskWork

LEMMA EveryStepIsClocked == IInv /\ [Next]_vars => ClockStep
<1> SUFFICES ASSUME IInv, [Next]_vars PROVE ClockStep
  OBVIOUS
<1>1. CASE UNCHANGED vars
  BY <1>1 DEF vars, pvars, clock, hvars, ClockStep
<1>2. ASSUME NEW p \in Procs, Work(p) \/ ExitCritical(p) \/ Call(p) PROVE ClockStep
  <2>1. CASE SetFn(p) \/ Disarm(p) \/ Arm(p) \/ Done(p)
    BY <2>1, ResetSteps
  <2>2. CASE \/ Find(p) \/ Alloc(p) \/ Insert(p) \/ SignalOrPend(p) \/ WakeupPop(p)
             \/ WakeupSignal(p) \/ ExitCritical(p) \/ SetFnCall(p) \/ ArmCall(p)
             \/ DisarmCall(p) \/ EnterCritical(p)
    <3>1. TypeOK
      BY DEF IInv
    <3>2. time' = time /\ due' = due /\ (pc'[TimerTask] \in Quiet <=> pc[TimerTask] \in Quiet)
      <4>1. Find(p) \/ Insert(p) => job[p].op \in {"setfn", "arm", "disarm"}
        BY DEF Find, Insert, At, IInv, CallsOK, CallOK
      <4> QED
        BY <2>2, <3>1, <4>1, WorkStutters
    <3> QED
      BY <3>2 DEF ClockStep
  <2> QED
    BY <1>2, <2>1, <2>2 DEF Work, Call
<1>3. CASE TaskWork \/ Tick
  BY <1>3, TaskSteps
<1> QED
  BY <1>1, <1>2, <1>3 DEF Next

\* Where callers give a timer its function before they arm it, the list of nodes and the
\* task that runs through it are an alarm clock: whoever searches, inserts, arms and ends
\* timers between whose steps, a timer changes by a call about it or by going off, and goes
\* off when it is due, one function at a time (esp_shim_timer_*).
THEOREM TimerIsAlarmClock == ASSUME FunctionsFirst PROVE Spec => IsAlarmClock
<1>1. Spec => []IInv
  BY TimerInductive, FunctionsFirst
<1>2. Init => Clock!Init
  <2> SUFFICES ASSUME Init PROVE Clock!Init
    OBVIOUS
  <2>1. [k \in Keys |-> ListDue(k)] = due
    BY InitOK, ListDueIsDue
  <2> QED
    BY <2>1, TimerProc, InitOK DEF Init, Clock!Init, IInv
<1>3. IInv => [k \in Keys |-> ListDue(k)] = due
  BY ListDueIsDue
<1>4. IInv /\ IInv' /\ ([k \in Keys |-> ListDue(k)] = due)' /\ [Next]_vars => [Clock!Next]_(Clock!acvars)
  <2> SUFFICES ASSUME IInv, IInv', ([k \in Keys |-> ListDue(k)] = due)', [Next]_vars
               PROVE  [Clock!Next]_(Clock!acvars)
    OBVIOUS
  <2>1. [k \in Keys |-> ListDue(k)] = due /\ [k \in Keys |-> ListDue(k)]' = due'
    BY <1>3
  <2>2. ClockStep
    BY EveryStepIsClocked
  <2>3. due \in [Keys -> Nat] /\ due' \in [Keys -> Nat]
    BY DEF IInv, TypeOK
  <2> DEFINE rings == pc[TimerTask] \notin Quiet
  <2>4. CASE time' = time /\ due' = due /\ (rings' <=> rings)
    BY <2>1, <2>4 DEF Clock!acvars, Quiet
  <2>5. ASSUME NEW k \in Keys, NEW d \in Nat, due' = [due EXCEPT ![k] = d],
               d = 0 \/ d > time, time' = time, rings' <=> rings
        PROVE  Clock!Next
    <3>1. Clock!Changes(k) /\ due'[k] = d
      BY <2>1, <2>3, <2>5 DEF Clock!Changes
    <3>2. Clock!Set(k) \/ Clock!Cancel(k)
      BY <2>1, <2>5, <3>1 DEF Clock!Set, Clock!Cancel, Quiet
    <3> QED
      BY <3>2 DEF Clock!Next
  <2>6. ASSUME NEW k \in Keys, NEW d \in Nat, due' = [due EXCEPT ![k] = d],
               d = 0 \/ d > due[k], due[k] # 0, due[k] <= time, time' = time, ~rings, rings'
        PROVE  Clock!Next
    <3>1. Clock!Changes(k) /\ due'[k] = d
      BY <2>1, <2>3, <2>6 DEF Clock!Changes
    <3>2. Clock!Ring(k)
      BY <2>1, <2>6, <3>1 DEF Clock!Ring, Quiet
    <3> QED
      BY <3>2 DEF Clock!Next
  <2>7. CASE time' = time /\ due' = due /\ rings /\ ~rings'
    BY <2>1, <2>7 DEF Clock!Next, Clock!Return, Quiet
  <2>8. CASE time' = time + 1 /\ due' = due /\ (rings' <=> rings)
    BY <2>1, <2>8 DEF Clock!Next, Clock!Tick, Quiet
  <2> QED
    BY <2>2, <2>4, <2>5, <2>6, <2>7, <2>8 DEF ClockStep
<1> QED
  BY <1>1, <1>2, <1>3, <1>4, PTL DEF Spec, IsAlarmClock, Clock!Spec
=============================================================================
