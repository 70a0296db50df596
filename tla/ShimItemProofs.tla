--------------------------- MODULE ShimItemProofs ----------------------------
(***************************************************************************)
(* What holds of the items of a queue for any number of slots, tasks,      *)
(* handlers and sends: no slot is handed out twice, no item in transit is  *)
(* overwritten, and what has become of an item is final.  For callers who  *)
(* neither reset the queue nor mask interrupts the queue is a              *)
(* BoundedChannel; and what one task sends is received in its order.       *)
(***************************************************************************)
EXTENDS ShimQueueProofs, FunctionTheorems

Rng(s)  == {s[i] : i \in DOMAIN s}
Once(s) == \A i, j \in DOMAIN s : s[i] = s[j] => i = j

-----------------------------------------------------------------------------
(* Slots on sequences without repetitions.                                 *)

LEMMA AppendOnce ==
  ASSUME NEW s \in Seq(Slots), NEW x, Once(s), x \notin Rng(s)
  PROVE  Once(Append(s, x)) /\ Rng(Append(s, x)) = Rng(s) \cup {x}
<1> DEFINE t == Append(s, x)
           n == Len(s)
<1>1. /\ n \in Nat /\ DOMAIN s = 1..n /\ DOMAIN t = 1..(n + 1)
      /\ t[n + 1] = x /\ \A i \in 1..n : t[i] = s[i]
  OBVIOUS
<1> HIDE DEF t, n
<1>2. \A i \in DOMAIN t : i \in 1..n \/ i = n + 1
  BY <1>1
<1>3. \A i \in 1..n : t[i] # x /\ t[i] \in Rng(s)
  BY <1>1 DEF Rng
<1>4. Once(t)
  <2> SUFFICES ASSUME NEW i \in DOMAIN t, NEW j \in DOMAIN t, t[i] = t[j] PROVE i = j
    BY DEF Once
  <2>1. CASE i \in 1..n /\ j \in 1..n
    BY <2>1, <1>1 DEF Once
  <2>2. CASE i = n + 1 \/ j = n + 1
    BY <2>2, <1>1, <1>2, <1>3
  <2> QED  BY <2>1, <2>2, <1>2
<1>5. Rng(t) = Rng(s) \cup {x}
  <2>1. Rng(t) \subseteq Rng(s) \cup {x}
    BY <1>1, <1>2, <1>3 DEF Rng
  <2>2. ASSUME NEW i \in 1..n PROVE s[i] \in Rng(t)
    <3>1. i \in DOMAIN t /\ t[i] = s[i]
      BY <1>1
    <3> QED  BY <3>1 DEF Rng
  <2>3. x \in Rng(t)
    <3>1. n + 1 \in DOMAIN t
      BY <1>1
    <3> QED  BY <3>1, <1>1 DEF Rng
  <2> QED  BY <2>1, <2>2, <2>3, <1>1 DEF Rng
<1> QED  BY <1>4, <1>5 DEF t

LEMMA TailOnce ==
  ASSUME NEW s \in Seq(Slots), s # <<>>, Once(s)
  PROVE  /\ Once(Tail(s)) /\ Rng(Tail(s)) = Rng(s) \ {Head(s)} /\ Head(s) \in Rng(s)
<1> DEFINE t == Tail(s)
           n == Len(s)
<1>1. /\ n \in Nat \ {0} /\ DOMAIN s = 1..n /\ DOMAIN t = 1..(n - 1)
      /\ Head(s) = s[1] /\ \A i \in 1..(n - 1) : t[i] = s[i + 1]
  OBVIOUS
<1> HIDE DEF t, n
<1>2. \A i \in DOMAIN t : i + 1 \in DOMAIN s /\ i + 1 # 1 /\ t[i] = s[i + 1]
  BY <1>1
<1>3. 1 \in DOMAIN s
  BY <1>1
<1>4. Once(t)
  <2> SUFFICES ASSUME NEW i \in DOMAIN t, NEW j \in DOMAIN t, t[i] = t[j] PROVE i = j
    BY DEF Once
  <2>1. i + 1 = j + 1
    BY <1>2 DEF Once
  <2>2. i \in Nat /\ j \in Nat
    BY <1>1
  <2> QED  BY <2>1, <2>2
<1>5. Rng(t) \subseteq Rng(s) \ {s[1]}
  BY <1>2, <1>3 DEF Rng, Once
<1>6. Rng(s) \ {s[1]} \subseteq Rng(t)
  <2>1. ASSUME NEW i \in DOMAIN s, i # 1 PROVE s[i] \in Rng(t)
    <3>1. i - 1 \in 1..(n - 1) /\ (i - 1) + 1 = i
      BY <2>1, <1>1
    <3>2. i - 1 \in DOMAIN t /\ t[i - 1] = s[i]
      BY <3>1, <1>1
    <3> QED  BY <3>2 DEF Rng
  <2> QED  BY <2>1 DEF Rng
<1> QED  BY <1>1, <1>3, <1>4, <1>5, <1>6 DEF t, Rng

LEMMA PopOnce ==
  ASSUME free \in Seq(Slots), free # <<>>, Once(free)
  PROVE  /\ Once(Pop) /\ Rng(Pop) = Rng(free) \ {Top} /\ Top \in Rng(free)
<1> DEFINE n == Len(free)
<1>1. n \in Nat \ {0} /\ DOMAIN free = 1..n /\ \A i \in 1..(n - 1) : free[i] \in Slots
  OBVIOUS
<1>2. /\ Len(Pop) = n - 1 /\ Pop \in Seq(Slots)
  BY FreeStack
<1>3. \A i \in 1..(n - 1) : Pop[i] = free[i]
  <2>1. \A i \in 1..((n - 1) - 1 + 1) : SubSeq(free, 1, n - 1)[i] = free[1 + i - 1]
    BY <1>1, SubSeqProperties
  <2> SUFFICES ASSUME NEW i \in 1..(n - 1) PROVE Pop[i] = free[i]
    OBVIOUS
  <2>2. i \in 1..((n - 1) - 1 + 1) /\ 1 + i - 1 = i
    BY <1>1
  <2> QED  BY <2>1, <2>2 DEF Pop
<1>4. DOMAIN Pop = 1..(n - 1)
  BY <1>2
<1> HIDE DEF n
<1>5. n \in DOMAIN free /\ Top = free[n]
  BY <1>1 DEF Top, n
<1>6. \A i \in DOMAIN Pop : i \in DOMAIN free /\ i # n /\ Pop[i] = free[i]
  BY <1>1, <1>3, <1>4
<1>7. \A i \in DOMAIN free : i = n \/ i \in DOMAIN Pop
  BY <1>1, <1>4
<1>8. Once(Pop)
  BY <1>6 DEF Once
<1>9. Rng(Pop) \subseteq Rng(free) \ {Top}
  BY <1>5, <1>6 DEF Rng, Once
<1>10. Rng(free) \ {Top} \subseteq Rng(Pop)
  BY <1>5, <1>6, <1>7 DEF Rng
<1> QED  BY <1>5, <1>8, <1>9, <1>10 DEF Rng

-----------------------------------------------------------------------------
(* The inductive invariant, beside that of ShimQueueProofs.                *)

\* A slot is in one place only.
Apart ==
  /\ Once(free) /\ Once(dtq) /\ Once(pend)
  /\ Rng(free) \cap Rng(dtq) = {}
  /\ Rng(free) \cap Rng(pend) = {}
  /\ Rng(dtq) \cap Rng(pend) = {}
  /\ \A p \in Procs : hand[p] \notin Rng(free) \cup Rng(dtq) \cup Rng(pend)
  /\ \A p, q \in Procs : hand[p] = hand[q] /\ hand[p] # NoSlot => p = q

Flushing(p) == pc[p] \in {"fpop", "fpsnd"} \/ (pc[p] \in {"notify", "sig"} /\ nret[p] = "fpop")

InSend(p) ==
  \/ pc[p] \in {"twai", "wsem", "alloc", "giveback", "tsnd", "pushp", "polsem", "ipsnd"}
  \/ Flushing(p) /\ fret[p] = "twai"

\* A flush returns to the call that began it, and a send has an item.
CallOK(p) == /\ fret[p] # "idle" => Flushing(p)
             /\ InSend(p) => msg[p] # NoMsg

\* The items of the sends under way; one that is to be pended is in its slot.
SendersOK ==
  /\ \A p \in Procs : CallOK(p)
  /\ \A p \in Procs : msg[p] # NoMsg => fate[msg[p]] = "calling"
  /\ \A p, q \in Procs : msg[p] = msg[q] /\ msg[p] # NoMsg => p = q
  /\ \A p \in Procs : pc[p] \in {"pushp", "ipsnd"} => pool[hand[p]] = msg[p]

\* The items in transit are the ones whose sends have been accepted, one in each slot.
ItemsOK ==
  /\ \A s \in TransitSlots : pool[s] # NoMsg /\ fate[pool[s]] = "sent"
  /\ \A s, t \in TransitSlots : pool[s] = pool[t] => s = t
  /\ \A m \in Msgs : fate[m] = "sent" => \E s \in TransitSlots : pool[s] = m
  /\ \A m \in Msgs : fate[m] = "unsent" <=> m > sent

ItemInv == Apart /\ SendersOK /\ ItemsOK

-----------------------------------------------------------------------------
(* Where a slot goes.                                                      *)

Moving == {"fpsnd", "copyout"}

LEMMA InTransit ==
  \A s : s \in TransitSlots <=>
           s \in Rng(dtq) \/ s \in Rng(pend) \/ \E p \in Procs : pc[p] \in Moving /\ hand[p] = s
BY DEF TransitSlots, Rng, Moving

LEMMA InTransitPrime ==
  \A s : s \in TransitSlots' <=>
           s \in Rng(dtq') \/ s \in Rng(pend') \/ \E p \in Procs : pc'[p] \in Moving /\ hand'[p] = s
<1>1. TransitSlots' = {dtq'[i] : i \in DOMAIN dtq'} \cup {pend'[i] : i \in DOMAIN pend'}
                        \cup {hand'[p] : p \in {q \in Procs : pc'[q] \in {"fpsnd", "copyout"}}}
  BY DEF TransitSlots
<1> QED  BY <1>1 DEF Rng, Moving

LEMMA RngSlots == ASSUME NEW s \in Seq(Slots) PROVE Rng(s) \subseteq Slots
BY DEF Rng

LEMMA TransitTyped ==
  ASSUME TypeInv, Apart
  PROVE  TransitSlots \subseteq Slots /\ TransitSlots \cap Rng(free) = {}
<1>1. Rng(dtq) \subseteq Slots /\ Rng(pend) \subseteq Slots
  BY RngSlots DEF TypeInv, TypeOK
<1>2. \A p \in Procs : pc[p] \in Moving => hand[p] \in Slots
  BY InHand DEF Moving, HoldsSlot
<1> QED  BY <1>1, <1>2, InTransit DEF Apart

LEMMA SameTransit ==
  ASSUME dtq' = dtq, pend' = pend,
         \A q \in Procs : pc'[q] \in Moving <=> pc[q] \in Moving,
         \A q \in Procs : pc[q] \in Moving => hand'[q] = hand[q]
  PROVE  TransitSlots' = TransitSlots
<1>1. Rng(dtq') = Rng(dtq) /\ Rng(pend') = Rng(pend)
  OBVIOUS
<1>2. \A x : (\E q \in Procs : pc'[q] \in Moving /\ hand'[q] = x)
             <=> (\E q \in Procs : pc[q] \in Moving /\ hand[q] = x)
  OBVIOUS
<1>3. \A x : x \in TransitSlots' <=> x \in TransitSlots
  BY <1>1, <1>2, InTransit, InTransitPrime
<1> QED  BY <1>3

LEMMA SlotsKept ==
  ASSUME TypeInv, Apart, UNCHANGED <<free, dtq, pend, hand>>,
         \A q \in Procs : pc'[q] \in Moving <=> pc[q] \in Moving
  PROVE  Apart' /\ TransitSlots' = TransitSlots
<1>1. Apart'
  BY DEF Apart, Rng, Once
<1>2. TransitSlots' = TransitSlots
  BY InTransit, InTransitPrime
<1> QED  BY <1>1, <1>2

\* From the free stack into a hand.
LEMMA SlotTaken ==
  ASSUME TypeInv, Apart, NEW p \in Procs, NEW l \in Labels \ Moving,
         free # <<>>, hand[p] = NoSlot, Go(p, l),
         hand' = [hand EXCEPT ![p] = Top], free' = Pop, dtq' = dtq, pend' = pend
  PROVE  Apart' /\ TransitSlots' = TransitSlots /\ Top \in Slots \ TransitSlots
<1>1. /\ free \in Seq(Slots) /\ dtq \in Seq(Slots) /\ pend \in Seq(Slots)
      /\ hand \in [Procs -> Slots \cup {NoSlot}] /\ pc \in [Procs -> Labels]
  BY DEF TypeInv, TypeOK
<1>2. Once(Pop) /\ Rng(Pop) = Rng(free) \ {Top} /\ Top \in Rng(free) /\ Top \in Slots
  BY <1>1, PopOnce, FreeStack DEF Apart
<1>3. Top \notin TransitSlots
  BY <1>2, TransitTyped
<1>4. hand'[p] = Top /\ \A q \in Procs \ {p} : hand'[q] = hand[q]
  BY <1>1
<1>5. \A q \in Procs : hand[q] # Top
  BY <1>2 DEF Apart
<1>6. \A q \in Procs : hand'[q] \notin Rng(free') \cup Rng(dtq') \cup Rng(pend')
  BY <1>2, <1>4 DEF Apart
<1>7. \A q, r \in Procs : hand'[q] = hand'[r] /\ hand'[q] # NoSlot => q = r
  BY <1>4, <1>5 DEF Apart
<1>8. Apart'
  BY <1>2, <1>6, <1>7 DEF Apart
<1>9. pc[p] \notin Moving
  BY <1>1, SlotIsNotNoSlot, InHand DEF Moving, HoldsSlot
<1>10. pc'[p] \notin Moving /\ \A q \in Procs \ {p} : pc'[q] = pc[q]
  BY <1>1 DEF Go
<1>11. \A q \in Procs : pc'[q] \in Moving <=> pc[q] \in Moving
  BY <1>9, <1>10
<1>12. \A q \in Procs : pc[q] \in Moving => hand'[q] = hand[q]
  BY <1>4, <1>9
<1>13. TransitSlots' = TransitSlots
  BY <1>11, <1>12, SameTransit
<1> QED  BY <1>2, <1>3, <1>8, <1>13

\* From a hand back onto the free stack.
LEMMA SlotFreed ==
  ASSUME TypeInv, Apart, NEW p \in Procs, pc[p] = "notify", NEW l \in Labels \ Moving, Go(p, l),
         hand' = [hand EXCEPT ![p] = NoSlot], free' = Append(free, hand[p]),
         dtq' = dtq, pend' = pend
  PROVE  Apart' /\ TransitSlots' = TransitSlots
<1>1. /\ free \in Seq(Slots) /\ hand \in [Procs -> Slots \cup {NoSlot}] /\ pc \in [Procs -> Labels]
      /\ dtq \in Seq(Slots) /\ pend \in Seq(Slots)
  BY DEF TypeInv, TypeOK
<1>2. hand[p] \in Slots /\ hand[p] # NoSlot
  BY InHand, SlotIsNotNoSlot DEF HoldsSlot
<1>3. hand[p] \notin Rng(free) \cup Rng(dtq) \cup Rng(pend)
  BY DEF Apart
<1>4. Once(free') /\ Rng(free') = Rng(free) \cup {hand[p]}
  BY <1>1, <1>3, AppendOnce DEF Apart
<1>5. hand'[p] = NoSlot /\ \A q \in Procs \ {p} : hand'[q] = hand[q] /\ hand[q] # hand[p]
  BY <1>1, <1>2 DEF Apart
<1>6. NoSlot \notin Rng(free') \cup Rng(dtq) \cup Rng(pend)
  BY <1>1, <1>2, <1>4, RngSlots, SlotIsNotNoSlot
<1>7. \A q \in Procs : hand'[q] \notin Rng(free') \cup Rng(dtq') \cup Rng(pend')
  BY <1>4, <1>5, <1>6 DEF Apart
<1>8. \A q, r \in Procs : hand'[q] = hand'[r] /\ hand'[q] # NoSlot => q = r
  BY <1>5 DEF Apart
<1>9. Apart'
  BY <1>3, <1>4, <1>7, <1>8 DEF Apart
<1>10. pc'[p] \notin Moving /\ pc[p] \notin Moving /\ \A q \in Procs \ {p} : pc'[q] = pc[q]
  BY <1>1 DEF Go, Moving
<1>11. \A q \in Procs : pc'[q] \in Moving <=> pc[q] \in Moving
  BY <1>10
<1>12. \A q \in Procs : pc[q] \in Moving => hand'[q] = hand[q]
  BY <1>5, <1>10
<1>13. TransitSlots' = TransitSlots
  BY <1>11, <1>12, SameTransit
<1> QED  BY <1>9, <1>13

\* From the head of the ring or of the data queue into a hand.
LEMMA SlotHeaded ==
  ASSUME TypeInv, Apart, NEW p \in Procs, hand[p] = NoSlot, NEW l \in Labels, Go(p, l), free' = free,
         NEW s \in {dtq, pend}, s # <<>>, hand' = [hand EXCEPT ![p] = Head(s)],
         \/ s = dtq /\ dtq' = Tail(dtq) /\ pend' = pend
         \/ s = pend /\ pend' = Tail(pend) /\ dtq' = dtq
  PROVE  /\ Apart' /\ Head(s) \in TransitSlots
         /\ l \in Moving => TransitSlots' = TransitSlots
         /\ l \notin Moving => TransitSlots' = TransitSlots \ {Head(s)}
<1>1. /\ free \in Seq(Slots) /\ hand \in [Procs -> Slots \cup {NoSlot}] /\ pc \in [Procs -> Labels]
      /\ dtq \in Seq(Slots) /\ pend \in Seq(Slots)
  BY DEF TypeInv, TypeOK
<1>2. Once(Tail(s)) /\ Rng(Tail(s)) = Rng(s) \ {Head(s)} /\ Head(s) \in Rng(s)
  BY <1>1, TailOnce DEF Apart
<1>3. hand'[p] = Head(s) /\ \A q \in Procs \ {p} : hand'[q] = hand[q]
  BY <1>1
<1>4. \A q \in Procs : hand[q] # Head(s)
  BY <1>2 DEF Apart
<1>5. /\ Rng(dtq') \cup Rng(pend') = (Rng(dtq) \cup Rng(pend)) \ {Head(s)}
      /\ Rng(dtq') \subseteq Rng(dtq) /\ Rng(pend') \subseteq Rng(pend)
  <2>1. CASE s = dtq /\ dtq' = Tail(dtq) /\ pend' = pend
    <3>1. Rng(dtq') = Rng(dtq) \ {Head(s)} /\ Rng(pend') = Rng(pend) /\ Head(s) \notin Rng(pend)
      BY <2>1, <1>2 DEF Apart
    <3> QED  BY <3>1
  <2>2. CASE s = pend /\ pend' = Tail(pend) /\ dtq' = dtq
    <3>1. Rng(pend') = Rng(pend) \ {Head(s)} /\ Rng(dtq') = Rng(dtq) /\ Head(s) \notin Rng(dtq)
      BY <2>2, <1>2 DEF Apart
    <3> QED  BY <3>1
  <2> QED  BY <2>1, <2>2
<1>6. \A q \in Procs : hand'[q] \notin Rng(free') \cup Rng(dtq') \cup Rng(pend')
  BY <1>2, <1>3, <1>5 DEF Apart
<1>7. \A q, r \in Procs : hand'[q] = hand'[r] /\ hand'[q] # NoSlot => q = r
  BY <1>3, <1>4 DEF Apart
<1>8. Once(dtq') /\ Once(pend')
  BY <1>2 DEF Apart
<1>9. Apart'
  BY <1>5, <1>6, <1>7, <1>8 DEF Apart
<1>10. pc'[p] = l /\ \A q \in Procs \ {p} : pc'[q] = pc[q]
  BY <1>1 DEF Go
<1>11. pc[p] \notin Moving
  BY <1>1, SlotIsNotNoSlot, InHand DEF Moving, HoldsSlot
<1>12. Head(s) \in TransitSlots
  BY <1>2, InTransit
<1>13. ASSUME NEW x PROVE x \in TransitSlots' <=>
          (x \in TransitSlots /\ x # Head(s)) \/ (l \in Moving /\ x = Head(s))
  <2>1. x \in TransitSlots' <=> \/ x \in Rng(dtq') \cup Rng(pend')
                                \/ \E q \in Procs \ {p} : pc[q] \in Moving /\ hand[q] = x
                                \/ l \in Moving /\ x = Head(s)
    BY <1>3, <1>10, InTransitPrime
  <2>2. x \in TransitSlots <=> \/ x \in Rng(dtq) \cup Rng(pend)
                               \/ \E q \in Procs \ {p} : pc[q] \in Moving /\ hand[q] = x
    BY <1>11, InTransit
  <2> QED  BY <2>1, <2>2, <1>4, <1>5
<1> QED  BY <1>9, <1>12, <1>13

\* Out of transit, in the same hand.
LEMMA SlotLeaves ==
  ASSUME TypeInv, Apart, NEW p \in Procs, pc[p] \in Moving, Go(p, "notify"),
         UNCHANGED <<free, dtq, pend, hand>>
  PROVE  Apart' /\ hand[p] \in TransitSlots /\ TransitSlots' = TransitSlots \ {hand[p]}
<1>1. Apart'
  BY DEF Apart, Rng, Once
<1>2. pc'[p] = "notify" /\ \A q \in Procs \ {p} : pc'[q] = pc[q]
  BY DEF Go, TypeInv, TypeOK
<1>3. hand[p] # NoSlot
  BY InHand, SlotIsNotNoSlot DEF Moving, HoldsSlot
<1>4. \A q \in Procs \ {p} : hand[q] # hand[p]
  BY <1>3 DEF Apart
<1>5. hand[p] \notin Rng(dtq) \cup Rng(pend)
  BY DEF Apart
<1>6. hand[p] \in TransitSlots
  BY InTransit
<1>7. TransitSlots' = TransitSlots \ {hand[p]}
  BY <1>2, <1>4, <1>5, InTransit, InTransitPrime DEF Moving
<1> QED  BY <1>1, <1>6, <1>7

\* From a hand onto the end of the ring or of the data queue.
LEMMA SlotAppended ==
  ASSUME TypeInv, Apart, NEW p \in Procs, hand[p] # NoSlot, NEW l \in Labels \ Moving, Go(p, l),
         free' = free, hand' = [hand EXCEPT ![p] = NoSlot],
         \/ dtq' = Append(dtq, hand[p]) /\ pend' = pend
         \/ pend' = Append(pend, hand[p]) /\ dtq' = dtq
  PROVE  Apart' /\ TransitSlots' = TransitSlots \cup {hand[p]}
<1>1. /\ free \in Seq(Slots) /\ hand \in [Procs -> Slots \cup {NoSlot}] /\ pc \in [Procs -> Labels]
      /\ dtq \in Seq(Slots) /\ pend \in Seq(Slots)
  BY DEF TypeInv, TypeOK
<1>2. hand[p] \in Slots
  BY <1>1
<1>3. hand[p] \notin Rng(free) \cup Rng(dtq) \cup Rng(pend)
  BY DEF Apart
<1>4. /\ Once(dtq') /\ Once(pend')
      /\ Rng(dtq') \cap Rng(pend') = {}
      /\ Rng(dtq') \cup Rng(pend') = Rng(dtq) \cup Rng(pend) \cup {hand[p]}
  <2>1. CASE dtq' = Append(dtq, hand[p]) /\ pend' = pend
    <3>1. Once(dtq') /\ Rng(dtq') = Rng(dtq) \cup {hand[p]} /\ Rng(pend') = Rng(pend)
      BY <2>1, <1>1, <1>2, <1>3, AppendOnce DEF Apart
    <3> QED  BY <3>1, <2>1, <1>3 DEF Apart
  <2>2. CASE pend' = Append(pend, hand[p]) /\ dtq' = dtq
    <3>1. Once(pend') /\ Rng(pend') = Rng(pend) \cup {hand[p]} /\ Rng(dtq') = Rng(dtq)
      BY <2>2, <1>1, <1>2, <1>3, AppendOnce DEF Apart
    <3> QED  BY <3>1, <2>2, <1>3 DEF Apart
  <2> QED  BY <2>1, <2>2
<1>5. hand'[p] = NoSlot /\ \A q \in Procs \ {p} : hand'[q] = hand[q] /\ hand[q] # hand[p]
  BY <1>1 DEF Apart
<1>6. NoSlot \notin Rng(free) \cup Rng(dtq) \cup Rng(pend) \cup {hand[p]}
  BY <1>1, RngSlots, SlotIsNotNoSlot
<1>7. Rng(free') = Rng(free) /\ Once(free')
  BY DEF Apart
<1>8. \A q \in Procs : hand'[q] \notin Rng(free') \cup Rng(dtq') \cup Rng(pend')
  BY <1>4, <1>5, <1>6, <1>7 DEF Apart
<1>9. \A q, r \in Procs : hand'[q] = hand'[r] /\ hand'[q] # NoSlot => q = r
  BY <1>5 DEF Apart
<1>10. Rng(free') \cap (Rng(dtq') \cup Rng(pend')) = {}
  BY <1>3, <1>4, <1>7 DEF Apart
<1>11. Apart'
  BY <1>4, <1>7, <1>8, <1>9, <1>10 DEF Apart
<1>12. pc'[p] \notin Moving /\ \A q \in Procs \ {p} : pc'[q] = pc[q]
  BY <1>1 DEF Go
<1>13. ASSUME NEW x PROVE x \in TransitSlots' <=> x \in TransitSlots \/ x = hand[p]
  <2>1. x \in TransitSlots' <=> \/ x \in Rng(dtq') \cup Rng(pend')
                                \/ \E q \in Procs \ {p} : pc[q] \in Moving /\ hand[q] = x
    BY <1>5, <1>12, InTransitPrime
  <2>2. x \in TransitSlots <=> \/ x \in Rng(dtq) \cup Rng(pend)
                               \/ \E q \in Procs \ {p} : pc[q] \in Moving /\ hand[q] = x
                               \/ pc[p] \in Moving /\ hand[p] = x
    BY InTransit
  <2> QED  BY <2>1, <2>2, <1>4
<1> QED  BY <1>11, <1>13

\* From a hand into that of the receiver that waits for it.
LEMMA SlotHanded ==
  ASSUME TypeInv, Apart, NEW p \in Procs, hand[p] # NoSlot, NEW l \in Labels \ Moving,
         NEW w \in Procs, w # p, pc[w] = "wdtq", pc' = [pc EXCEPT ![w] = "copyout", ![p] = l],
         hand' = [hand EXCEPT ![w] = hand[p], ![p] = NoSlot], UNCHANGED <<free, dtq, pend>>
  PROVE  Apart' /\ TransitSlots' = TransitSlots \cup {hand[p]}
<1>1. /\ free \in Seq(Slots) /\ hand \in [Procs -> Slots \cup {NoSlot}] /\ pc \in [Procs -> Labels]
      /\ dtq \in Seq(Slots) /\ pend \in Seq(Slots)
  BY DEF TypeInv, TypeOK
<1>2. /\ hand'[p] = NoSlot /\ hand'[w] = hand[p]
      /\ \A q \in Procs \ {p, w} : hand'[q] = hand[q] /\ hand[q] # hand[p]
  BY <1>1 DEF Apart
<1>3. NoSlot \notin Rng(free) \cup Rng(dtq) \cup Rng(pend)
  BY <1>1, RngSlots, SlotIsNotNoSlot
<1>4. Rng(free') = Rng(free) /\ Rng(dtq') = Rng(dtq) /\ Rng(pend') = Rng(pend)
      /\ Once(free') /\ Once(dtq') /\ Once(pend')
  BY DEF Apart
<1>5. \A q \in Procs : hand'[q] \notin Rng(free') \cup Rng(dtq') \cup Rng(pend')
  BY <1>2, <1>3, <1>4 DEF Apart
<1>6. ASSUME NEW q \in Procs, NEW r \in Procs, hand'[q] = hand'[r], hand'[q] # NoSlot
      PROVE  q = r
  <2>1. q # p /\ r # p
    BY <1>2, <1>6
  <2>2. CASE q = w \/ r = w
    BY <2>1, <2>2, <1>2, <1>6
  <2>3. CASE q # w /\ r # w
    <3>1. hand[q] = hand[r] /\ hand[q] # NoSlot
      BY <2>1, <2>3, <1>2, <1>6
    <3> QED  BY <3>1 DEF Apart
  <2> QED  BY <2>2, <2>3
<1>7. Apart'
  BY <1>4, <1>5, <1>6 DEF Apart
<1>8. /\ pc'[p] \notin Moving /\ pc'[w] \in Moving /\ pc[w] \notin Moving
      /\ \A q \in Procs \ {p, w} : pc'[q] = pc[q]
  BY <1>1 DEF Moving
<1>9. ASSUME NEW x PROVE x \in TransitSlots' <=> x \in TransitSlots \/ x = hand[p]
  <2>1. x \in TransitSlots' <=> \/ x \in Rng(dtq) \cup Rng(pend) \/ x = hand[p]
                                \/ \E q \in Procs \ {p, w} : pc[q] \in Moving /\ hand[q] = x
    <3>1. (\E q \in Procs : pc'[q] \in Moving /\ hand'[q] = x)
            <=> \/ x = hand[p]
                \/ \E q \in Procs \ {p, w} : pc[q] \in Moving /\ hand[q] = x
      BY <1>2, <1>8
    <3> QED  BY <3>1, <1>4, InTransitPrime
  <2>2. x \in TransitSlots <=> \/ x \in Rng(dtq) \cup Rng(pend)
                               \/ \E q \in Procs \ {p, w} : pc[q] \in Moving /\ hand[q] = x
                               \/ pc[p] \in Moving /\ hand[p] = x
    BY <1>8, InTransit
  <2> QED  BY <2>1, <2>2
<1> QED  BY <1>7, <1>9

\* psnd_dtq and tsnd_dtq.
LEMMA SlotPosted ==
  ASSUME TypeInv, Apart, NEW p \in Procs, pc[p] \in {"fpsnd", "tsnd", "ipsnd"},
         NEW l \in {"fpop", "idle"}, PutDtq(p, l), free' = free, pend' = pend
  PROVE  /\ Apart' /\ TransitSlots' = TransitSlots \cup {hand[p]}
         /\ pc'[p] = l
         /\ \A q \in Procs \ {p} : pc'[q] = pc[q] \/ (pc[q] = "wdtq" /\ pc'[q] = "copyout")
         /\ \A q \in Procs \ {p} : pc'[q] = pc[q] => hand'[q] = hand[q]
<1>1. hand[p] # NoSlot /\ l \in Labels \ Moving /\ pc[p] # "wdtq"
      /\ pc \in [Procs -> Labels] /\ hand \in [Procs -> Slots \cup {NoSlot}]
  BY InHand, SlotIsNotNoSlot DEF HoldsSlot, Labels, Moving, TypeInv, TypeOK
<1>2. CASE Go(p, l) /\ hand' = [hand EXCEPT ![p] = NoSlot] /\ dtq' = Append(dtq, hand[p])
  BY <1>1, <1>2, SlotAppended DEF Go
<1>3. CASE \E w \in Procs : /\ w # p /\ pc[w] = "wdtq"
                            /\ pc' = [pc EXCEPT ![w] = "copyout", ![p] = l]
                            /\ hand' = [hand EXCEPT ![w] = hand[p], ![p] = NoSlot]
                            /\ dtq' = dtq
  <2>1. PICK w \in Procs : /\ w # p /\ pc[w] = "wdtq"
                           /\ pc' = [pc EXCEPT ![w] = "copyout", ![p] = l]
                           /\ hand' = [hand EXCEPT ![w] = hand[p], ![p] = NoSlot]
                           /\ dtq' = dtq
    BY <1>3
  <2>2. Apart' /\ TransitSlots' = TransitSlots \cup {hand[p]}
    BY <2>1, <1>1, SlotHanded
  <2>3. pc'[p] = l /\ pc'[w] = "copyout" /\ \A q \in Procs \ {p, w} : pc'[q] = pc[q]
    BY <2>1, <1>1
  <2>4. \A q \in Procs \ {p, w} : hand'[q] = hand[q]
    BY <2>1, <1>1
  <2> QED  BY <2>1, <2>2, <2>3, <2>4
<1> QED  BY <1>1, <1>2, <1>3, PutDtqCases DEF TypeInv

-----------------------------------------------------------------------------
(* What becomes of the items and of the senders.                           *)

LEMMA ItemsKept ==
  ASSUME ItemsOK, TransitSlots' = TransitSlots, \A s \in TransitSlots : pool'[s] = pool[s],
         \A m \in Msgs : fate'[m] = "sent" <=> fate[m] = "sent",
         \A s \in TransitSlots : pool[s] \in Msgs \cup {NoMsg},
         \A m \in Msgs : fate'[m] = "unsent" <=> m > sent'
  PROVE  ItemsOK'
<1>1. \A s \in TransitSlots : pool[s] \in Msgs
  BY DEF ItemsOK
<1>2. \A s \in TransitSlots' : pool'[s] # NoMsg /\ fate'[pool'[s]] = "sent"
  BY <1>1 DEF ItemsOK
<1>3. \A s, t \in TransitSlots' : pool'[s] = pool'[t] => s = t
  BY DEF ItemsOK
<1>4. \A m \in Msgs : fate'[m] = "sent" => \E s \in TransitSlots' : pool'[s] = m
  BY DEF ItemsOK
<1> QED  BY <1>2, <1>3, <1>4 DEF ItemsOK

\* An item whose send is accepted is in a slot that was not in transit.
LEMMA ItemAccepted ==
  ASSUME ItemsOK, NEW s, s \notin TransitSlots, NEW m \in Msgs, pool'[s] = m,
         TransitSlots' = TransitSlots \cup {s}, \A t \in TransitSlots : pool'[t] = pool[t],
         fate \in [Msgs -> Fates], fate[m] = "calling", fate' = [fate EXCEPT ![m] = "sent"],
         \A t \in TransitSlots : pool[t] \in Msgs \cup {NoMsg}, sent' = sent
  PROVE  ItemsOK'
<1>1. \A t \in TransitSlots : pool[t] \in Msgs /\ pool[t] # m
  BY DEF ItemsOK
<1>2. fate'[m] = "sent" /\ \A n \in Msgs \ {m} : fate'[n] = fate[n]
  OBVIOUS
<1>3. m # NoMsg
  BY DEF NoMsg, Msgs
<1>4. \A t \in TransitSlots' : pool'[t] # NoMsg /\ fate'[pool'[t]] = "sent"
  BY <1>1, <1>2, <1>3 DEF ItemsOK
<1>5. \A t, u \in TransitSlots' : pool'[t] = pool'[u] => t = u
  BY <1>1 DEF ItemsOK
<1>6. \A n \in Msgs : fate'[n] = "sent" => \E t \in TransitSlots' : pool'[t] = n
  BY <1>2 DEF ItemsOK
<1>7. \A n \in Msgs : fate'[n] = "unsent" <=> n > sent'
  BY <1>2 DEF ItemsOK
<1> QED  BY <1>4, <1>5, <1>6, <1>7 DEF ItemsOK

\* An item that is received or discarded was accepted, and its slot leaves transit.
LEMMA ItemEnded ==
  ASSUME ItemsOK, NEW s \in TransitSlots, NEW f \in {"delivered", "dropped", "reset"},
         TransitSlots' = TransitSlots \ {s}, pool' = pool, sent' = sent,
         fate \in [Msgs -> Fates], fate' = [fate EXCEPT ![pool[s]] = f],
         \A t \in TransitSlots : pool[t] \in Msgs \cup {NoMsg}
  PROVE  ItemsOK' /\ pool[s] \in Msgs /\ fate[pool[s]] = "sent"
<1>1. pool[s] \in Msgs /\ fate[pool[s]] = "sent"
  BY DEF ItemsOK
<1>2. fate'[pool[s]] = f /\ \A n \in Msgs \ {pool[s]} : fate'[n] = fate[n]
  BY <1>1
<1>3. \A t \in TransitSlots' : pool[t] \in Msgs \ {pool[s]} /\ fate[pool[t]] = "sent"
  BY DEF ItemsOK
<1>4. \A t \in TransitSlots' : pool'[t] # NoMsg /\ fate'[pool'[t]] = "sent"
  BY <1>2, <1>3 DEF ItemsOK
<1>5. \A t, u \in TransitSlots' : pool'[t] = pool'[u] => t = u
  BY DEF ItemsOK
<1>6. ASSUME NEW n \in Msgs, fate'[n] = "sent" PROVE \E t \in TransitSlots' : pool'[t] = n
  <2>1. n # pool[s] /\ fate[n] = "sent"
    BY <1>1, <1>2, <1>6
  <2>2. PICK t \in TransitSlots : pool[t] = n
    BY <2>1 DEF ItemsOK
  <2> QED  BY <2>1, <2>2
<1>7. \A n \in Msgs : fate'[n] = "unsent" <=> n > sent'
  BY <1>1, <1>2 DEF ItemsOK
<1> QED  BY <1>1, <1>4, <1>5, <1>6, <1>7 DEF ItemsOK

\* A context that does not step, or is handed what it waits for.
Aside(q) ==
  /\ fret'[q] = fret[q] /\ nret'[q] = nret[q] /\ msg'[q] = msg[q]
  /\ \/ pc'[q] = pc[q]
     \/ pc[q] = "wsem" /\ pc'[q] = "alloc"
     \/ pc[q] = "wdtq" /\ pc'[q] = "copyout"

LEMMA SendersStep ==
  ASSUME SendersOK, NEW p \in Procs, \A q \in Procs \ {p} : Aside(q), CallOK(p)',
         \A q \in Procs \ {p} : msg[q] # NoMsg => fate'[msg[q]] = "calling",
         msg'[p] # NoMsg => /\ fate'[msg'[p]] = "calling"
                            /\ \A q \in Procs \ {p} : msg[q] # msg'[p],
         \A q \in Procs \ {p} :
           pc[q] \in {"pushp", "ipsnd"} /\ pc'[q] = pc[q] => pool'[hand'[q]] = pool[hand[q]],
         pc'[p] \in {"pushp", "ipsnd"} => pool'[hand'[p]] = msg'[p]
  PROVE  SendersOK'
<1>1. ASSUME NEW q \in Procs \ {p} PROVE CallOK(q)'
  <2>1. CallOK(q) /\ Aside(q)
    BY DEF SendersOK
  <2> QED  BY <2>1 DEF Aside, CallOK, InSend, Flushing
<1>2. \A q \in Procs : msg'[q] # NoMsg => fate'[msg'[q]] = "calling"
  BY DEF Aside
<1>3. \A q, r \in Procs : msg'[q] = msg'[r] /\ msg'[q] # NoMsg => q = r
  BY DEF Aside, SendersOK
<1>4. ASSUME NEW q \in Procs \ {p}, pc'[q] \in {"pushp", "ipsnd"} PROVE pool'[hand'[q]] = msg'[q]
  <2>1. pc'[q] = pc[q] /\ msg'[q] = msg[q]
    BY <1>4 DEF Aside
  <2> QED  BY <2>1, <1>4 DEF SendersOK
<1> QED  BY <1>1, <1>2, <1>3, <1>4 DEF SendersOK

-----------------------------------------------------------------------------
(* Every step preserves the invariant.                                     *)

PendPlaces == {"pushp", "ipsnd"}

LEMMA ItemTypes ==
  ASSUME TypeInv
  PROVE  /\ fate \in [Msgs -> Fates] /\ msg \in [Procs -> Msgs \cup {NoMsg}]
         /\ pool \in [Slots -> Msgs \cup {NoMsg}] /\ pc \in [Procs -> Labels]
         /\ hand \in [Procs -> Slots \cup {NoSlot}] /\ sent \in Nat
         /\ fret \in [Procs -> {"idle", "twai", "trcv", "prcv"}]
         /\ nret \in [Procs -> {"idle", "fpop", "prcv"}]
BY BoundsAssumption DEF TypeInv, TypeOK

LEMMA TransitPool ==
  ASSUME TypeInv, Apart
  PROVE  \A s \in TransitSlots : pool[s] \in Msgs \cup {NoMsg}
BY TransitTyped, ItemTypes

\* A step that moves no slot; a send may fail in it.
LEMMA QuietItems ==
  ASSUME TypeInv, ItemInv, NEW p \in Procs, NEW l \in Labels \ (Moving \cup PendPlaces),
         pc[p] \notin Moving, pc'[p] = l, UNCHANGED <<free, dtq, pend, hand, pool, sent>>,
         \A q \in Procs \ {p} : /\ pc'[q] = pc[q] \/ (pc[q] = "wsem" /\ pc'[q] = "alloc")
                                /\ fret'[q] = fret[q] /\ nret'[q] = nret[q],
         CallOK(p)', UNCHANGED <<msg, fate>> \/ (InSend(p) /\ Refuse(p))
  PROVE  ItemInv'
<1>1. \A q \in Procs : pc'[q] \in Moving <=> pc[q] \in Moving
  BY DEF Moving
<1>2. Apart' /\ TransitSlots' = TransitSlots
  BY <1>1, SlotsKept DEF ItemInv
<1>3. CASE UNCHANGED <<msg, fate>>
  <2>1. ItemsOK'
    BY <1>2, <1>3, TransitPool, ItemsKept DEF ItemInv, ItemsOK
  <2>2. \A q \in Procs \ {p} : Aside(q)
    BY <1>3 DEF Aside
  <2>3. SendersOK'
    <3>1. \A q \in Procs \ {p} : msg[q] # NoMsg => fate'[msg[q]] = "calling"
      BY <1>3 DEF ItemInv, SendersOK
    <3>2. msg'[p] # NoMsg => fate'[msg'[p]] = "calling" /\ \A q \in Procs \ {p} : msg[q] # msg'[p]
      BY <1>3 DEF ItemInv, SendersOK
    <3>3. pc'[p] \notin {"pushp", "ipsnd"}
      BY DEF PendPlaces
    <3> QED  BY <2>2, <3>1, <3>2, <3>3, SendersStep DEF ItemInv
  <2> QED  BY <1>2, <2>1, <2>3 DEF ItemInv
<1>4. CASE InSend(p) /\ Refuse(p)
  <2>1. msg[p] \in Msgs /\ msg[p] # NoMsg /\ fate[msg[p]] = "calling"
    BY <1>4, ItemTypes DEF ItemInv, SendersOK, CallOK
  <2>2. /\ fate'[msg[p]] = "refused" /\ \A m \in Msgs \ {msg[p]} : fate'[m] = fate[m]
        /\ msg'[p] = NoMsg /\ \A q \in Procs \ {p} : msg'[q] = msg[q]
    BY <1>4, <2>1, ItemTypes DEF Refuse, SetFate
  <2>3. ItemsOK'
    <3>1. \A m \in Msgs : fate'[m] = "sent" <=> fate[m] = "sent"
      BY <2>1, <2>2
    <3>2. \A m \in Msgs : fate'[m] = "unsent" <=> m > sent'
      BY <2>1, <2>2 DEF ItemInv, ItemsOK
    <3> QED  BY <1>2, <3>1, <3>2, TransitPool, ItemsKept DEF ItemInv
  <2>4. \A q \in Procs \ {p} : Aside(q)
    BY <2>2 DEF Aside
  <2>5. SendersOK'
    <3>1. \A q \in Procs \ {p} : msg[q] # NoMsg => fate'[msg[q]] = "calling"
      BY <2>1, <2>2, ItemTypes DEF ItemInv, SendersOK
    <3>2. pc'[p] \notin {"pushp", "ipsnd"}
      BY DEF PendPlaces
    <3> QED  BY <2>2, <2>4, <3>1, <3>2, SendersStep DEF ItemInv
  <2> QED  BY <1>2, <2>3, <2>5 DEF ItemInv
<1> QED  BY <1>3, <1>4

LEMMA GoMoves ==
  ASSUME TypeInv, NEW p \in Procs, NEW l, Go(p, l)
  PROVE  pc'[p] = l /\ \A q \in Procs \ {p} : pc'[q] = pc[q]
BY ItemTypes DEF Go

LEMMA SigMoves ==
  ASSUME TypeInv, NEW p \in Procs, NEW l \in Labels, SigSem(p, l), pc[p] # "wsem"
  PROVE  /\ pc'[p] = l
         /\ \A q \in Procs \ {p} : pc'[q] = pc[q] \/ (pc[q] = "wsem" /\ pc'[q] = "alloc")
<1>1. CASE Go(p, l)
  BY <1>1, GoMoves
<1>2. CASE \E w \in Procs : w # p /\ pc[w] = "wsem" /\ pc' = [pc EXCEPT ![w] = "alloc", ![p] = l]
  BY <1>2, ItemTypes
<1> QED  BY <1>1, <1>2, SigSemCases DEF TypeInv

\* Steps between two calls, and steps of a call that touch no slot and no item.
LEMMA FlushQuiet ==
  ASSUME TypeInv, ItemInv, NEW p \in Procs,
         FlushDone(p) \/ RecvFail(p) \/ RecvCall(p) \/ ResetCall(p) \/ ResetDone(p)
  PROVE  ItemInv'
<1>0. CallOK(p)
  BY DEF ItemInv, SendersOK
<1>1. UNCHANGED <<free, dtq, pend, hand, pool, sent>> /\ UNCHANGED <<msg, fate>> /\ nret' = nret
  BY DEF FlushDone, RecvFail, RecvCall, ResetCall, ResetDone, qvars, pvars, critvars, hvars
<1>2. CASE FlushDone(p)
  <2>1. Go(p, fret[p]) /\ pc[p] = "fpop" /\ fret' = [fret EXCEPT ![p] = "idle"]
    BY <1>2 DEF FlushDone, At
  <2>2. fret[p] \in Labels \ (Moving \cup PendPlaces)
    BY ItemTypes DEF Labels, Moving, PendPlaces
  <2>3. CallOK(p)'
    BY <1>0, <1>1, <2>1, GoMoves, ItemTypes DEF CallOK, InSend, Flushing
  <2> QED  BY <1>1, <2>1, <2>2, <2>3, GoMoves, QuietItems, ItemTypes DEF Moving
<1>3. CASE RecvFail(p) \/ ResetDone(p)
  <2>1. Go(p, "idle") /\ pc[p] \in {"trcv", "wdtq", "prcv"} /\ fret' = fret
    BY <1>3 DEF RecvFail, ResetDone, At
  <2>2. "idle" \in Labels \ (Moving \cup PendPlaces)
    BY DEF Labels, Moving, PendPlaces
  <2>3. CallOK(p)'
    BY <1>0, <1>1, <2>1, GoMoves DEF CallOK, InSend, Flushing
  <2> QED  BY <1>1, <2>1, <2>2, <2>3, GoMoves, QuietItems DEF Moving
<1>4. CASE RecvCall(p) \/ ResetCall(p)
  <2>1. /\ Go(p, "fpop") /\ pc[p] = "idle"
        /\ \E l \in {"trcv", "prcv"} : fret' = [fret EXCEPT ![p] = l]
    BY <1>4 DEF RecvCall, ResetCall, At
  <2>2. "fpop" \in Labels \ (Moving \cup PendPlaces)
    BY DEF Labels, Moving, PendPlaces
  <2>3. CallOK(p)'
    BY <1>1, <2>1, GoMoves, ItemTypes DEF CallOK, InSend, Flushing
  <2> QED  BY <1>1, <2>1, <2>2, <2>3, GoMoves, QuietItems, ItemTypes DEF Moving
<1> QED  BY <1>2, <1>3, <1>4

LEMMA CritQuiet ==
  ASSUME TypeInv, ItemInv, NEW p \in Procs,
         EnterCritical(p) \/ ExitCritical(p) \/ IntDisable(p) \/ IntRestore(p)
  PROVE  ItemInv'
<1>0. CallOK(p) /\ pc[p] = "idle"
  BY DEF ItemInv, SendersOK, EnterCritical, ExitCritical, IntDisable, IntRestore, At
<1>1. /\ UNCHANGED <<free, dtq, pend, hand, pool, sent>> /\ UNCHANGED <<msg, fate>>
      /\ UNCHANGED <<nret, fret>>
  BY DEF EnterCritical, ExitCritical, IntDisable, IntRestore, qvars, pvars, critvars, hvars
<1>2. pc' = pc \/ Go(p, "fpop")
  BY DEF EnterCritical, ExitCritical, IntDisable, IntRestore, pvars
<1>3. "fpop" \in Labels \ (Moving \cup PendPlaces) /\ "idle" \in Labels \ (Moving \cup PendPlaces)
  BY DEF Labels, Moving, PendPlaces
<1>4. CASE pc' = pc
  <2>1. CallOK(p)'
    BY <1>0, <1>1, <1>4 DEF CallOK, InSend, Flushing
  <2> QED  BY <1>0, <1>1, <1>3, <1>4, <2>1, QuietItems DEF Moving
<1>5. CASE Go(p, "fpop")
  <2>1. CallOK(p)'
    BY <1>0, <1>1, <1>5, GoMoves DEF CallOK, InSend, Flushing
  <2> QED  BY <1>0, <1>1, <1>3, <1>5, <2>1, GoMoves, QuietItems DEF Moving
<1> QED  BY <1>2, <1>4, <1>5

\* Tokens taken and returned, and sends that fail.
LEMMA TokenQuiet ==
  ASSUME TypeInv, ItemInv, NEW p \in Procs,
         TakeToken(p) \/ PolToken(p) \/ SendTimeout(p) \/ GiveBack(p) \/ ReturnToken(p)
  PROVE  ItemInv'
<1>0. CallOK(p)
  BY DEF ItemInv, SendersOK
<1>1. UNCHANGED <<free, dtq, pend, hand, pool, sent>> /\ fret' = fret
  BY DEF TakeToken, PolToken, SendTimeout, GiveBack, ReturnToken, qvars, pvars, critvars, hvars
<1>2. CASE TakeToken(p) \/ (PolToken(p) /\ UNCHANGED <<msg, fate>>)
  <2>1. /\ UNCHANGED <<msg, fate>> /\ nret' = nret /\ pc[p] \in {"twai", "polsem"}
        /\ Go(p, "alloc") \/ Go(p, "wsem") \/ (PolToken(p) /\ Go(p, "idle") /\ Refuse(p))
    BY <1>2 DEF TakeToken, PolToken, At, hvars
  <2>2. "alloc" \in Labels \ (Moving \cup PendPlaces) /\ "wsem" \in Labels \ (Moving \cup PendPlaces)
    BY DEF Labels, Moving, PendPlaces
  <2>3. msg[p] # NoMsg /\ fret[p] = "idle"
    BY <1>0, <2>1 DEF CallOK, InSend, Flushing
  <2>4. ~Refuse(p)
    BY <2>1, <2>3, ItemTypes DEF Refuse
  <2>5. CallOK(p)'
    BY <1>1, <2>1, <2>3, <2>4, GoMoves DEF CallOK, InSend, Flushing
  <2> QED  BY <1>1, <2>1, <2>2, <2>4, <2>5, GoMoves, QuietItems DEF Moving
<1>3. CASE SendTimeout(p) \/ (PolToken(p) /\ Go(p, "idle") /\ Refuse(p)) \/ GiveBack(p)
  <2>1. Refuse(p) /\ nret' = nret /\ pc[p] \in {"twai", "wsem", "polsem", "giveback"}
    BY <1>3 DEF SendTimeout, PolToken, GiveBack, At
  <2>2. "idle" \in Labels \ (Moving \cup PendPlaces)
    BY DEF Labels, Moving, PendPlaces
  <2>3. /\ pc'[p] = "idle"
        /\ \A q \in Procs \ {p} : pc'[q] = pc[q] \/ (pc[q] = "wsem" /\ pc'[q] = "alloc")
    <3>1. CASE Go(p, "idle")
      BY <3>1, GoMoves
    <3>2. CASE GiveBack(p)
      BY <2>2, <3>2, SigMoves DEF GiveBack, At
    <3> QED  BY <1>3, <3>1, <3>2 DEF SendTimeout
  <2>4. InSend(p)
    BY <2>1 DEF InSend
  <2>5. CallOK(p)'
    BY <1>0, <1>1, <2>1, <2>3 DEF CallOK, InSend, Flushing
  <2> QED  BY <1>1, <2>1, <2>2, <2>3, <2>4, <2>5, QuietItems DEF Moving
<1>4. CASE ReturnToken(p)
  <2>1. /\ SigSem(p, nret[p]) /\ nret' = [nret EXCEPT ![p] = "idle"] /\ pc[p] = "sig"
        /\ UNCHANGED <<msg, fate>>
    BY <1>4 DEF ReturnToken, At
  <2>2. nret[p] \in Labels \ (Moving \cup PendPlaces)
    BY ItemTypes DEF Labels, Moving, PendPlaces
  <2>3. /\ pc'[p] = nret[p]
        /\ \A q \in Procs \ {p} : pc'[q] = pc[q] \/ (pc[q] = "wsem" /\ pc'[q] = "alloc")
    BY <2>1, <2>2, SigMoves
  <2>4. CallOK(p)'
    BY <1>0, <1>1, <2>1, <2>3, ItemTypes DEF CallOK, InSend, Flushing
  <2> QED  BY <1>1, <2>1, <2>2, <2>3, <2>4, QuietItems, ItemTypes DEF Moving
<1> QED  BY <1>2, <1>3, <1>4 DEF PolToken

\* A step that moves one slot and changes no item.
LEMMA SlotMoves ==
  ASSUME TypeInv, ItemInv, NEW p \in Procs, NEW l \in Labels \ PendPlaces, Go(p, l),
         Apart', TransitSlots' = TransitSlots, UNCHANGED <<pool, msg, fate, sent>>,
         \A q \in Procs \ {p} : hand'[q] = hand[q] /\ fret'[q] = fret[q] /\ nret'[q] = nret[q],
         CallOK(p)'
  PROVE  ItemInv'
<1>1. ItemsOK'
  BY TransitPool, ItemsKept DEF ItemInv, ItemsOK
<1>2. pc'[p] = l /\ \A q \in Procs \ {p} : pc'[q] = pc[q]
  BY GoMoves
<1>3. \A q \in Procs \ {p} : Aside(q)
  BY <1>2 DEF Aside
<1>4. SendersOK'
  <2>1. \A q \in Procs \ {p} : msg[q] # NoMsg => fate'[msg[q]] = "calling"
    BY DEF ItemInv, SendersOK
  <2>2. msg'[p] # NoMsg => fate'[msg'[p]] = "calling" /\ \A q \in Procs \ {p} : msg[q] # msg'[p]
    BY DEF ItemInv, SendersOK
  <2>3. pc'[p] \notin {"pushp", "ipsnd"}
    BY <1>2 DEF PendPlaces
  <2> QED  BY <1>3, <2>1, <2>2, <2>3, SendersStep DEF ItemInv
<1> QED  BY <1>1, <1>4 DEF ItemInv

LEMMA HandEmpty ==
  ASSUME TypeInv, NEW p \in Procs, pc[p] \notin HoldsSlot
  PROVE  hand[p] = NoSlot
BY DEF TypeInv, HandOK

LEMMA AllocSlotItems ==
  ASSUME TypeInv, ItemInv, NEW p \in Procs, AllocSlot(p)
  PROVE  ItemInv'
<1>0. CallOK(p)
  BY DEF ItemInv, SendersOK
<1>1. /\ UNCHANGED <<dtq, pend, pool, sent>> /\ UNCHANGED <<msg, fate>>
      /\ UNCHANGED <<fret, nret>> /\ pc[p] = "alloc"
  BY DEF AllocSlot, At, hvars
<1>2. "giveback" \in Labels \ (Moving \cup PendPlaces) /\ "tsnd" \in Labels \ (Moving \cup PendPlaces)
  BY DEF Labels, Moving, PendPlaces
<1>3. CASE Go(p, "giveback") /\ UNCHANGED <<free, hand>>
  <2>1. CallOK(p)'
    BY <1>0, <1>1, <1>3, GoMoves DEF CallOK, InSend, Flushing
  <2> QED  BY <1>1, <1>2, <1>3, <2>1, GoMoves, QuietItems DEF Moving
<1>4. CASE free # <<>> /\ hand' = [hand EXCEPT ![p] = Top] /\ free' = Pop /\ Go(p, "tsnd")
  <2>1. CallOK(p)'
    BY <1>0, <1>1, <1>4, GoMoves DEF CallOK, InSend, Flushing
  <2>2. hand[p] = NoSlot
    BY <1>1, HandEmpty DEF HoldsSlot
  <2>3. Apart' /\ TransitSlots' = TransitSlots
    BY <1>1, <1>2, <1>4, <2>2, SlotTaken DEF ItemInv
  <2>4. \A q \in Procs \ {p} : hand'[q] = hand[q]
    BY <1>4, ItemTypes
  <2> QED  BY <1>1, <1>2, <1>4, <2>1, <2>3, <2>4, SlotMoves
<1> QED  BY <1>3, <1>4 DEF AllocSlot

LEMMA FreeSlotItems ==
  ASSUME TypeInv, ItemInv, NEW p \in Procs, FreeSlot(p)
  PROVE  ItemInv'
<1>0. CallOK(p)
  BY DEF ItemInv, SendersOK
<1>1. /\ UNCHANGED <<dtq, pend, pool, sent>> /\ UNCHANGED <<msg, fate>>
      /\ fret' = fret /\ pc[p] = "notify"
      /\ free' = Append(free, hand[p]) /\ hand' = [hand EXCEPT ![p] = NoSlot]
  BY DEF FreeSlot, At, hvars
<1>2. nret[p] \in Labels \ (Moving \cup PendPlaces) /\ "sig" \in Labels \ (Moving \cup PendPlaces)
  BY ItemTypes DEF Labels, Moving, PendPlaces
<1>3. \A q \in Procs \ {p} : hand'[q] = hand[q]
  BY <1>1, ItemTypes
<1>4. CASE Go(p, nret[p]) /\ nret' = [nret EXCEPT ![p] = "idle"]
  <2>1. CallOK(p)'
    BY <1>0, <1>1, <1>4, GoMoves, ItemTypes DEF CallOK, InSend, Flushing
  <2>2. Apart' /\ TransitSlots' = TransitSlots
    BY <1>1, <1>2, <1>4, SlotFreed DEF ItemInv
  <2> QED  BY <1>1, <1>2, <1>3, <1>4, <2>1, <2>2, SlotMoves, ItemTypes
<1>5. CASE Go(p, "sig") /\ nret' = nret
  <2>1. CallOK(p)'
    BY <1>0, <1>1, <1>5, GoMoves DEF CallOK, InSend, Flushing
  <2>2. Apart' /\ TransitSlots' = TransitSlots
    BY <1>1, <1>2, <1>5, SlotFreed DEF ItemInv
  <2> QED  BY <1>1, <1>2, <1>3, <1>5, <2>1, <2>2, SlotMoves
<1> QED  BY <1>4, <1>5 DEF FreeSlot

LEMMA HeadMoves ==
  ASSUME TypeInv, ItemInv, NEW p \in Procs, FlushPop(p) \/ RecvTake(p)
  PROVE  ItemInv'
<1>0. CallOK(p)
  BY DEF ItemInv, SendersOK
<1>1. /\ UNCHANGED <<free, pool, sent>> /\ UNCHANGED <<msg, fate>> /\ UNCHANGED <<fret, nret>>
  BY DEF FlushPop, RecvTake, hvars
<1>2. /\ "fpsnd" \in (Labels \cap Moving) \ PendPlaces
      /\ "copyout" \in (Labels \cap Moving) \ PendPlaces
      /\ "wdtq" \in Labels \ (Moving \cup PendPlaces)
  BY DEF Labels, Moving, PendPlaces
<1>3. pc[p] \in {"fpop", "trcv"}
  BY DEF FlushPop, RecvTake, At
<1>4. hand[p] = NoSlot
  BY <1>3, HandEmpty DEF HoldsSlot
<1>5. CASE FlushPop(p)
  <2>1. /\ pc[p] = "fpop" /\ pend # <<>> /\ hand' = [hand EXCEPT ![p] = Head(pend)]
        /\ pend' = Tail(pend) /\ dtq' = dtq /\ Go(p, "fpsnd")
    BY <1>5 DEF FlushPop, At
  <2>2. CallOK(p)'
    BY <1>0, <1>1, <2>1, GoMoves DEF CallOK, InSend, Flushing
  <2>3. Apart' /\ TransitSlots' = TransitSlots
    BY <1>1, <1>2, <1>4, <2>1, SlotHeaded DEF ItemInv
  <2>4. \A q \in Procs \ {p} : hand'[q] = hand[q]
    BY <2>1, ItemTypes
  <2> QED  BY <1>1, <1>2, <2>1, <2>2, <2>3, <2>4, SlotMoves
<1>6. CASE RecvTake(p) /\ dtq # <<>>
  <2>1. /\ pc[p] = "trcv" /\ dtq # <<>> /\ hand' = [hand EXCEPT ![p] = Head(dtq)]
        /\ dtq' = Tail(dtq) /\ pend' = pend /\ Go(p, "copyout")
    BY <1>6 DEF RecvTake, At
  <2>2. CallOK(p)'
    BY <1>0, <1>1, <2>1, GoMoves DEF CallOK, InSend, Flushing
  <2>3. Apart' /\ TransitSlots' = TransitSlots
    BY <1>1, <1>2, <1>4, <2>1, SlotHeaded DEF ItemInv
  <2>4. \A q \in Procs \ {p} : hand'[q] = hand[q]
    BY <2>1, ItemTypes
  <2> QED  BY <1>1, <1>2, <2>1, <2>2, <2>3, <2>4, SlotMoves
<1>7. CASE RecvTake(p) /\ dtq = <<>>
  <2>1. pc[p] = "trcv" /\ Go(p, "wdtq") /\ UNCHANGED <<hand, dtq, pend>>
    BY <1>7 DEF RecvTake, At
  <2>2. CallOK(p)'
    BY <1>0, <1>1, <2>1, GoMoves DEF CallOK, InSend, Flushing
  <2> QED  BY <1>1, <1>2, <2>1, <2>2, GoMoves, QuietItems DEF Moving
<1> QED  BY <1>5, <1>6, <1>7

\* A send that gets its slot without a token copies its item at once.
LEMMA AllocDebtItems ==
  ASSUME TypeInv, ItemInv, NEW p \in Procs, SendNoToken(p) \/ IsrAlloc(p)
  PROVE  ItemInv'
<1>0. CallOK(p)
  BY DEF ItemInv, SendersOK
<1>1. /\ UNCHANGED <<dtq, pend, sent>> /\ UNCHANGED <<fret, nret>> /\ pc[p] \in {"twai", "polsem"}
      /\ \E l \in PendPlaces : AllocDebt(p, l)
  BY DEF SendNoToken, IsrAlloc, At, PendPlaces
<1>2. InSend(p) /\ hand[p] = NoSlot /\ msg[p] \in Msgs /\ msg[p] # NoMsg /\ fret[p] = "idle"
  BY <1>0, <1>1, HandEmpty, ItemTypes DEF InSend, HoldsSlot, CallOK, Flushing
<1>3. CASE Refuse(p) /\ Go(p, "idle") /\ UNCHANGED <<free, debt, pool, hand>>
  <2>1. CallOK(p)'
    BY <1>1, <1>2, <1>3, GoMoves DEF CallOK, InSend, Flushing
  <2>2. "idle" \in Labels \ (Moving \cup PendPlaces)
    BY DEF Labels, Moving, PendPlaces
  <2> QED  BY <1>1, <1>2, <1>3, <2>1, <2>2, GoMoves, QuietItems DEF Moving
<1>4. ASSUME NEW l \in PendPlaces,
             free # <<>> /\ hand' = [hand EXCEPT ![p] = Top] /\ free' = Pop
               /\ pool' = [pool EXCEPT ![Top] = msg[p]] /\ Go(p, l) /\ UNCHANGED <<msg, fate>>
      PROVE  ItemInv'
  <2>1. l \in Labels \ Moving
    BY DEF Labels, Moving, PendPlaces
  <2>2. Apart' /\ TransitSlots' = TransitSlots /\ Top \in Slots \ TransitSlots
    BY <1>1, <1>2, <1>4, <2>1, SlotTaken DEF ItemInv
  <2>3. pool'[Top] = msg[p] /\ \A s \in Slots \ {Top} : pool'[s] = pool[s]
    BY <1>4, <2>2, ItemTypes
  <2>4. \A s \in TransitSlots : pool'[s] = pool[s]
    BY <2>2, <2>3, TransitTyped DEF ItemInv
  <2>5. ItemsOK'
    BY <1>1, <1>4, <2>2, <2>4, TransitPool, ItemsKept DEF ItemInv, ItemsOK
  <2>6. pc'[p] = l /\ \A q \in Procs \ {p} : pc'[q] = pc[q]
    BY <1>4, GoMoves
  <2>7. \A q \in Procs \ {p} : Aside(q)
    BY <1>1, <1>4, <2>6 DEF Aside
  <2>8. CallOK(p)'
    BY <1>1, <1>2, <1>4, <2>6 DEF CallOK, InSend, Flushing, PendPlaces
  <2>9. hand'[p] = Top /\ \A q \in Procs \ {p} : hand'[q] = hand[q]
    BY <1>4, ItemTypes
  <2>10. ASSUME NEW q \in Procs \ {p}, pc[q] \in {"pushp", "ipsnd"}
         PROVE  pool'[hand'[q]] = pool[hand[q]]
    <3>1. hand[q] \in Slots /\ hand[q] # NoSlot
      BY <2>10, InHand, SlotIsNotNoSlot DEF HoldsSlot
    <3>2. hand[q] # Top
      <4>1. hand'[q] = hand[q] /\ hand'[p] = Top /\ q # p
        BY <2>9
      <4> QED  BY <2>2, <3>1, <4>1 DEF Apart
    <3> QED  BY <2>3, <2>9, <3>1, <3>2
  <2>11. SendersOK'
    <3>1. \A q \in Procs \ {p} : msg[q] # NoMsg => fate'[msg[q]] = "calling"
      BY <1>4 DEF ItemInv, SendersOK
    <3>2. msg'[p] # NoMsg => fate'[msg'[p]] = "calling" /\ \A q \in Procs \ {p} : msg[q] # msg'[p]
      BY <1>4 DEF ItemInv, SendersOK
    <3>3. pool'[hand'[p]] = msg'[p]
      BY <1>4, <2>3, <2>9
    <3> QED  BY <2>7, <2>8, <2>10, <3>1, <3>2, <3>3, SendersStep DEF ItemInv
  <2> QED  BY <2>2, <2>5, <2>11 DEF ItemInv
<1> QED  BY <1>1, <1>3, <1>4 DEF AllocDebt

\* A send call names an item that no call has named before.
LEMMA NewItems ==
  ASSUME TypeInv, ItemInv, NEW p \in Procs, SendCall(p) \/ IsrSendCall(p)
  PROVE  ItemInv'
<1>1. /\ UNCHANGED <<free, dtq, pend, pool, hand>> /\ nret' = nret /\ pc[p] = "idle"
      /\ NewItem(p) /\ \A q \in Procs \ {p} : fret'[q] = fret[q]
      /\ \/ Go(p, "fpop")
         \/ Go(p, "polsem") /\ fret' = fret
  BY ItemTypes DEF SendCall, IsrSendCall, At, qvars
<1>2. /\ sent' = sent + 1 /\ sent + 1 \in Msgs /\ sent \in Nat
      /\ msg' = [msg EXCEPT ![p] = sent + 1] /\ fate' = [fate EXCEPT ![sent + 1] = "calling"]
  BY <1>1, BoundsAssumption, ItemTypes DEF NewItem, SetFate, Msgs
<1>3. /\ msg'[p] = sent + 1 /\ \A q \in Procs \ {p} : msg'[q] = msg[q]
      /\ fate'[sent + 1] = "calling" /\ \A m \in Msgs \ {sent + 1} : fate'[m] = fate[m]
  BY <1>2, ItemTypes
<1>4. fate[sent + 1] = "unsent"
  <2>1. sent + 1 > sent
    BY <1>2
  <2> QED  BY <1>2, <2>1 DEF ItemInv, ItemsOK
<1>5. /\ pc'[p] \in {"fpop", "polsem"} /\ \A q \in Procs \ {p} : pc'[q] = pc[q]
  BY <1>1, GoMoves
<1>6. Apart' /\ TransitSlots' = TransitSlots
  <2>1. \A q \in Procs : pc'[q] \in Moving <=> pc[q] \in Moving
    BY <1>1, <1>5 DEF Moving
  <2> QED  BY <1>1, <2>1, SlotsKept DEF ItemInv
<1>7. ItemsOK'
  <2>1. \A m \in Msgs : fate'[m] = "sent" <=> fate[m] = "sent"
    BY <1>3, <1>4
  <2>2. ASSUME NEW m \in Msgs PROVE fate'[m] = "unsent" <=> m > sent'
    <3>1. fate[m] = "unsent" <=> m > sent
      BY DEF ItemInv, ItemsOK
    <3>2. m \in Nat
      BY BoundsAssumption DEF Msgs
    <3>3. m > sent' <=> m > sent /\ m # sent + 1
      BY <1>2, <3>2
    <3> QED  BY <1>3, <3>1, <3>3
  <2> QED  BY <1>1, <1>6, <2>1, <2>2, TransitPool, ItemsKept DEF ItemInv
<1>8. \A q \in Procs \ {p} : Aside(q)
  BY <1>1, <1>3, <1>5 DEF Aside
<1>9. \A q \in Procs : msg[q] # NoMsg => msg[q] \in Msgs \ {sent + 1} /\ fate[msg[q]] = "calling"
  BY <1>4, ItemTypes DEF ItemInv, SendersOK
<1>10. CallOK(p)'
  <2>1. CallOK(p) /\ fret[p] = "idle"
    BY <1>1 DEF ItemInv, SendersOK, CallOK, Flushing
  <2>2. msg'[p] # NoMsg
    BY <1>2, <1>3 DEF NoMsg
  <2>3. fret'[p] # "idle" => pc'[p] = "fpop"
    BY <1>1, <2>1, GoMoves
  <2> QED  BY <2>2, <2>3 DEF CallOK, Flushing
<1>11. SendersOK'
  <2>1. \A q \in Procs \ {p} : msg[q] # NoMsg => fate'[msg[q]] = "calling"
    BY <1>3, <1>9
  <2>2. sent + 1 # NoMsg
    BY <1>2 DEF NoMsg
  <2>3. msg'[p] # NoMsg => fate'[msg'[p]] = "calling" /\ \A q \in Procs \ {p} : msg[q] # msg'[p]
    BY <1>3, <1>9, <2>2
  <2>4. \A q \in Procs \ {p} :
           pc[q] \in {"pushp", "ipsnd"} /\ pc'[q] = pc[q] => pool'[hand'[q]] = pool[hand[q]]
    BY <1>1
  <2>5. pc'[p] \notin {"pushp", "ipsnd"}
    BY <1>5
  <2> QED  BY <1>8, <1>10, <2>1, <2>3, <2>4, <2>5, SendersStep DEF ItemInv
<1> QED  BY <1>6, <1>7, <1>11 DEF ItemInv

\* An item that leaves the queue is nobody's to send.
LEMMA SendersApart ==
  ASSUME TypeInv, ItemInv, NEW p \in Procs, NEW l \in {"notify", "prcv"}, Go(p, l), NEW m \in Msgs,
         fate[m] = "sent", NEW f \in Fates, fate' = [fate EXCEPT ![m] = f],
         UNCHANGED <<pool, msg>>, CallOK(p)',
         \A q \in Procs \ {p} : hand'[q] = hand[q] /\ fret'[q] = fret[q] /\ nret'[q] = nret[q]
  PROVE  SendersOK'
<1>1. fate'[m] = f /\ \A n \in Msgs \ {m} : fate'[n] = fate[n]
  BY ItemTypes
<1>2. pc'[p] = l /\ \A q \in Procs \ {p} : pc'[q] = pc[q]
  BY GoMoves
<1>3. \A q \in Procs : msg[q] # NoMsg => fate'[msg[q]] = "calling"
  BY <1>1, ItemTypes DEF ItemInv, SendersOK
<1>4. \A q \in Procs \ {p} : Aside(q)
  BY <1>2 DEF Aside
<1>5. msg'[p] # NoMsg => fate'[msg'[p]] = "calling" /\ \A q \in Procs \ {p} : msg[q] # msg'[p]
  BY <1>3 DEF ItemInv, SendersOK
<1>6. pc'[p] \notin {"pushp", "ipsnd"}
  BY <1>2
<1>7. \A q \in Procs \ {p} :
         pc[q] \in {"pushp", "ipsnd"} /\ pc'[q] = pc[q] => pool'[hand'[q]] = pool[hand[q]]
  OBVIOUS
<1> QED  BY <1>3, <1>4, <1>5, <1>6, <1>7, SendersStep DEF ItemInv

\* Delivered to a receiver, or dropped by a flush with interrupts masked.
LEMMA EndItems ==
  ASSUME TypeInv, ItemInv, NEW p \in Procs, CopyOut(p) \/ FlushFail(p)
  PROVE  ItemInv'
<1>0. CallOK(p)
  BY DEF ItemInv, SendersOK
<1>1. /\ UNCHANGED <<free, dtq, pend, hand, pool, sent>> /\ msg' = msg /\ fret' = fret
      /\ Go(p, "notify") /\ pc[p] \in Moving
  BY DEF CopyOut, FlushFail, FreeThen, At, qvars, Moving
<1>2. PICK f \in {"delivered", "dropped", "reset"} : fate' = [fate EXCEPT ![pool[hand[p]]] = f]
  BY DEF CopyOut, FlushFail, SetFate
<1>3. /\ \A q \in Procs \ {p} : nret'[q] = nret[q]
      /\ pc[p] = "fpsnd" => nret'[p] = "fpop"
  BY ItemTypes DEF CopyOut, FlushFail, FreeThen, At
<1>4. Apart' /\ hand[p] \in TransitSlots /\ TransitSlots' = TransitSlots \ {hand[p]}
  BY <1>1, SlotLeaves DEF ItemInv
<1>5. ItemsOK' /\ pool[hand[p]] \in Msgs /\ fate[pool[hand[p]]] = "sent"
  BY <1>1, <1>2, <1>4, ItemEnded, ItemTypes, TransitPool DEF ItemInv
<1>6. CallOK(p)'
  BY <1>0, <1>1, <1>3, GoMoves DEF CallOK, InSend, Flushing, Moving
<1>7. f \in Fates
  BY DEF Fates
<1>8. SendersOK'
  BY <1>1, <1>2, <1>3, <1>5, <1>6, <1>7, SendersApart
<1> QED  BY <1>4, <1>5, <1>8 DEF ItemInv

LEMMA ResetItems ==
  ASSUME TypeInv, ItemInv, NEW p \in Procs, ResetTake(p)
  PROVE  ItemInv'
<1>0. CallOK(p) /\ pc[p] = "prcv"
  BY DEF ItemInv, SendersOK, ResetTake, At
<1>1. /\ UNCHANGED <<free, pend, pool, sent>> /\ msg' = msg /\ fret' = fret
      /\ dtq # <<>> /\ dtq' = Tail(dtq) /\ hand' = [hand EXCEPT ![p] = Head(dtq)]
      /\ Go(p, "notify") /\ nret' = [nret EXCEPT ![p] = "prcv"]
      /\ fate' = [fate EXCEPT ![pool[Head(dtq)]] = "reset"]
  BY DEF ResetTake, FreeThen, SetFate
<1>2. hand[p] = NoSlot
  BY <1>0, HandEmpty DEF HoldsSlot
<1>3. "notify" \in Labels \ Moving
  BY DEF Labels, Moving
<1>4. Apart' /\ Head(dtq) \in TransitSlots /\ TransitSlots' = TransitSlots \ {Head(dtq)}
  BY <1>1, <1>2, <1>3, SlotHeaded DEF ItemInv
<1>5. ItemsOK' /\ pool[Head(dtq)] \in Msgs /\ fate[pool[Head(dtq)]] = "sent"
  BY <1>1, <1>4, ItemEnded, ItemTypes, TransitPool DEF ItemInv
<1>6. CallOK(p)'
  BY <1>0, <1>1, GoMoves, ItemTypes DEF CallOK, InSend, Flushing
<1>7. \A q \in Procs \ {p} : hand'[q] = hand[q] /\ fret'[q] = fret[q] /\ nret'[q] = nret[q]
  BY <1>1, ItemTypes
<1>8. SendersOK'
  BY <1>1, <1>5, <1>6, <1>7, SendersApart DEF Fates
<1> QED  BY <1>4, <1>5, <1>8 DEF ItemInv

\* A send is accepted: its item goes into transit.
LEMMA AcceptItems ==
  ASSUME TypeInv, ItemInv, NEW p \in Procs, pc[p] \in {"tsnd", "pushp", "ipsnd"}, Accept(p),
         Apart', TransitSlots' = TransitSlots \cup {hand[p]}, pc'[p] = "idle",
         \A q \in Procs \ {p} : pc'[q] = pc[q] \/ (pc[q] = "wdtq" /\ pc'[q] = "copyout"),
         \A q \in Procs \ {p} : pc'[q] = pc[q] => hand'[q] = hand[q],
         UNCHANGED <<sent, fret, nret>>,
         \/ pool' = pool /\ pool[hand[p]] = msg[p]
         \/ pool' = [pool EXCEPT ![hand[p]] = msg[p]]
  PROVE  ItemInv'
<1>1. hand[p] \in Slots /\ hand[p] # NoSlot
  BY InHand, SlotIsNotNoSlot DEF HoldsSlot
<1>2. CallOK(p) /\ msg[p] \in Msgs /\ msg[p] # NoMsg /\ fate[msg[p]] = "calling"
  BY ItemTypes DEF ItemInv, SendersOK, CallOK, InSend
<1>3. /\ fate' = [fate EXCEPT ![msg[p]] = "sent"] /\ fate'[msg[p]] = "sent"
      /\ \A m \in Msgs \ {msg[p]} : fate'[m] = fate[m]
      /\ msg'[p] = NoMsg /\ \A q \in Procs \ {p} : msg'[q] = msg[q]
  BY <1>2, ItemTypes DEF Accept, SetFate
<1>4. pool'[hand[p]] = msg[p] /\ \A s \in Slots \ {hand[p]} : pool'[s] = pool[s]
  BY <1>1, ItemTypes
<1>5. hand[p] \notin TransitSlots
  BY <1>1, InTransit DEF ItemInv, Apart, Moving
<1>6. \A s \in TransitSlots : pool'[s] = pool[s]
  BY <1>4, <1>5, TransitTyped DEF ItemInv
<1>7. ItemsOK'
  BY <1>2, <1>3, <1>4, <1>5, <1>6, ItemAccepted, TransitPool, ItemTypes DEF ItemInv
<1>8. \A q \in Procs \ {p} : Aside(q)
  BY <1>3 DEF Aside
<1>9. CallOK(p)'
  BY <1>2 DEF CallOK, InSend, Flushing
<1>10. \A q \in Procs \ {p} : msg[q] # NoMsg => fate'[msg[q]] = "calling"
  BY <1>2, <1>3, ItemTypes DEF ItemInv, SendersOK
<1>11. ASSUME NEW q \in Procs \ {p}, pc[q] \in {"pushp", "ipsnd"}, pc'[q] = pc[q]
       PROVE  pool'[hand'[q]] = pool[hand[q]]
  <2>1. hand'[q] = hand[q]
    BY <1>11
  <2>2. hand[q] \in Slots /\ hand[q] # hand[p]
    BY <1>1, <1>11, InHand DEF HoldsSlot, ItemInv, Apart
  <2> QED  BY <1>4, <2>1, <2>2
<1>12. SendersOK'
  BY <1>3, <1>8, <1>9, <1>10, <1>11, SendersStep DEF ItemInv
<1> QED  BY <1>7, <1>12 DEF ItemInv

LEMMA SendItems ==
  ASSUME TypeInv, ItemInv, NEW p \in Procs, PendPush(p) \/ CopyAndPost(p) \/ IsrPost(p)
  PROVE  ItemInv'
<1>1. /\ Accept(p) /\ free' = free /\ UNCHANGED <<sent, fret, nret>>
      /\ pc[p] \in {"tsnd", "pushp", "ipsnd"}
  BY DEF PendPush, CopyAndPost, IsrPost, At
<1>2. \/ pool' = pool /\ pool[hand[p]] = msg[p]
      \/ pool' = [pool EXCEPT ![hand[p]] = msg[p]]
  BY DEF PendPush, CopyAndPost, IsrPost, At, ItemInv, SendersOK
<1>3. CASE PendPush(p)
  <2>1. /\ pend' = Append(pend, hand[p]) /\ hand' = [hand EXCEPT ![p] = NoSlot] /\ dtq' = dtq
        /\ Go(p, "idle") /\ hand[p] # NoSlot
    BY <1>1, <1>3, InHand, SlotIsNotNoSlot DEF PendPush, HoldsSlot
  <2>2. "idle" \in Labels \ Moving
    BY DEF Labels, Moving
  <2>3. Apart' /\ TransitSlots' = TransitSlots \cup {hand[p]}
    BY <1>1, <2>1, <2>2, SlotAppended DEF ItemInv
  <2>4. pc'[p] = "idle" /\ \A q \in Procs \ {p} : pc'[q] = pc[q] /\ hand'[q] = hand[q]
    BY <2>1, GoMoves, ItemTypes
  <2> QED  BY <1>1, <1>2, <2>3, <2>4, AcceptItems
<1>4. CASE CopyAndPost(p) \/ IsrPost(p)
  <2>1. PutDtq(p, "idle") /\ pend' = pend /\ pc[p] \in {"tsnd", "ipsnd"}
    BY <1>4 DEF CopyAndPost, IsrPost, At
  <2>2. /\ Apart' /\ TransitSlots' = TransitSlots \cup {hand[p]}
        /\ pc'[p] = "idle"
        /\ \A q \in Procs \ {p} : pc'[q] = pc[q] \/ (pc[q] = "wdtq" /\ pc'[q] = "copyout")
        /\ \A q \in Procs \ {p} : pc'[q] = pc[q] => hand'[q] = hand[q]
    BY <1>1, <2>1, SlotPosted DEF ItemInv
  <2> QED  BY <1>1, <1>2, <2>2, AcceptItems
<1> QED  BY <1>3, <1>4

\* The item of a flushed slot stays in transit.
LEMMA FlushItems ==
  ASSUME TypeInv, ItemInv, NEW p \in Procs, FlushPost(p)
  PROVE  ItemInv'
<1>1. /\ PutDtq(p, "fpop") /\ UNCHANGED <<free, pend, pool, sent>> /\ UNCHANGED <<msg, fate>>
      /\ UNCHANGED <<fret, nret>> /\ pc[p] = "fpsnd"
  BY DEF FlushPost, At, hvars
<1>2. /\ Apart' /\ TransitSlots' = TransitSlots \cup {hand[p]}
      /\ pc'[p] = "fpop"
      /\ \A q \in Procs \ {p} : pc'[q] = pc[q] \/ (pc[q] = "wdtq" /\ pc'[q] = "copyout")
      /\ \A q \in Procs \ {p} : pc'[q] = pc[q] => hand'[q] = hand[q]
  BY <1>1, SlotPosted DEF ItemInv
<1>3. TransitSlots' = TransitSlots
  <2>1. hand[p] \in TransitSlots
    BY <1>1, InTransit DEF Moving
  <2> QED  BY <1>2, <2>1
<1>4. ItemsOK'
  BY <1>1, <1>3, TransitPool, ItemsKept DEF ItemInv, ItemsOK
<1>5. \A q \in Procs \ {p} : Aside(q)
  BY <1>1, <1>2 DEF Aside
<1>6. CallOK(p)'
  <2>1. CallOK(p)
    BY DEF ItemInv, SendersOK
  <2> QED  BY <1>1, <1>2, <2>1 DEF CallOK, InSend, Flushing
<1>7. SendersOK'
  <2>1. \A q \in Procs \ {p} : msg[q] # NoMsg => fate'[msg[q]] = "calling"
    BY <1>1 DEF ItemInv, SendersOK
  <2>2. msg'[p] # NoMsg => fate'[msg'[p]] = "calling" /\ \A q \in Procs \ {p} : msg[q] # msg'[p]
    BY <1>1 DEF ItemInv, SendersOK
  <2>3. \A q \in Procs \ {p} :
           pc[q] \in {"pushp", "ipsnd"} /\ pc'[q] = pc[q] => pool'[hand'[q]] = pool[hand[q]]
    BY <1>1, <1>2
  <2>4. pc'[p] \notin {"pushp", "ipsnd"}
    BY <1>2
  <2> QED  BY <1>5, <1>6, <2>1, <2>2, <2>3, <2>4, SendersStep DEF ItemInv
<1> QED  BY <1>2, <1>4, <1>7 DEF ItemInv

LEMMA StutterItems == ItemInv /\ UNCHANGED vars => ItemInv'
BY DEF vars, qvars, pvars, critvars, hvars, ItemInv, Apart, SendersOK, ItemsOK, CallOK, InSend,
       Flushing, TransitSlots, Rng, Once

LEMMA InitItems == Init => ItemInv
<1> SUFFICES ASSUME Init PROVE ItemInv
  OBVIOUS
<1>1. Rng(dtq) = {} /\ Rng(pend) = {} /\ Once(dtq) /\ Once(pend)
  BY DEF Init, Rng, Once
<1>2. Once(free) /\ NoSlot \notin Rng(free)
  BY DEF Init, Rng, Once, Slots, NoSlot
<1>3. Apart
  BY <1>1, <1>2 DEF Apart, Init
<1>4. SendersOK
  BY DEF Init, SendersOK, CallOK, InSend, Flushing
<1>5. TransitSlots = {}
  BY <1>1, InTransit DEF Init, Moving
<1>6. ItemsOK
  BY <1>5, BoundsAssumption DEF ItemsOK, Init, Msgs
<1> QED  BY <1>3, <1>4, <1>6 DEF ItemInv

LEMMA NextItems == IInv /\ ItemInv /\ [Next]_vars => ItemInv'
<1> SUFFICES ASSUME IInv, ItemInv, [Next]_vars PROVE ItemInv'
  OBVIOUS
<1>0. TypeInv
  BY DEF IInv
<1>1. CASE UNCHANGED vars
  BY <1>1, StutterItems
<1>2. ASSUME NEW p \in Procs, Work(p) \/ Call(p) \/ Leave(p) PROVE ItemInv'
  BY <1>0, <1>2, FlushQuiet, CritQuiet, TokenQuiet, AllocSlotItems, FreeSlotItems, HeadMoves,
     AllocDebtItems, NewItems, EndItems, ResetItems, SendItems, FlushItems
     DEF Work, Call, Leave
<1> QED  BY <1>1, <1>2 DEF Next

\* The inductive invariant of this module and of ShimQueueProofs.
LEMMA ItemsInductive == Spec => [](IInv /\ ItemInv)
<1>1. Init => IInv /\ ItemInv
  BY InitIInv, InitItems
<1>2. (IInv /\ ItemInv) /\ [Next]_vars => (IInv /\ ItemInv)'
  BY NextIInv, NextItems
<1> QED  BY <1>1, <1>2, PTL DEF Spec

-----------------------------------------------------------------------------
(* Items in transit.                                                       *)

\* A sequence without repetitions has as many elements as places.
LEMMA OnceCount ==
  ASSUME NEW s \in Seq(Slots), Once(s)
  PROVE  IsFiniteSet(Rng(s)) /\ Cardinality(Rng(s)) = Len(s)
<1> DEFINE n == Len(s)
           R == Rng(s)
<1>1. n \in Nat /\ DOMAIN s = 1..n /\ s \in [1..n -> R]
  BY DEF Rng
<1>2. \A i, j \in 1..n : s[i] = s[j] => i = j
  BY <1>1 DEF Once
<1>3. \A x \in R : \E i \in 1..n : s[i] = x
  BY <1>1 DEF Rng
<1> HIDE DEF n, R
<1>4. s \in Bijection(1..n, R)
  BY <1>1, <1>2, <1>3, Fun_IsBij
<1>5. ExistsBijection(1..n, R)
  BY <1>4, Fun_ExistsBij
<1>6. IsFiniteSet(1..n) /\ Cardinality(R) = n
  BY <1>1, <1>5, FS_CountingElements, FS_Interval
<1>7. IsFiniteSet(R)
  BY <1>5, <1>6, FS_Bijection
<1> QED  BY <1>6, <1>7 DEF n, R

\* The slots that contexts move.
InHands == {hand[p] : p \in {q \in Procs : pc[q] \in Moving}}

LEMMA HandsCount ==
  ASSUME TypeInv, Apart
  PROVE  IsFiniteSet(InHands) /\ Cardinality(InHands) = CountIn(Moving)
<1> DEFINE P == {q \in Procs : pc[q] \in Moving}
           f == [q \in P |-> hand[q]]
<1>1. IsFiniteSet(P)
  BY ProcsAssumption, FS_Subset
<1>2. \A q \in P : hand[q] # NoSlot
  BY InHand, SlotIsNotNoSlot DEF Moving, HoldsSlot
<1>3. f \in [P -> InHands] /\ \A x \in InHands : \E q \in P : f[q] = x
  BY DEF InHands
<1>4. \A q, r \in P : f[q] = f[r] => q = r
  BY <1>2 DEF Apart
<1>5. Cardinality(P) = CountIn(Moving)
  BY DEF CountIn
<1> HIDE DEF P, f
<1>6. f \in Bijection(P, InHands)
  BY <1>3, <1>4, Fun_IsBij
<1>7. ExistsBijection(P, InHands)
  BY <1>6, Fun_ExistsBij
<1> QED  BY <1>1, <1>5, <1>7, FS_Bijection

LEMMA DisjointCount ==
  ASSUME NEW A, NEW B, IsFiniteSet(A), IsFiniteSet(B), A \cap B = {}
  PROVE  IsFiniteSet(A \cup B) /\ Cardinality(A \cup B) = Cardinality(A) + Cardinality(B)
<1>1. Cardinality(A) \in Nat /\ Cardinality(B) \in Nat /\ Cardinality(A \cap B) = 0
  BY FS_CardinalityType, FS_EmptySet
<1>2. IsFiniteSet(A \cup B)
      /\ Cardinality(A \cup B) = Cardinality(A) + Cardinality(B) - Cardinality(A \cap B)
  BY FS_Union
<1> QED  BY <1>1, <1>2

LEMMA TransitCount ==
  ASSUME TypeInv, Apart
  PROVE  /\ IsFiniteSet(TransitSlots)
         /\ Len(dtq) + Len(pend) + CountIn({"fpsnd", "copyout"}) = Cardinality(TransitSlots)
<1>1. dtq \in Seq(Slots) /\ pend \in Seq(Slots) /\ Once(dtq) /\ Once(pend)
  BY DEF TypeInv, TypeOK, Apart
<1>2. /\ IsFiniteSet(Rng(dtq)) /\ Cardinality(Rng(dtq)) = Len(dtq)
      /\ IsFiniteSet(Rng(pend)) /\ Cardinality(Rng(pend)) = Len(pend)
  BY <1>1, OnceCount
<1>3. Rng(dtq) \cap Rng(pend) = {} /\ (Rng(dtq) \cup Rng(pend)) \cap InHands = {}
  BY DEF Apart, InHands
<1> DEFINE A == Rng(dtq)
           B == Rng(pend)
           C == InHands
<1>4. IsFiniteSet(C) /\ Cardinality(C) = CountIn(Moving)
  BY HandsCount
<1>5. A \cap B = {} /\ (A \cup B) \cap C = {}
  BY <1>3
<1>6. TransitSlots = (A \cup B) \cup C
  BY DEF TransitSlots, Rng, InHands, Moving
<1>7. /\ IsFiniteSet(A) /\ Cardinality(A) = Len(dtq)
      /\ IsFiniteSet(B) /\ Cardinality(B) = Len(pend)
  BY <1>2
<1> HIDE DEF A, B, C
<1>8. IsFiniteSet(A \cup B) /\ Cardinality(A \cup B) = Cardinality(A) + Cardinality(B)
  BY <1>5, <1>7, DisjointCount
<1>9. /\ IsFiniteSet((A \cup B) \cup C)
      /\ Cardinality((A \cup B) \cup C) = Cardinality(A \cup B) + Cardinality(C)
  <2> DEFINE D == A \cup B
  <2>1. IsFiniteSet(D) /\ D \cap C = {}
    BY <1>5, <1>8
  <2> HIDE DEF D
  <2>2. IsFiniteSet(D \cup C) /\ Cardinality(D \cup C) = Cardinality(D) + Cardinality(C)
    BY <1>4, <2>1, DisjointCount
  <2> QED  BY <2>2 DEF D
<1>10. CountIn(Moving) = CountIn({"fpsnd", "copyout"})
  BY DEF Moving
<1> QED  BY <1>4, <1>6, <1>7, <1>8, <1>9, <1>10

LEMMA IntegrityFollows == IInv /\ ItemInv => ItemIntegrity
<1> SUFFICES ASSUME IInv, ItemInv PROVE ItemIntegrity
  OBVIOUS
<1>1. TypeInv /\ Apart
  BY DEF IInv, ItemInv
<1>2. ASSUME NEW m \in Msgs, fate[m] = "sent"
      PROVE  Cardinality({s \in TransitSlots : pool[s] = m}) = 1
  <2>1. PICK s \in TransitSlots : pool[s] = m
    BY <1>2 DEF ItemInv, ItemsOK
  <2>2. {t \in TransitSlots : pool[t] = m} = {s}
    BY <2>1 DEF ItemInv, ItemsOK
  <2> QED  BY <2>2, FS_Singleton
<1> QED  BY <1>1, <1>2, TransitCount DEF ItemIntegrity, ItemInv, ItemsOK

\* Every accepted item is in one slot of those in transit until it is received
\* or discarded, and no slot is handed out twice or overwritten.
THEOREM ItemsIntact == Spec => []ItemIntegrity
BY ItemsInductive, IntegrityFollows, PTL

-----------------------------------------------------------------------------
(* What has become of an item is final.                                    *)

Ended == {"refused", "delivered", "dropped", "reset"}

LEMMA FateMoves ==
  ASSUME IInv, ItemInv, NEW p \in Procs, Work(p) \/ Call(p) \/ Leave(p)
  PROVE  \/ fate' = fate
         \/ \E m \in Msgs : /\ fate[m] \notin Ended
                            /\ \E f \in Fates : fate' = [fate EXCEPT ![m] = f]
<1>0. TypeInv /\ Apart /\ CallOK(p)
  BY DEF IInv, ItemInv, SendersOK
<1>1. CASE fate' = fate
  BY <1>1
<1>2. CASE InSend(p) /\ (Refuse(p) \/ Accept(p))
  <2>1. msg[p] \in Msgs /\ fate[msg[p]] = "calling"
    BY <1>0, <1>2, ItemTypes DEF CallOK, ItemInv, SendersOK
  <2> QED  BY <1>2, <2>1 DEF Refuse, Accept, SetFate, Ended, Fates
<1>3. CASE NewItem(p)
  <2>1. sent + 1 \in Msgs /\ sent + 1 > sent
    BY <1>0, <1>3, BoundsAssumption, ItemTypes DEF NewItem, Msgs
  <2>2. fate[sent + 1] = "unsent"
    BY <2>1 DEF ItemInv, ItemsOK
  <2> QED  BY <1>3, <2>1, <2>2 DEF NewItem, SetFate, Ended, Fates
<1>4. CASE \E s \in TransitSlots, f \in {"delivered", "dropped", "reset"} : SetFate(pool[s], f)
  <2>1. PICK s \in TransitSlots, f \in {"delivered", "dropped", "reset"} : SetFate(pool[s], f)
    BY <1>4
  <2>2. pool[s] \in Msgs /\ fate[pool[s]] = "sent"
    BY <1>0, TransitPool DEF ItemInv, ItemsOK
  <2> QED  BY <2>1, <2>2 DEF SetFate, Ended, Fates
<1>5. CASE Call(p) \/ Leave(p)
  <2>1. fate' = fate \/ NewItem(p)
    BY <1>5 DEF Call, Leave, SendCall, IsrSendCall, RecvCall, ResetCall, EnterCritical, IntDisable,
                ExitCritical, IntRestore, hvars
  <2> QED  BY <2>1, <1>1, <1>3
<1>6. CASE SendTimeout(p) \/ GiveBack(p) \/ PolToken(p) \/ SendNoToken(p) \/ IsrAlloc(p)
           \/ PendPush(p) \/ CopyAndPost(p) \/ IsrPost(p)
  <2>1. InSend(p)
    BY <1>6 DEF InSend, SendTimeout, GiveBack, PolToken, SendNoToken, IsrAlloc, PendPush,
                CopyAndPost, IsrPost, At
  <2>2. fate' = fate \/ Refuse(p) \/ Accept(p)
    BY <1>6 DEF SendTimeout, GiveBack, PolToken, SendNoToken, IsrAlloc, AllocDebt, PendPush,
                CopyAndPost, IsrPost
  <2> QED  BY <2>1, <2>2, <1>1, <1>2
<1>7. CASE CopyOut(p) \/ FlushFail(p)
  <2>1. hand[p] \in TransitSlots
    BY <1>7, InTransit DEF CopyOut, FlushFail, At, Moving
  <2> QED  BY <1>4, <1>7, <2>1 DEF CopyOut, FlushFail
<1>8. CASE ResetTake(p)
  <2>1. dtq \in Seq(Slots) /\ dtq # <<>>
    BY <1>0, <1>8 DEF ResetTake, TypeInv, TypeOK
  <2>2. Head(dtq) \in TransitSlots
    BY <1>0, <2>1, TailOnce, InTransit DEF Apart
  <2> QED  BY <1>4, <1>8, <2>2 DEF ResetTake
<1>9. CASE FlushPop(p) \/ FlushPost(p) \/ FlushDone(p) \/ FreeSlot(p) \/ ReturnToken(p)
           \/ TakeToken(p) \/ AllocSlot(p) \/ RecvTake(p) \/ RecvFail(p) \/ ResetDone(p)
  BY <1>1, <1>9 DEF FlushPop, FlushPost, FlushDone, FreeSlot, ReturnToken, TakeToken, AllocSlot,
                    RecvTake, RecvFail, ResetDone, hvars
<1> QED  BY <1>5, <1>6, <1>7, <1>8, <1>9 DEF Work

\* Nothing is delivered twice, delivered after its send reported failure, or
\* taken back once it was delivered, refused or discarded.
THEOREM FatesAreFinal == Spec => FateIsFinal
<1> DEFINE Final == \A m \in Msgs : fate[m] \in {"refused", "delivered", "dropped", "reset"}
                                      => fate'[m] = fate[m]
<1>1. IInv /\ ItemInv /\ [Next]_vars => [Final]_vars
  <2> SUFFICES ASSUME IInv, ItemInv, Next PROVE Final
    OBVIOUS
  <2>1. PICK p \in Procs : Work(p) \/ Call(p) \/ Leave(p)
    BY DEF Next
  <2>2. \/ fate' = fate
        \/ \E m \in Msgs : /\ fate[m] \notin Ended
                           /\ \E f \in Fates : fate' = [fate EXCEPT ![m] = f]
    BY <2>1, FateMoves
  <2>3. fate \in [Msgs -> Fates]
    BY ItemTypes DEF IInv
  <2> QED  BY <2>2, <2>3 DEF Ended
<1> QED  BY <1>1, ItemsInductive, PTL DEF Spec, FateIsFinal

-----------------------------------------------------------------------------
(* The queue of callers who neither reset it nor mask interrupts is the    *)
(* bounded channel.                                                        *)

PlainUse == \A p \in Procs : Ops[p] \cap {"reset", "critical", "int_disable"} = {}

\* Interrupts are never masked, and nobody is in a reset.
Open == /\ owner = NoProc
        /\ \A p \in Procs : pc[p] # "prcv" /\ fret[p] # "prcv" /\ nret[p] # "prcv"

Chan == {pool[s] : s \in TransitSlots}
Got  == {m \in Msgs : fate[m] = "delivered"}

LEMMA NobodyMasked == ASSUME Open, NEW p \in Procs PROVE ~Masked(p)
BY ProcsAssumption DEF Open, Masked

LEMMA OpenStep ==
  ASSUME PlainUse, TypeInv, Open, NEW p \in Procs, Work(p) \/ Call(p) \/ Leave(p)
  PROVE  /\ Open' /\ ~FlushFail(p) /\ ~ResetTake(p)
         /\ ~ResetCall(p) /\ ~EnterCritical(p) /\ ~IntDisable(p) /\ ~ExitCritical(p) /\ ~IntRestore(p)
<1>1. /\ ~FlushFail(p) /\ ~ResetTake(p) /\ ~ResetDone(p)
      /\ ~ResetCall(p) /\ ~EnterCritical(p) /\ ~IntDisable(p) /\ ~ExitCritical(p) /\ ~IntRestore(p)
  BY NobodyMasked DEF Open, PlainUse, FlushFail, ResetTake, ResetDone, ResetCall, EnterCritical,
                      IntDisable, ExitCritical, IntRestore, At
<1>2. /\ pc \in [Procs -> Labels] /\ fret \in [Procs -> {"idle", "twai", "trcv", "prcv"}]
      /\ nret \in [Procs -> {"idle", "fpop", "prcv"}]
  BY ItemTypes
<1>3. owner' = owner
  BY <1>1 DEF Work, Call, Leave, FlushPop, FlushPost, FlushDone, FreeSlot, ReturnToken, TakeToken,
              SendTimeout, SendNoToken, PendPush, AllocSlot, GiveBack, CopyAndPost, PolToken, IsrAlloc,
              IsrPost, RecvTake, RecvFail, CopyOut, SendCall, IsrSendCall, RecvCall, critvars
<1>4. ASSUME NEW l \in Labels \ {"prcv"}, Go(p, l) \/ SigSem(p, l) \/ PutDtq(p, l)
      PROVE  \A q \in Procs : pc'[q] # "prcv"
  BY <1>2, <1>4 DEF Go, SigSem, PutDtq, SemWaiters, DtqWaiters, Open
<1>5. fret[p] \in Labels \ {"prcv"} /\ nret[p] \in Labels \ {"prcv"}
  BY <1>2 DEF Open, Labels
<1>6. \E l \in Labels \ {"prcv"} : Go(p, l) \/ SigSem(p, l) \/ PutDtq(p, l)
  <2>1. CASE FlushPop(p) \/ FlushPost(p) \/ FlushDone(p) \/ FreeSlot(p) \/ ReturnToken(p)
    BY <1>5, <2>1 DEF FlushPop, FlushPost, FlushDone, FreeSlot, ReturnToken, Labels
  <2>2. CASE TakeToken(p) \/ SendTimeout(p) \/ SendNoToken(p) \/ PendPush(p) \/ AllocSlot(p)
    BY <2>2 DEF TakeToken, SendTimeout, SendNoToken, AllocDebt, PendPush, AllocSlot, Labels
  <2>3. CASE GiveBack(p) \/ CopyAndPost(p) \/ PolToken(p) \/ IsrAlloc(p) \/ IsrPost(p)
    BY <2>3 DEF GiveBack, CopyAndPost, PolToken, IsrAlloc, AllocDebt, IsrPost, Labels
  <2>4. CASE RecvTake(p) \/ RecvFail(p) \/ CopyOut(p)
    BY <2>4 DEF RecvTake, RecvFail, CopyOut, FreeThen, Labels
  <2>5. CASE SendCall(p) \/ IsrSendCall(p) \/ RecvCall(p)
    BY <2>5 DEF SendCall, IsrSendCall, RecvCall, Labels
  <2> QED  BY <1>1, <2>1, <2>2, <2>3, <2>4, <2>5 DEF Work, Call, Leave
<1>7. \A q \in Procs : pc'[q] # "prcv"
  BY <1>4, <1>6
<1>8. /\ fret' = fret \/ \E l \in {"idle", "twai", "trcv"} : fret' = [fret EXCEPT ![p] = l]
      /\ nret' = nret \/ \E l \in {"idle", "fpop"} : nret' = [nret EXCEPT ![p] = l]
  <2>1. CASE FlushPop(p) \/ FlushPost(p) \/ FlushDone(p) \/ FreeSlot(p) \/ ReturnToken(p)
    BY <2>1 DEF FlushPop, FlushPost, FlushDone, FreeSlot, ReturnToken
  <2>2. CASE TakeToken(p) \/ SendTimeout(p) \/ SendNoToken(p) \/ PendPush(p) \/ AllocSlot(p)
    BY <2>2 DEF TakeToken, SendTimeout, SendNoToken, PendPush, AllocSlot
  <2>3. CASE GiveBack(p) \/ CopyAndPost(p) \/ PolToken(p) \/ IsrAlloc(p) \/ IsrPost(p)
    BY <2>3 DEF GiveBack, CopyAndPost, PolToken, IsrAlloc, IsrPost
  <2>4. CASE RecvTake(p) \/ RecvFail(p) \/ CopyOut(p)
    BY <2>4 DEF RecvTake, RecvFail, CopyOut, FreeThen
  <2>5. CASE SendCall(p) \/ IsrSendCall(p) \/ RecvCall(p)
    BY <2>5 DEF SendCall, IsrSendCall, RecvCall
  <2> QED  BY <1>1, <2>1, <2>2, <2>3, <2>4, <2>5 DEF Work, Call, Leave
<1>9. \A q \in Procs : fret'[q] # "prcv" /\ nret'[q] # "prcv"
  BY <1>2, <1>8 DEF Open
<1> QED  BY <1>1, <1>3, <1>7, <1>9 DEF Open

\* The channel holds the accepted items.
LEMMA ChanItems ==
  ASSUME TypeInv, ItemInv
  PROVE  Chan = {m \in Msgs : fate[m] = "sent"}
<1>1. \A s \in TransitSlots : pool[s] \in Msgs /\ fate[pool[s]] = "sent"
  BY TransitPool DEF ItemInv, ItemsOK
<1>2. \A m \in Msgs : fate[m] = "sent" => m \in Chan
  BY DEF ItemInv, ItemsOK, Chan
<1> QED  BY <1>1, <1>2 DEF Chan

LEMMA ChanItemsNext ==
  (TypeInv /\ ItemInv => Chan = {m \in Msgs : fate[m] = "sent"})'
<1>1. TypeInv /\ ItemInv => Chan = {m \in Msgs : fate[m] = "sent"}
  BY ChanItems
<1> QED  BY <1>1, PTL

LEMMA ChanItemsPrime ==
  ASSUME TypeInv', ItemInv'
  PROVE  Chan' = {m \in Msgs : fate'[m] = "sent"}
BY ChanItemsNext

\* While a sender holds a slot for its item the channel is not full.
LEMMA ChanRoom ==
  ASSUME TypeInv, ItemInv, NEW p \in Procs, pc[p] \in {"tsnd", "pushp", "ipsnd"}
  PROVE  Cardinality(Chan) < Depth
<1> DEFINE T == TransitSlots
           f == [s \in T |-> pool[s]]
<1>1. IsFiniteSet(T) /\ T \subseteq Slots
  BY TransitCount, TransitTyped DEF ItemInv
<1>2. hand[p] \in Slots \ T
  <2>1. hand[p] \in Slots /\ hand[p] # NoSlot
    BY InHand, SlotIsNotNoSlot DEF HoldsSlot
  <2> QED  BY <2>1, InTransit DEF ItemInv, Apart, Moving
<1>3. f \in [T -> Chan] /\ \A m \in Chan : \E s \in T : f[s] = m
  BY DEF Chan
<1>4. IsFiniteSet(Slots) /\ Cardinality(Slots) = Depth
  BY DepthAssumption, FS_Interval DEF Slots
<1> HIDE DEF T, f
<1>5. IsFiniteSet(Chan) /\ Cardinality(Chan) <= Cardinality(T)
  BY <1>1, <1>3, Fun_IsSurj, FS_Surjection
<1>6. Cardinality(T \cup {hand[p]}) = Cardinality(T) + 1
  BY <1>1, <1>2, FS_AddElement
<1>7. Cardinality(T \cup {hand[p]}) <= Depth
  <2>1. T \cup {hand[p]} \in SUBSET Slots
    BY <1>1, <1>2
  <2> QED  BY <1>4, <2>1, FS_Subset
<1>8. Cardinality(Chan) \in Nat /\ Cardinality(T) \in Nat
  BY <1>1, <1>5, FS_CardinalityType
<1> QED  BY <1>5, <1>6, <1>7, <1>8, DepthAssumption

LEMMA AcceptPuts ==
  ASSUME TypeInv, ItemInv, TypeInv', ItemInv', NEW p \in Procs,
         pc[p] \in {"tsnd", "pushp", "ipsnd"}, Accept(p)
  PROVE  /\ msg[p] \in Msgs \ (Chan \cup Got) /\ Cardinality(Chan) < Depth
         /\ Chan' = Chan \cup {msg[p]} /\ Got' = Got
<1>1. msg[p] \in Msgs /\ fate[msg[p]] = "calling"
  BY ItemTypes DEF ItemInv, SendersOK, CallOK, InSend
<1>2. fate'[msg[p]] = "sent" /\ \A m \in Msgs \ {msg[p]} : fate'[m] = fate[m]
  BY <1>1, ItemTypes DEF Accept, SetFate
<1>3. Got' = {m \in Msgs : fate'[m] = "delivered"}
  BY DEF Got
<1> QED  BY <1>1, <1>2, <1>3, ChanItems, ChanItemsPrime, ChanRoom DEF Got

LEMMA CopyOutGets ==
  ASSUME TypeInv, ItemInv, TypeInv', ItemInv', NEW p \in Procs, CopyOut(p)
  PROVE  \E m \in Msgs : m \in Chan /\ Chan' = Chan \ {m} /\ Got' = Got \cup {m}
<1> DEFINE m == pool[hand[p]]
<1>1. hand[p] \in TransitSlots /\ fate' = [fate EXCEPT ![m] = "delivered"]
  BY InTransit DEF CopyOut, At, Moving, SetFate
<1>2. m \in Msgs /\ fate[m] = "sent" /\ m \in Chan
  BY <1>1, TransitPool DEF ItemInv, ItemsOK, Chan
<1> HIDE DEF m
<1>3. fate'[m] = "delivered" /\ \A n \in Msgs \ {m} : fate'[n] = fate[n]
  BY <1>1, <1>2, ItemTypes
<1>4. Got' = {n \in Msgs : fate'[n] = "delivered"}
  BY DEF Got
<1> QED  BY <1>2, <1>3, <1>4, ChanItems, ChanItemsPrime DEF Got

\* No other step changes which items were accepted or received.
LEMMA OtherStutters ==
  ASSUME TypeInv, ItemInv, TypeInv', ItemInv', NEW p \in Procs,
         fate' = fate \/ NewItem(p) \/ (InSend(p) /\ Refuse(p))
  PROVE  Chan' = Chan /\ Got' = Got
<1>1. ASSUME NEW m \in Msgs
      PROVE  /\ fate'[m] = "sent" <=> fate[m] = "sent"
             /\ fate'[m] = "delivered" <=> fate[m] = "delivered"
  <2>1. CASE fate' = fate
    BY <2>1
  <2>2. CASE NewItem(p)
    <3>1. sent + 1 \in Msgs /\ sent + 1 > sent
      BY <2>2, BoundsAssumption, ItemTypes DEF NewItem, Msgs
    <3>2. fate[sent + 1] = "unsent"
      BY <3>1 DEF ItemInv, ItemsOK
    <3> QED  BY <2>2, <3>1, <3>2, ItemTypes DEF NewItem, SetFate
  <2>3. CASE InSend(p) /\ Refuse(p)
    <3>1. msg[p] \in Msgs /\ fate[msg[p]] = "calling"
      BY <2>3, ItemTypes DEF ItemInv, SendersOK, CallOK
    <3> QED  BY <2>3, <3>1, ItemTypes DEF Refuse, SetFate
  <2> QED  BY <2>1, <2>2, <2>3
<1>2. Got' = {n \in Msgs : fate'[n] = "delivered"}
  BY DEF Got
<1> QED  BY <1>1, <1>2, ChanItems, ChanItemsPrime DEF Got

\* The abstract specification counts as this one does.
LEMMA SameCount == \A S : Channel!Cardinality(S) = Cardinality(S)
BY Zenon DEF Cardinality, Channel!Cardinality

LEMMA StepChannel ==
  ASSUME PlainUse, IInv, ItemInv, Open, IInv', ItemInv',
         NEW p \in Procs, Work(p) \/ Call(p) \/ Leave(p)
  PROVE  (\E m \in Msgs : Channel!Put(m) \/ Channel!Get(m)) \/ UNCHANGED <<Chan, Got>>
<1>0. TypeInv /\ TypeInv' /\ Chan = {pool[s] : s \in TransitSlots}
      /\ Got = {m \in Msgs : fate[m] = "delivered"}
  BY DEF IInv, Chan, Got
<1>1. CASE PendPush(p) \/ CopyAndPost(p) \/ IsrPost(p)
  <2>1. pc[p] \in {"tsnd", "pushp", "ipsnd"} /\ Accept(p)
    BY <1>1 DEF PendPush, CopyAndPost, IsrPost, At
  <2>2. /\ msg[p] \in Msgs \ (Chan \cup Got) /\ Cardinality(Chan) < Depth
        /\ Chan' = Chan \cup {msg[p]} /\ Got' = Got
    BY <1>0, <2>1, AcceptPuts
  <2>3. PICK m \in Msgs : m = msg[p]
    BY <2>2
  <2>4. Channel!Put(m)
    BY <2>2, <2>3, SameCount DEF Channel!Put, Chan, Got
  <2> QED  BY <2>4
<1>2. CASE CopyOut(p)
  <2>1. PICK m \in Msgs : m \in Chan /\ Chan' = Chan \ {m} /\ Got' = Got \cup {m}
    BY <1>0, <1>2, CopyOutGets
  <2>2. Channel!Get(m)
    BY <2>1 DEF Channel!Get, Chan, Got
  <2> QED  BY <2>2
<1>3. CASE SendTimeout(p) \/ GiveBack(p) \/ PolToken(p) \/ SendNoToken(p) \/ IsrAlloc(p)
  <2>1. InSend(p)
    BY <1>3 DEF InSend, SendTimeout, GiveBack, PolToken, SendNoToken, IsrAlloc, At
  <2>2. fate' = fate \/ Refuse(p)
    BY <1>3 DEF SendTimeout, GiveBack, PolToken, SendNoToken, IsrAlloc, AllocDebt
  <2> QED  BY <1>0, <2>1, <2>2, OtherStutters
<1>4. CASE SendCall(p) \/ IsrSendCall(p)
  BY <1>0, <1>4, OtherStutters DEF SendCall, IsrSendCall
<1>5. CASE FlushPop(p) \/ FlushPost(p) \/ FlushDone(p) \/ FreeSlot(p) \/ ReturnToken(p)
           \/ TakeToken(p) \/ AllocSlot(p) \/ RecvTake(p) \/ RecvFail(p) \/ ResetDone(p) \/ RecvCall(p)
  <2>1. fate' = fate
    BY <1>5 DEF FlushPop, FlushPost, FlushDone, FreeSlot, ReturnToken, TakeToken, AllocSlot,
                RecvTake, RecvFail, ResetDone, RecvCall, hvars
  <2> QED  BY <1>0, <2>1, OtherStutters
<1>6. /\ ~FlushFail(p) /\ ~ResetTake(p) /\ ~ResetCall(p) /\ ~EnterCritical(p) /\ ~IntDisable(p)
      /\ ~ExitCritical(p) /\ ~IntRestore(p)
  BY <1>0, OpenStep
<1> QED  BY <1>1, <1>2, <1>3, <1>4, <1>5, <1>6 DEF Work, Call, Leave

\* For callers who neither reset the queue nor mask interrupts the queue holds
\* at most Depth items, receives each accepted item once and loses none.
THEOREM QueueIsChannel == PlainUse => (Spec => IsBoundedChannel)
<1> SUFFICES ASSUME PlainUse PROVE Spec => IsBoundedChannel
  OBVIOUS
<1>1. Init => Open
  BY DEF Init, Open
<1>2. IInv /\ Open /\ [Next]_vars => Open'
  <2> SUFFICES ASSUME IInv, Open, [Next]_vars PROVE Open'
    OBVIOUS
  <2>1. CASE UNCHANGED vars
    BY <2>1 DEF vars, pvars, critvars, Open
  <2>2. CASE Next
    BY <2>2, OpenStep DEF Next, IInv
  <2> QED  BY <2>1, <2>2
<1>3. Init => Channel!Init
  <2> SUFFICES ASSUME Init PROVE Channel!Init
    OBVIOUS
  <2>1. Rng(dtq) = {} /\ Rng(pend) = {}
    BY DEF Init, Rng
  <2>2. TransitSlots = {}
    BY <2>1, InTransit DEF Init, Moving
  <2>3. {m \in Msgs : fate[m] = "delivered"} = {}
    BY DEF Init
  <2> QED  BY <2>2, <2>3 DEF Channel!Init
<1>4. (IInv /\ ItemInv /\ Open) /\ (IInv /\ ItemInv)' /\ [Next]_vars
        => [Channel!Next]_Channel!chvars
  <2> SUFFICES ASSUME IInv, ItemInv, Open, IInv', ItemInv', [Next]_vars
               PROVE  [Channel!Next]_Channel!chvars
    OBVIOUS
  <2>1. CASE UNCHANGED vars
    <3>1. TransitSlots' = TransitSlots /\ pool' = pool /\ fate' = fate
      BY <2>1 DEF vars, qvars, pvars, hvars, TransitSlots
    <3>2. Chan' = Chan /\ Got' = Got
      BY <3>1 DEF Chan, Got
    <3> QED  BY <3>2 DEF Channel!chvars, Chan, Got
  <2>2. CASE Next
    <3>1. PICK p \in Procs : Work(p) \/ Call(p) \/ Leave(p)
      BY <2>2 DEF Next
    <3>2. (\E m \in Msgs : Channel!Put(m) \/ Channel!Get(m)) \/ UNCHANGED <<Chan, Got>>
      BY <3>1, StepChannel
    <3> QED  BY <3>2 DEF Channel!Next, Channel!chvars, Chan, Got
  <2> QED  BY <2>1, <2>2
<1> QED  BY <1>1, <1>2, <1>3, <1>4, ItemsInductive, PTL DEF Spec, IsBoundedChannel, Channel!Spec

-----------------------------------------------------------------------------
(* An item on the pend ring has somebody to flush it, where interrupts are *)
(* masked only by critical sections and handlers send with send_from_isr.  *)

CriticalUse == /\ \A p \in Procs : "int_disable" \notin Ops[p]
               /\ \A p \in Isrs : "send" \notin Ops[p]

\* A slot is pended only inside a critical section, which flushes when it ends.
Watched ==
  /\ ~idis
  /\ \A p \in Isrs : pc[p] # "twai" /\ fret[p] # "twai"
  /\ \A p \in Procs : pc[p] = "pushp" => owner = p
  /\ NoStrandedItem

LEMMA StrandedFlush ==
  NoStrandedItem <=> (pend # <<>> => owner # NoProc \/ \E p \in Procs : Flushing(p))
BY DEF NoStrandedItem, Flushing

LEMMA StrandedFlushPrime ==
  NoStrandedItem' <=> (pend' # <<>> => owner' # NoProc \/ \E p \in Procs : Flushing(p)')
BY DEF NoStrandedItem, Flushing

\* The pend ring keeps its watch: it empties, masking goes on, or one who
\* flushes it goes on flushing.
LEMMA WatchGoesOn ==
  ASSUME TypeInv, Watched, NEW p \in Procs, Flushing(p) => Flushing(p)',
         \A q \in Procs \ {p} : Flushing(q) => Flushing(q)',
         pend = <<>> => pend' = <<>>, owner # NoProc => owner' # NoProc
  PROVE  NoStrandedItem'
BY StrandedFlush, StrandedFlushPrime DEF Watched

LEMMA OthersFlush ==
  ASSUME TypeInv, NEW p \in Procs, NEW q \in Procs \ {p}, nret'[q] = nret[q],
         \/ pc'[q] = pc[q]
         \/ pc[q] = "wsem" /\ pc'[q] = "alloc"
         \/ pc[q] = "wdtq" /\ pc'[q] = "copyout"
  PROVE  Flushing(q) => Flushing(q)'
BY DEF Flushing

\* How a step moves the contexts, whatever else it does.
LEMMA Moves ==
  ASSUME TypeInv, NEW p \in Procs, Work(p) \/ Call(p) \/ Leave(p)
  PROVE  /\ \A q \in Procs \ {p} : \/ pc'[q] = pc[q]
                                   \/ pc[q] = "wsem" /\ pc'[q] = "alloc"
                                   \/ pc[q] = "wdtq" /\ pc'[q] = "copyout"
         /\ \A q \in Procs \ {p} : fret'[q] = fret[q] /\ nret'[q] = nret[q]
<1>0. /\ pc \in [Procs -> Labels] /\ fret \in [Procs -> {"idle", "twai", "trcv", "prcv"}]
      /\ nret \in [Procs -> {"idle", "fpop", "prcv"}]
  BY ItemTypes
<1>1. pc' = pc \/ \E l : Go(p, l) \/ SigSem(p, l) \/ PutDtq(p, l)
  <2>1. CASE FlushPop(p) \/ FlushPost(p) \/ FlushFail(p) \/ FlushDone(p) \/ FreeSlot(p) \/ ReturnToken(p)
    BY <2>1 DEF FlushPop, FlushPost, FlushFail, FlushDone, FreeSlot, ReturnToken, FreeThen
  <2>2. CASE TakeToken(p) \/ SendTimeout(p) \/ SendNoToken(p) \/ PendPush(p) \/ AllocSlot(p)
    BY <2>2 DEF TakeToken, SendTimeout, SendNoToken, AllocDebt, PendPush, AllocSlot
  <2>3. CASE GiveBack(p) \/ CopyAndPost(p) \/ PolToken(p) \/ IsrAlloc(p) \/ IsrPost(p)
    BY <2>3 DEF GiveBack, CopyAndPost, PolToken, IsrAlloc, AllocDebt, IsrPost
  <2>4. CASE RecvTake(p) \/ RecvFail(p) \/ CopyOut(p) \/ ResetTake(p) \/ ResetDone(p)
    BY <2>4 DEF RecvTake, RecvFail, CopyOut, FreeThen, ResetTake, ResetDone
  <2>5. CASE Call(p) \/ Leave(p)
    BY <2>5 DEF Call, Leave, SendCall, IsrSendCall, RecvCall, ResetCall, EnterCritical, IntDisable,
                ExitCritical, IntRestore, pvars
  <2> QED  BY <2>1, <2>2, <2>3, <2>4, <2>5 DEF Work
<1>2. ASSUME NEW l, Go(p, l) \/ SigSem(p, l) \/ PutDtq(p, l)
      PROVE  \A q \in Procs \ {p} : \/ pc'[q] = pc[q]
                                    \/ pc[q] = "wsem" /\ pc'[q] = "alloc"
                                    \/ pc[q] = "wdtq" /\ pc'[q] = "copyout"
  BY <1>0, <1>2 DEF Go, SigSem, PutDtq, SemWaiters, DtqWaiters
<1>3. /\ fret' = fret \/ \E l : fret' = [fret EXCEPT ![p] = l]
      /\ nret' = nret \/ \E l : nret' = [nret EXCEPT ![p] = l]
  <2>1. CASE FlushPop(p) \/ FlushPost(p) \/ FlushFail(p) \/ FlushDone(p) \/ FreeSlot(p) \/ ReturnToken(p)
    BY <2>1 DEF FlushPop, FlushPost, FlushFail, FlushDone, FreeSlot, ReturnToken, FreeThen
  <2>2. CASE TakeToken(p) \/ SendTimeout(p) \/ SendNoToken(p) \/ PendPush(p) \/ AllocSlot(p)
    BY <2>2 DEF TakeToken, SendTimeout, SendNoToken, PendPush, AllocSlot
  <2>3. CASE GiveBack(p) \/ CopyAndPost(p) \/ PolToken(p) \/ IsrAlloc(p) \/ IsrPost(p)
    BY <2>3 DEF GiveBack, CopyAndPost, PolToken, IsrAlloc, IsrPost
  <2>4. CASE RecvTake(p) \/ RecvFail(p) \/ CopyOut(p) \/ ResetTake(p) \/ ResetDone(p)
    BY <2>4 DEF RecvTake, RecvFail, CopyOut, FreeThen, ResetTake, ResetDone
  <2>5. CASE Call(p) \/ Leave(p)
    BY <2>5 DEF Call, Leave, SendCall, IsrSendCall, RecvCall, ResetCall, EnterCritical, IntDisable,
                ExitCritical, IntRestore, pvars
  <2> QED  BY <2>1, <2>2, <2>3, <2>4, <2>5 DEF Work
<1>4. \A q \in Procs \ {p} : fret'[q] = fret[q] /\ nret'[q] = nret[q]
  BY <1>0, <1>3
<1> QED  BY <1>1, <1>2, <1>4

\* The places from which a slot is pended are entered with interrupts masked.
LEMMA PushMasked ==
  ASSUME CriticalUse, TypeInv, ItemInv, Watched, NEW p \in Procs, Work(p) \/ Call(p) \/ Leave(p)
  PROVE  /\ ~idis'
         /\ \A q \in Isrs : pc'[q] # "twai" /\ fret'[q] # "twai"
         /\ \A q \in Procs : pc'[q] = "pushp" => owner' = q
<1>0. /\ pc \in [Procs -> Labels] /\ fret \in [Procs -> {"idle", "twai", "trcv", "prcv"}]
      /\ nret \in [Procs -> {"idle", "fpop", "prcv"}]
  BY ItemTypes
<1>1. /\ \A q \in Procs \ {p} : pc'[q] \in {"twai", "pushp"} => pc'[q] = pc[q]
      /\ \A q \in Procs \ {p} : fret'[q] = fret[q]
  BY Moves
<1>2. ~IntDisable(p)
  BY DEF CriticalUse, IntDisable
<1>3. ~idis'
  BY <1>2 DEF Watched, Work, Call, Leave, FlushPop, FlushPost, FlushFail, FlushDone, FreeSlot,
              ReturnToken, TakeToken, SendTimeout, SendNoToken, PendPush, AllocSlot, GiveBack,
              CopyAndPost, PolToken, IsrAlloc, IsrPost, RecvTake, RecvFail, CopyOut, ResetTake,
              ResetDone, SendCall, IsrSendCall, RecvCall, ResetCall, EnterCritical, ExitCritical,
              IntRestore, critvars
<1>4. pc'[p] = "pushp" => SendNoToken(p)
  <2>1. CASE FlushPop(p) \/ FlushPost(p) \/ FlushFail(p) \/ FlushDone(p) \/ FreeSlot(p) \/ ReturnToken(p)
    BY <2>1, <1>0 DEF FlushPop, FlushPost, FlushFail, FlushDone, FreeSlot, ReturnToken, FreeThen, Go,
                      SigSem, PutDtq, SemWaiters, DtqWaiters
  <2>2. CASE TakeToken(p) \/ SendTimeout(p) \/ PendPush(p) \/ AllocSlot(p)
    BY <2>2, <1>0 DEF TakeToken, SendTimeout, PendPush, AllocSlot, Go
  <2>3. CASE GiveBack(p) \/ CopyAndPost(p) \/ PolToken(p) \/ IsrAlloc(p) \/ IsrPost(p)
    BY <2>3, <1>0 DEF GiveBack, CopyAndPost, PolToken, IsrAlloc, AllocDebt, IsrPost, Go, SigSem, PutDtq,
                      SemWaiters, DtqWaiters
  <2>4. CASE RecvTake(p) \/ RecvFail(p) \/ CopyOut(p) \/ ResetTake(p) \/ ResetDone(p)
    BY <2>4, <1>0 DEF RecvTake, RecvFail, CopyOut, FreeThen, ResetTake, ResetDone, Go
  <2>5. CASE Call(p) \/ Leave(p)
    BY <2>5, <1>0 DEF Call, Leave, SendCall, IsrSendCall, RecvCall, ResetCall, EnterCritical,
                      IntDisable, ExitCritical, IntRestore, pvars, Go, At
  <2> QED  BY <2>1, <2>2, <2>3, <2>4, <2>5 DEF Work
<1>5. SendNoToken(p) => owner = p /\ owner' = owner
  BY DEF SendNoToken, At, TaskCallRefused, Masked, Watched, critvars
<1>6. \A q \in Procs \ {p} : pc[q] = "pushp" => owner' = q
  <2> SUFFICES ASSUME NEW q \in Procs \ {p}, pc[q] = "pushp" PROVE owner' = q
    OBVIOUS
  <2>1. owner = q /\ p # q
    BY DEF Watched
  <2>2. CanRun(p)
    BY DEF Work, Call, Leave, FlushPop, FlushPost, FlushFail, FlushDone, FreeSlot,
           ReturnToken, TakeToken, SendTimeout, SendNoToken, PendPush, AllocSlot, GiveBack,
           CopyAndPost, PolToken, IsrAlloc, IsrPost, RecvTake, RecvFail, CopyOut, ResetTake,
           ResetDone, SendCall, IsrSendCall, RecvCall, ResetCall, EnterCritical, IntDisable,
           ExitCritical, IntRestore, At
  <2>3. owner \in {p, NoProc}
    BY <2>2 DEF CanRun
  <2> QED  BY <2>1, <2>3, ProcsAssumption
<1>7. p \in Isrs => pc'[p] # "twai" /\ fret'[p] # "twai"
  <2> SUFFICES ASSUME p \in Isrs PROVE pc'[p] # "twai" /\ fret'[p] # "twai"
    OBVIOUS
  <2>0. pc[p] # "twai" /\ fret[p] # "twai" /\ ~SendCall(p)
    BY DEF Watched, CriticalUse, SendCall
  <2>1. CASE FlushPop(p) \/ FlushPost(p) \/ FlushFail(p) \/ FlushDone(p) \/ FreeSlot(p) \/ ReturnToken(p)
    BY <2>0, <2>1, <1>0 DEF FlushPop, FlushPost, FlushFail, FlushDone, FreeSlot, ReturnToken, FreeThen,
                            Go, SigSem, PutDtq, SemWaiters, DtqWaiters
  <2>2. CASE TakeToken(p) \/ SendTimeout(p) \/ SendNoToken(p) \/ PendPush(p) \/ AllocSlot(p)
    BY <2>0, <2>2, <1>0 DEF TakeToken, SendTimeout, SendNoToken, AllocDebt, PendPush, AllocSlot, Go
  <2>3. CASE GiveBack(p) \/ CopyAndPost(p) \/ PolToken(p) \/ IsrAlloc(p) \/ IsrPost(p)
    BY <2>0, <2>3, <1>0 DEF GiveBack, CopyAndPost, PolToken, IsrAlloc, AllocDebt, IsrPost, Go, SigSem,
                            PutDtq, SemWaiters, DtqWaiters
  <2>4. CASE RecvTake(p) \/ RecvFail(p) \/ CopyOut(p) \/ ResetTake(p) \/ ResetDone(p)
    BY <2>0, <2>4, <1>0 DEF RecvTake, RecvFail, CopyOut, FreeThen, ResetTake, ResetDone, Go
  <2>5. CASE Call(p) \/ Leave(p)
    BY <2>0, <2>5, <1>0 DEF Call, Leave, IsrSendCall, RecvCall, ResetCall, EnterCritical,
                            IntDisable, ExitCritical, IntRestore, pvars, Go, At
  <2> QED  BY <2>1, <2>2, <2>3, <2>4, <2>5 DEF Work
<1> QED  BY <1>1, <1>3, <1>4, <1>5, <1>6, <1>7 DEF Watched, Procs

LEMMA WatchStep ==
  ASSUME CriticalUse, TypeInv, ItemInv, Watched, NEW p \in Procs, Work(p) \/ Call(p) \/ Leave(p)
  PROVE  NoStrandedItem'
<1>0. /\ pc \in [Procs -> Labels] /\ nret \in [Procs -> {"idle", "fpop", "prcv"}]
      /\ ~IntDisable(p) /\ ~IntRestore(p)
  BY ItemTypes DEF CriticalUse, IntDisable, IntRestore, Watched
<1>1. \A q \in Procs \ {p} : Flushing(q) => Flushing(q)'
  BY Moves, OthersFlush
<1>2. CASE PendPush(p)
  <2>1. owner = p /\ owner' = owner
    BY <1>2 DEF PendPush, At, Masked, Watched, critvars
  <2> QED  BY <2>1, ProcsAssumption DEF NoStrandedItem
<1>3. CASE FlushDone(p)
  BY <1>3 DEF FlushDone, NoStrandedItem, qvars
<1>4. CASE ExitCritical(p)
  <2>1. CASE Go(p, "fpop")
    BY <1>0, <2>1, StrandedFlushPrime DEF Go, Flushing
  <2>2. CASE UNCHANGED <<owner, pc>>
    BY <1>1, <1>4, <2>2, WatchGoesOn DEF ExitCritical, qvars, Flushing
  <2> QED  BY <1>4, <2>1, <2>2 DEF ExitCritical
<1>5. CASE FlushPop(p) \/ FlushPost(p) \/ FlushFail(p) \/ FreeSlot(p) \/ ReturnToken(p)
  <2>1. pc'[p] \in {"fpsnd", "fpop"} \/ Flushing(p) => Flushing(p)'
    <3>1. CASE FlushPop(p)
      BY <1>0, <3>1 DEF FlushPop, Go, Flushing
    <3>2. CASE FlushPost(p)
      BY <1>0, <3>2 DEF FlushPost, PutDtq, DtqWaiters, Go, Flushing
    <3>3. CASE FlushFail(p)
      BY <1>0, <3>3 DEF FlushFail, FreeThen, Go, Flushing
    <3>4. CASE FreeSlot(p)
      BY <1>0, <3>4 DEF FreeSlot, At, Go, Flushing
    <3>5. CASE ReturnToken(p)
      BY <1>0, <3>5 DEF ReturnToken, At, SigSem, SemWaiters, Go, Flushing
    <3> QED  BY <1>5, <3>1, <3>2, <3>3, <3>4, <3>5
  <2>2. /\ pend = <<>> => pend' = <<>>
        /\ owner' = owner
    BY <1>5 DEF FlushPop, FlushPost, FlushFail, FreeSlot, ReturnToken, qvars, critvars
  <2> QED  BY <1>1, <2>1, <2>2, WatchGoesOn
<1>6. CASE TakeToken(p) \/ SendTimeout(p) \/ SendNoToken(p) \/ AllocSlot(p) \/ GiveBack(p)
           \/ CopyAndPost(p) \/ PolToken(p) \/ IsrAlloc(p) \/ IsrPost(p)
  <2>1. ~Flushing(p)
    BY <1>6 DEF TakeToken, SendTimeout, SendNoToken, AllocSlot, GiveBack, CopyAndPost, PolToken,
                IsrAlloc, IsrPost, At, Flushing
  <2>2. pend' = pend /\ owner' = owner
    BY <1>6 DEF TakeToken, SendTimeout, SendNoToken, AllocSlot, GiveBack, CopyAndPost, PolToken,
                IsrAlloc, IsrPost, qvars, critvars
  <2> QED  BY <1>1, <2>1, <2>2, WatchGoesOn
<1>7. CASE RecvTake(p) \/ RecvFail(p) \/ CopyOut(p) \/ ResetTake(p) \/ ResetDone(p)
  <2>1. ~Flushing(p)
    BY <1>7 DEF RecvTake, RecvFail, CopyOut, ResetTake, ResetDone, At, Flushing
  <2>2. pend' = pend /\ owner' = owner
    BY <1>7 DEF RecvTake, RecvFail, CopyOut, ResetTake, ResetDone, qvars, critvars
  <2> QED  BY <1>1, <2>1, <2>2, WatchGoesOn
<1>8. CASE SendCall(p) \/ IsrSendCall(p) \/ RecvCall(p) \/ ResetCall(p) \/ EnterCritical(p)
  <2>1. ~Flushing(p)
    BY <1>8 DEF SendCall, IsrSendCall, RecvCall, ResetCall, EnterCritical, At, Flushing
  <2>2. pend' = pend /\ (owner' = owner \/ owner' = p)
    BY <1>8 DEF SendCall, IsrSendCall, RecvCall, ResetCall, EnterCritical, qvars, critvars
  <2>3. p # NoProc
    BY ProcsAssumption
  <2> QED  BY <1>1, <2>1, <2>2, <2>3, WatchGoesOn
<1> QED  BY <1>0, <1>2, <1>3, <1>4, <1>5, <1>6, <1>7, <1>8 DEF Work, Call, Leave

\* An item on the pend ring is inside an open critical section, or a context is
\* flushing the ring, where nobody masks interrupts otherwise and handlers send
\* with esp_shim_queue_send_from_isr.
THEOREM NothingStrands == CriticalUse => (Spec => []NoStrandedItem)
<1> SUFFICES ASSUME CriticalUse PROVE Spec => []NoStrandedItem
  OBVIOUS
<1>1. Init => Watched
  <2> SUFFICES ASSUME Init PROVE Watched
    OBVIOUS
  <2>1. ~idis
    BY Zenon DEF Init
  <2>2. \A p \in Procs : pc[p] = "idle" /\ fret[p] = "idle"
    BY DEF Init
  <2>3. pend = <<>>
    BY DEF Init
  <2> QED  BY <2>1, <2>2, <2>3 DEF Watched, NoStrandedItem, Procs
<1>2. IInv /\ ItemInv /\ Watched /\ [Next]_vars => Watched'
  <2> SUFFICES ASSUME IInv, ItemInv, Watched, [Next]_vars PROVE Watched'
    OBVIOUS
  <2>1. CASE UNCHANGED vars
    BY <2>1 DEF vars, qvars, pvars, critvars, Watched, NoStrandedItem
  <2>2. CASE Next
    <3>1. PICK p \in Procs : Work(p) \/ Call(p) \/ Leave(p)
      BY <2>2 DEF Next
    <3> QED  BY <3>1, PushMasked, WatchStep DEF IInv, Watched
  <2> QED  BY <2>1, <2>2
<1>3. Watched => NoStrandedItem
  BY DEF Watched
<1> QED  BY <1>1, <1>2, <1>3, ItemsInductive, PTL DEF Spec
-----------------------------------------------------------------------------
(* The order of items, where one task sends with esp_shim_queue_send, one  *)
(* context receives, and whoever else flushes is more urgent than the      *)
(* sender.  A sender at least as urgent could post behind the back of a    *)
(* flush that has taken an earlier item off the ring.                      *)

OneSender(snd, rcv) ==
  /\ snd # rcv
  /\ Ops[snd] \cap {"recv", "send_from_isr"} = {}
  /\ \A p \in Procs \ {snd} : /\ Ops[p] \cap {"send", "send_from_isr"} = {}
                              /\ p \in Isrs \/ Prio[p] < Prio[snd]
  /\ \A p \in Procs \ {rcv} : "recv" \notin Ops[p]

\* The places of a send after its flush, and those of a receive.
InLine    == {"twai", "wsem", "alloc", "giveback", "tsnd", "pushp"}
Receiving == {"trcv", "wdtq", "copyout"}

\* The slots that are to follow those in the data queue.
Behind == Rng(pend) \cup {hand[p] : p \in {q \in Procs : pc[q] = "fpsnd"}}

PlacesOK(snd, rcv) ==
  /\ \A p \in Procs : pc[p] \notin {"polsem", "ipsnd"}
  /\ \A p \in Procs \ {snd} : pc[p] \notin InLine /\ fret[p] # "twai" /\ msg[p] = NoMsg
  /\ \A p \in Procs \ {rcv} : pc[p] \notin Receiving /\ fret[p] # "trcv"

\* The item being sent is the newest, and none is ahead of it but in the data queue;
\* one slot at most is behind that, with a newer item; the one being received is the
\* oldest.
OrderOK(snd, rcv) ==
  /\ msg[snd] \in {NoMsg, sent}
  /\ pc[snd] \in InLine => Behind = {}
  /\ \A s, t \in Behind : s = t
  /\ pc[rcv] = "wdtq" => dtq = <<>>
  /\ \A i, j \in DOMAIN dtq : i < j => pool[dtq[i]] < pool[dtq[j]]
  /\ \A s \in Behind : \A t \in Rng(dtq) : pool[t] < pool[s]
  /\ pc[rcv] = "copyout" => \A s \in Rng(dtq) \cup Behind : pool[hand[rcv]] < pool[s]

OrderInv(snd, rcv) == PlacesOK(snd, rcv) /\ OrderOK(snd, rcv)

LEMMA InBehind ==
  \A s : s \in Behind <=> s \in Rng(pend) \/ \E p \in Procs : pc[p] = "fpsnd" /\ hand[p] = s
BY DEF Behind

LEMMA InBehindPrime ==
  \A s : s \in Behind' <=> s \in Rng(pend') \/ \E p \in Procs : pc'[p] = "fpsnd" /\ hand'[p] = s
<1>1. Behind' = Rng(pend') \cup {hand'[p] : p \in {q \in Procs : pc'[q] = "fpsnd"}}
  BY DEF Behind, Rng
<1> QED  BY <1>1

\* While the sender runs everybody else is out of the shim or waits for an item.
LEMMA SenderAlone ==
  ASSUME NEW snd \in Tasks, NEW rcv \in Tasks, OneSender(snd, rcv), PlacesOK(snd, rcv),
         CanRun(snd), NEW q \in Procs \ {snd}
  PROVE  pc[q] \in {"idle", "wdtq"}
<1>1. q \in Isrs \/ (q \in Tasks /\ Prio[q] < Prio[snd])
  BY DEF OneSender, Procs
<1>2. pc[q] \in {"idle", "wsem", "wdtq"}
  BY <1>1 DEF CanRun, Suspended
<1> QED  BY <1>2 DEF PlacesOK, InLine

\* A step goes to one place of the one who takes it; it may wake a waiter.
LEMMA PlacesStep ==
  ASSUME NEW snd \in Tasks, NEW rcv \in Tasks, OneSender(snd, rcv), TypeInv, PlacesOK(snd, rcv),
         NEW p \in Procs, Work(p) \/ Call(p) \/ Leave(p)
  PROVE  PlacesOK(snd, rcv)'
<1> DEFINE Fit(l) == /\ l \in Labels \ {"polsem", "ipsnd"}
                     /\ l \in InLine => p = snd
                     /\ l \in Receiving => p = rcv
<1>0. /\ pc \in [Procs -> Labels] /\ fret \in [Procs -> {"idle", "twai", "trcv", "prcv"}]
      /\ nret \in [Procs -> {"idle", "fpop", "prcv"}] /\ msg \in [Procs -> Msgs \cup {NoMsg}]
      /\ snd \in Procs
  BY ItemTypes DEF Procs
<1>1. pc[p] \notin {"polsem", "ipsnd"} /\ (pc[p] \in InLine => p = snd)
      /\ (pc[p] \in Receiving => p = rcv)
  BY DEF PlacesOK
<1>2. ~IsrSendCall(p) /\ ~PolToken(p) /\ ~IsrAlloc(p) /\ ~IsrPost(p)
  BY <1>1 DEF OneSender, IsrSendCall, PolToken, IsrAlloc, IsrPost, At
<1>3. pc' = pc \/ \E l : Fit(l) /\ (Go(p, l) \/ SigSem(p, l) \/ PutDtq(p, l))
  <2>1. CASE FlushPop(p)
    BY <2>1 DEF FlushPop, Labels, InLine, Receiving
  <2>2. CASE FlushPost(p) \/ FlushFail(p) \/ CopyAndPost(p)
    <3>1. PutDtq(p, "fpop") \/ Go(p, "notify") \/ PutDtq(p, "idle")
      BY <2>2 DEF FlushPost, FlushFail, FreeThen, CopyAndPost
    <3> QED  BY <3>1 DEF Labels, InLine, Receiving
  <2>3. CASE FlushDone(p)
    <3>1. Go(p, fret[p])
      BY <2>3 DEF FlushDone
    <3>2. Fit(fret[p])
      BY <1>0 DEF PlacesOK, Labels, InLine, Receiving
    <3> QED  BY <3>1, <3>2
  <2>4. CASE FreeSlot(p) \/ ReturnToken(p)
    <3>1. Go(p, nret[p]) \/ Go(p, "sig") \/ SigSem(p, nret[p])
      BY <2>4 DEF FreeSlot, ReturnToken
    <3>2. Fit(nret[p]) /\ Fit("sig")
      BY <1>0 DEF Labels, InLine, Receiving
    <3> QED  BY <3>1, <3>2
  <2>5. CASE TakeToken(p) \/ AllocSlot(p) \/ SendNoToken(p)
    <3>1. p = snd
      BY <2>5, <1>1 DEF TakeToken, AllocSlot, SendNoToken, At, InLine
    <3>2. \E l \in {"alloc", "wsem", "giveback", "tsnd", "idle", "pushp"} : Go(p, l)
      BY <2>5 DEF TakeToken, AllocSlot, SendNoToken, AllocDebt
    <3> QED  BY <3>1, <3>2 DEF Labels, Receiving
  <2>6. CASE SendTimeout(p) \/ PendPush(p) \/ GiveBack(p) \/ RecvFail(p) \/ ResetDone(p)
    <3>1. Go(p, "idle") \/ SigSem(p, "idle")
      BY <2>6 DEF SendTimeout, PendPush, GiveBack, RecvFail, ResetDone
    <3> QED  BY <3>1 DEF Labels, InLine, Receiving
  <2>7. CASE RecvTake(p)
    <3>1. p = rcv /\ (Go(p, "copyout") \/ Go(p, "wdtq"))
      BY <2>7, <1>1 DEF RecvTake, At, Receiving
    <3> QED  BY <3>1 DEF Labels, InLine
  <2>8. CASE CopyOut(p) \/ ResetTake(p)
    BY <2>8 DEF CopyOut, ResetTake, FreeThen, Labels, InLine, Receiving
  <2>9. CASE Call(p) \/ Leave(p)
    <3>1. pc' = pc \/ Go(p, "fpop")
      BY <2>9, <1>2 DEF Call, Leave, SendCall, RecvCall, ResetCall, EnterCritical, IntDisable,
                        ExitCritical, IntRestore, pvars
    <3> QED  BY <3>1 DEF Labels, InLine, Receiving
  <2> QED  BY <1>2, <2>1, <2>2, <2>3, <2>4, <2>5, <2>6, <2>7, <2>8, <2>9 DEF Work
<1>4. ASSUME NEW q \in Procs
      PROVE  \/ pc'[q] = pc[q]
             \/ q = p /\ Fit(pc'[q])
             \/ pc[q] = "wsem" /\ pc'[q] = "alloc"
             \/ pc[q] = "wdtq" /\ pc'[q] = "copyout"
  <2>1. CASE pc' = pc
    BY <2>1
  <2>2. ASSUME NEW l, Fit(l), Go(p, l) \/ SigSem(p, l) \/ PutDtq(p, l)
        PROVE  \/ pc'[q] = pc[q]
               \/ q = p /\ pc'[q] = l
               \/ pc[q] = "wsem" /\ pc'[q] = "alloc"
               \/ pc[q] = "wdtq" /\ pc'[q] = "copyout"
    BY <1>0, <2>2 DEF Go, SigSem, PutDtq, SemWaiters, DtqWaiters
  <2> QED  BY <1>3, <2>1, <2>2
<1>5. /\ pc'[p] \notin {"polsem", "ipsnd"} /\ (pc'[p] \in InLine => p = snd)
      /\ (pc'[p] \in Receiving => p = rcv)
  BY <1>1, <1>4 DEF Labels, InLine, Receiving
<1>6. \A q \in Procs \ {p} : /\ pc'[q] \notin {"polsem", "ipsnd"} /\ (pc'[q] \in InLine => q = snd)
                             /\ (pc'[q] \in Receiving => q = rcv)
  BY <1>4 DEF PlacesOK, InLine, Receiving
<1>7. /\ fret' = fret \/ \E l \in {"idle", "prcv"} : fret' = [fret EXCEPT ![p] = l]
         \/ (p = snd /\ fret' = [fret EXCEPT ![p] = "twai"])
         \/ (p = rcv /\ fret' = [fret EXCEPT ![p] = "trcv"])
      /\ msg' = msg \/ (\E m \in Msgs \cup {NoMsg} : p = snd /\ msg' = [msg EXCEPT ![p] = m])
         \/ msg' = [msg EXCEPT ![p] = NoMsg]
  <2>1. CASE FlushPop(p) \/ FlushPost(p) \/ FlushFail(p) \/ FlushDone(p) \/ FreeSlot(p)
             \/ ReturnToken(p)
    BY <2>1 DEF FlushPop, FlushPost, FlushFail, FlushDone, FreeSlot, ReturnToken
  <2>2. CASE TakeToken(p) \/ SendTimeout(p) \/ SendNoToken(p) \/ PendPush(p) \/ AllocSlot(p)
    BY <2>2 DEF TakeToken, SendTimeout, SendNoToken, AllocDebt, PendPush, AllocSlot, Refuse, Accept
  <2>3. CASE GiveBack(p) \/ CopyAndPost(p) \/ RecvTake(p) \/ RecvFail(p) \/ CopyOut(p)
             \/ ResetTake(p) \/ ResetDone(p)
    BY <2>3 DEF GiveBack, CopyAndPost, RecvTake, RecvFail, CopyOut, ResetTake, ResetDone, Refuse,
                Accept
  <2>4. CASE SendCall(p)
    <3>1. p = snd /\ sent + 1 \in Msgs
      BY <2>4, ItemTypes, BoundsAssumption DEF SendCall, OneSender, NewItem, Msgs
    <3> QED  BY <2>4, <3>1 DEF SendCall, NewItem
  <2>5. CASE RecvCall(p)
    <3>1. p = rcv
      BY <2>5 DEF RecvCall, OneSender
    <3> QED  BY <2>5, <3>1 DEF RecvCall
  <2>6. CASE ResetCall(p)
    BY <2>6 DEF ResetCall
  <2>7. CASE EnterCritical(p) \/ IntDisable(p) \/ Leave(p)
    BY <2>7 DEF EnterCritical, IntDisable, Leave, ExitCritical, IntRestore, pvars
  <2> QED  BY <1>2, <2>1, <2>2, <2>3, <2>4, <2>5, <2>6, <2>7 DEF Work, Call
<1>8. \A q \in Procs \ {snd} : fret'[q] # "twai" /\ msg'[q] = NoMsg
  BY <1>0, <1>7 DEF PlacesOK
<1>9. \A q \in Procs \ {rcv} : fret'[q] # "trcv"
  BY <1>0, <1>7 DEF PlacesOK
<1> QED  BY <1>5, <1>6, <1>8, <1>9 DEF PlacesOK

\* The steps that leave the data queue as it is, and put no slot behind it.
LEMMA OrderKept ==
  ASSUME NEW snd \in Tasks, NEW rcv \in Tasks, TypeInv, OrderOK(snd, rcv),
         dtq' = dtq, Behind' \subseteq Behind,
         \A s \in TransitSlots : pool'[s] = pool[s],
         msg'[snd] \in {NoMsg, sent'},
         pc'[snd] \in InLine => pc[snd] \in InLine \/ Behind = {},
         pc'[rcv] = "wdtq" => dtq = <<>>,
         pc'[rcv] = "copyout" => pc[rcv] = "copyout" /\ hand'[rcv] = hand[rcv]
  PROVE  OrderOK(snd, rcv)'
<1>1. Rng(dtq) \subseteq TransitSlots /\ Behind \subseteq TransitSlots /\ Rng(dtq') = Rng(dtq)
  BY InTransit, InBehind DEF Moving
<1>2. \A i \in DOMAIN dtq : dtq[i] \in TransitSlots
  BY <1>1 DEF Rng
<1>3. pc[rcv] = "copyout" => hand[rcv] \in TransitSlots
  BY InTransit DEF Moving, Procs
<1>4. pc'[snd] \in InLine => Behind' = {}
  BY DEF OrderOK
<1>5. \A s, t \in Behind' : s = t
  BY DEF OrderOK
<1>6. \A i, j \in DOMAIN dtq' : i < j => pool'[dtq'[i]] < pool'[dtq'[j]]
  BY <1>2 DEF OrderOK
<1>7. \A s \in Behind' : \A t \in Rng(dtq') : pool'[t] < pool'[s]
  BY <1>1 DEF OrderOK
<1>8. pc'[rcv] = "copyout" => \A s \in Rng(dtq') \cup Behind' : pool'[hand'[rcv]] < pool'[s]
  <2>1. ASSUME pc'[rcv] = "copyout", NEW s \in Rng(dtq) \cup Behind
        PROVE  pool'[hand'[rcv]] < pool'[s]
    <3>1. hand'[rcv] = hand[rcv] /\ pool'[s] = pool[s] /\ pool'[hand[rcv]] = pool[hand[rcv]]
      BY <2>1, <1>1, <1>3
    <3>2. pool[hand[rcv]] < pool[s]
      BY <2>1 DEF OrderOK
    <3> QED  BY <3>1, <3>2
  <2> QED  BY <2>1, <1>1
<1> QED  BY <1>4, <1>5, <1>6, <1>7, <1>8 DEF OrderOK

\* The oldest item of the data queue is taken off, to be received or discarded.
LEMMA OrderHeaded ==
  ASSUME NEW snd \in Tasks, NEW rcv \in Tasks, TypeInv, Apart, OrderOK(snd, rcv),
         dtq # <<>>, dtq' = Tail(dtq), Behind' \subseteq Behind, pool' = pool,
         msg'[snd] \in {NoMsg, sent'},
         pc'[snd] \in InLine => pc[snd] \in InLine,
         pc'[rcv] # "wdtq" \/ pc[rcv] = "wdtq",
         pc'[rcv] = "copyout" => \/ hand'[rcv] = Head(dtq)
                                 \/ pc[rcv] = "copyout" /\ hand'[rcv] = hand[rcv]
  PROVE  OrderOK(snd, rcv)'
<1>1. dtq \in Seq(Slots)
  BY DEF TypeInv, TypeOK
<1>2. Rng(Tail(dtq)) = Rng(dtq) \ {Head(dtq)} /\ Head(dtq) \in Rng(dtq)
  BY <1>1, TailOnce DEF Apart
<1> DEFINE n == Len(dtq)
<1>3. /\ n \in Nat \ {0} /\ DOMAIN dtq = 1..n /\ DOMAIN dtq' = 1..(n - 1)
      /\ Head(dtq) = dtq[1] /\ \A i \in 1..(n - 1) : dtq'[i] = dtq[i + 1]
  BY <1>1
<1> HIDE DEF n
<1>4. \A i, j \in DOMAIN dtq' : i < j => pool'[dtq'[i]] < pool'[dtq'[j]]
  <2> SUFFICES ASSUME NEW i \in DOMAIN dtq', NEW j \in DOMAIN dtq', i < j
               PROVE  pool'[dtq'[i]] < pool'[dtq'[j]]
    OBVIOUS
  <2>1. i + 1 \in DOMAIN dtq /\ j + 1 \in DOMAIN dtq /\ i + 1 < j + 1
    BY <1>3
  <2>2. dtq'[i] = dtq[i + 1] /\ dtq'[j] = dtq[j + 1]
    BY <1>3
  <2>3. pool[dtq[i + 1]] < pool[dtq[j + 1]]
    BY <2>1 DEF OrderOK
  <2> QED  BY <2>2, <2>3
<1>5. \A t \in Rng(dtq') : pool[Head(dtq)] < pool[t]
  <2> SUFFICES ASSUME NEW i \in DOMAIN dtq' PROVE pool[dtq[1]] < pool[dtq'[i]]
    BY <1>3 DEF Rng
  <2>1. 1 \in DOMAIN dtq /\ i + 1 \in DOMAIN dtq /\ 1 < i + 1 /\ dtq'[i] = dtq[i + 1]
    BY <1>3
  <2>2. pool[dtq[1]] < pool[dtq[i + 1]]
    BY <2>1 DEF OrderOK
  <2> QED  BY <2>1, <2>2
<1>6. \A s \in Behind' : \A t \in Rng(dtq') : pool'[t] < pool'[s]
  BY <1>2 DEF OrderOK
<1>7. pc'[rcv] = "copyout" => \A s \in Rng(dtq') \cup Behind' : pool'[hand'[rcv]] < pool'[s]
  <2> SUFFICES ASSUME pc'[rcv] = "copyout", NEW s \in Rng(dtq') \cup Behind
               PROVE  pool[hand'[rcv]] < pool[s]
    OBVIOUS
  <2>1. CASE hand'[rcv] = Head(dtq)
    BY <2>1, <1>2, <1>5 DEF OrderOK
  <2>2. CASE pc[rcv] = "copyout" /\ hand'[rcv] = hand[rcv]
    BY <2>2, <1>2 DEF OrderOK
  <2> QED  BY <2>1, <2>2
<1>8. pc'[rcv] # "wdtq"
  BY DEF OrderOK
<1>9. (pc'[snd] \in InLine => Behind' = {}) /\ \A s, t \in Behind' : s = t
  BY DEF OrderOK
<1> QED  BY <1>4, <1>6, <1>7, <1>8, <1>9 DEF OrderOK

\* A slot is put into the data queue, or handed to the receiver, with an item newer than
\* all in front of it and with nothing left behind.
LEMMA OrderPosted ==
  ASSUME NEW snd \in Tasks, NEW rcv \in Tasks, OneSender(snd, rcv), TypeInv, Apart,
         OrderInv(snd, rcv), NEW p \in Procs, pc[p] \in {"fpsnd", "tsnd"},
         NEW l \in {"fpop", "idle"}, PutDtq(p, l), Behind' = {}, hand[p] \in Slots,
         \A s \in TransitSlots : pool'[s] = pool[s],
         \A t \in Rng(dtq) : pool[t] < pool'[hand[p]],
         pc[rcv] = "copyout" => pool[hand[rcv]] < pool'[hand[p]],
         msg'[snd] \in {NoMsg, sent'}
  PROVE  OrderOK(snd, rcv)'
<1> DEFINE s == hand[p]
<1>0. /\ pc \in [Procs -> Labels] /\ hand \in [Procs -> Slots \cup {NoSlot}]
      /\ dtq \in Seq(Slots) /\ pc[p] # "wdtq"
  BY DEF TypeInv, TypeOK
<1>1. Rng(dtq) \subseteq TransitSlots /\ (pc[rcv] = "copyout" => hand[rcv] \in TransitSlots)
  BY InTransit DEF Moving, Procs
<1>2. (pc'[snd] \in InLine => Behind' = {}) /\ \A t, u \in Behind' : t = u
  OBVIOUS
<1>3. CASE Go(p, l) /\ hand' = [hand EXCEPT ![p] = NoSlot] /\ dtq' = Append(dtq, s)
           /\ DtqWaiters = {}
  <2>1. pc'[p] = l /\ \A q \in Procs \ {p} : pc'[q] = pc[q] /\ hand'[q] = hand[q]
    BY <1>3, <1>0 DEF Go
  <2>2. pc'[rcv] # "wdtq" /\ (pc'[rcv] = "copyout" => pc[rcv] = "copyout" /\ hand'[rcv] = hand[rcv])
    BY <1>3, <2>1 DEF DtqWaiters, Procs
  <2> DEFINE n == Len(dtq)
  <2>3. /\ n \in Nat /\ DOMAIN dtq = 1..n /\ DOMAIN dtq' = 1..(n + 1)
        /\ dtq'[n + 1] = s /\ \A i \in 1..n : dtq'[i] = dtq[i]
    BY <1>0, <1>3
  <2> HIDE DEF n
  <2>4. \A i \in 1..n : dtq[i] \in Rng(dtq) /\ pool'[dtq'[i]] = pool[dtq[i]]
    BY <2>3, <1>1 DEF Rng
  <2>5. \A i, j \in DOMAIN dtq' : i < j => pool'[dtq'[i]] < pool'[dtq'[j]]
    <3> SUFFICES ASSUME NEW i \in DOMAIN dtq', NEW j \in DOMAIN dtq', i < j
                 PROVE  pool'[dtq'[i]] < pool'[dtq'[j]]
      OBVIOUS
    <3>1. i \in 1..n /\ (j \in 1..n \/ j = n + 1)
      BY <2>3
    <3>2. CASE j \in 1..n
      <4>1. pool[dtq[i]] < pool[dtq[j]]
        BY <3>1, <3>2, <2>3 DEF OrderInv, OrderOK
      <4> QED  BY <4>1, <3>1, <3>2, <2>4
    <3>3. CASE j = n + 1
      <4>1. pool[dtq[i]] < pool'[s]
        BY <3>1, <2>4
      <4> QED  BY <4>1, <3>1, <3>3, <2>3, <2>4
    <3> QED  BY <3>1, <3>2, <3>3
  <2>6. \A t \in Rng(dtq') : t \in Rng(dtq) \/ t = s
    BY <2>3 DEF Rng
  <2>7. pc'[rcv] = "copyout" => \A t \in Rng(dtq') \cup Behind' : pool'[hand'[rcv]] < pool'[t]
    <3> SUFFICES ASSUME pc'[rcv] = "copyout", NEW t \in Rng(dtq')
                 PROVE  pool'[hand'[rcv]] < pool'[t]
      OBVIOUS
    <3>1. pc[rcv] = "copyout" /\ hand'[rcv] = hand[rcv] /\ pool'[hand[rcv]] = pool[hand[rcv]]
      BY <2>2, <1>1
    <3>2. CASE t = s
      BY <3>1, <3>2
    <3>3. CASE t \in Rng(dtq)
      <4>1. pool[hand[rcv]] < pool[t] /\ pool'[t] = pool[t]
        BY <3>1, <3>3, <1>1 DEF OrderInv, OrderOK
      <4> QED  BY <4>1, <3>1
    <3> QED  BY <2>6, <3>2, <3>3
  <2> QED  BY <1>2, <2>2, <2>5, <2>7 DEF OrderOK
<1>4. CASE \E w \in DtqWaiters : /\ pc' = [pc EXCEPT ![w] = "copyout", ![p] = l]
                                 /\ hand' = [hand EXCEPT ![w] = s, ![p] = NoSlot]
                                 /\ dtq' = dtq
  <2>1. PICK w \in DtqWaiters : /\ pc' = [pc EXCEPT ![w] = "copyout", ![p] = l]
                                /\ hand' = [hand EXCEPT ![w] = s, ![p] = NoSlot]
                                /\ dtq' = dtq
    BY <1>4
  <2>2. w = rcv /\ pc[rcv] = "wdtq" /\ dtq = <<>>
    BY <2>1 DEF DtqWaiters, Procs, OrderInv, PlacesOK, OrderOK, Receiving
  <2>3. pc'[rcv] = "copyout"
    BY <2>1, <2>2, <1>0 DEF Procs
  <2>4. Rng(dtq') = {} /\ DOMAIN dtq' = {}
    BY <2>1, <2>2 DEF Rng
  <2> QED  BY <1>2, <2>3, <2>4 DEF OrderOK
<1> QED  BY <1>3, <1>4 DEF PutDtq

\* The item being sent is newer than those accepted.
LEMMA NewestSend ==
  ASSUME NEW snd \in Tasks, TypeInv, ItemInv, msg[snd] \in {NoMsg, sent}, msg[snd] # NoMsg
  PROVE  \A t \in TransitSlots : pool[t] < msg[snd]
<1>1. snd \in Procs /\ fate[msg[snd]] = "calling" /\ msg[snd] = sent /\ sent \in Nat
  BY ItemTypes DEF Procs, ItemInv, SendersOK
<1>2. ASSUME NEW t \in TransitSlots PROVE pool[t] < msg[snd]
  <2>1. pool[t] \in Msgs /\ fate[pool[t]] = "sent"
    BY TransitPool DEF ItemInv, ItemsOK
  <2>2. ~(pool[t] > sent) /\ pool[t] # sent
    BY <1>1, <2>1 DEF ItemInv, ItemsOK
  <2> QED  BY <1>1, <2>1, <2>2, BoundsAssumption DEF Msgs
<1> QED  BY <1>2

\* A step that moves no slot in transit.
LEMMA OrderQuiet ==
  ASSUME NEW snd \in Tasks, NEW rcv \in Tasks, TypeInv, OrderOK(snd, rcv), NEW p \in Procs,
         dtq' = dtq, pend' = pend, \A s \in TransitSlots : pool'[s] = pool[s],
         \A q \in Procs \ {p} : /\ hand'[q] = hand[q]
                                /\ pc'[q] = pc[q] \/ (pc[q] = "wsem" /\ pc'[q] = "alloc"),
         pc'[p] \notin {"fpsnd", "copyout"},
         p = snd /\ pc'[p] \in InLine => pc[p] \in InLine \/ Behind = {},
         p = rcv /\ pc'[p] = "wdtq" => dtq = <<>>,
         msg'[snd] \in {NoMsg, sent'}
  PROVE  OrderOK(snd, rcv)'
<1>1. snd \in Procs /\ rcv \in Procs
  BY DEF Procs
<1>2. Behind' \subseteq Behind
  BY InBehind, InBehindPrime
<1>3. pc'[snd] \in InLine => pc[snd] \in InLine \/ Behind = {}
  BY <1>1 DEF InLine
<1>4. pc'[rcv] = "wdtq" => dtq = <<>>
  BY <1>1 DEF OrderOK
<1>5. pc'[rcv] = "copyout" => pc[rcv] = "copyout" /\ hand'[rcv] = hand[rcv]
  BY <1>1
<1> QED  BY <1>2, <1>3, <1>4, <1>5, OrderKept

\* The sender has flushed, and nobody is inside a flush.
LEMMA FlushedBehind ==
  ASSUME NEW snd \in Tasks, NEW rcv \in Tasks, OneSender(snd, rcv), PlacesOK(snd, rcv),
         FlushDone(snd)
  PROVE  Behind = {}
<1>1. \A q \in Procs : pc[q] # "fpsnd"
  BY SenderAlone DEF FlushDone, At, Procs
<1>2. Rng(pend) = {}
  BY DEF FlushDone, Rng
<1> QED  BY <1>1, <1>2 DEF Behind

LEMMA OrderCalls ==
  ASSUME NEW snd \in Tasks, NEW rcv \in Tasks, OneSender(snd, rcv), TypeInv, ItemInv,
         OrderInv(snd, rcv), NEW p \in Procs,
         \/ Call(p) \/ Leave(p) \/ FlushDone(p) \/ FlushFail(p) \/ FreeSlot(p) \/ ReturnToken(p)
         \/ RecvFail(p) \/ CopyOut(p) \/ ResetDone(p)
  PROVE  OrderOK(snd, rcv)'
<1>0. /\ pc \in [Procs -> Labels] /\ hand \in [Procs -> Slots \cup {NoSlot}]
      /\ fret \in [Procs -> {"idle", "twai", "trcv", "prcv"}]
      /\ nret \in [Procs -> {"idle", "fpop", "prcv"}] /\ msg \in [Procs -> Msgs \cup {NoMsg}]
      /\ msg[snd] \in {NoMsg, sent} /\ OrderOK(snd, rcv) /\ PlacesOK(snd, rcv)
      /\ snd \in Procs /\ rcv \in Procs
  BY ItemTypes DEF Procs, OrderInv, OrderOK
<1>1. CASE Call(p) \/ Leave(p)
  <2>1. ~IsrSendCall(p)
    BY DEF OneSender, IsrSendCall
  <2>2. /\ UNCHANGED <<dtq, pend, pool, hand>> /\ pc[p] = "idle"
        /\ pc' = pc \/ Go(p, "fpop")
    BY <1>1, <2>1 DEF Call, Leave, SendCall, RecvCall, ResetCall, EnterCritical, IntDisable,
                      ExitCritical, IntRestore, At, qvars, pvars
  <2>3. msg'[snd] \in {NoMsg, sent'}
    <3>1. CASE SendCall(p)
      <4>1. p = snd
        BY <3>1 DEF SendCall, OneSender
      <4> QED  BY <3>1, <4>1, <1>0 DEF SendCall, NewItem
    <3>2. CASE ~SendCall(p)
      BY <1>0, <1>1, <2>1, <3>2 DEF Call, Leave, RecvCall, ResetCall, EnterCritical, IntDisable,
                               ExitCritical, IntRestore, pvars, hvars
    <3> QED  BY <3>1, <3>2
  <2>4. pc'[p] \in {"idle", "fpop"} /\ \A q \in Procs \ {p} : pc'[q] = pc[q]
    BY <2>2, GoMoves
  <2> QED  BY <1>0, <2>2, <2>3, <2>4, OrderQuiet DEF InLine
<1>2. CASE FlushDone(p)
  <2>1. /\ UNCHANGED <<dtq, pend, pool, hand>> /\ UNCHANGED <<msg, sent>> /\ Go(p, fret[p])
    BY <1>2 DEF FlushDone, qvars, hvars
  <2>2. pc'[p] = fret[p] /\ \A q \in Procs \ {p} : pc'[q] = pc[q]
    BY <2>1, GoMoves
  <2>3. p = snd => Behind = {}
    BY <1>2, <1>0, FlushedBehind
  <2>4. pc'[p] \notin {"fpsnd", "copyout", "wdtq"}
    BY <1>0, <2>2
  <2> QED  BY <1>0, <2>1, <2>2, <2>3, <2>4, OrderQuiet
<1>3. CASE FlushFail(p) \/ FreeSlot(p) \/ RecvFail(p) \/ CopyOut(p) \/ ResetDone(p)
  <2>1. /\ UNCHANGED <<dtq, pend, pool>> /\ UNCHANGED <<msg, sent>>
        /\ \A q \in Procs \ {p} : hand'[q] = hand[q]
        /\ \E l \in {"notify", "idle", "sig", nret[p]} : Go(p, l)
    BY <1>0, <1>3 DEF FlushFail, FreeSlot, RecvFail, CopyOut, ResetDone, FreeThen, qvars, hvars
  <2>2. PICK l \in {"notify", "idle", "sig", nret[p]} : Go(p, l)
    BY <2>1
  <2>3. pc'[p] = l /\ \A q \in Procs \ {p} : pc'[q] = pc[q]
    BY <2>2, GoMoves
  <2>4. pc'[p] \notin {"fpsnd", "copyout", "wdtq"} /\ pc'[p] \notin InLine
    BY <1>0, <2>3 DEF InLine
  <2> QED  BY <1>0, <2>1, <2>3, <2>4, OrderQuiet
<1>4. CASE ReturnToken(p)
  <2>1. /\ UNCHANGED <<dtq, pend, pool, hand>> /\ UNCHANGED <<msg, sent>> /\ pc[p] = "sig"
        /\ SigSem(p, nret[p]) /\ nret[p] \in Labels
    BY <1>0, <1>4 DEF ReturnToken, At, Labels
  <2>2. /\ pc'[p] = nret[p]
        /\ \A q \in Procs \ {p} : pc'[q] = pc[q] \/ (pc[q] = "wsem" /\ pc'[q] = "alloc")
    BY <2>1, SigMoves
  <2>4. pc'[p] \notin {"fpsnd", "copyout", "wdtq"} /\ pc'[p] \notin InLine
    BY <1>0, <2>2 DEF InLine
  <2> QED  BY <1>0, <2>1, <2>2, <2>4, OrderQuiet
<1> QED  BY <1>1, <1>2, <1>3, <1>4

LEMMA OrderInLine ==
  ASSUME NEW snd \in Tasks, NEW rcv \in Tasks, OneSender(snd, rcv), TypeInv, ItemInv,
         OrderInv(snd, rcv), NEW p \in Procs,
         TakeToken(p) \/ SendTimeout(p) \/ SendNoToken(p) \/ AllocSlot(p) \/ GiveBack(p)
  PROVE  OrderOK(snd, rcv)'
<1>0. /\ pc \in [Procs -> Labels] /\ hand \in [Procs -> Slots \cup {NoSlot}]
      /\ msg \in [Procs -> Msgs \cup {NoMsg}] /\ pool \in [Slots -> Msgs \cup {NoMsg}]
      /\ msg[snd] \in {NoMsg, sent} /\ OrderOK(snd, rcv) /\ PlacesOK(snd, rcv)
      /\ snd \in Procs /\ rcv \in Procs /\ free \in Seq(Slots) /\ TransitSlots \subseteq Slots
  BY ItemTypes, TransitTyped DEF Procs, OrderInv, OrderOK, TypeInv, TypeOK, ItemInv
<1>1. pc[p] \in InLine /\ p = snd
  BY <1>0 DEF TakeToken, SendTimeout, SendNoToken, AllocSlot, GiveBack, At, InLine, PlacesOK
<1>2. dtq' = dtq /\ pend' = pend /\ sent' = sent /\ \A q \in Procs \ {p} : hand'[q] = hand[q]
  BY <1>0 DEF TakeToken, SendTimeout, SendNoToken, AllocDebt, AllocSlot, GiveBack, qvars, hvars
<1>3. \A s \in TransitSlots : pool'[s] = pool[s]
  <2>1. CASE pool' = pool
    BY <2>1
  <2>2. CASE free # <<>> /\ pool' = [pool EXCEPT ![Top] = msg[p]]
    <3>1. Top \notin TransitSlots
      BY <1>0, <2>2, PopOnce, TransitTyped DEF ItemInv, Apart
    <3> QED  BY <3>1, <2>2, <1>0
  <2> QED  BY <2>1, <2>2 DEF TakeToken, SendTimeout, SendNoToken, AllocDebt, AllocSlot, GiveBack,
                             qvars
<1>4. msg'[snd] \in {NoMsg, sent'}
  <2>1. msg' = msg \/ msg' = [msg EXCEPT ![p] = NoMsg]
    BY DEF TakeToken, SendTimeout, SendNoToken, AllocDebt, AllocSlot, GiveBack, Refuse
  <2> QED  BY <2>1, <1>0, <1>1, <1>2
<1>5. /\ pc'[p] \in {"alloc", "wsem", "idle", "pushp", "giveback", "tsnd"}
      /\ \A q \in Procs \ {p} : pc'[q] = pc[q] \/ (pc[q] = "wsem" /\ pc'[q] = "alloc")
  <2>1. CASE GiveBack(p)
    <3>1. SigSem(p, "idle") /\ pc[p] = "giveback" /\ "idle" \in Labels
      BY <2>1 DEF GiveBack, At, Labels
    <3> QED  BY <3>1, SigMoves
  <2>2. CASE ~GiveBack(p)
    <3>1. \E l \in {"alloc", "wsem", "idle", "pushp", "giveback", "tsnd"} : Go(p, l)
      BY <2>2 DEF TakeToken, SendTimeout, SendNoToken, AllocDebt, AllocSlot
    <3> QED  BY <3>1, GoMoves
  <2> QED  BY <2>1, <2>2
<1> QED  BY <1>0, <1>1, <1>2, <1>3, <1>4, <1>5, OrderQuiet

LEMMA OrderTakes ==
  ASSUME NEW snd \in Tasks, NEW rcv \in Tasks, OneSender(snd, rcv), TypeInv, ItemInv,
         OrderInv(snd, rcv), NEW p \in Procs, FlushPop(p) \/ RecvTake(p) \/ ResetTake(p)
  PROVE  OrderOK(snd, rcv)'
<1>0. /\ pc \in [Procs -> Labels] /\ hand \in [Procs -> Slots \cup {NoSlot}]
      /\ pend \in Seq(Slots) /\ Apart
      /\ msg[snd] \in {NoMsg, sent} /\ OrderOK(snd, rcv) /\ PlacesOK(snd, rcv)
      /\ snd \in Procs /\ rcv \in Procs
  BY ItemTypes DEF Procs, OrderInv, OrderOK, TypeInv, TypeOK, ItemInv
<1>1. pool' = pool /\ UNCHANGED <<msg, sent>>
  BY DEF FlushPop, RecvTake, ResetTake, qvars, hvars
<1>2. CASE FlushPop(p)
  <2>1. /\ dtq' = dtq /\ pend # <<>> /\ pend' = Tail(pend) /\ hand' = [hand EXCEPT ![p] = Head(pend)]
        /\ Go(p, "fpsnd")
    BY <1>2 DEF FlushPop
  <2>2. pc'[p] = "fpsnd" /\ \A q \in Procs \ {p} : pc'[q] = pc[q] /\ hand'[q] = hand[q]
    BY <1>0, <2>1, GoMoves
  <2>3. Rng(pend') \subseteq Rng(pend) /\ Head(pend) \in Rng(pend)
    BY <1>0, <2>1, TailOnce DEF Apart
  <2>4. Behind' \subseteq Behind
    <3> SUFFICES ASSUME NEW s \in Behind' PROVE s \in Behind
      OBVIOUS
    <3>1. CASE s \in Rng(pend')
      BY <3>1, <2>3, InBehind
    <3>2. ASSUME NEW q \in Procs, pc'[q] = "fpsnd", hand'[q] = s PROVE s \in Behind
      <4>1. CASE q = p
        BY <4>1, <3>2, <2>1, <2>3, <1>0, InBehind
      <4>2. CASE q # p
        BY <4>2, <3>2, <2>2, InBehind
      <4> QED  BY <4>1, <4>2
    <3> QED  BY <3>1, <3>2, InBehindPrime
  <2>5. pc'[snd] \in InLine => pc[snd] \in InLine
    BY <1>0, <2>2 DEF InLine
  <2>6. pc'[rcv] = "wdtq" => dtq = <<>>
    BY <1>0, <2>2 DEF OrderOK
  <2>7. pc'[rcv] = "copyout" => pc[rcv] = "copyout" /\ hand'[rcv] = hand[rcv]
    BY <1>0, <2>2
  <2> QED  BY <1>0, <1>1, <2>1, <2>4, <2>5, <2>6, <2>7, OrderKept
<1>3. CASE RecvTake(p) /\ dtq = <<>>
  <2>1. UNCHANGED <<dtq, pend, hand>> /\ Go(p, "wdtq")
    BY <1>3 DEF RecvTake
  <2> QED  BY <1>0, <1>1, <1>3, <2>1, GoMoves, OrderQuiet DEF InLine
<1>4. CASE (RecvTake(p) /\ dtq # <<>>) \/ ResetTake(p)
  <2>1. /\ dtq # <<>> /\ dtq' = Tail(dtq) /\ pend' = pend /\ hand' = [hand EXCEPT ![p] = Head(dtq)]
        /\ \E l \in {"copyout", "notify"} : Go(p, l)
    BY <1>4 DEF RecvTake, ResetTake, FreeThen
  <2>2. /\ pc'[p] \in {"copyout", "notify"} /\ hand'[p] = Head(dtq)
        /\ \A q \in Procs \ {p} : pc'[q] = pc[q] /\ hand'[q] = hand[q]
    BY <1>0, <2>1, GoMoves
  <2>3. Behind' \subseteq Behind
    BY <2>1, <2>2, InBehind, InBehindPrime
  <2>4. pc'[snd] \in InLine => pc[snd] \in InLine
    BY <1>0, <2>2 DEF InLine
  <2>5. pc'[rcv] # "wdtq" \/ pc[rcv] = "wdtq"
    BY <1>0, <2>2
  <2>6. pc'[rcv] = "copyout" => \/ hand'[rcv] = Head(dtq)
                                \/ pc[rcv] = "copyout" /\ hand'[rcv] = hand[rcv]
    BY <1>0, <2>2
  <2> QED  BY <1>0, <1>1, <2>1, <2>3, <2>4, <2>5, <2>6, OrderHeaded
<1> QED  BY <1>2, <1>3, <1>4

LEMMA OrderPosts ==
  ASSUME NEW snd \in Tasks, NEW rcv \in Tasks, OneSender(snd, rcv), TypeInv, ItemInv,
         OrderInv(snd, rcv), NEW p \in Procs, FlushPost(p) \/ CopyAndPost(p)
  PROVE  OrderOK(snd, rcv)'
<1>0. /\ pc \in [Procs -> Labels] /\ hand \in [Procs -> Slots \cup {NoSlot}]
      /\ msg \in [Procs -> Msgs \cup {NoMsg}] /\ pool \in [Slots -> Msgs \cup {NoMsg}]
      /\ Apart /\ msg[snd] \in {NoMsg, sent} /\ OrderOK(snd, rcv) /\ PlacesOK(snd, rcv)
      /\ snd \in Procs /\ rcv \in Procs /\ TransitSlots \subseteq Slots
  BY ItemTypes, TransitTyped DEF Procs, OrderInv, OrderOK, ItemInv
<1>1. pc[p] \in {"fpsnd", "tsnd"} /\ hand[p] \in Slots /\ hand[p] # NoSlot
  BY InHand, SlotIsNotNoSlot DEF FlushPost, CopyAndPost, At, HoldsSlot
<1>2. PICK l \in {"fpop", "idle"} : PutDtq(p, l)
  BY DEF FlushPost, CopyAndPost
<1>3. free' = free /\ pend' = pend /\ sent' = sent
  BY DEF FlushPost, CopyAndPost, hvars
<1>4. /\ pc'[p] = l
      /\ \A q \in Procs \ {p} : pc'[q] = pc[q] \/ (pc[q] = "wdtq" /\ pc'[q] = "copyout")
      /\ \A q \in Procs \ {p} : pc'[q] = pc[q] => hand'[q] = hand[q]
  BY <1>0, <1>1, <1>2, <1>3, SlotPosted
<1>5. \A s \in Behind' : s \in Behind /\ s # hand[p]
  <2> SUFFICES ASSUME NEW s \in Behind' PROVE s \in Behind /\ s # hand[p]
    OBVIOUS
  <2>1. CASE s \in Rng(pend')
    BY <2>1, <1>0, <1>3, InBehind DEF Apart
  <2>2. ASSUME NEW q \in Procs, pc'[q] = "fpsnd", hand'[q] = s PROVE s \in Behind /\ s # hand[p]
    <3>1. q # p /\ pc[q] = "fpsnd" /\ hand[q] = s
      BY <1>4, <2>2
    <3> QED  BY <3>1, <1>0, <1>1, InBehind DEF Apart
  <2> QED  BY <2>1, <2>2, InBehindPrime
<1>6. CASE FlushPost(p)
  <2>1. pool' = pool /\ msg' = msg /\ pc[p] = "fpsnd"
    BY <1>6 DEF FlushPost, At
  <2>2. hand[p] \in Behind
    BY <2>1, InBehind
  <2>3. Behind' = {}
    BY <1>0, <1>5, <2>2 DEF OrderOK
  <2>4. \A t \in Rng(dtq) : pool[t] < pool'[hand[p]]
    BY <1>0, <2>1, <2>2 DEF OrderOK
  <2>5. pc[rcv] = "copyout" => pool[hand[rcv]] < pool'[hand[p]]
    BY <1>0, <2>1, <2>2 DEF OrderOK
  <2> QED  BY <1>0, <1>1, <1>2, <1>3, <2>1, <2>3, <2>4, <2>5, OrderPosted
<1>7. CASE CopyAndPost(p)
  <2>1. /\ pool' = [pool EXCEPT ![hand[p]] = msg[p]] /\ msg' = [msg EXCEPT ![p] = NoMsg]
        /\ pc[p] = "tsnd"
    BY <1>7 DEF CopyAndPost, At, Accept
  <2>2. p = snd /\ Behind = {} /\ msg[snd] # NoMsg
    BY <1>0, <2>1 DEF PlacesOK, OrderOK, InLine, ItemInv, SendersOK, CallOK, InSend
  <2>3. \A t \in TransitSlots : pool[t] < msg[snd]
    BY <1>0, <2>2, NewestSend
  <2>4. hand[p] \notin TransitSlots
    BY <1>0, <1>1, <2>1, InTransit DEF Apart, Moving
  <2>5. pool'[hand[p]] = msg[snd] /\ \A s \in TransitSlots : pool'[s] = pool[s]
    BY <1>0, <1>1, <2>1, <2>2, <2>4
  <2>6. Rng(dtq) \subseteq TransitSlots /\ (pc[rcv] = "copyout" => hand[rcv] \in TransitSlots)
    BY <1>0, InTransit DEF Moving
  <2>7. Behind' = {} /\ msg'[snd] = NoMsg
    BY <1>0, <1>5, <2>1, <2>2
  <2> QED  BY <1>0, <1>1, <1>2, <2>3, <2>5, <2>6, <2>7, OrderPosted
<1> QED  BY <1>6, <1>7

LEMMA OrderPends ==
  ASSUME NEW snd \in Tasks, NEW rcv \in Tasks, OneSender(snd, rcv), TypeInv, ItemInv,
         OrderInv(snd, rcv), NEW p \in Procs, PendPush(p)
  PROVE  OrderOK(snd, rcv)'
<1>0. /\ pc \in [Procs -> Labels] /\ hand \in [Procs -> Slots \cup {NoSlot}]
      /\ msg \in [Procs -> Msgs \cup {NoMsg}] /\ pend \in Seq(Slots)
      /\ Apart /\ msg[snd] \in {NoMsg, sent} /\ OrderOK(snd, rcv) /\ PlacesOK(snd, rcv)
      /\ snd \in Procs /\ rcv \in Procs
  BY ItemTypes DEF Procs, OrderInv, OrderOK, ItemInv, TypeInv, TypeOK
<1>1. /\ pc[p] \in {"pushp", "ipsnd"} /\ pend' = Append(pend, hand[p]) /\ pool' = pool /\ dtq' = dtq
      /\ hand' = [hand EXCEPT ![p] = NoSlot] /\ msg' = [msg EXCEPT ![p] = NoMsg] /\ Go(p, "idle")
  BY DEF PendPush, At, Accept
<1>2. p = snd /\ p # rcv /\ pc[p] = "pushp" /\ Behind = {} /\ msg[snd] # NoMsg
      /\ pool[hand[snd]] = msg[snd]
  BY <1>0, <1>1 DEF PlacesOK, OrderOK, InLine, ItemInv, SendersOK, CallOK, InSend, OneSender
<1>3. \A t \in TransitSlots : pool[t] < pool[hand[snd]]
  BY <1>0, <1>2, NewestSend
<1>4. pc'[snd] = "idle" /\ \A q \in Procs \ {snd} : pc'[q] = pc[q] /\ hand'[q] = hand[q]
  BY <1>0, <1>1, <1>2, GoMoves
<1>5. Rng(pend') = {hand[snd]}
  <2>1. Rng(pend) = {} /\ Once(pend) /\ hand[snd] \notin Rng(pend)
    BY <1>0, <1>2, InBehind DEF Apart
  <2> QED  BY <1>0, <1>1, <1>2, <2>1, AppendOnce
<1>6. Behind' = {hand[snd]}
  <2>1. \A q \in Procs : pc'[q] # "fpsnd"
    <3>1. \A q \in Procs : pc[q] # "fpsnd"
      BY <1>2, InBehind
    <3> QED  BY <3>1, <1>4
  <2> QED  BY <1>5, <2>1, InBehindPrime
<1>7. Rng(dtq) \subseteq TransitSlots /\ (pc[rcv] = "copyout" => hand[rcv] \in TransitSlots)
  BY <1>0, InTransit DEF Moving
<1>8. \A s \in Behind' : \A t \in Rng(dtq') : pool'[t] < pool'[s]
  BY <1>1, <1>3, <1>6, <1>7
<1>9. pc'[rcv] = "copyout" => \A s \in Rng(dtq') \cup Behind' : pool'[hand'[rcv]] < pool'[s]
  <2> SUFFICES ASSUME pc'[rcv] = "copyout", NEW s \in Rng(dtq) \cup {hand[snd]}
               PROVE  pool[hand[rcv]] < pool[s]
    BY <1>0, <1>1, <1>2, <1>4, <1>6
  <2>1. pc[rcv] = "copyout"
    BY <1>0, <1>2, <1>4
  <2>2. CASE s \in Rng(dtq)
    BY <2>1, <2>2, <1>0 DEF OrderOK
  <2>3. CASE s = hand[snd]
    BY <2>1, <2>3, <1>3, <1>7
  <2> QED  BY <2>2, <2>3
<1>10. /\ msg'[snd] = NoMsg /\ pc'[snd] \notin InLine /\ (pc'[rcv] = "wdtq" => dtq' = <<>>)
       /\ \A s, t \in Behind' : s = t
  BY <1>0, <1>1, <1>2, <1>4, <1>6 DEF InLine, OrderOK
<1>11. \A i, j \in DOMAIN dtq' : i < j => pool'[dtq'[i]] < pool'[dtq'[j]]
  BY <1>0, <1>1 DEF OrderOK
<1> QED  BY <1>8, <1>9, <1>10, <1>11 DEF OrderOK

LEMMA OrderStep ==
  ASSUME NEW snd \in Tasks, NEW rcv \in Tasks, OneSender(snd, rcv), TypeInv, ItemInv,
         OrderInv(snd, rcv), NEW p \in Procs, Work(p) \/ Call(p) \/ Leave(p)
  PROVE  OrderInv(snd, rcv)'
<1>1. PlacesOK(snd, rcv)'
  BY PlacesStep DEF OrderInv
<1>2. ~PolToken(p) /\ ~IsrAlloc(p) /\ ~IsrPost(p)
  BY DEF OrderInv, PlacesOK, PolToken, IsrAlloc, IsrPost, At
<1>3. OrderOK(snd, rcv)'
  BY <1>2, OrderCalls, OrderInLine, OrderTakes, OrderPosts, OrderPends DEF Work
<1> QED  BY <1>1, <1>3 DEF OrderInv

\* The item that is received is older than all that are accepted and not yet received.
LEMMA OldestFirst ==
  ASSUME NEW snd \in Tasks, NEW rcv \in Tasks, OneSender(snd, rcv), TypeInv, ItemInv,
         OrderInv(snd, rcv), NEW p \in Procs, Work(p) \/ Call(p) \/ Leave(p),
         NEW m \in Msgs, NEW k \in Msgs, k < m, fate[m] = "sent", fate'[m] = "delivered"
  PROVE  fate[k] # "sent"
<1>0. fate \in [Msgs -> Fates] /\ sent \in Nat /\ msg \in [Procs -> Msgs \cup {NoMsg}]
  BY ItemTypes
<1>1. CopyOut(p)
  <2>1. ASSUME NEW n, NEW f \in Fates \ {"delivered"}, SetFate(n, f) PROVE FALSE
    BY <1>0, <2>1 DEF SetFate
  <2>2. ~FlushFail(p) /\ ~ResetTake(p)
    BY <2>1 DEF FlushFail, ResetTake, Fates
  <2>3. ~SendTimeout(p) /\ ~SendNoToken(p) /\ ~PendPush(p) /\ ~GiveBack(p) /\ ~CopyAndPost(p)
    <3>1. ~Refuse(p) /\ ~Accept(p) /\ fate' # fate
      BY <2>1 DEF Refuse, Accept, Fates
    <3> QED  BY <3>1 DEF SendTimeout, SendNoToken, AllocDebt, PendPush, GiveBack, CopyAndPost
  <2>4. ~PolToken(p) /\ ~IsrAlloc(p) /\ ~IsrPost(p)
    BY DEF OrderInv, PlacesOK, PolToken, IsrAlloc, IsrPost, At
  <2>5. ~Call(p) /\ ~Leave(p)
    <3>1. ~NewItem(p) /\ fate' # fate
      BY <2>1 DEF NewItem, Fates
    <3> QED  BY <3>1 DEF Call, Leave, SendCall, IsrSendCall, RecvCall, ResetCall, EnterCritical,
                         IntDisable, ExitCritical, IntRestore, hvars
  <2>6. fate' # fate
    OBVIOUS
  <2>7. /\ ~FlushPop(p) /\ ~FlushPost(p) /\ ~FlushDone(p) /\ ~FreeSlot(p) /\ ~ReturnToken(p)
        /\ ~TakeToken(p) /\ ~AllocSlot(p) /\ ~RecvTake(p) /\ ~RecvFail(p) /\ ~ResetDone(p)
    BY <2>6 DEF FlushPop, FlushPost, FlushDone, FreeSlot, ReturnToken, TakeToken, AllocSlot, RecvTake,
                RecvFail, ResetDone, hvars
  <2> QED  BY <2>2, <2>3, <2>4, <2>5, <2>7 DEF Work
<1>2. p = rcv /\ pc[rcv] = "copyout" /\ fate' = [fate EXCEPT ![pool[hand[rcv]]] = "delivered"]
  BY <1>1 DEF CopyOut, At, SetFate, OrderInv, PlacesOK, Receiving
<1>3. m = pool[hand[rcv]]
  BY <1>0, <1>2
<1>4. ASSUME fate[k] = "sent" PROVE FALSE
  <2>1. PICK s \in TransitSlots : pool[s] = k
    BY <1>4 DEF ItemInv, ItemsOK
  <2>2. s \in Rng(dtq) \cup Behind \/ s = hand[rcv]
    <3>1. CASE s \in Rng(dtq) \/ s \in Rng(pend)
      BY <3>1, InBehind
    <3>2. ASSUME NEW q \in Procs, pc[q] \in Moving, hand[q] = s
          PROVE  s \in Rng(dtq) \cup Behind \/ s = hand[rcv]
      <4>1. pc[q] = "fpsnd" \/ (pc[q] = "copyout" /\ q = rcv)
        BY <3>2 DEF Moving, OrderInv, PlacesOK, Receiving
      <4> QED  BY <4>1, <3>2, InBehind
    <3> QED  BY <3>1, <3>2, InTransit
  <2>3. CASE s = hand[rcv]
    BY <2>1, <2>3, <1>3 DEF Msgs
  <2>4. CASE s \in Rng(dtq) \cup Behind
    <3>1. m < k
      BY <2>1, <2>4, <1>2, <1>3 DEF OrderInv, OrderOK
    <3> QED  BY <3>1, BoundsAssumption DEF Msgs
  <2> QED  BY <2>2, <2>3, <2>4
<1> QED  BY <1>4

\* One task sends with esp_shim_queue_send, another receives, and whoever else uses
\* critical sections or resets the queue is more urgent than the sender: then items are
\* received in the order of their sends, those that were pended too, because a send
\* flushes the ring before it posts (esp_shim_core.c:870).
THEOREM OrderIsKept ==
  ASSUME NEW snd \in Tasks, NEW rcv \in Tasks, OneSender(snd, rcv)
  PROVE  Spec => SendOrderKept
<1>1. Init => OrderInv(snd, rcv)
  <2> SUFFICES ASSUME Init PROVE OrderInv(snd, rcv)
    OBVIOUS
  <2>1. /\ \A p \in Procs : pc[p] = "idle" /\ fret[p] = "idle" /\ msg[p] = NoMsg
        /\ snd \in Procs /\ rcv \in Procs
    BY DEF Init, Procs
  <2>2. dtq = <<>> /\ Rng(dtq) = {} /\ Rng(pend) = {} /\ DOMAIN dtq = {}
    BY DEF Init, Rng
  <2>3. Behind = {}
    BY <2>1, <2>2, InBehind
  <2> QED  BY <2>1, <2>2, <2>3 DEF OrderInv, PlacesOK, OrderOK, InLine, Receiving
<1>2. IInv /\ ItemInv /\ OrderInv(snd, rcv) /\ [Next]_vars => OrderInv(snd, rcv)'
  <2> SUFFICES ASSUME IInv, ItemInv, OrderInv(snd, rcv), [Next]_vars PROVE OrderInv(snd, rcv)'
    OBVIOUS
  <2>1. CASE UNCHANGED vars
    <3>1. Behind' = Behind /\ Rng(dtq') = Rng(dtq)
      BY <2>1 DEF Behind, Rng, vars, qvars, pvars
    <3> QED  BY <2>1, <3>1 DEF vars, qvars, pvars, hvars, OrderInv, PlacesOK, OrderOK
  <2>2. CASE Next
    BY <2>2, OrderStep DEF Next, IInv
  <2> QED  BY <2>1, <2>2
<1>3. IInv /\ ItemInv /\ OrderInv(snd, rcv) /\ [Next]_vars
        => [\A m, k \in Msgs : /\ k < m /\ fate[m] = "sent" /\ fate'[m] = "delivered"
                               => fate[k] # "sent"]_vars
  <2> SUFFICES ASSUME IInv, ItemInv, OrderInv(snd, rcv), Next,
                      NEW m \in Msgs, NEW k \in Msgs, k < m, fate[m] = "sent",
                      fate'[m] = "delivered"
               PROVE  fate[k] # "sent"
    OBVIOUS
  <2> QED  BY OldestFirst DEF Next, IInv
<1> QED  BY <1>1, <1>2, <1>3, ItemsInductive, PTL DEF Spec, SendOrderKept
=============================================================================
