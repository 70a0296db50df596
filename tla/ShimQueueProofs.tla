--------------------------- MODULE ShimQueueProofs ---------------------------
(***************************************************************************)
(* What holds of a shim queue for every number of slots, tasks, handlers,  *)
(* priorities and calls.                                                   *)
(***************************************************************************)
EXTENDS ShimQueue, FiniteSetTheorems, SequenceTheorems, TLAPS

-----------------------------------------------------------------------------
(* Counting the contexts that are in one of the places S.                  *)

Ind(l, S) == IF l \in S THEN 1 ELSE 0

\* The number of contexts in S is a natural number.
LEMMA CountNat == ASSUME NEW S PROVE CountIn(S) \in Nat
BY ProcsAssumption, FS_Subset, FS_CardinalityType DEF CountIn

LEMMA CountNatPrime == ASSUME NEW S PROVE CountIn(S)' \in Nat
<1>1. {p \in Procs : pc'[p] \in S} \subseteq Procs
  OBVIOUS
<1>2. QED  BY <1>1, ProcsAssumption, FS_Subset, FS_CardinalityType DEF CountIn

\* A context that is in S is counted.
LEMMA CountPositive ==
  ASSUME NEW S, NEW p \in Procs, pc[p] \in S
  PROVE  CountIn(S) >= 1
<1> DEFINE C == {q \in Procs : pc[q] \in S}
<1>1. IsFiniteSet(C) /\ p \in C
  BY ProcsAssumption, FS_Subset
<1>2. Cardinality(C) \in Nat /\ Cardinality(C) # 0
  BY <1>1, FS_CardinalityType, FS_EmptySet
<1>3. QED  BY <1>2 DEF CountIn

\* Moving one context from one place to another changes the count by the two
\* places' membership.
LEMMA CountMove ==
  ASSUME NEW S, NEW f \in [Procs -> Labels], NEW p \in Procs, NEW l \in Labels
  PROVE  Cardinality({q \in Procs : [f EXCEPT ![p] = l][q] \in S})
           = Cardinality({q \in Procs : f[q] \in S}) + Ind(l, S) - Ind(f[p], S)
<1> DEFINE C == {q \in Procs : f[q] \in S}
           D == {q \in Procs : [f EXCEPT ![p] = l][q] \in S}
<1>1. IsFiniteSet(C) /\ IsFiniteSet(D)
  BY ProcsAssumption, FS_Subset
<1>2. Cardinality(C) \in Nat /\ Cardinality(D) \in Nat
  BY <1>1, FS_CardinalityType
<1>3. CASE l \in S /\ f[p] \in S
  <2>1. C = D  BY <1>3
  <2>2. QED  BY <2>1, <1>2, <1>3 DEF Ind
<1>4. CASE l \notin S /\ f[p] \notin S
  <2>1. C = D  BY <1>4
  <2>2. QED  BY <2>1, <1>2, <1>4 DEF Ind
<1>5. CASE l \in S /\ f[p] \notin S
  <2>1. D = C \cup {p} /\ p \notin C  BY <1>5
  <2>2. Cardinality(D) = Cardinality(C) + 1
    BY <2>1, <1>1, FS_AddElement
  <2>3. QED  BY <2>2, <1>2, <1>5 DEF Ind
<1>6. CASE l \notin S /\ f[p] \in S
  <2>1. D = C \ {p} /\ p \in C  BY <1>6
  <2>2. Cardinality(D) = Cardinality(C) - 1
    BY <2>1, <1>1, FS_RemoveElement
  <2>3. QED  BY <2>2, <1>2, <1>6 DEF Ind
<1>7. QED  BY <1>3, <1>4, <1>5, <1>6

LEMMA CountGo ==
  ASSUME pc \in [Procs -> Labels], NEW S, NEW p \in Procs, NEW l \in Labels, Go(p, l)
  PROVE  CountIn(S)' = CountIn(S) + Ind(l, S) - Ind(pc[p], S)
BY CountMove DEF CountIn, Go

\* The same for a step that also moves the context it hands something to.
LEMMA CountGoTwo ==
  ASSUME pc \in [Procs -> Labels], NEW S,
         NEW p \in Procs, NEW l \in Labels, NEW w \in Procs, NEW k \in Labels, w # p,
         pc' = [pc EXCEPT ![w] = k, ![p] = l]
  PROVE  CountIn(S)' = CountIn(S) + Ind(k, S) - Ind(pc[w], S) + Ind(l, S) - Ind(pc[p], S)
<1> DEFINE g == [pc EXCEPT ![w] = k]
<1>1. g \in [Procs -> Labels] /\ g[p] = pc[p] /\ pc' = [g EXCEPT ![p] = l]
  OBVIOUS
<1>2. Cardinality({q \in Procs : g[q] \in S}) = CountIn(S) + Ind(k, S) - Ind(pc[w], S)
  BY CountMove DEF CountIn
<1>3. CountIn(S)' = Cardinality({q \in Procs : g[q] \in S}) + Ind(l, S) - Ind(g[p], S)
  <2> HIDE DEF g
  <2> QED  BY <1>1, CountMove DEF CountIn
<1>4. Cardinality({q \in Procs : g[q] \in S}) \in Int
  BY <1>2, CountNat DEF Ind
<1>5. QED  BY <1>1, <1>2, <1>3

-----------------------------------------------------------------------------
(* Types, and who holds a slot.                                            *)

TypeInv == TypeOK /\ HandOK

\* The top of a non-empty free stack is a slot and the rest is a shorter stack.
LEMMA FreeStack ==
  ASSUME free \in Seq(Slots), free # <<>>
  PROVE  Top \in Slots /\ Pop \in Seq(Slots) /\ Len(Pop) = Len(free) - 1
<1>1. Len(free) \in Nat \ {0} /\ \A i \in 1..Len(free) : free[i] \in Slots
  OBVIOUS
<1>2. Top \in Slots
  BY <1>1 DEF Top
<1>3. Pop \in Seq(Slots) /\ Len(Pop) = Len(free) - 1
  <2>1. \A i \in 1..(Len(free) - 1) : free[i] \in Slots
    BY <1>1
  <2>2. /\ SubSeq(free, 1, Len(free) - 1) \in Seq(Slots)
        /\ Len(SubSeq(free, 1, Len(free) - 1))
             = IF 1 <= Len(free) - 1 THEN Len(free) - 1 - 1 + 1 ELSE 0
    BY ONLY <1>1, <2>1, SubSeqProperties
  <2>3. \A n \in Nat \ {0} : (IF 1 <= n - 1 THEN n - 1 - 1 + 1 ELSE 0) = n - 1
    OBVIOUS
  <2>4. (IF 1 <= Len(free) - 1 THEN Len(free) - 1 - 1 + 1 ELSE 0) = Len(free) - 1
    BY <1>1, <2>3, Zenon
  <2>5. Pop = SubSeq(free, 1, Len(free) - 1)
    BY DEF Pop
  <2>6. Pop \in Seq(Slots)
    BY <2>2, <2>5, Zenon
  <2>7. Len(Pop) = Len(free) - 1
    <3>1. Len(Pop) = IF 1 <= Len(free) - 1 THEN Len(free) - 1 - 1 + 1 ELSE 0
      BY <2>2, <2>5, Zenon
    <3>2. QED  BY <3>1, <2>4
  <2>8. QED  BY <2>6, <2>7
<1>4. QED  BY <1>2, <1>3

\* Handing a token over moves a waiting context to "alloc".
LEMMA SigSemCases ==
  ASSUME TypeOK, NEW p \in Procs, NEW l \in Labels, SigSem(p, l), pc[p] # "wsem"
  PROVE  \/ Go(p, l)
         \/ \E w \in Procs : w # p /\ pc[w] = "wsem"
                             /\ pc' = [pc EXCEPT ![w] = "alloc", ![p] = l]
BY DEF SigSem, SemWaiters, Procs

\* Handing a slot over moves a waiting context to "copyout".
LEMMA PutDtqCases ==
  ASSUME TypeOK, NEW p \in Procs, NEW l \in Labels, PutDtq(p, l), pc[p] # "wdtq"
  PROVE  \/ /\ Go(p, l) /\ hand' = [hand EXCEPT ![p] = NoSlot]
            /\ dtq' = Append(dtq, hand[p])
         \/ \E w \in Procs : /\ w # p /\ pc[w] = "wdtq"
                             /\ pc' = [pc EXCEPT ![w] = "copyout", ![p] = l]
                             /\ hand' = [hand EXCEPT ![w] = hand[p], ![p] = NoSlot]
                             /\ dtq' = dtq
BY DEF PutDtq, DtqWaiters, Procs

LEMMA InitFree == Init => free \in Seq(Slots) /\ Len(free) = Depth
<1>1. Init => free = [i \in 1..Depth |-> i]
  BY DEF Init, Slots
<1>2. [i \in 1..Depth |-> i] \in Seq(1..Depth)
      /\ Len([i \in 1..Depth |-> i]) = Depth
  BY DepthAssumption
<1>3. QED  BY <1>1, <1>2 DEF Slots

LEMMA InitTypeInv == Init => TypeInv
<1> SUFFICES ASSUME Init PROVE TypeInv
  OBVIOUS
<1>1. TypeOK
  <2>0. saved \in BOOLEAN /\ idis \in BOOLEAN /\ owner \in Procs \cup {NoProc}
    BY Zenon DEF Init
  <2>1. /\ tok \in Nat /\ debt \in Nat /\ lost \in Nat
        /\ nest \in Nat /\ sent \in 0..MaxSend
    BY DepthAssumption, BoundsAssumption DEF Init
  <2>2. free \in Seq(Slots) /\ dtq \in Seq(Slots) /\ pend \in Seq(Slots)
    <3>1. dtq = <<>> /\ pend = <<>>
      BY DEF Init
    <3>2. <<>> \in Seq(Slots)
      OBVIOUS
    <3>3. QED  BY <3>1, <3>2, InitFree, Zenon
  <2>3. /\ pool \in [Slots -> Msgs \cup {NoMsg}]
        /\ hand \in [Procs -> Slots \cup {NoSlot}]
        /\ msg \in [Procs -> Msgs \cup {NoMsg}]
        /\ fate \in [Msgs -> Fates]
    BY DEF Init, Fates
  <2>4. /\ pc \in [Procs -> Labels]
        /\ wait \in [Procs -> TmoKinds]
        /\ fret \in [Procs -> {"idle", "twai", "trcv", "prcv"}]
        /\ nret \in [Procs -> {"idle", "fpop", "prcv"}]
    BY DEF Init, Labels, TmoKinds
  <2>5. QED  BY <2>0, <2>1, <2>2, <2>3, <2>4, Zenon DEF TypeOK
<1>2. HandOK
  BY DEF Init, HandOK, HoldsSlot
<1>3. QED  BY <1>1, <1>2 DEF TypeInv

\* The per-context part of the state is typed when a token is handed over.
LEMMA SigSemHand ==
  ASSUME TypeInv, NEW p \in Procs, NEW l \in Labels \ HoldsSlot, SigSem(p, l),
         pc[p] \in {"sig", "giveback"}, hand' = hand
  PROVE  /\ pc' \in [Procs -> Labels] /\ tok' \in Nat /\ lost' \in Nat
         /\ HandOK'
<1>1. tok' \in Nat /\ lost' \in Nat
  BY DEF SigSem, TypeInv, TypeOK
<1>2. CASE Go(p, l)
  BY <1>1, <1>2 DEF Go, TypeInv, TypeOK, HandOK, HoldsSlot, Labels
<1>3. CASE \E w \in Procs : w # p /\ pc[w] = "wsem"
                            /\ pc' = [pc EXCEPT ![w] = "alloc", ![p] = l]
  BY <1>1, <1>3 DEF TypeInv, TypeOK, HandOK, HoldsSlot, Labels
<1>4. QED  BY <1>2, <1>3, SigSemCases DEF TypeInv

LEMMA PutDtqHand ==
  ASSUME TypeInv, NEW p \in Procs, NEW l \in Labels \ HoldsSlot, PutDtq(p, l),
         pc[p] \in {"fpsnd", "tsnd", "ipsnd"}
  PROVE  /\ pc' \in [Procs -> Labels] /\ dtq' \in Seq(Slots)
         /\ hand' \in [Procs -> Slots \cup {NoSlot}]
         /\ HandOK'
<1>0. hand[p] \in Slots /\ hand[p] # NoSlot
  BY DEF TypeInv, TypeOK, HandOK, HoldsSlot
<1>2. CASE /\ Go(p, l) /\ hand' = [hand EXCEPT ![p] = NoSlot]
           /\ dtq' = Append(dtq, hand[p])
  <2>1. dtq' \in Seq(Slots)
    BY <1>0, <1>2 DEF TypeInv, TypeOK
  <2>2. QED  BY <1>2, <2>1 DEF Go, TypeInv, TypeOK, HandOK, HoldsSlot, Labels, NoSlot
<1>3. CASE \E w \in Procs : /\ w # p /\ pc[w] = "wdtq"
                            /\ pc' = [pc EXCEPT ![w] = "copyout", ![p] = l]
                            /\ hand' = [hand EXCEPT ![w] = hand[p], ![p] = NoSlot]
                            /\ dtq' = dtq
  BY <1>0, <1>3 DEF TypeInv, TypeOK, HandOK, HoldsSlot, Labels, NoSlot
<1>4. QED  BY <1>2, <1>3, PutDtqCases DEF TypeInv

\* The context that steps holds a slot after the step exactly if it goes to a
\* place where it should.
HandDone(p) == /\ pc' \in [Procs -> Labels]
               /\ hand' \in [Procs -> Slots \cup {NoSlot}]
               /\ HandOK'

LEMMA HandKept ==
  ASSUME TypeInv, NEW p \in Procs, NEW l \in Labels, Go(p, l), hand' = hand,
         l \in HoldsSlot <=> pc[p] \in HoldsSlot
  PROVE  HandDone(p)
BY DEF TypeInv, TypeOK, HandOK, HandDone, Go

LEMMA HandSet ==
  ASSUME TypeInv, NEW p \in Procs, NEW l \in Labels, Go(p, l),
         NEW s \in Slots \cup {NoSlot}, hand' = [hand EXCEPT ![p] = s],
         l \in HoldsSlot <=> s # NoSlot
  PROVE  HandDone(p)
BY DEF TypeInv, TypeOK, HandOK, HandDone, Go

LEMMA NothingMoved ==
  ASSUME TypeInv, NEW p \in Procs, pc' = pc, hand' = hand
  PROVE  HandDone(p)
BY DEF TypeInv, TypeOK, HandOK, HandDone

LEMMA SlotIsNotNoSlot == NoSlot \notin Slots
BY DEF NoSlot, Slots

LEMMA HeadTail ==
  ASSUME NEW s \in Seq(Slots), s # <<>>
  PROVE  Head(s) \in Slots /\ Tail(s) \in Seq(Slots) /\ Len(s) > 0
         /\ Len(Tail(s)) = Len(s) - 1
OBVIOUS

LEMMA AppendSlot ==
  ASSUME NEW s \in Seq(Slots), NEW x \in Slots
  PROVE  Append(s, x) \in Seq(Slots) /\ Len(Append(s, x)) = Len(s) + 1
OBVIOUS

\* A context at one of the places where it should hold a slot does hold one.
LEMMA InHand ==
  ASSUME TypeInv, NEW p \in Procs, pc[p] \in HoldsSlot
  PROVE  hand[p] \in Slots
BY DEF TypeInv, TypeOK, HandOK

-----------------------------------------------------------------------------
(* Every step preserves the types, and holding a slot.  One lemma per      *)
(* group of actions.                                                       *)

LEMMA FlushTyped ==
  ASSUME TypeInv, NEW p \in Procs,
         FlushPop(p) \/ FlushFail(p) \/ FlushDone(p) \/ FreeSlot(p)
  PROVE  TypeInv'
<1>1. CASE FlushPop(p)
  <2>1. HandDone(p)
    BY <1>1, HandSet, HeadTail, SlotIsNotNoSlot DEF FlushPop, At, HoldsSlot, Labels, qvars, pvars, critvars, hvars, TypeInv, TypeOK
  <2>2. TypeOK'
    BY <1>1, <2>1, HeadTail DEF HandDone, TypeInv, TypeOK, FlushPop, At, qvars, pvars, critvars, hvars
  <2>3. QED  BY <2>1, <2>2 DEF TypeInv, HandDone
<1>2. CASE FlushFail(p)
  <2>1. HandDone(p)
    BY <1>2, HandKept DEF FlushFail, At, HoldsSlot, Labels, qvars, pvars, critvars, hvars, FreeThen
  <2>2. TypeOK'
    BY <1>2, <2>1 DEF HandDone, TypeInv, TypeOK, FlushFail, At, qvars, pvars, critvars, hvars, FreeThen, SetFate, Fates
  <2>3. QED  BY <2>1, <2>2 DEF TypeInv, HandDone
<1>3. CASE FlushDone(p)
  <2>1. HandDone(p)
    BY <1>3, HandKept DEF FlushDone, At, HoldsSlot, Labels, qvars, pvars, critvars, hvars, TypeInv, TypeOK
  <2>2. TypeOK'
    BY <1>3, <2>1 DEF HandDone, TypeInv, TypeOK, FlushDone, At, qvars, pvars, critvars, hvars
  <2>3. QED  BY <2>1, <2>2 DEF TypeInv, HandDone
<1>4. CASE FreeSlot(p)
  <2>1. HandDone(p)
    <3>1. hand' = [hand EXCEPT ![p] = NoSlot] /\ (Go(p, nret[p]) \/ Go(p, "sig"))
      BY <1>4 DEF FreeSlot
    <3>2. nret[p] \in Labels \ HoldsSlot /\ "sig" \in Labels \ HoldsSlot
      BY DEF TypeInv, TypeOK, Labels, HoldsSlot
    <3>3. QED  BY <3>1, <3>2, HandSet
  <2>2. TypeOK'
    BY <1>4, <2>1, AppendSlot, InHand DEF HandDone, TypeInv, TypeOK, FreeSlot, At, qvars, pvars, critvars, hvars, HoldsSlot
  <2>3. QED  BY <2>1, <2>2 DEF TypeInv, HandDone
<1>5. QED  BY <1>1, <1>2, <1>3, <1>4

LEMMA SendTyped ==
  ASSUME TypeInv, NEW p \in Procs,
         SendCall(p) \/ IsrSendCall(p) \/ TakeToken(p) \/ PolToken(p) \/ SendTimeout(p) \/ PendPush(p)
  PROVE  TypeInv'
<1>1. CASE SendCall(p)
  <2>1. HandDone(p)
    BY <1>1, HandKept DEF SendCall, At, HoldsSlot, Labels, qvars, pvars, critvars, hvars
  <2>2. TypeOK'
    <3>1. /\ sent' \in 0..MaxSend /\ fate' \in [Msgs -> Fates]
          /\ msg' \in [Procs -> Msgs \cup {NoMsg}]
      BY <1>1, BoundsAssumption DEF SendCall, NewItem, SetFate, Fates, Msgs, TypeInv, TypeOK
    <3>2. wait' \in [Procs -> TmoKinds] /\ fret' \in [Procs -> {"idle", "twai", "trcv", "prcv"}]
      BY <1>1, CallsAssumption DEF SendCall, TmoKinds, TypeInv, TypeOK
    <3>3. QED
      BY <1>1, <2>1, <3>1, <3>2 DEF HandDone, TypeInv, TypeOK, SendCall, qvars, critvars
  <2>3. QED  BY <2>1, <2>2 DEF TypeInv, HandDone
<1>2. CASE IsrSendCall(p)
  <2>1. HandDone(p)
    BY <1>2, HandKept DEF IsrSendCall, At, HoldsSlot, Labels, qvars, pvars, critvars, hvars
  <2>2. TypeOK'
    <3>1. /\ sent' \in 0..MaxSend /\ fate' \in [Msgs -> Fates]
          /\ msg' \in [Procs -> Msgs \cup {NoMsg}]
      BY <1>2, BoundsAssumption DEF IsrSendCall, NewItem, SetFate, Fates, Msgs, TypeInv, TypeOK
    <3>2. wait' \in [Procs -> TmoKinds] /\ fret' \in [Procs -> {"idle", "twai", "trcv", "prcv"}]
      BY <1>2, CallsAssumption DEF IsrSendCall, TmoKinds, TypeInv, TypeOK
    <3>3. QED
      BY <1>2, <2>1, <3>1, <3>2 DEF HandDone, TypeInv, TypeOK, IsrSendCall, qvars, critvars
  <2>3. QED  BY <2>1, <2>2 DEF TypeInv, HandDone
<1>3. CASE TakeToken(p)
  <2>1. HandDone(p)
    BY <1>3, HandKept DEF TakeToken, At, HoldsSlot, Labels, qvars, pvars, critvars, hvars
  <2>2. TypeOK'
    BY <1>3, <2>1 DEF HandDone, TypeInv, TypeOK, TakeToken, At, qvars, pvars, critvars, hvars
  <2>3. QED  BY <2>1, <2>2 DEF TypeInv, HandDone
<1>4. CASE PolToken(p)
  <2>1. HandDone(p)
    BY <1>4, HandKept DEF PolToken, At, HoldsSlot, Labels, qvars, pvars, critvars, hvars
  <2>2. TypeOK'
    BY <1>4, <2>1 DEF HandDone, TypeInv, TypeOK, PolToken, At, qvars, pvars, critvars, hvars, Refuse, SetFate, Fates
  <2>3. QED  BY <2>1, <2>2 DEF TypeInv, HandDone
<1>5. CASE SendTimeout(p)
  <2>1. HandDone(p)
    BY <1>5, HandKept DEF SendTimeout, At, HoldsSlot, Labels, qvars, pvars, critvars, hvars
  <2>2. TypeOK'
    BY <1>5, <2>1 DEF HandDone, TypeInv, TypeOK, SendTimeout, At, qvars, pvars, critvars, hvars, Refuse, SetFate, Fates
  <2>3. QED  BY <2>1, <2>2 DEF TypeInv, HandDone
<1>6. CASE PendPush(p)
  <2>1. HandDone(p)
    BY <1>6, HandSet, SlotIsNotNoSlot DEF PendPush, At, HoldsSlot, Labels, qvars, pvars, critvars, hvars
  <2>2. TypeOK'
    BY <1>6, <2>1, AppendSlot, InHand DEF HandDone, TypeInv, TypeOK, PendPush, At, qvars, pvars, critvars, hvars, Accept, SetFate, Fates, HoldsSlot
  <2>3. QED  BY <2>1, <2>2 DEF TypeInv, HandDone
<1>7. QED  BY <1>1, <1>2, <1>3, <1>4, <1>5, <1>6

LEMMA RecvTyped ==
  ASSUME TypeInv, NEW p \in Procs,
         RecvCall(p) \/ RecvTake(p) \/ RecvFail(p) \/ CopyOut(p) \/ ResetCall(p) \/ ResetTake(p) \/ ResetDone(p)
  PROVE  TypeInv'
<1>1. CASE RecvCall(p)
  <2>1. HandDone(p)
    BY <1>1, HandKept DEF RecvCall, At, HoldsSlot, Labels, qvars, pvars, critvars, hvars
  <2>2. TypeOK'
    BY <1>1, <2>1, CallsAssumption DEF HandDone, TypeInv, TypeOK, RecvCall, At, qvars, pvars, critvars, hvars, TmoKinds
  <2>3. QED  BY <2>1, <2>2 DEF TypeInv, HandDone
<1>2. CASE RecvTake(p)
  <2>1. HandDone(p)
    <3>1. CASE dtq # <<>>
      <4>1. Head(dtq) \in Slots
        BY <3>1, HeadTail DEF TypeInv, TypeOK
      <4>2. Go(p, "copyout") /\ hand' = [hand EXCEPT ![p] = Head(dtq)]
        BY <1>2, <3>1 DEF RecvTake
      <4>3. QED  BY <4>1, <4>2, HandSet, SlotIsNotNoSlot DEF HoldsSlot, Labels
    <3>2. CASE dtq = <<>>
      BY <1>2, <3>2, HandKept DEF RecvTake, At, HoldsSlot, Labels
    <3>3. QED  BY <3>1, <3>2
  <2>2. TypeOK'
    BY <1>2, <2>1, HeadTail DEF HandDone, TypeInv, TypeOK, RecvTake, At, qvars, pvars, critvars, hvars
  <2>3. QED  BY <2>1, <2>2 DEF TypeInv, HandDone
<1>3. CASE RecvFail(p)
  <2>1. HandDone(p)
    BY <1>3, HandKept DEF RecvFail, At, HoldsSlot, Labels, qvars, pvars, critvars, hvars
  <2>2. TypeOK'
    BY <1>3, <2>1 DEF HandDone, TypeInv, TypeOK, RecvFail, At, qvars, pvars, critvars, hvars
  <2>3. QED  BY <2>1, <2>2 DEF TypeInv, HandDone
<1>4. CASE CopyOut(p)
  <2>1. HandDone(p)
    BY <1>4, HandKept DEF CopyOut, At, HoldsSlot, Labels, qvars, pvars, critvars, hvars, FreeThen
  <2>2. TypeOK'
    BY <1>4, <2>1 DEF HandDone, TypeInv, TypeOK, CopyOut, At, qvars, pvars, critvars, hvars, FreeThen, SetFate, Fates
  <2>3. QED  BY <2>1, <2>2 DEF TypeInv, HandDone
<1>5. CASE ResetCall(p)
  <2>1. HandDone(p)
    BY <1>5, HandKept DEF ResetCall, At, HoldsSlot, Labels, qvars, pvars, critvars, hvars
  <2>2. TypeOK'
    BY <1>5, <2>1 DEF HandDone, TypeInv, TypeOK, ResetCall, At, qvars, pvars, critvars, hvars
  <2>3. QED  BY <2>1, <2>2 DEF TypeInv, HandDone
<1>6. CASE ResetTake(p)
  <2>1. HandDone(p)
    <3>1. Head(dtq) \in Slots
      BY <1>6, HeadTail DEF ResetTake, TypeInv, TypeOK
    <3>2. Go(p, "notify") /\ hand' = [hand EXCEPT ![p] = Head(dtq)]
      BY <1>6 DEF ResetTake, FreeThen
    <3>3. QED  BY <3>1, <3>2, HandSet, SlotIsNotNoSlot DEF HoldsSlot, Labels
  <2>2. TypeOK'
    BY <1>6, <2>1, HeadTail DEF HandDone, TypeInv, TypeOK, ResetTake, At, qvars, pvars, critvars, hvars, FreeThen, SetFate, Fates
  <2>3. QED  BY <2>1, <2>2 DEF TypeInv, HandDone
<1>7. CASE ResetDone(p)
  <2>1. HandDone(p)
    BY <1>7, HandKept DEF ResetDone, At, HoldsSlot, Labels, qvars, pvars, critvars, hvars
  <2>2. TypeOK'
    BY <1>7, <2>1 DEF HandDone, TypeInv, TypeOK, ResetDone, At, qvars, pvars, critvars, hvars
  <2>3. QED  BY <2>1, <2>2 DEF TypeInv, HandDone
<1>8. QED  BY <1>1, <1>2, <1>3, <1>4, <1>5, <1>6, <1>7

LEMMA CritTyped ==
  ASSUME TypeInv, NEW p \in Procs,
         EnterCritical(p) \/ ExitCritical(p) \/ IntDisable(p) \/ IntRestore(p)
  PROVE  TypeInv'
<1>1. CASE EnterCritical(p)
  <2>1. HandDone(p)
    BY <1>1, NothingMoved DEF EnterCritical, pvars
  <2>2. TypeOK'
    <3>1. nest' \in Nat /\ owner' \in Procs \cup {NoProc}
      BY <1>1 DEF EnterCritical, TypeInv, TypeOK
    <3>2. saved' \in BOOLEAN
      BY <1>1, Zenon DEF EnterCritical, TypeInv, TypeOK, Masked
    <3>3. QED
      BY <1>1, <2>1, <3>1, <3>2
         DEF HandDone, TypeInv, TypeOK, EnterCritical, qvars, pvars, hvars
  <2>3. QED  BY <2>1, <2>2 DEF TypeInv, HandDone
<1>2. CASE ExitCritical(p)
  <2>1. HandDone(p)
    BY <1>2, HandKept, NothingMoved DEF ExitCritical, At, HoldsSlot, Labels, pvars
  <2>2. TypeOK'
    BY <1>2, <2>1 DEF HandDone, TypeInv, TypeOK, ExitCritical, At, qvars, pvars, critvars, hvars
  <2>3. QED  BY <2>1, <2>2 DEF TypeInv, HandDone
<1>3. CASE IntDisable(p)
  <2>1. HandDone(p)
    BY <1>3, NothingMoved DEF IntDisable, pvars
  <2>2. TypeOK'
    BY <1>3, <2>1 DEF HandDone, TypeInv, TypeOK, IntDisable, At, qvars, pvars, critvars, hvars
  <2>3. QED  BY <2>1, <2>2 DEF TypeInv, HandDone
<1>4. CASE IntRestore(p)
  <2>1. HandDone(p)
    BY <1>4, NothingMoved DEF IntRestore, pvars
  <2>2. TypeOK'
    BY <1>4, <2>1 DEF HandDone, TypeInv, TypeOK, IntRestore, At, qvars, pvars, critvars, hvars
  <2>3. QED  BY <2>1, <2>2 DEF TypeInv, HandDone
<1>5. QED  BY <1>1, <1>2, <1>3, <1>4

\* A slot taken off the free stack is in the hand of the context that took it.
LEMMA PopHand ==
  ASSUME TypeInv, NEW p \in Procs, NEW l \in Labels, l \in HoldsSlot,
         free # <<>>, hand' = [hand EXCEPT ![p] = Top], Go(p, l)
  PROVE  HandDone(p) /\ Top \in Slots /\ Pop \in Seq(Slots)
<1>1. Top \in Slots /\ Pop \in Seq(Slots)
  BY FreeStack DEF TypeInv, TypeOK
<1>2. QED  BY <1>1, HandSet, SlotIsNotNoSlot

LEMMA AllocDebtTyped ==
  ASSUME TypeInv, NEW p \in Procs, NEW l \in Labels, l \in HoldsSlot,
         AllocDebt(p, l), pc[p] \notin HoldsSlot
  PROVE  /\ HandDone(p)
         /\ free' \in Seq(Slots) /\ debt' \in Nat
         /\ pool' \in [Slots -> Msgs \cup {NoMsg}]
         /\ msg' \in [Procs -> Msgs \cup {NoMsg}] /\ fate' \in [Msgs -> Fates]
<1>1. CASE free = <<>>
  <2>1. HandDone(p)
    BY <1>1, HandKept DEF AllocDebt, HoldsSlot, Labels
  <2>2. QED
    BY <1>1, <2>1 DEF AllocDebt, Refuse, SetFate, Fates, TypeInv, TypeOK
<1>2. CASE free # <<>>
  <2>1. HandDone(p) /\ Top \in Slots /\ Pop \in Seq(Slots)
    BY <1>2, PopHand DEF AllocDebt
  <2>2. /\ free' = Pop /\ debt' = debt + 1
        /\ pool' = [pool EXCEPT ![Top] = msg[p]]
        /\ msg' = msg /\ fate' = fate
    BY <1>2 DEF AllocDebt
  <2>3. QED  BY <2>1, <2>2 DEF TypeInv, TypeOK
<1>3. QED  BY <1>1, <1>2

LEMMA AllocTyped ==
  ASSUME TypeInv, NEW p \in Procs,
         SendNoToken(p) \/ IsrAlloc(p) \/ AllocSlot(p)
  PROVE  TypeInv'
<1>1. CASE SendNoToken(p)
  <2>1. /\ HandDone(p)
        /\ free' \in Seq(Slots) /\ debt' \in Nat
        /\ pool' \in [Slots -> Msgs \cup {NoMsg}]
        /\ msg' \in [Procs -> Msgs \cup {NoMsg}] /\ fate' \in [Msgs -> Fates]
    BY <1>1, AllocDebtTyped DEF SendNoToken, At, HoldsSlot, Labels
  <2>2. TypeOK'
    BY <1>1, <2>1 DEF HandDone, TypeInv, TypeOK, SendNoToken, critvars
  <2>3. QED  BY <2>1, <2>2 DEF TypeInv, HandDone
<1>2. CASE IsrAlloc(p)
  <2>1. /\ HandDone(p)
        /\ free' \in Seq(Slots) /\ debt' \in Nat
        /\ pool' \in [Slots -> Msgs \cup {NoMsg}]
        /\ msg' \in [Procs -> Msgs \cup {NoMsg}] /\ fate' \in [Msgs -> Fates]
    BY <1>2, AllocDebtTyped DEF IsrAlloc, At, HoldsSlot, Labels
  <2>2. TypeOK'
    BY <1>2, <2>1 DEF HandDone, TypeInv, TypeOK, IsrAlloc, critvars
  <2>3. QED  BY <2>1, <2>2 DEF TypeInv, HandDone
<1>3. CASE AllocSlot(p)
  <2>1. HandDone(p) /\ free' \in Seq(Slots)
    <3>1. CASE free = <<>>
      BY <1>3, <3>1, HandKept DEF AllocSlot, At, HoldsSlot, Labels, TypeInv, TypeOK
    <3>2. CASE free # <<>>
      BY <1>3, <3>2, PopHand DEF AllocSlot, HoldsSlot, Labels
    <3>3. QED  BY <3>1, <3>2
  <2>2. TypeOK'
    BY <1>3, <2>1 DEF HandDone, TypeInv, TypeOK, AllocSlot, critvars, hvars
  <2>3. QED  BY <2>1, <2>2 DEF TypeInv, HandDone
<1>4. QED  BY <1>1, <1>2, <1>3

LEMMA KernelTyped ==
  ASSUME TypeInv, NEW p \in Procs,
         \/ FlushPost(p) \/ ReturnToken(p) \/ GiveBack(p)
         \/ CopyAndPost(p) \/ IsrPost(p)
  PROVE  TypeInv'
<1>1. CASE FlushPost(p)
  <2>1. /\ pc' \in [Procs -> Labels] /\ dtq' \in Seq(Slots)
        /\ hand' \in [Procs -> Slots \cup {NoSlot}] /\ HandOK'
    BY <1>1, PutDtqHand DEF FlushPost, At, Labels, HoldsSlot
  <2>2. TypeOK'
    BY <1>1, <2>1 DEF TypeInv, TypeOK, FlushPost, critvars, hvars
  <2>3. QED  BY <2>1, <2>2 DEF TypeInv
<1>2. CASE ReturnToken(p)
  <2>1. /\ nret[p] \in Labels \ HoldsSlot /\ pc[p] = "sig"
        /\ SigSem(p, nret[p]) /\ hand' = hand
    BY <1>2 DEF ReturnToken, At, Labels, HoldsSlot, TypeInv, TypeOK
  <2>2. /\ pc' \in [Procs -> Labels] /\ tok' \in Nat /\ lost' \in Nat
        /\ HandOK'
    BY <2>1, SigSemHand
  <2>3. TypeOK'
    BY <1>2, <2>2 DEF TypeInv, TypeOK, ReturnToken, critvars
  <2>4. QED  BY <2>2, <2>3 DEF TypeInv
<1>3. CASE GiveBack(p)
  <2>1. /\ "idle" \in Labels \ HoldsSlot /\ pc[p] = "giveback"
        /\ SigSem(p, "idle") /\ hand' = hand
    BY <1>3 DEF GiveBack, At, Labels, HoldsSlot
  <2>2. /\ pc' \in [Procs -> Labels] /\ tok' \in Nat /\ lost' \in Nat
        /\ HandOK'
    BY <2>1, SigSemHand
  <2>3. TypeOK'
    BY <1>3, <2>2 DEF TypeInv, TypeOK, GiveBack, Refuse, SetFate, Fates, critvars
  <2>4. QED  BY <2>2, <2>3 DEF TypeInv
<1>4. CASE CopyAndPost(p)
  <2>1. /\ pc' \in [Procs -> Labels] /\ dtq' \in Seq(Slots)
        /\ hand' \in [Procs -> Slots \cup {NoSlot}] /\ HandOK'
    BY <1>4, PutDtqHand DEF CopyAndPost, At, Labels, HoldsSlot
  <2>2. /\ pool' \in [Slots -> Msgs \cup {NoMsg}]
        /\ msg' \in [Procs -> Msgs \cup {NoMsg}] /\ fate' \in [Msgs -> Fates]
    BY <1>4 DEF TypeInv, TypeOK, CopyAndPost, Accept, SetFate, Fates
  <2>3. TypeOK'
    BY <1>4, <2>1, <2>2 DEF TypeInv, TypeOK, CopyAndPost, critvars
  <2>4. QED  BY <2>1, <2>3 DEF TypeInv
<1>5. CASE IsrPost(p)
  <2>1. /\ pc' \in [Procs -> Labels] /\ dtq' \in Seq(Slots)
        /\ hand' \in [Procs -> Slots \cup {NoSlot}] /\ HandOK'
    BY <1>5, PutDtqHand DEF IsrPost, At, Labels, HoldsSlot
  <2>2. /\ msg' \in [Procs -> Msgs \cup {NoMsg}] /\ fate' \in [Msgs -> Fates]
    BY <1>5 DEF TypeInv, TypeOK, IsrPost, Accept, SetFate, Fates
  <2>3. TypeOK'
    BY <1>5, <2>1, <2>2 DEF TypeInv, TypeOK, IsrPost, critvars
  <2>4. QED  BY <2>1, <2>3 DEF TypeInv
<1>6. QED  BY <1>1, <1>2, <1>3, <1>4, <1>5

LEMMA StutterTyped == TypeInv /\ UNCHANGED vars => TypeInv'
BY DEF TypeInv, TypeOK, HandOK, vars, qvars, pvars, critvars, hvars

\* Every step keeps the state typed.
LEMMA NextTyped == TypeInv /\ [Next]_vars => TypeInv'
<1> SUFFICES ASSUME TypeInv, [Next]_vars PROVE TypeInv'
  OBVIOUS
<1>1. CASE UNCHANGED vars
  BY <1>1, StutterTyped
<1>2. ASSUME NEW p \in Procs, Work(p) PROVE TypeInv'
  BY <1>2, FlushTyped, SendTyped, RecvTyped, AllocTyped, KernelTyped DEF Work
<1>3. ASSUME NEW p \in Procs, Call(p) PROVE TypeInv'
  BY <1>3, SendTyped, RecvTyped, CritTyped DEF Call
<1>4. ASSUME NEW p \in Procs, Leave(p) PROVE TypeInv'
  BY <1>4, CritTyped DEF Leave
<1>5. QED  BY <1>1, <1>2, <1>3, <1>4 DEF Next

\* The state of a shim queue is always well formed, and a context holds a slot
\* exactly at the places of its call where it has one.
THEOREM TypeCorrect == Spec => [](TypeOK /\ HandOK)
<1>1. TypeInv => TypeOK /\ HandOK
  BY DEF TypeInv
<1>2. QED  BY InitTypeInv, NextTyped, <1>1, PTL DEF Spec

-----------------------------------------------------------------------------
(* The accounts of tokens and slots.                                       *)

LEMMA HoldersCount == HandOK => Cardinality(Holders) = CountIn(HoldsSlot)
<1>1. HandOK => Holders = {p \in Procs : pc[p] \in HoldsSlot}
  BY DEF HandOK, Holders
<1>2. QED  BY <1>1 DEF CountIn

LEMMA HoldersCountPrime == HandOK' => Cardinality(Holders)' = CountIn(HoldsSlot)'
<1>1. HandOK' => Holders' = {p \in Procs : pc'[p] \in HoldsSlot}
  BY DEF HandOK, Holders
<1>2. QED  BY <1>1 DEF CountIn

\* The lengths and counters are numbers.
LEMMA Numbers ==
  TypeOK => /\ tok \in Nat /\ debt \in Nat /\ lost \in Nat
            /\ Len(free) \in Nat /\ Len(dtq) \in Nat /\ Len(pend) \in Nat
BY DEF TypeOK

\* The accounts in terms of the places of the contexts.
LEMMA AccountsCount ==
  ASSUME TypeInv
  PROVE  Accounts <=>
           /\ tok + CountIn(OwesToken) + lost = Len(free) + debt
           /\ Len(free) + Len(dtq) + Len(pend) + CountIn(HoldsSlot) = Depth
           /\ debt <= Depth - Len(free)
BY HoldersCount DEF TypeInv, Accounts, TokenConservation, SlotConservation, DebtCovered

LEMMA AccountsCountPrime ==
  ASSUME TypeInv'
  PROVE  Accounts' <=>
           /\ tok' + CountIn(OwesToken)' + lost' = Len(free') + debt'
           /\ Len(free') + Len(dtq') + Len(pend') + CountIn(HoldsSlot)' = Depth
           /\ debt' <= Depth - Len(free')
BY HoldersCountPrime DEF TypeInv, Accounts, TokenConservation, SlotConservation, DebtCovered

\* The change of the two sums when context p goes to l.
Balanced(p, l) ==
  /\ tok' + lost' - Len(free') - debt' + Ind(l, OwesToken)
       = tok + lost - Len(free) - debt + Ind(pc[p], OwesToken)
  /\ Len(free') + Len(dtq') + Len(pend') + Ind(l, HoldsSlot)
       = Len(free) + Len(dtq) + Len(pend) + Ind(pc[p], HoldsSlot)
  /\ debt' <= Depth - Len(free')

LEMMA Regroup ==
  ASSUME NEW a \in Int, NEW b \in Int, NEW c \in Int, NEW d \in Int, NEW e \in Int
  PROVE  a + b - c - d + e = 0 <=> a + e + b = c + d
OBVIOUS

LEMMA Carry ==
  ASSUME NEW x \in Int, NEW y \in Int, NEW c \in Int, NEW d \in Int,
         NEW i \in Int, NEW j \in Int,
         d = c + i - j, x + i = y + j
  PROVE  x + d = y + c
OBVIOUS

\* A step whose changes to the structures match the change of its context's
\* place keeps the accounts.
LEMMA BalancedStep ==
  ASSUME TypeInv, TypeInv', Accounts, NEW p \in Procs, NEW l \in Labels,
         Go(p, l), Balanced(p, l)
  PROVE  Accounts'
<1>1. /\ CountIn(OwesToken)' = CountIn(OwesToken) + Ind(l, OwesToken) - Ind(pc[p], OwesToken)
      /\ CountIn(HoldsSlot)' = CountIn(HoldsSlot) + Ind(l, HoldsSlot) - Ind(pc[p], HoldsSlot)
  BY CountGo DEF TypeInv, TypeOK
<1>2. /\ CountIn(OwesToken) \in Nat /\ CountIn(HoldsSlot) \in Nat
      /\ CountIn(OwesToken)' \in Nat /\ CountIn(HoldsSlot)' \in Nat
  BY CountNat, CountNatPrime
<1>3. /\ tok \in Nat /\ debt \in Nat /\ lost \in Nat
      /\ Len(free) \in Nat /\ Len(dtq) \in Nat /\ Len(pend) \in Nat
  BY Numbers DEF TypeInv
<1>4. /\ tok' \in Nat /\ debt' \in Nat /\ lost' \in Nat
      /\ Len(free') \in Nat /\ Len(dtq') \in Nat /\ Len(pend') \in Nat
  BY DEF TypeInv, TypeOK
<1>5. /\ Ind(l, OwesToken) \in Nat /\ Ind(pc[p], OwesToken) \in Nat
      /\ Ind(l, HoldsSlot) \in Nat /\ Ind(pc[p], HoldsSlot) \in Nat
  BY DEF Ind
<1>6. /\ tok + CountIn(OwesToken) + lost = Len(free) + debt
      /\ Len(free) + Len(dtq) + Len(pend) + CountIn(HoldsSlot) = Depth
  BY AccountsCount
<1>7. tok' + CountIn(OwesToken)' + lost' = Len(free') + debt'
  <2> DEFINE x == tok' + lost' - Len(free') - debt'
             y == tok + lost - Len(free) - debt
  <2>1. x \in Int /\ y \in Int
    BY <1>3, <1>4
  <2>2. x + Ind(l, OwesToken) = y + Ind(pc[p], OwesToken)
    BY DEF Balanced
  <2>3. x + CountIn(OwesToken)' = y + CountIn(OwesToken)
    <3> HIDE DEF x, y
    <3> QED  BY <1>1, <1>2, <1>5, <2>1, <2>2, Carry
  <2>4. y + CountIn(OwesToken) = 0
    BY <1>2, <1>3, <1>6, Regroup
  <2>5. x + CountIn(OwesToken)' = 0
    BY <2>3, <2>4
  <2>6. /\ tok' \in Int /\ lost' \in Int /\ Len(free') \in Int /\ debt' \in Int
        /\ CountIn(OwesToken)' \in Int
    BY <1>2, <1>4
  <2> DEFINE a == tok'  b == lost'  c == Len(free')  d == debt'  e == CountIn(OwesToken)'
  <2>7. /\ a \in Int /\ b \in Int /\ c \in Int /\ d \in Int /\ e \in Int
        /\ a + b - c - d + e = 0
    BY <2>5, <2>6
  <2>8. a + e + b = c + d
    <3> HIDE DEF a, b, c, d, e
    <3> QED  BY <2>7, Regroup
  <2>9. QED  BY <2>8
<1>8. Len(free') + Len(dtq') + Len(pend') + CountIn(HoldsSlot)' = Depth
  <2> DEFINE x == Len(free') + Len(dtq') + Len(pend')
             y == Len(free) + Len(dtq) + Len(pend)
  <2>1. x \in Int /\ y \in Int
    BY <1>3, <1>4
  <2>2. x + Ind(l, HoldsSlot) = y + Ind(pc[p], HoldsSlot)
    BY DEF Balanced
  <2>3. x + CountIn(HoldsSlot)' = y + CountIn(HoldsSlot)
    <3> HIDE DEF x, y
    <3> QED  BY <1>1, <1>2, <1>5, <2>1, <2>2, Carry
  <2>4. QED  BY <1>6, <2>3
<1>9. QED  BY <1>7, <1>8, AccountsCountPrime DEF Balanced

\* A step that moves one context between places that count alike and touches no
\* structure keeps the accounts.
LEMMA QuietStep ==
  ASSUME TypeInv, TypeInv', Accounts, NEW p \in Procs, NEW l \in Labels,
         Go(p, l), UNCHANGED <<tok, free, dtq, pend, debt, lost>>,
         l \in OwesToken <=> pc[p] \in OwesToken,
         l \in HoldsSlot <=> pc[p] \in HoldsSlot
  PROVE  Accounts'
<1>1. Ind(l, OwesToken) = Ind(pc[p], OwesToken) /\ Ind(l, HoldsSlot) = Ind(pc[p], HoldsSlot)
  BY DEF Ind
<1>2. Balanced(p, l)
  BY <1>1 DEF Balanced, Accounts, DebtCovered
<1>3. QED  BY <1>2, BalancedStep

LEMMA StillStep ==
  ASSUME Accounts, UNCHANGED <<tok, free, dtq, pend, debt, lost, pc, hand>>
  PROVE  Accounts'
BY DEF Accounts, TokenConservation, SlotConservation, DebtCovered, CountIn, Holders

\* While some context holds a slot, not all slots are free, in the data queue
\* or on the ring.
LEMMA HolderLeavesRoom ==
  ASSUME TypeInv, Accounts, NEW p \in Procs, pc[p] \in HoldsSlot
  PROVE  Len(free) + Len(dtq) + Len(pend) < Depth
<1>1. Len(free) + Len(dtq) + Len(pend) + CountIn(HoldsSlot) = Depth
  BY AccountsCount
<1>2. CountIn(HoldsSlot) >= 1 /\ CountIn(HoldsSlot) \in Nat
  BY CountPositive, CountNat
<1>3. QED  BY <1>1, <1>2, Numbers, DepthAssumption DEF TypeInv

-----------------------------------------------------------------------------
(* Every step keeps the accounts.                                          *)

\* The steps that only move their context.
LEMMA QuietAccounts ==
  ASSUME TypeInv, TypeInv', Accounts, NEW p \in Procs,
         \/ FlushFail(p) \/ FlushDone(p) \/ SendTimeout(p) \/ SendCall(p)
         \/ IsrSendCall(p) \/ RecvCall(p) \/ RecvFail(p) \/ CopyOut(p)
         \/ ResetCall(p) \/ ResetDone(p)
  PROVE  Accounts'
<1> DEFINE Alike(l) == /\ Go(p, l) /\ UNCHANGED <<tok, free, dtq, pend, debt, lost>>
                       /\ l \in OwesToken <=> pc[p] \in OwesToken
                       /\ l \in HoldsSlot <=> pc[p] \in HoldsSlot
<1>1. CASE FlushFail(p)
  <2>1. Alike("notify")
    BY <1>1 DEF FlushFail, FreeThen, At, qvars, OwesToken, HoldsSlot
  <2>2. QED  BY <2>1, QuietStep DEF Labels
<1>2. CASE FlushDone(p)
  <2>1. Alike(fret[p]) /\ fret[p] \in Labels
    BY <1>2 DEF FlushDone, At, qvars, hvars, OwesToken, HoldsSlot, Labels, TypeInv, TypeOK
  <2>2. QED  BY <2>1, QuietStep
<1>3. CASE SendTimeout(p)
  <2>1. Alike("idle")
    BY <1>3 DEF SendTimeout, At, qvars, OwesToken, HoldsSlot
  <2>2. QED  BY <2>1, QuietStep DEF Labels
<1>4. CASE SendCall(p)
  <2>1. Alike("fpop")
    BY <1>4 DEF SendCall, At, qvars, OwesToken, HoldsSlot
  <2>2. QED  BY <2>1, QuietStep DEF Labels
<1>5. CASE IsrSendCall(p)
  <2>1. Alike("polsem")
    BY <1>5 DEF IsrSendCall, At, qvars, OwesToken, HoldsSlot
  <2>2. QED  BY <2>1, QuietStep DEF Labels
<1>6. CASE RecvCall(p)
  <2>1. Alike("fpop")
    BY <1>6 DEF RecvCall, At, qvars, hvars, OwesToken, HoldsSlot
  <2>2. QED  BY <2>1, QuietStep DEF Labels
<1>7. CASE RecvFail(p)
  <2>1. Alike("idle")
    BY <1>7 DEF RecvFail, At, qvars, hvars, OwesToken, HoldsSlot
  <2>2. QED  BY <2>1, QuietStep DEF Labels
<1>8. CASE CopyOut(p)
  <2>1. Alike("notify")
    BY <1>8 DEF CopyOut, FreeThen, At, qvars, OwesToken, HoldsSlot
  <2>2. QED  BY <2>1, QuietStep DEF Labels
<1>9. CASE ResetCall(p)
  <2>1. Alike("fpop")
    BY <1>9 DEF ResetCall, At, qvars, hvars, OwesToken, HoldsSlot
  <2>2. QED  BY <2>1, QuietStep DEF Labels
<1>10. CASE ResetDone(p)
  <2>1. Alike("idle")
    BY <1>10 DEF ResetDone, At, qvars, hvars, OwesToken, HoldsSlot
  <2>2. QED  BY <2>1, QuietStep DEF Labels
<1>11. QED
  BY <1>1, <1>2, <1>3, <1>4, <1>5, <1>6, <1>7, <1>8, <1>9, <1>10

\* Critical sections do not touch the queue.
LEMMA CritAccounts ==
  ASSUME TypeInv, TypeInv', Accounts, NEW p \in Procs,
         EnterCritical(p) \/ ExitCritical(p) \/ IntDisable(p) \/ IntRestore(p)
  PROVE  Accounts'
<1>1. CASE EnterCritical(p)
  BY <1>1, StillStep DEF EnterCritical, qvars, pvars, hvars
<1>2. CASE IntDisable(p)
  BY <1>2, StillStep DEF IntDisable, qvars, pvars, hvars
<1>3. CASE IntRestore(p)
  BY <1>3, StillStep DEF IntRestore, qvars, pvars, hvars
<1>4. CASE ExitCritical(p)
  <2>1. UNCHANGED <<tok, free, dtq, pend, debt, lost, hand>> /\ pc[p] = "idle"
        /\ (Go(p, "fpop") \/ pc' = pc)
    BY <1>4 DEF ExitCritical, qvars, hvars, At
  <2>2. CASE pc' = pc
    BY <2>1, <2>2, StillStep
  <2>3. CASE Go(p, "fpop")
    BY <2>1, <2>3, QuietStep DEF OwesToken, HoldsSlot, Labels
  <2>4. QED  BY <2>1, <2>2, <2>3
<1>5. QED  BY <1>1, <1>2, <1>3, <1>4

\* The steps that move a slot or a token between a structure and a context.
LEMMA TakeAccounts ==
  ASSUME TypeInv, TypeInv', Accounts, NEW p \in Procs,
         \/ FlushPop(p) \/ RecvTake(p) \/ ResetTake(p) \/ PendPush(p)
         \/ TakeToken(p) \/ PolToken(p)
  PROVE  Accounts'
<1> USE Numbers DEF TypeInv
<1>0. debt <= Depth - Len(free)
  BY DEF Accounts, DebtCovered
<1>1. CASE FlushPop(p)
  <2>1. pend # <<>> /\ Len(pend') = Len(pend) - 1 /\ UNCHANGED <<tok, free, dtq, debt, lost>>
    BY <1>1, HeadTail DEF FlushPop, TypeOK, hvars
  <2>2. Go(p, "fpsnd") /\ pc[p] = "fpop"
    BY <1>1 DEF FlushPop, At
  <2>3. Balanced(p, "fpsnd")
    <3>1. /\ Ind("fpsnd", OwesToken) = 0 /\ Ind(pc[p], OwesToken) = 0
          /\ Ind("fpsnd", HoldsSlot) = 1 /\ Ind(pc[p], HoldsSlot) = 0
      BY <2>2 DEF Ind, OwesToken, HoldsSlot
    <3>2. tok' + lost' - Len(free') - debt' = tok + lost - Len(free) - debt
      BY <2>1
    <3>3. Len(free') + Len(dtq') + Len(pend') + 1 = Len(free) + Len(dtq) + Len(pend)
      BY <2>1
    <3>4. debt' <= Depth - Len(free')
      BY <1>0, <2>1
    <3>5. QED  BY <3>1, <3>2, <3>3, <3>4 DEF Balanced
  <2>4. QED  BY <2>2, <2>3, BalancedStep DEF Labels
<1>2. CASE RecvTake(p)
  <2>1. CASE dtq # <<>>
    <3>1. Len(dtq') = Len(dtq) - 1 /\ UNCHANGED <<tok, free, pend, debt, lost>>
      BY <1>2, <2>1, HeadTail DEF RecvTake, TypeOK, hvars
    <3>2. Go(p, "copyout") /\ pc[p] = "trcv"
      BY <1>2, <2>1 DEF RecvTake, At
    <3>3. Balanced(p, "copyout")
      <4>1. /\ Ind("copyout", OwesToken) = 0 /\ Ind(pc[p], OwesToken) = 0
            /\ Ind("copyout", HoldsSlot) = 1 /\ Ind(pc[p], HoldsSlot) = 0
        BY <3>2 DEF Ind, OwesToken, HoldsSlot
      <4>2. tok' + lost' - Len(free') - debt' = tok + lost - Len(free) - debt
        BY <3>1
      <4>3. Len(free') + Len(dtq') + Len(pend') + 1 = Len(free) + Len(dtq) + Len(pend)
        BY <3>1
      <4>4. debt' <= Depth - Len(free')
        BY <1>0, <3>1
      <4>5. QED  BY <4>1, <4>2, <4>3, <4>4 DEF Balanced
    <3>4. QED  BY <3>2, <3>3, BalancedStep DEF Labels
  <2>2. CASE dtq = <<>>
    <3>1. /\ Go(p, "wdtq") /\ pc[p] = "trcv"
          /\ UNCHANGED <<tok, free, dtq, pend, debt, lost>>
      BY <1>2, <2>2 DEF RecvTake, At, hvars
    <3>2. QED  BY <3>1, QuietStep DEF Labels, OwesToken, HoldsSlot
  <2>3. QED  BY <2>1, <2>2
<1>3. CASE ResetTake(p)
  <2>1. Len(dtq') = Len(dtq) - 1 /\ UNCHANGED <<tok, free, pend, debt, lost>>
    BY <1>3, HeadTail DEF ResetTake, TypeOK
  <2>2. Go(p, "notify") /\ pc[p] = "prcv"
    BY <1>3 DEF ResetTake, At, FreeThen
  <2>3. Balanced(p, "notify")
    <3>1. /\ Ind("notify", OwesToken) = 0 /\ Ind(pc[p], OwesToken) = 0
          /\ Ind("notify", HoldsSlot) = 1 /\ Ind(pc[p], HoldsSlot) = 0
      BY <2>2 DEF Ind, OwesToken, HoldsSlot
    <3>2. tok' + lost' - Len(free') - debt' = tok + lost - Len(free) - debt
      BY <2>1
    <3>3. Len(free') + Len(dtq') + Len(pend') + 1 = Len(free) + Len(dtq) + Len(pend)
      BY <2>1
    <3>4. debt' <= Depth - Len(free')
      BY <1>0, <2>1
    <3>5. QED  BY <3>1, <3>2, <3>3, <3>4 DEF Balanced
  <2>4. QED  BY <2>2, <2>3, BalancedStep DEF Labels
<1>4. CASE PendPush(p)
  <2>1. Go(p, "idle") /\ pc[p] \in {"pushp", "ipsnd"}
    BY <1>4 DEF PendPush, At
  <2>2. hand[p] \in Slots
    BY <2>1, InHand DEF HoldsSlot
  <2>3. Len(pend') = Len(pend) + 1 /\ UNCHANGED <<tok, free, dtq, debt, lost>>
    BY <1>4, <2>2, AppendSlot DEF PendPush, TypeOK
  <2>4. Balanced(p, "idle")
    <3>1. Len(free') + Len(dtq') + Len(pend') = Len(free) + Len(dtq) + Len(pend) + 1
      BY <2>3
    <3>2. /\ Ind("idle", OwesToken) = 0 /\ Ind(pc[p], OwesToken) = 0
          /\ Ind("idle", HoldsSlot) = 0 /\ Ind(pc[p], HoldsSlot) = 1
      BY <2>1 DEF Ind, OwesToken, HoldsSlot
    <3>3. /\ tok' + lost' - Len(free') - debt' = tok + lost - Len(free) - debt
          /\ debt' <= Depth - Len(free')
      BY <1>0, <2>3
    <3>4. QED  BY <3>1, <3>2, <3>3 DEF Balanced
  <2>5. QED  BY <2>1, <2>4, BalancedStep DEF Labels
<1>5. ASSUME TakeToken(p) \/ PolToken(p) PROVE Accounts'
  <2>1. /\ UNCHANGED <<free, dtq, pend, debt, lost>> /\ pc[p] \in {"twai", "polsem"}
        /\ \/ tok > 0 /\ tok' = tok - 1 /\ Go(p, "alloc")
           \/ tok' = tok /\ (Go(p, "wsem") \/ Go(p, "idle"))
    BY <1>5 DEF TakeToken, PolToken, At, hvars
  <2>2. CASE tok > 0 /\ tok' = tok - 1 /\ Go(p, "alloc")
    <3>1. Balanced(p, "alloc")
      <4>1. tok' + lost' - Len(free') - debt' + 1 = tok + lost - Len(free) - debt
        BY <2>1, <2>2
      <4>2. Len(free') + Len(dtq') + Len(pend') = Len(free) + Len(dtq) + Len(pend)
        BY <2>1
      <4>3. /\ Ind("alloc", OwesToken) = 1 /\ Ind(pc[p], OwesToken) = 0
            /\ Ind("alloc", HoldsSlot) = 0 /\ Ind(pc[p], HoldsSlot) = 0
        BY <2>1 DEF Ind, OwesToken, HoldsSlot
      <4>4. tok + lost - Len(free) - debt \in Int
        OBVIOUS
      <4>5. debt' <= Depth - Len(free')
        BY <1>0, <2>1
      <4>6. QED  BY <4>1, <4>2, <4>3, <4>4, <4>5 DEF Balanced
    <3>2. QED  BY <2>2, <3>1, BalancedStep DEF Labels
  <2>3. CASE tok' = tok /\ (Go(p, "wsem") \/ Go(p, "idle"))
    BY <2>1, <2>3, QuietStep DEF Labels, OwesToken, HoldsSlot
  <2>4. QED  BY <2>1, <2>2, <2>3
<1>6. QED  BY <1>1, <1>2, <1>3, <1>4, <1>5

\* The free stack: a slot is freed, or allocated with a token or on debt.
LEMMA FreeAccounts ==
  ASSUME TypeInv, TypeInv', Accounts, NEW p \in Procs, FreeSlot(p)
  PROVE  Accounts'
<1> USE Numbers DEF TypeInv
<1>1. pc[p] = "notify" /\ hand[p] \in Slots
  BY InHand DEF FreeSlot, At, HoldsSlot
<1>2. Len(free') = Len(free) + 1 /\ UNCHANGED <<tok, dtq, pend, lost>>
  BY <1>1, AppendSlot DEF FreeSlot, TypeOK, hvars
<1>3. Len(free) + Len(dtq) + Len(pend) < Depth
  BY <1>1, HolderLeavesRoom DEF HoldsSlot
<1>4. debt <= Depth - Len(free)
  BY DEF Accounts, DebtCovered
<1>5. CASE debt > 0
  <2>1. /\ debt' = debt - 1 /\ Go(p, nret[p])
        /\ nret[p] \in Labels \ (OwesToken \cup HoldsSlot)
    BY <1>5 DEF FreeSlot, TypeOK, OwesToken, HoldsSlot, Labels
  <2>2. debt' <= Depth - Len(free')
    BY <1>2, <1>4, <1>5, <2>1, DepthAssumption
  <2>3. Balanced(p, nret[p])
    <3>1. tok' + lost' - Len(free') - debt' = tok + lost - Len(free) - debt
      BY <1>2, <2>1
    <3>2. Len(free') + Len(dtq') + Len(pend') = Len(free) + Len(dtq) + Len(pend) + 1
      BY <1>2
    <3>3. /\ Ind(nret[p], OwesToken) = 0 /\ Ind(pc[p], OwesToken) = 0
          /\ Ind(nret[p], HoldsSlot) = 0 /\ Ind(pc[p], HoldsSlot) = 1
      BY <1>1, <2>1 DEF Ind, OwesToken, HoldsSlot
    <3>4. QED  BY <2>2, <3>1, <3>2, <3>3 DEF Balanced
  <2>4. QED  BY <2>1, <2>3, BalancedStep
<1>6. CASE debt = 0
  <2>1. debt' = debt /\ Go(p, "sig")
    BY <1>6 DEF FreeSlot
  <2>2. debt' <= Depth - Len(free')
    BY <1>2, <1>3, <1>6, <2>1, DepthAssumption
  <2>3. Balanced(p, "sig")
    <3>1. /\ Ind("sig", OwesToken) = 1 /\ Ind(pc[p], OwesToken) = 0
          /\ Ind("sig", HoldsSlot) = 0 /\ Ind(pc[p], HoldsSlot) = 1
      BY <1>1 DEF Ind, OwesToken, HoldsSlot
    <3>2. tok' + lost' - Len(free') - debt' + 1 = tok + lost - Len(free) - debt
      BY <1>2, <2>1
    <3>3. Len(free') + Len(dtq') + Len(pend') = Len(free) + Len(dtq) + Len(pend) + 1
      BY <1>2, <2>1
    <3>4. QED  BY <2>2, <3>1, <3>2, <3>3 DEF Balanced
  <2>4. QED  BY <2>1, <2>3, BalancedStep DEF Labels
<1>7. QED  BY <1>5, <1>6 DEF TypeOK

LEMMA AllocDebtAccounts ==
  ASSUME TypeInv, TypeInv', Accounts, NEW p \in Procs,
         NEW l \in Labels, l \in HoldsSlot, l \notin OwesToken,
         AllocDebt(p, l), pc[p] \notin HoldsSlot \cup OwesToken,
         UNCHANGED <<tok, dtq, pend, lost>>
  PROVE  Accounts'
<1> USE Numbers DEF TypeInv
<1>1. CASE free = <<>>
  BY <1>1, QuietStep DEF AllocDebt, OwesToken, HoldsSlot, Labels
<1>2. CASE free # <<>>
  <2>1. free' = Pop /\ debt' = debt + 1 /\ Go(p, l)
    BY <1>2 DEF AllocDebt
  <2>2. Len(free') = Len(free) - 1
    BY <1>2, <2>1, FreeStack DEF TypeOK
  <2>3. debt' <= Depth - Len(free')
    BY <2>1, <2>2, DepthAssumption DEF Accounts, DebtCovered
  <2>4. Balanced(p, l)
    <3>1. /\ Ind(l, OwesToken) = 0 /\ Ind(pc[p], OwesToken) = 0
          /\ Ind(l, HoldsSlot) = 1 /\ Ind(pc[p], HoldsSlot) = 0
      BY DEF Ind, OwesToken, HoldsSlot
    <3>2. tok' + lost' - Len(free') - debt' = tok + lost - Len(free) - debt
      BY <2>1, <2>2
    <3>3. Len(free') + Len(dtq') + Len(pend') + 1 = Len(free) + Len(dtq) + Len(pend)
      BY <2>1, <2>2
    <3>4. QED  BY <2>3, <3>1, <3>2, <3>3 DEF Balanced
  <2>5. QED  BY <2>1, <2>4, BalancedStep
<1>3. QED  BY <1>1, <1>2

LEMMA AllocAccounts ==
  ASSUME TypeInv, TypeInv', Accounts, NEW p \in Procs,
         SendNoToken(p) \/ IsrAlloc(p) \/ AllocSlot(p)
  PROVE  Accounts'
<1> USE Numbers DEF TypeInv
<1>1. CASE SendNoToken(p)
  BY <1>1, AllocDebtAccounts DEF SendNoToken, At, OwesToken, HoldsSlot, Labels
<1>2. CASE IsrAlloc(p)
  BY <1>2, AllocDebtAccounts DEF IsrAlloc, At, OwesToken, HoldsSlot, Labels
<1>3. CASE AllocSlot(p) /\ free = <<>>
  <2>1. /\ Go(p, "giveback") /\ pc[p] = "alloc"
        /\ UNCHANGED <<tok, free, dtq, pend, debt, lost>>
    BY <1>3 DEF AllocSlot, At, hvars
  <2>2. QED  BY <2>1, QuietStep DEF OwesToken, HoldsSlot, Labels
<1>4. CASE AllocSlot(p) /\ free # <<>>
  <2>1. /\ free' = Pop /\ Go(p, "tsnd") /\ pc[p] = "alloc"
        /\ UNCHANGED <<tok, dtq, pend, debt, lost>>
    BY <1>4 DEF AllocSlot, At, hvars
  <2>2. Len(free') = Len(free) - 1
    BY <1>4, <2>1, FreeStack DEF TypeOK
  <2>3. debt' <= Depth - Len(free')
    BY <2>1, <2>2, DepthAssumption DEF Accounts, DebtCovered
  <2>4. Balanced(p, "tsnd")
    <3>1. /\ Ind("tsnd", OwesToken) = 0 /\ Ind(pc[p], OwesToken) = 1
          /\ Ind("tsnd", HoldsSlot) = 1 /\ Ind(pc[p], HoldsSlot) = 0
      BY <2>1 DEF Ind, OwesToken, HoldsSlot
    <3>2. tok' + lost' - Len(free') - debt' = tok + lost - Len(free) - debt + 1
      BY <2>1, <2>2
    <3>3. Len(free') + Len(dtq') + Len(pend') + 1 = Len(free) + Len(dtq) + Len(pend)
      BY <2>1, <2>2
    <3>4. QED  BY <2>3, <3>1, <3>2, <3>3 DEF Balanced
  <2>5. QED  BY <2>1, <2>4, BalancedStep DEF Labels
<1>5. QED  BY <1>1, <1>2, <1>3, <1>4

\* Two contexts that move between places and together count as before.
LEMMA CountSwap ==
  ASSUME pc \in [Procs -> Labels], NEW S,
         NEW p \in Procs, NEW l \in Labels, NEW w \in Procs, NEW k \in Labels, w # p,
         pc' = [pc EXCEPT ![w] = k, ![p] = l],
         Ind(k, S) + Ind(l, S) = Ind(pc[w], S) + Ind(pc[p], S)
  PROVE  CountIn(S)' = CountIn(S)
<1> DEFINE a == Ind(k, S)  b == Ind(pc[w], S)  c == Ind(l, S)  d == Ind(pc[p], S)
           m == CountIn(S)  n == CountIn(S)'
<1>1. n = m + a - b + c - d
  BY CountGoTwo
<1>2. /\ a \in Int /\ b \in Int /\ c \in Int /\ d \in Int /\ m \in Int /\ n \in Int
      /\ a + c = b + d
  BY CountNat, CountNatPrime DEF Ind
<1>3. n = m
  <2> HIDE DEF a, b, c, d, m, n
  <2> QED  BY <1>1, <1>2
<1>4. QED  BY <1>3

\* A step that moves two contexts and leaves the two counts and every structure
\* alone keeps the accounts.
LEMMA SwapStep ==
  ASSUME TypeInv, TypeInv', Accounts,
         CountIn(OwesToken)' = CountIn(OwesToken),
         CountIn(HoldsSlot)' = CountIn(HoldsSlot),
         UNCHANGED <<tok, free, dtq, pend, debt, lost>>
  PROVE  Accounts'
BY AccountsCount, AccountsCountPrime

\* A token is returned to the semaphore, handed to a waiting sender, or lost.
LEMMA SigAccounts ==
  ASSUME TypeInv, TypeInv', Accounts, NEW p \in Procs, NEW l \in Labels,
         l \notin OwesToken \cup HoldsSlot, pc[p] \in {"sig", "giveback"},
         SigSem(p, l), UNCHANGED <<free, dtq, pend, debt>>
  PROVE  Accounts'
<1>0. /\ tok \in Nat /\ debt \in Nat /\ lost \in Nat
      /\ Len(free) \in Nat /\ Len(dtq) \in Nat /\ Len(pend) \in Nat
      /\ pc \in [Procs -> Labels]
  BY Numbers DEF TypeInv, TypeOK
<1>1. CASE Go(p, l) /\ tok' + lost' = tok + lost + 1
  <2>1. tok' + lost' - Len(free') - debt' = tok + lost - Len(free) - debt + 1
    <3>1. tok' \in Nat /\ lost' \in Nat /\ free' = free /\ debt' = debt
      BY DEF TypeInv, TypeOK
    <3> DEFINE a == tok'  b == lost'  c == Len(free)  x == tok  y == lost
    <3>2. /\ a \in Int /\ b \in Int /\ c \in Int /\ debt \in Int /\ x \in Int /\ y \in Int
      BY <1>0, <3>1
    <3>3. a + b = x + y + 1
      BY <1>1
    <3>4. a + b - c - debt = x + y - c - debt + 1
      <4> HIDE DEF a, b, c, x, y
      <4> QED  BY <3>2, <3>3
    <3>5. QED  BY <3>1, <3>4
  <2>2. /\ Ind(l, OwesToken) = 0 /\ Ind(pc[p], OwesToken) = 1
        /\ Ind(l, HoldsSlot) = 0 /\ Ind(pc[p], HoldsSlot) = 0
    BY DEF Ind, OwesToken, HoldsSlot
  <2>3. tok' + lost' - Len(free') - debt' \in Int
    BY DEF TypeInv, TypeOK
  <2>4. Balanced(p, l)
    BY <2>1, <2>2, <2>3 DEF Balanced, Accounts, DebtCovered
  <2>5. QED  BY <1>1, <2>4, BalancedStep
<1>2. CASE /\ \E w \in SemWaiters : pc' = [pc EXCEPT ![w] = "alloc", ![p] = l]
           /\ UNCHANGED <<tok, lost>>
  <2>1. PICK w \in Procs : /\ w # p /\ pc[w] = "wsem"
                           /\ pc' = [pc EXCEPT ![w] = "alloc", ![p] = l]
    BY <1>2 DEF SemWaiters, Procs
  <2>2. /\ Ind("alloc", OwesToken) = 1 /\ Ind(l, OwesToken) = 0
        /\ Ind(pc[w], OwesToken) = 0 /\ Ind(pc[p], OwesToken) = 1
        /\ Ind("alloc", HoldsSlot) = 0 /\ Ind(l, HoldsSlot) = 0
        /\ Ind(pc[w], HoldsSlot) = 0 /\ Ind(pc[p], HoldsSlot) = 0
    BY <2>1 DEF Ind, OwesToken, HoldsSlot
  <2>3. /\ pc \in [Procs -> Labels] /\ "alloc" \in Labels
        /\ p \in Procs /\ l \in Labels /\ w \in Procs /\ w # p
        /\ pc' = [pc EXCEPT ![w] = "alloc", ![p] = l]
    BY <1>0, <2>1 DEF Labels
  <2>4. CountIn(OwesToken)' = CountIn(OwesToken)
    <3>1. Ind("alloc", OwesToken) + Ind(l, OwesToken)
            = Ind(pc[w], OwesToken) + Ind(pc[p], OwesToken)
      BY <2>2
    <3>2. QED  BY ONLY <2>3, <3>1, CountSwap
  <2>5. CountIn(HoldsSlot)' = CountIn(HoldsSlot)
    <3>1. Ind("alloc", HoldsSlot) + Ind(l, HoldsSlot)
            = Ind(pc[w], HoldsSlot) + Ind(pc[p], HoldsSlot)
      BY <2>2
    <3>2. QED  BY ONLY <2>3, <3>1, CountSwap
  <2>6. QED  BY <1>2, <2>4, <2>5, SwapStep
<1>3. /\ tok' = tok + 1 /\ lost' = lost => tok' + lost' = tok + lost + 1
      /\ tok' = tok /\ lost' = lost + 1 => tok' + lost' = tok + lost + 1
  <2>1. \A a, b \in Nat : (a + 1) + b = a + b + 1 /\ a + (b + 1) = a + b + 1
    OBVIOUS
  <2>2. tok + 1 + lost = tok + lost + 1 /\ tok + (lost + 1) = tok + lost + 1
    BY <1>0, <2>1
  <2>3. QED  BY <2>2
<1>4. QED  BY <1>1, <1>2, <1>3 DEF SigSem

\* A slot goes into the data queue or to a waiting receiver.
LEMMA PutAccounts ==
  ASSUME TypeInv, TypeInv', Accounts, NEW p \in Procs, NEW l \in Labels,
         l \notin OwesToken \cup HoldsSlot, pc[p] \in {"fpsnd", "tsnd", "ipsnd"},
         PutDtq(p, l), UNCHANGED <<tok, lost, free, pend, debt>>
  PROVE  Accounts'
<1>0. /\ tok \in Nat /\ debt \in Nat /\ lost \in Nat
      /\ Len(free) \in Nat /\ Len(dtq) \in Nat /\ Len(pend) \in Nat
      /\ pc \in [Procs -> Labels]
  BY Numbers DEF TypeInv, TypeOK
<1>1. CASE Go(p, l) /\ dtq' = Append(dtq, hand[p])
  <2>1. hand[p] \in Slots
    BY InHand DEF HoldsSlot
  <2>2. Len(dtq') = Len(dtq) + 1
    BY <1>1, <2>1, AppendSlot DEF TypeInv, TypeOK
  <2>3. Len(free') + Len(dtq') + Len(pend') = Len(free) + Len(dtq) + Len(pend) + 1
    BY <1>0, <2>2
  <2>4. /\ Ind(l, OwesToken) = 0 /\ Ind(pc[p], OwesToken) = 0
        /\ Ind(l, HoldsSlot) = 0 /\ Ind(pc[p], HoldsSlot) = 1
    BY DEF Ind, OwesToken, HoldsSlot
  <2>5. Balanced(p, l)
    BY <2>3, <2>4 DEF Balanced, Accounts, DebtCovered
  <2>6. QED  BY <1>1, <2>5, BalancedStep
<1>2. CASE /\ \E w \in DtqWaiters : pc' = [pc EXCEPT ![w] = "copyout", ![p] = l]
           /\ UNCHANGED dtq
  <2>1. PICK w \in Procs : /\ w # p /\ pc[w] = "wdtq"
                           /\ pc' = [pc EXCEPT ![w] = "copyout", ![p] = l]
    BY <1>2 DEF DtqWaiters, Procs
  <2>2. /\ Ind("copyout", OwesToken) = 0 /\ Ind(l, OwesToken) = 0
        /\ Ind(pc[w], OwesToken) = 0 /\ Ind(pc[p], OwesToken) = 0
        /\ Ind("copyout", HoldsSlot) = 1 /\ Ind(l, HoldsSlot) = 0
        /\ Ind(pc[w], HoldsSlot) = 0 /\ Ind(pc[p], HoldsSlot) = 1
    BY <2>1 DEF Ind, OwesToken, HoldsSlot
  <2>3. /\ pc \in [Procs -> Labels] /\ "copyout" \in Labels
        /\ p \in Procs /\ l \in Labels /\ w \in Procs /\ w # p
        /\ pc' = [pc EXCEPT ![w] = "copyout", ![p] = l]
    BY <1>0, <2>1 DEF Labels
  <2>4. CountIn(OwesToken)' = CountIn(OwesToken)
    <3>1. Ind("copyout", OwesToken) + Ind(l, OwesToken)
            = Ind(pc[w], OwesToken) + Ind(pc[p], OwesToken)
      BY <2>2
    <3>2. QED  BY ONLY <2>3, <3>1, CountSwap
  <2>5. CountIn(HoldsSlot)' = CountIn(HoldsSlot)
    <3>1. Ind("copyout", HoldsSlot) + Ind(l, HoldsSlot)
            = Ind(pc[w], HoldsSlot) + Ind(pc[p], HoldsSlot)
      BY <2>2
    <3>2. QED  BY ONLY <2>3, <3>1, CountSwap
  <2>6. QED  BY <1>2, <2>4, <2>5, SwapStep
<1>3. QED  BY <1>1, <1>2 DEF PutDtq

LEMMA KernelAccounts ==
  ASSUME TypeInv, TypeInv', Accounts, NEW p \in Procs,
         \/ FlushPost(p) \/ ReturnToken(p) \/ GiveBack(p)
         \/ CopyAndPost(p) \/ IsrPost(p)
  PROVE  Accounts'
<1>1. CASE FlushPost(p)
  <2>1. pc[p] = "fpsnd" /\ PutDtq(p, "fpop") /\ UNCHANGED <<tok, lost, free, pend, debt>>
    BY <1>1 DEF FlushPost, At, hvars
  <2>2. QED  BY <2>1, PutAccounts DEF OwesToken, HoldsSlot, Labels
<1>2. CASE ReturnToken(p)
  <2>1. /\ pc[p] = "sig" /\ SigSem(p, nret[p]) /\ UNCHANGED <<free, dtq, pend, debt>>
        /\ nret[p] \in Labels \ (OwesToken \cup HoldsSlot)
    BY <1>2 DEF ReturnToken, At, TypeInv, TypeOK, OwesToken, HoldsSlot, Labels
  <2>2. QED  BY <2>1, SigAccounts
<1>3. CASE GiveBack(p)
  <2>1. pc[p] = "giveback" /\ SigSem(p, "idle") /\ UNCHANGED <<free, dtq, pend, debt>>
    BY <1>3 DEF GiveBack, At
  <2>2. QED  BY <2>1, SigAccounts DEF OwesToken, HoldsSlot, Labels
<1>4. ASSUME CopyAndPost(p) \/ IsrPost(p) PROVE Accounts'
  <2>1. /\ pc[p] \in {"tsnd", "ipsnd"} /\ PutDtq(p, "idle")
        /\ UNCHANGED <<tok, lost, free, pend, debt>>
    BY <1>4 DEF CopyAndPost, IsrPost, At
  <2>2. QED  BY <2>1, PutAccounts DEF OwesToken, HoldsSlot, Labels
<1>5. QED  BY <1>1, <1>2, <1>3, <1>4

-----------------------------------------------------------------------------
(* The inductive invariant and what follows from it.                       *)

IInv == TypeInv /\ Accounts

LEMMA InitIInv == Init => IInv
<1> SUFFICES ASSUME Init PROVE IInv
  OBVIOUS
<1>1. TypeInv
  BY InitTypeInv
<1>2. {p \in Procs : pc[p] \in OwesToken} = {} /\ Holders = {}
  BY DEF Init, OwesToken, Holders
<1>3. CountIn(OwesToken) = 0 /\ Cardinality(Holders) = 0
  BY <1>2, FS_EmptySet DEF CountIn
<1>4. Len(free) = Depth /\ Len(dtq) = 0 /\ Len(pend) = 0 /\ debt = 0 /\ lost = 0
      /\ tok = Depth
  BY InitFree DEF Init
<1>5. Accounts
  BY <1>3, <1>4, DepthAssumption
     DEF Accounts, TokenConservation, SlotConservation, DebtCovered
<1>6. QED  BY <1>1, <1>5 DEF IInv

LEMMA NextIInv == IInv /\ [Next]_vars => IInv'
<1> SUFFICES ASSUME TypeInv, Accounts, [Next]_vars PROVE TypeInv' /\ Accounts'
  BY DEF IInv
<1>1. TypeInv'
  BY NextTyped
<1>2. CASE UNCHANGED vars
  BY <1>1, <1>2, StillStep DEF vars, qvars, pvars, hvars
<1>3. ASSUME NEW p \in Procs, Work(p) PROVE Accounts'
  BY <1>1, <1>3, QuietAccounts, TakeAccounts, FreeAccounts, AllocAccounts,
     KernelAccounts DEF Work
<1>4. ASSUME NEW p \in Procs, Call(p) \/ Leave(p) PROVE Accounts'
  BY <1>1, <1>4, QuietAccounts, CritAccounts DEF Call, Leave
<1>5. QED  BY <1>1, <1>2, <1>3, <1>4 DEF Next

\* A context about to post finds room: all slots in the data queue, on the ring
\* and free are fewer than Depth, which is at most DtqCnt.
LEMMA RoomFollows == IInv => RoomForSlot
<1> SUFFICES ASSUME IInv, NEW p \in Procs, pc[p] \in {"fpsnd", "tsnd", "ipsnd"}
             PROVE  Len(dtq) < DtqCnt
  BY DEF RoomForSlot
<1>1. Len(free) + Len(dtq) + Len(pend) < Depth
  BY HolderLeavesRoom DEF IInv, HoldsSlot
<1>2. QED  BY <1>1, Numbers, DepthAssumption DEF IInv, TypeInv

\* The accounts of tokens, slots and debt balance after every step of every interleaving,
\* whatever is sent from tasks, handlers and critical sections: no slot is lost, and every
\* debt is owed by a slot in use.
THEOREM AccountsBalance == Spec => []Accounts
<1>1. IInv => Accounts
  BY DEF IInv
<1>2. QED  BY InitIInv, NextIInv, <1>1, PTL DEF Spec

\* The kernel's data queue is never full when a slot is posted, so the error
\* branches after psnd_dtq and tsnd_dtq are not reached with interrupts enabled.
THEOREM AlwaysRoom == Spec => []RoomForSlot
BY InitIInv, NextIInv, RoomFollows, PTL DEF Spec

=============================================================================
