---------------------------- MODULE ShimSemProofs ----------------------------
(***************************************************************************)
(* What holds of the semaphore pool for every number of semaphores, tasks, *)
(* handlers, priorities and calls.                                         *)
(***************************************************************************)
EXTENDS ShimSem, FiniteSetTheorems, TLAPS

-----------------------------------------------------------------------------
(* Counting pending gives: a function f from semaphores to numbers is seen *)
(* as the set of the pairs <<s, i>> with 1 <= i <= f[s].                   *)

Pairs(f) == UNION {{s} \X (1..f[s]) : s \in Sems}

LEMMA PairsMember ==
  ASSUME NEW f, NEW x
  PROVE  x \in Pairs(f) <=> \E s \in Sems : \E i \in 1..f[s] : x = <<s, i>>
BY SMT DEF Pairs

LEMMA PairsFinite ==
  ASSUME NEW f \in [Sems -> Nat]
  PROVE  IsFiniteSet(Pairs(f)) /\ Cardinality(Pairs(f)) \in Nat
<1> DEFINE Row(s) == {s} \X (1..f[s])
           Rows == {Row(s) : s \in Sems}
<1>1. IsFiniteSet(Sems)
  BY PoolAssumption, FS_Interval DEF Sems
<1>2. IsFiniteSet(Rows)
  <2> DEFINE g == [s \in Sems |-> Row(s)]
  <2>1. g \in Surjection(Sems, Rows)
    BY DEF Surjection
  <2>2. QED  BY <1>1, <2>1, FS_Surjection
<1>3. ASSUME NEW s \in Sems PROVE IsFiniteSet(Row(s))
  <2>1. f[s] \in Int /\ 1 \in Int
    BY SMT
  <2>2. IsFiniteSet({s}) /\ IsFiniteSet(1..f[s])
    BY <2>1, FS_Singleton, FS_Interval
  <2>3. QED  BY <2>2, FS_Product
<1>4. \A T \in Rows : IsFiniteSet(T)
  BY <1>3
<1>5. IsFiniteSet(UNION Rows)
  BY <1>2, <1>4, FS_UNION
<1>6. QED  BY <1>5, FS_CardinalityType DEF Pairs

\* One give more at s is one pair more.
LEMMA PairsAdd ==
  ASSUME NEW f \in [Sems -> Nat], NEW s \in Sems
  PROVE  Cardinality(Pairs([f EXCEPT ![s] = f[s] + 1])) = Cardinality(Pairs(f)) + 1
<1> DEFINE g == [f EXCEPT ![s] = f[s] + 1]
           x == <<s, f[s] + 1>>
<1>1. ASSUME NEW y
      PROVE  y \in Pairs(g) <=> y \in Pairs(f) \/ y = x
  <2>1. \A r \in Sems, i \in Int :
          i \in 1..g[r] <=> i \in 1..f[r] \/ (r = s /\ i = f[s] + 1)
    BY SMT
  <2>2. \A r \in Sems : g[r] \in Nat /\ f[r] \in Nat
    BY SMT
  <2> HIDE DEF g
  <2>3. y \in Pairs(g) <=> \E r \in Sems : \E i \in 1..g[r] : y = <<r, i>>
    BY PairsMember
  <2>4. y \in Pairs(f) <=> \E r \in Sems : \E i \in 1..f[r] : y = <<r, i>>
    BY PairsMember
  <2>5. QED  BY <2>1, <2>2, <2>3, <2>4, SMT
<1>2. x \notin Pairs(f)
  <2>1. f[s] \in Nat
    BY SMT
  <2>2. x \in Pairs(f) <=> \E r \in Sems : \E i \in 1..f[r] : x = <<r, i>>
    BY PairsMember
  <2>3. QED  BY <2>1, <2>2, SMT
<1>3. Pairs(g) = Pairs(f) \cup {x}
  BY <1>1
<1>4. IsFiniteSet(Pairs(f))
  BY PairsFinite
<1> HIDE DEF g, x
<1>5. Cardinality(Pairs(f) \cup {x}) = Cardinality(Pairs(f)) + 1
  BY <1>2, <1>4, FS_AddElement
<1>6. QED  BY <1>3, <1>5 DEF g

\* One give less at s is one pair less.
LEMMA PairsRemove ==
  ASSUME NEW f \in [Sems -> Nat], NEW s \in Sems, f[s] > 0
  PROVE  Cardinality(Pairs([f EXCEPT ![s] = f[s] - 1])) = Cardinality(Pairs(f)) - 1
<1> DEFINE g == [f EXCEPT ![s] = f[s] - 1]
<1>1. g \in [Sems -> Nat] /\ f = [g EXCEPT ![s] = g[s] + 1]
  <2>1. g \in [Sems -> Nat] /\ g[s] + 1 = f[s]
    BY SMT
  <2>2. f = [g EXCEPT ![s] = f[s]]
    OBVIOUS
  <2>3. QED  BY <2>1, <2>2
<1>2. Cardinality(Pairs(f)) = Cardinality(Pairs(g)) + 1
  <2> HIDE DEF g
  <2> QED  BY <1>1, PairsAdd
<1>3. Cardinality(Pairs(f)) \in Nat /\ Cardinality(Pairs(g)) \in Nat
  BY <1>1, PairsFinite
<1>4. QED  BY <1>2, <1>3, SMT

\* Dropping the gives pending at s drops as many pairs.
LEMMA PairsClear ==
  ASSUME NEW f \in [Sems -> Nat], NEW s \in Sems
  PROVE  /\ Cardinality(Pairs([f EXCEPT ![s] = 0])) = Cardinality(Pairs(f)) - f[s]
         /\ f[s] <= Cardinality(Pairs(f))
<1> DEFINE g == [f EXCEPT ![s] = 0]
           Row == {s} \X (1..f[s])
<1>1. g \in [Sems -> Nat]
  BY SMT
<1>2. Pairs(g) = Pairs(f) \ Row
  <2>1. \A r \in Sems, i \in Int :
          i \in 1..g[r] <=> i \in 1..f[r] /\ r # s
    BY SMT
  <2>2. \A r \in Sems : g[r] \in Nat /\ f[r] \in Nat
    BY SMT
  <2> HIDE DEF g
  <2> SUFFICES ASSUME NEW y PROVE y \in Pairs(g) <=> y \in Pairs(f) /\ y \notin Row
    OBVIOUS
  <2>3. y \in Pairs(g) <=> \E r \in Sems : \E i \in 1..g[r] : y = <<r, i>>
    BY PairsMember
  <2>4. y \in Pairs(f) <=> \E r \in Sems : \E i \in 1..f[r] : y = <<r, i>>
    BY PairsMember
  <2>5. y \in Row <=> \E i \in 1..f[s] : y = <<s, i>>
    BY SMT
  <2> HIDE DEF Row
  <2>6. QED  BY <2>1, <2>2, <2>3, <2>4, <2>5, SMT
<1>3. Cardinality(Row) = f[s] /\ IsFiniteSet(Row)
  <2>1. f[s] \in Nat /\ f[s] \in Int /\ 1 \in Int
    BY SMT
  <2>2. IsFiniteSet({s}) /\ Cardinality({s}) = 1
    BY FS_Singleton
  <2>3. IsFiniteSet(1..f[s]) /\ Cardinality(1..f[s]) = IF 1 > f[s] THEN 0 ELSE f[s] - 1 + 1
    BY <2>1, FS_Interval
  <2>4. Cardinality(1..f[s]) = f[s]
    BY <2>1, <2>3, SMT
  <2>5. /\ IsFiniteSet(Row)
        /\ Cardinality(Row) = Cardinality({s}) * Cardinality(1..f[s])
    BY <2>2, <2>3, FS_Product
  <2>6. QED  BY <2>1, <2>2, <2>4, <2>5, SMT
<1>4. Pairs(f) \cap Row = Row
  BY SMT DEF Pairs
<1>5. Cardinality(Pairs(g)) = Cardinality(Pairs(f)) - f[s]
  <2>1. IsFiniteSet(Pairs(f))
    BY PairsFinite
  <2> HIDE DEF g, Row
  <2>2. Cardinality(Pairs(f) \ Row) = Cardinality(Pairs(f)) - Cardinality(Pairs(f) \cap Row)
    BY <2>1, FS_Difference
  <2>3. QED  BY <1>2, <1>3, <1>4, <2>2
<1>6. Cardinality(Pairs(g)) \in Nat /\ Cardinality(Pairs(f)) \in Nat
  BY <1>1, PairsFinite
<1>7. QED  BY <1>5, <1>6, SMT

-----------------------------------------------------------------------------
(* The inductive invariant.                                                *)

\* A context that handles a semaphore handles one of the pool, and interrupts
\* are masked exactly inside a critical section.
InPool  == \A p \in Procs : pc[p] \in {"drain", "init", "pop", "sig"} => on[p] \in Sems
Nesting == owner # NoProc <=> nest > 0

IInv == TypeOK /\ InPool /\ Nesting /\ TotalIsSum

LEMMA PendingArePairs == PendingGives = Pairs(pend)
BY DEF PendingGives, Pairs

LEMMA PendingArePairsPrime == PendingGives' = Pairs(pend')
BY DEF PendingGives, Pairs

LEMMA SemsNumbered == Sems \subseteq Nat \ {0} /\ NoSem \notin Sems /\ 1 \in Sems
BY PoolAssumption, SMT DEF Sems, NoSem

LEMMA SemsOrder ==
  ASSUME NEW i \in Sems
  PROVE  i \in Nat /\ i <= NumSem /\ (i < NumSem => i + 1 \in Sems)
BY PoolAssumption, SMT DEF Sems

LEMMA InitInv == Init => IInv
<1> SUFFICES ASSUME Init PROVE IInv
  OBVIOUS
<1>1. TypeOK /\ InPool
  BY BoundsAssumption, SMT DEF Init, TypeOK, InPool, Labels
<1>2. Nesting
  BY SMT DEF Init, Nesting
<1>3. TotalIsSum
  <2>1. \A x : x \notin PendingGives
    BY SMT DEF Init, PendingGives
  <2>2. PendingGives = {}
    BY <2>1
  <2>3. QED  BY <2>2, FS_EmptySet DEF Init, TotalIsSum
<1>4. QED  BY <1>1, <1>2, <1>3 DEF IInv

\* What sig_sem leaves: nothing it does touches a context inside another call.
LEMMA SigSemType ==
  ASSUME IInv, NEW p \in Procs, NEW s \in Sems, NEW l \in Labels,
         NEW o \in Sems \cup {NoSem}, pc[p] \notin Waiting, SigSem(p, s, l, o)
  PROVE  /\ cnt' \in [Sems -> Nat] /\ pc' \in [Procs -> Labels]
         /\ on' \in [Procs -> Sems \cup {NoSem}]
         /\ pc'[p] = l /\ on'[p] = o
         /\ \A q \in Procs \ {p} :
              \/ pc'[q] = pc[q] /\ on'[q] = on[q]
              \/ pc[q] \in Waiting /\ pc'[q] = "idle"
<1> USE DEF IInv, TypeOK, Labels
<1>1. CASE \E w \in Waiters(s) :
             /\ pc' = [pc EXCEPT ![w] = "idle", ![p] = l]
             /\ on' = [on EXCEPT ![w] = NoSem, ![p] = o]
             /\ cnt' = cnt
  <2>1. PICK w \in Waiters(s) :
             /\ pc' = [pc EXCEPT ![w] = "idle", ![p] = l]
             /\ on' = [on EXCEPT ![w] = NoSem, ![p] = o]
             /\ cnt' = cnt
    BY <1>1
  <2>2. w \in Procs /\ pc[w] \in Waiting
    BY DEF Waiters, Procs
  <2>3. QED  BY <2>1, <2>2, SMT
<1>2. CASE /\ cnt' = [cnt EXCEPT ![s] = @ + 1] /\ Go(p, l)
           /\ on' = [on EXCEPT ![p] = o]
  BY <1>2, SMT DEF Go
<1>3. QED  BY <1>1, <1>2 DEF SigSem

\* The pending gives change only together with their total.
LEMMA TotalKept ==
  ASSUME IInv, UNCHANGED <<pend, total>>
  PROVE  pend' \in [Sems -> Nat] /\ total' \in Nat /\ TotalIsSum'
<1>1. PendingGives' = PendingGives
  BY DEF PendingGives
<1>2. QED  BY <1>1 DEF IInv, TypeOK, TotalIsSum

LEMMA TotalAdd ==
  ASSUME IInv, NEW s \in Sems,
         pend' = [pend EXCEPT ![s] = @ + 1], total' = total + 1
  PROVE  pend' \in [Sems -> Nat] /\ total' \in Nat /\ TotalIsSum'
<1>1. pend \in [Sems -> Nat] /\ total \in Nat /\ total = Cardinality(Pairs(pend))
  BY PendingArePairs DEF IInv, TypeOK, TotalIsSum
<1>2. pend' = [pend EXCEPT ![s] = pend[s] + 1]
  BY <1>1, SMT
<1>3. Cardinality(Pairs(pend')) = Cardinality(Pairs(pend)) + 1
  BY <1>1, <1>2, PairsAdd
<1>4. pend' \in [Sems -> Nat] /\ total' \in Nat
  BY <1>1, SMT
<1>5. QED  BY <1>1, <1>3, <1>4, PendingArePairsPrime DEF TotalIsSum

LEMMA TotalRemove ==
  ASSUME IInv, NEW s \in Sems, pend[s] > 0,
         pend' = [pend EXCEPT ![s] = @ - 1], total' = total - 1
  PROVE  pend' \in [Sems -> Nat] /\ total' \in Nat /\ TotalIsSum'
<1>1. pend \in [Sems -> Nat] /\ total \in Nat /\ total = Cardinality(Pairs(pend))
  BY PendingArePairs DEF IInv, TypeOK, TotalIsSum
<1>2. pend' = [pend EXCEPT ![s] = pend[s] - 1] /\ pend' \in [Sems -> Nat]
  BY <1>1, SMT
<1>3. Cardinality(Pairs(pend')) = Cardinality(Pairs(pend)) - 1
  BY <1>1, <1>2, PairsRemove
<1>4. Cardinality(Pairs(pend')) \in Nat
  BY <1>2, PairsFinite
<1>5. QED  BY <1>1, <1>2, <1>3, <1>4, PendingArePairsPrime DEF TotalIsSum

LEMMA TotalClear ==
  ASSUME IInv, NEW s \in Sems,
         pend' = [pend EXCEPT ![s] = 0], total' = total - pend[s]
  PROVE  pend' \in [Sems -> Nat] /\ total' \in Nat /\ TotalIsSum'
<1>1. pend \in [Sems -> Nat] /\ total \in Nat /\ total = Cardinality(Pairs(pend))
  BY PendingArePairs DEF IInv, TypeOK, TotalIsSum
<1>2. pend' \in [Sems -> Nat]
  BY <1>1, SMT
<1>3. Cardinality(Pairs(pend')) = Cardinality(Pairs(pend)) - pend[s]
  BY <1>1, PairsClear
<1>4. Cardinality(Pairs(pend')) \in Nat
  BY <1>2, PairsFinite
<1>5. QED  BY <1>1, <1>2, <1>3, <1>4, PendingArePairsPrime DEF TotalIsSum

-----------------------------------------------------------------------------
(* Every action keeps it.  What an action leaves alone is covered by the   *)
(* lemmas above; a leaf expands the action itself.                         *)

LEMMA CreateInv ==
  ASSUME IInv, NEW p \in Procs, Create(p)
  PROVE  IInv'
<1> USE DEF IInv, TypeOK, Labels
<1>1. PICK s \in Sems, n \in 0..MaxInit :
        /\ used' = [used EXCEPT ![s] = TRUE]
        /\ total' = total - pend[s] /\ pend' = [pend EXCEPT ![s] = 0]
        /\ on' = [on EXCEPT ![p] = s] /\ left' = [left EXCEPT ![p] = n]
        /\ credit' = [credit EXCEPT ![s] = n]
  BY DEF Create
<1>2. /\ pc' = [pc EXCEPT ![p] = "drain"] /\ creates' = creates + 1
      /\ creates < MaxCreate /\ UNCHANGED <<cnt, owner, nest, gives>>
  BY DEF Create, Go, critvars
<1>3. pend' \in [Sems -> Nat] /\ total' \in Nat /\ TotalIsSum'
  BY <1>1, TotalClear
<1>4. TypeOK'
  BY <1>1, <1>2, <1>3, BoundsAssumption, SMT
<1>5. InPool' /\ Nesting'
  BY <1>1, <1>2, SMT DEF InPool, Nesting
<1>6. QED  BY <1>3, <1>4, <1>5

LEMMA DeleteInv ==
  ASSUME IInv, NEW p \in Procs, Delete(p)
  PROVE  IInv'
<1> USE DEF IInv, TypeOK
<1>1. PICK s \in Sems :
        /\ used' = [used EXCEPT ![s] = FALSE]
        /\ total' = total - pend[s] /\ pend' = [pend EXCEPT ![s] = 0]
  BY DEF Delete
<1>2. UNCHANGED <<cnt, pc, on, left, owner, nest, credit, creates, gives>>
  BY DEF Delete, pvars, critvars, hvars
<1>3. pend' \in [Sems -> Nat] /\ total' \in Nat /\ TotalIsSum'
  BY <1>1, TotalClear
<1>4. TypeOK' /\ InPool' /\ Nesting'
  BY <1>1, <1>2, <1>3, SMT DEF InPool, Nesting
<1>5. QED  BY <1>3, <1>4

LEMMA DrainInv ==
  ASSUME IInv, NEW p \in Procs, Drain(p) \/ InitialGive(p) \/ CreateReturn(p)
  PROVE  IInv'
<1> USE DEF IInv, TypeOK, Labels
<1>1. pc[p] \in {"drain", "init"} /\ on[p] \in Sems
  BY DEF Drain, InitialGive, CreateReturn, At, InPool
<1>2. UNCHANGED <<used, pend, total, owner, nest, credit, creates, gives>>
  BY DEF Drain, InitialGive, CreateReturn, svars, critvars, hvars
<1>3. pend' \in [Sems -> Nat] /\ total' \in Nat /\ TotalIsSum'
  BY <1>2, TotalKept
<1>4. CASE Drain(p)
  <2>1. cnt' \in [Sems -> Nat] /\ UNCHANGED <<on, left>>
    BY <1>1, <1>4, SMT DEF Drain
  <2>2. pc' = pc \/ pc' = [pc EXCEPT ![p] = "init"]
    BY <1>4 DEF Drain, Go
  <2>3. TypeOK' /\ InPool' /\ Nesting'
    BY <1>1, <1>2, <1>3, <2>1, <2>2, SMT DEF InPool, Nesting
  <2>4. QED  BY <1>3, <2>3
<1>5. CASE InitialGive(p)
  <2>1. cnt' \in [Sems -> Nat] /\ left' \in [Procs -> 0..MaxInit]
    BY <1>1, <1>5, BoundsAssumption, SMT DEF InitialGive
  <2>2. UNCHANGED <<pc, on>>
    BY <1>5 DEF InitialGive
  <2>3. TypeOK' /\ InPool' /\ Nesting'
    BY <1>2, <1>3, <2>1, <2>2, SMT DEF InPool, Nesting
  <2>4. QED  BY <1>3, <2>3
<1>6. CASE CreateReturn(p)
  <2>1. /\ UNCHANGED <<cnt, left>>
        /\ pc' = [pc EXCEPT ![p] = "idle"] /\ on' = [on EXCEPT ![p] = NoSem]
    BY <1>6 DEF CreateReturn, Go, svars
  <2>2. TypeOK' /\ InPool' /\ Nesting'
    BY <1>2, <1>3, <2>1, SMT DEF InPool, Nesting
  <2>3. QED  BY <1>3, <2>2
<1>7. QED  BY <1>4, <1>5, <1>6

LEMMA HandedNat == ASSUME NEW s PROVE Handed(s) \in Int
BY SMT DEF Handed

LEMMA GiveInv ==
  ASSUME IInv, NEW p \in Procs, Give(p)
  PROVE  IInv'
<1> USE DEF IInv, TypeOK, Labels
<1>1. pc[p] = "idle" /\ UNCHANGED <<used, pend, total, left, owner, nest, creates>>
  BY DEF Give, At, critvars
<1>2. PICK s \in Sems : CountGive(s, Handed(s)) /\ SigSem(p, s, "idle", NoSem)
  BY DEF Give
<1>3. /\ cnt' \in [Sems -> Nat] /\ pc' \in [Procs -> Labels]
      /\ on' \in [Procs -> Sems \cup {NoSem}]
      /\ pc'[p] = "idle"
      /\ \A q \in Procs \ {p} :
              \/ pc'[q] = pc[q] /\ on'[q] = on[q]
              \/ pc[q] \in Waiting /\ pc'[q] = "idle"
  <2>1. pc[p] \notin Waiting
    BY <1>1 DEF Waiting
  <2>2. QED  BY <1>2, <2>1, SigSemType
<1>4. credit' \in [Sems -> Int] /\ gives' \in 0..MaxGive
  BY <1>2, HandedNat, BoundsAssumption, SMT DEF CountGive
<1>5. pend' \in [Sems -> Nat] /\ total' \in Nat /\ TotalIsSum'
  BY <1>1, TotalKept
<1>6. TypeOK' /\ Nesting'
  BY <1>1, <1>3, <1>4, <1>5 DEF Nesting
<1>7. InPool'
  BY <1>3, SMT DEF InPool
<1>8. QED  BY <1>5, <1>6, <1>7

LEMMA GiveMaskedInv ==
  ASSUME IInv, NEW p \in Procs, GiveMasked(p)
  PROVE  IInv'
<1> USE DEF IInv, TypeOK
<1>1. PICK s \in Sems : CountGive(s, 0) /\ pend' = [pend EXCEPT ![s] = @ + 1]
  BY DEF GiveMasked
<1>2. total' = total + 1 /\ UNCHANGED <<cnt, used, pc, on, left, owner, nest, creates>>
  BY DEF GiveMasked, pvars, critvars
<1>3. pend' \in [Sems -> Nat] /\ total' \in Nat /\ TotalIsSum'
  BY <1>1, <1>2, TotalAdd
<1>4. credit' \in [Sems -> Int] /\ gives' \in 0..MaxGive
  BY <1>1, BoundsAssumption, SMT DEF CountGive
<1>5. TypeOK' /\ InPool' /\ Nesting'
  BY <1>2, <1>3, <1>4, SMT DEF InPool, Nesting
<1>6. QED  BY <1>3, <1>5

LEMMA TakeInv ==
  ASSUME IInv, NEW p \in Procs, Take(p) \/ TakeTimeout(p)
  PROVE  IInv'
<1> USE DEF IInv, TypeOK, Labels
<1>1. UNCHANGED <<used, pend, total, left, owner, nest, creates, gives>>
  BY DEF Take, TakeTimeout, svars, critvars, hvars
<1>2. pend' \in [Sems -> Nat] /\ total' \in Nat /\ TotalIsSum'
  BY <1>1, TotalKept
<1>3. CASE Take(p)
  <2>1. PICK s \in Sems :
           \/ /\ cnt[s] > 0
              /\ cnt' = [cnt EXCEPT ![s] = @ - 1]
              /\ credit' = [credit EXCEPT ![s] = @ - 1]
              /\ UNCHANGED <<pc, on>>
           \/ /\ \E l \in Waiting : pc' = [pc EXCEPT ![p] = l]
              /\ on' = [on EXCEPT ![p] = s]
              /\ UNCHANGED <<cnt, credit>>
    BY <1>3 DEF Take, Go
  <2>2. cnt' \in [Sems -> Nat] /\ credit' \in [Sems -> Int]
    BY <2>1, SMT
  <2>3. pc' \in [Procs -> Labels] /\ on' \in [Procs -> Sems \cup {NoSem}] /\ InPool'
    BY <2>1, SMT DEF InPool, Waiting
  <2>4. QED  BY <1>1, <1>2, <2>2, <2>3 DEF Nesting
<1>4. CASE TakeTimeout(p)
  <2>1. /\ pc' = [pc EXCEPT ![p] = "idle"] /\ on' = [on EXCEPT ![p] = NoSem]
        /\ UNCHANGED <<cnt, credit>>
    BY <1>4 DEF TakeTimeout, Go, svars, hvars
  <2>2. TypeOK' /\ InPool' /\ Nesting'
    BY <1>1, <1>2, <2>1, SMT DEF InPool, Nesting
  <2>3. QED  BY <1>2, <2>2
<1>5. QED  BY <1>3, <1>4

LEMMA CriticalInv ==
  ASSUME IInv, NEW p \in Procs, EnterCritical(p) \/ ExitCritical(p)
  PROVE  IInv'
<1> USE DEF IInv, TypeOK, Labels
<1>1. UNCHANGED <<cnt, used, pend, total, on, left, credit, creates, gives>>
  BY DEF EnterCritical, ExitCritical, svars, pvars, hvars
<1>2. pend' \in [Sems -> Nat] /\ total' \in Nat /\ TotalIsSum'
  BY <1>1, TotalKept
<1>3. p # NoProc
  BY ProcsAssumption
<1>4. CASE EnterCritical(p)
  <2>1. nest' = nest + 1 /\ nest < MaxNest /\ owner' = p /\ pc' = pc
    BY <1>4 DEF EnterCritical, pvars
  <2>2. TypeOK' /\ InPool' /\ Nesting'
    BY <1>1, <1>2, <1>3, <2>1, BoundsAssumption, SMT DEF InPool, Nesting
  <2>3. QED  BY <1>2, <2>2
<1>5. CASE ExitCritical(p)
  <2>1. /\ owner = p /\ nest' = nest - 1
        /\ \/ nest = 1 /\ owner' = NoProc /\ pc' = [pc EXCEPT ![p] = "flush"]
           \/ nest > 1 /\ owner' = owner /\ pc' = pc
    BY <1>5 DEF ExitCritical, Masked, Go
  <2>2. TypeOK' /\ InPool' /\ Nesting'
    BY <1>1, <1>2, <1>3, <2>1, BoundsAssumption, SMT DEF InPool, Nesting
  <2>3. QED  BY <1>2, <2>2
<1>6. QED  BY <1>4, <1>5

LEMMA FlushInv ==
  ASSUME IInv, NEW p \in Procs, FlushStart(p) \/ FlushNext(p)
  PROVE  IInv'
<1> USE DEF IInv, TypeOK, Labels
<1>1. UNCHANGED <<cnt, used, pend, total, left, owner, nest, credit, creates, gives>>
  BY DEF FlushStart, FlushNext, svars, critvars, hvars
<1>2. pend' \in [Sems -> Nat] /\ total' \in Nat /\ TotalIsSum'
  BY <1>1, TotalKept
<1>3. pc' \in [Procs -> Labels] /\ on' \in [Procs -> Sems \cup {NoSem}] /\ InPool'
  <2>1. CASE FlushStart(p)
    BY <2>1, SemsNumbered, SMT DEF FlushStart, Go, InPool
  <2>2. CASE FlushNext(p)
    <3>1. pc[p] = "pop" /\ on[p] \in Sems
      BY <2>2 DEF FlushNext, At, InPool
    <3>2. on[p] < NumSem => on[p] + 1 \in Sems
      BY <3>1, SemsOrder
    <3>3. CASE on[p] < NumSem /\ on' = [on EXCEPT ![p] = on[p] + 1] /\ pc' = pc
      <4>1. on' \in [Procs -> Sems \cup {NoSem}] /\ on'[p] \in Sems
        BY <3>2, <3>3
      <4>2. \A q \in Procs \ {p} : on'[q] = on[q]
        BY <3>3
      <4>3. QED  BY <3>3, <4>1, <4>2 DEF InPool
    <3>4. CASE on' = [on EXCEPT ![p] = NoSem] /\ pc' = [pc EXCEPT ![p] = "idle"]
      BY <3>4, SMT DEF InPool
    <3>5. QED  BY <2>2, <3>1, <3>3, <3>4 DEF FlushNext, Go
  <2>3. QED  BY <2>1, <2>2
<1>4. QED  BY <1>1, <1>2, <1>3 DEF Nesting

LEMMA FlushPopInv ==
  ASSUME IInv, NEW p \in Procs, FlushPop(p)
  PROVE  IInv'
<1> USE DEF IInv, TypeOK, Labels
<1>1. pc[p] = "pop" /\ on[p] \in Sems /\ pend[on[p]] > 0
  BY DEF FlushPop, At, InPool
<1>2. /\ pend' = [pend EXCEPT ![on[p]] = @ - 1] /\ total' = total - 1
      /\ pc' = [pc EXCEPT ![p] = "sig"]
      /\ UNCHANGED <<cnt, used, on, left, owner, nest, credit, creates, gives>>
  BY DEF FlushPop, Go, critvars, hvars
<1>3. pend' \in [Sems -> Nat] /\ total' \in Nat /\ TotalIsSum'
  BY <1>1, <1>2, TotalRemove
<1>4. TypeOK' /\ InPool' /\ Nesting'
  BY <1>1, <1>2, <1>3, SMT DEF InPool, Nesting
<1>5. QED  BY <1>3, <1>4

LEMMA FlushSignalInv ==
  ASSUME IInv, NEW p \in Procs, FlushSignal(p)
  PROVE  IInv'
<1> USE DEF IInv, TypeOK, Labels
<1>1. pc[p] = "sig" /\ on[p] \in Sems
  BY DEF FlushSignal, At, InPool
<1>2. /\ credit' = [credit EXCEPT ![on[p]] = @ - Handed(on[p])]
      /\ SigSem(p, on[p], "pop", on[p])
      /\ UNCHANGED <<used, pend, total, left, owner, nest, creates, gives>>
  BY DEF FlushSignal, critvars
<1>3. /\ cnt' \in [Sems -> Nat] /\ pc' \in [Procs -> Labels]
      /\ on' \in [Procs -> Sems \cup {NoSem}]
      /\ pc'[p] = "pop" /\ on'[p] = on[p]
      /\ \A q \in Procs \ {p} :
              \/ pc'[q] = pc[q] /\ on'[q] = on[q]
              \/ pc[q] \in Waiting /\ pc'[q] = "idle"
  <2>1. pc[p] \notin Waiting
    BY <1>1 DEF Waiting
  <2>2. QED  BY <1>1, <1>2, <2>1, SigSemType
<1>4. credit' \in [Sems -> Int]
  BY <1>1, <1>2, HandedNat, SMT
<1>5. pend' \in [Sems -> Nat] /\ total' \in Nat /\ TotalIsSum'
  BY <1>2, TotalKept
<1>6. TypeOK' /\ Nesting'
  BY <1>2, <1>3, <1>4, <1>5 DEF Nesting
<1>7. InPool'
  BY <1>1, <1>3, SMT DEF InPool
<1>8. QED  BY <1>5, <1>6, <1>7

LEMMA StutterInv ==
  ASSUME IInv, UNCHANGED vars
  PROVE  IInv'
<1>1. UNCHANGED <<cnt, used, pend, total, pc, on, left, owner, nest, credit, creates, gives>>
  BY DEF vars, svars, pvars, critvars, hvars
<1>2. TotalIsSum'
  BY <1>1, TotalKept
<1>3. QED  BY <1>1, <1>2 DEF IInv, TypeOK, InPool, Nesting

LEMMA NextInv == IInv /\ [Next]_vars => IInv'
<1> SUFFICES ASSUME IInv, [Next]_vars PROVE IInv'
  OBVIOUS
<1>1. CASE UNCHANGED vars
  BY <1>1, StutterInv
<1>2. ASSUME NEW p \in Procs, Work(p) \/ ExitCritical(p) \/ Call(p)
      PROVE  IInv'
  BY <1>2, CreateInv, DeleteInv, DrainInv, GiveInv, GiveMaskedInv, TakeInv,
     CriticalInv, FlushInv, FlushPopInv, FlushSignalInv DEF Work, Call
<1>3. QED  BY <1>1, <1>2 DEF Next

LEMMA InvHolds == Spec => []IInv
BY InitInv, NextInv, PTL DEF Spec

\* Type correctness: no call leaves a count, a label or an index outside its
\* range, whatever the contexts and their priorities; shim_sem_pend_total never
\* goes below zero.
THEOREM TypeCorrect == Spec => []TypeOK
<1>1. IInv => TypeOK
  BY DEF IInv
<1>2. QED  BY <1>1, InvHolds, PTL

\* shim_sem_pend_total is the number of pending gives at every point where the
\* flush can read it without the lock (esp_shim_core.c:358).
THEOREM TotalsAgree == Spec => []TotalIsSum
<1>1. IInv => TotalIsSum
  BY DEF IInv
<1>2. QED  BY <1>1, InvHolds, PTL

-----------------------------------------------------------------------------
(* A pending give has somebody who repays it.                              *)

\* p will still come to the pending gives of s.
Covers(p, s) == pc[p] = "flush" \/ (pc[p] \in {"pop", "sig"} /\ on[p] <= s)

LEMMA StrandedByCover ==
  NoStrandedGive <=>
    \A s \in Sems : pend[s] > 0 => owner # NoProc \/ \E p \in Procs : Covers(p, s)
BY DEF NoStrandedGive, Covers

LEMMA StrandedByCoverPrime ==
  NoStrandedGive' <=>
    \A s \in Sems : pend'[s] > 0 => owner' # NoProc \/ \E p \in Procs : Covers(p, s)'
BY DEF NoStrandedGive, Covers

\* Enough for a step: no give becomes pending, no critical section ends, and
\* every context goes on covering what it covered.
LEMMA CoverKept ==
  ASSUME NoStrandedGive, owner' = owner,
         \A s \in Sems : pend'[s] > 0 => pend[s] > 0,
         \A s \in Sems, p \in Procs : pend'[s] > 0 /\ Covers(p, s) => Covers(p, s)'
  PROVE  NoStrandedGive'
BY StrandedByCover, StrandedByCoverPrime

\* A total of zero is read only when no give is pending.
LEMMA ZeroTotal ==
  ASSUME IInv, total = 0, NEW s \in Sems
  PROVE  pend[s] = 0
<1>1. Cardinality(Pairs(pend)) = 0 /\ pend \in [Sems -> Nat]
  BY PendingArePairs DEF IInv, TypeOK, TotalIsSum
<1>2. pend[s] <= Cardinality(Pairs(pend))
  BY <1>1, PairsClear
<1>3. pend[s] \in Nat
  BY <1>1
<1>4. QED  BY <1>1, <1>2, <1>3, SMT

LEMMA StrandedNext == IInv /\ NoStrandedGive /\ [Next]_vars => NoStrandedGive'
<1> SUFFICES ASSUME IInv, NoStrandedGive, [Next]_vars PROVE NoStrandedGive'
  OBVIOUS
<1> USE DEF IInv, TypeOK, Labels
<1>1. CASE UNCHANGED vars
  BY <1>1 DEF vars, svars, pvars, critvars, NoStrandedGive
<1>2. ASSUME NEW p \in Procs, Create(p) PROVE NoStrandedGive'
  <2>1. /\ pc[p] = "idle" /\ pc' = [pc EXCEPT ![p] = "drain"] /\ owner' = owner
        /\ \E s \in Sems : pend' = [pend EXCEPT ![s] = 0] /\ on' = [on EXCEPT ![p] = s]
    BY <1>2 DEF Create, At, Go, critvars
  <2>2. \A s \in Sems : pend'[s] > 0 => pend[s] > 0
    BY <2>1, SMT
  <2>3. \A s \in Sems, q \in Procs : Covers(q, s) => Covers(q, s)'
    BY <2>1, SMT DEF Covers
  <2>4. QED  BY <2>1, <2>2, <2>3, CoverKept
<1>3. ASSUME NEW p \in Procs, Delete(p) PROVE NoStrandedGive'
  <2>1. /\ UNCHANGED <<pc, on, owner>>
        /\ \E s \in Sems : pend' = [pend EXCEPT ![s] = 0]
    BY <1>3 DEF Delete, pvars, critvars
  <2>2. \A s \in Sems : pend'[s] > 0 => pend[s] > 0
    BY <2>1, SMT
  <2>3. QED  BY <2>1, <2>2, CoverKept DEF Covers
<1>4. ASSUME NEW p \in Procs, Drain(p) \/ InitialGive(p) \/ CreateReturn(p)
      PROVE  NoStrandedGive'
  <2>1. /\ pc[p] \in {"drain", "init"} /\ UNCHANGED <<pend, owner>>
        /\ \A q \in Procs \ {p} : pc'[q] = pc[q] /\ on'[q] = on[q]
    BY <1>4, SMT DEF Drain, InitialGive, CreateReturn, At, Go, svars, critvars
  <2>2. \A s \in Sems, q \in Procs : Covers(q, s) => Covers(q, s)'
    BY <2>1, SMT DEF Covers
  <2>3. QED  BY <2>1, <2>2, CoverKept
<1>5. ASSUME NEW p \in Procs, Give(p) \/ FlushSignal(p) PROVE NoStrandedGive'
  <2>1. PICK s \in Sems, l \in Labels, o \in Sems \cup {NoSem} :
          /\ SigSem(p, s, l, o)
          /\ \/ pc[p] = "idle"
             \/ pc[p] = "sig" /\ l = "pop" /\ o = on[p]
    BY <1>5 DEF Give, FlushSignal, At, InPool
  <2>2. UNCHANGED <<pend, owner>>
    BY <1>5 DEF Give, FlushSignal, critvars
  <2>3. /\ pc'[p] = l /\ on'[p] = o
        /\ \A q \in Procs \ {p} :
              \/ pc'[q] = pc[q] /\ on'[q] = on[q]
              \/ pc[q] \in Waiting /\ pc'[q] = "idle"
    <3>1. pc[p] \notin Waiting
      BY <2>1 DEF Waiting
    <3>2. QED  BY <2>1, <3>1, SigSemType
  <2>4. \A r \in Sems, q \in Procs : Covers(q, r) => Covers(q, r)'
    BY <2>1, <2>3 DEF Covers, Waiting
  <2>5. QED  BY <2>2, <2>4, CoverKept
<1>6. ASSUME NEW p \in Procs, GiveMasked(p) PROVE NoStrandedGive'
  <2>1. owner' = p
    BY <1>6 DEF GiveMasked, Masked, critvars
  <2>2. QED  BY <2>1, ProcsAssumption, StrandedByCoverPrime
<1>7. ASSUME NEW p \in Procs, Take(p) \/ TakeTimeout(p) PROVE NoStrandedGive'
  <2>1. /\ pc[p] \in {"idle", "wait_timed"} /\ UNCHANGED <<pend, owner>>
        /\ \A q \in Procs \ {p} : pc'[q] = pc[q] /\ on'[q] = on[q]
    BY <1>7, SMT DEF Take, TakeTimeout, At, Go, svars, critvars
  <2>2. \A s \in Sems, q \in Procs : Covers(q, s) => Covers(q, s)'
    BY <2>1, SMT DEF Covers
  <2>3. QED  BY <2>1, <2>2, CoverKept
<1>8. ASSUME NEW p \in Procs, EnterCritical(p) PROVE NoStrandedGive'
  <2>1. owner' = p
    BY <1>8 DEF EnterCritical
  <2>2. QED  BY <2>1, ProcsAssumption, StrandedByCoverPrime
<1>9. ASSUME NEW p \in Procs, ExitCritical(p) PROVE NoStrandedGive'
  <2>1. owner = p /\ (pc' = [pc EXCEPT ![p] = "flush"] \/ owner' = owner)
    BY <1>9 DEF ExitCritical, Masked, Go
  <2>2. CASE owner' = owner
    BY <2>1, <2>2, ProcsAssumption, StrandedByCoverPrime
  <2>3. CASE pc' = [pc EXCEPT ![p] = "flush"]
    <3>1. \A s \in Sems : Covers(p, s)'
      BY <2>3 DEF Covers
    <3>2. QED  BY <3>1, StrandedByCoverPrime
  <2>4. QED  BY <2>1, <2>2, <2>3
<1>10. ASSUME NEW p \in Procs, FlushStart(p) PROVE NoStrandedGive'
  <2>1. UNCHANGED <<pend, owner>>
    BY <1>10 DEF FlushStart, svars, critvars
  <2>2. CASE total = 0
    <3>1. \A s \in Sems : ~(pend'[s] > 0)
      BY <2>1, <2>2, ZeroTotal, SMT
    <3>2. QED  BY <3>1, StrandedByCoverPrime
  <2>3. CASE pc' = [pc EXCEPT ![p] = "pop"] /\ on' = [on EXCEPT ![p] = 1]
    <3>1. \A s \in Sems, q \in Procs : Covers(q, s) => Covers(q, s)'
      BY <2>3, SemsNumbered, SMT DEF Covers
    <3>2. QED  BY <2>1, <3>1, CoverKept
  <2>4. QED  BY <1>10, <2>2, <2>3 DEF FlushStart, Go
<1>11. ASSUME NEW p \in Procs, FlushPop(p) PROVE NoStrandedGive'
  <2>1. /\ pc[p] = "pop" /\ on[p] \in Sems /\ pend[on[p]] > 0
        /\ pend' = [pend EXCEPT ![on[p]] = @ - 1]
        /\ pc' = [pc EXCEPT ![p] = "sig"] /\ UNCHANGED <<on, owner>>
    BY <1>11 DEF FlushPop, At, Go, InPool, critvars
  <2>2. \A s \in Sems : pend'[s] > 0 => pend[s] > 0
    BY <2>1, SMT
  <2>3. \A s \in Sems, q \in Procs : Covers(q, s) => Covers(q, s)'
    BY <2>1, SMT DEF Covers
  <2>4. QED  BY <2>1, <2>2, <2>3, CoverKept
\* The loop index moves only past an entry with nothing pending.
<1>12. ASSUME NEW p \in Procs, FlushNext(p) PROVE NoStrandedGive'
  <2>1. /\ pc[p] = "pop" /\ on[p] \in Sems /\ pend[on[p]] = 0 /\ UNCHANGED <<pend, owner>>
        /\ \A q \in Procs \ {p} : pc'[q] = pc[q] /\ on'[q] = on[q]
        /\ \/ on[p] = NumSem
           \/ on'[p] = on[p] + 1 /\ pc'[p] = pc[p]
    BY <1>12, SMT DEF FlushNext, At, Go, InPool, svars, critvars
  <2>2. \A s \in Sems : pend[s] > 0 /\ Covers(p, s) => Covers(p, s)'
    <3> TAKE s \in Sems
    <3>1. s \in Nat /\ s <= NumSem /\ on[p] \in Nat
      BY <2>1, SemsOrder
    <3>2. CASE on[p] = NumSem
      BY <2>1, <3>1, <3>2, SMT DEF Covers
    <3>3. CASE on'[p] = on[p] + 1 /\ pc'[p] = pc[p]
      BY <2>1, <3>1, <3>3, SMT DEF Covers
    <3>4. QED  BY <2>1, <3>2, <3>3
  <2>3. \A s \in Sems, q \in Procs : pend'[s] > 0 /\ Covers(q, s) => Covers(q, s)'
    BY <2>1, <2>2, SMT DEF Covers
  <2>4. QED  BY <2>1, <2>3, CoverKept
<1>13. QED
  BY <1>1, <1>2, <1>3, <1>4, <1>5, <1>6, <1>7, <1>8, <1>9, <1>10, <1>11, <1>12
  DEF Next, Work, Call

\* No give that was reported as made is forgotten in shim_sem_pend: the section
\* that made it pending is open, or a flush that has still to pass its entry is
\* under way (esp_shim_core.c:353-374).
THEOREM GivesNotStranded == Spec => []NoStrandedGive
<1>1. Init => NoStrandedGive
  BY SMT DEF Init, NoStrandedGive
<1>2. QED  BY <1>1, InvHolds, StrandedNext, PTL DEF Spec
-----------------------------------------------------------------------------
(* Conservation of gives.  It needs what the run assumes too: a context    *)
(* that creates and deletes is less urgent than every other that flushes,  *)
(* so that no flush stands between FlushPop and FlushSignal meanwhile.     *)
(* Without that a flush repays a give to the entry's next user; the run    *)
(* of NoGhostGive shows it.                                                *)

OwnersYield ==
  \A d \in Procs : Ops[d] \cap {"create", "delete"} # {} =>
    /\ d \in Tasks
    /\ \A q \in Procs \ {d} : "critical" \in Ops[q] => q \in Isrs \/ Prio[q] < Prio[d]

Creating == {"drain", "init"}
Flushing == {"flush", "pop", "sig"}

\* Only contexts that use critical sections mask and flush.
FlushersOK ==
  /\ owner # NoProc => "critical" \in Ops[owner]
  /\ \A p \in Procs : pc[p] \in Flushing => "critical" \in Ops[p]

\* A creator has its entry for itself, with nothing pending; the account of its user is
\* what it still has to give, and what it has given.
CreatorsOK ==
  \A p \in Procs : pc[p] \in Creating =>
    /\ used[on[p]] /\ pend[on[p]] = 0
    /\ \A q \in Procs \ {p} : pc[q] \in Creating => on[q] # on[p]
    /\ pc[p] = "drain" => credit[on[p]] = left[p]
    /\ pc[p] = "init" => credit[on[p]] = cnt[on[p]] + left[p]

\* Gives are pending or under way, and tasks wait, only at entries that users hold.
UsersOK ==
  /\ \A p \in Procs : pc[p] = "sig" \/ pc[p] \in Waiting => on[p] \in Sems /\ Live(on[p])
  /\ \A p \in Procs : pc[p] \in Waiting => p \in Tasks
  /\ \A s \in Sems : pend[s] > 0 => Live(s)

GInv == IInv /\ FlushersOK /\ CreatorsOK /\ UsersOK /\ GiveConservation

\* The gives under way to s, from who is on the way.
LEMMA FlightSame ==
  ASSUME NEW s, \A q \in Procs : (pc'[q] = "sig" /\ on'[q] = s) <=> (pc[q] = "sig" /\ on[q] = s)
  PROVE  InFlight(s)' = InFlight(s)
<1>1. {q \in Procs : pc'[q] = "sig" /\ on'[q] = s} = {q \in Procs : pc[q] = "sig" /\ on[q] = s}
  OBVIOUS
<1>2. QED  BY <1>1 DEF InFlight

LEMMA FlightNone ==
  ASSUME NEW s, \A q \in Procs : ~ (pc[q] = "sig" /\ on[q] = s)
  PROVE  InFlight(s) = 0
<1>1. {q \in Procs : pc[q] = "sig" /\ on[q] = s} = {}
  OBVIOUS
<1>2. QED  BY <1>1, FS_EmptySet DEF InFlight

LEMMA FlightFinite ==
  ASSUME NEW s
  PROVE  InFlight(s) \in Nat
<1>1. IsFiniteSet({q \in Procs : pc[q] = "sig" /\ on[q] = s})
  <2>1. {q \in Procs : pc[q] = "sig" /\ on[q] = s} \subseteq Procs
    OBVIOUS
  <2>2. QED  BY <2>1, ProcsAssumption, FS_Subset
<1>2. QED  BY <1>1, FS_CardinalityType DEF InFlight

LEMMA FlightMore ==
  ASSUME NEW s, NEW p \in Procs, pc[p] # "sig", pc'[p] = "sig", on'[p] = s,
         \A q \in Procs \ {p} :
           (pc'[q] = "sig" /\ on'[q] = s) <=> (pc[q] = "sig" /\ on[q] = s)
  PROVE  InFlight(s)' = InFlight(s) + 1
<1>1. PICK F : F = {q \in Procs : pc[q] = "sig" /\ on[q] = s}
  OBVIOUS
<1>2. F \subseteq Procs /\ p \notin F
  BY <1>1
<1>3. IsFiniteSet(F)
  BY <1>2, ProcsAssumption, FS_Subset
<1>4. {q \in Procs : pc'[q] = "sig" /\ on'[q] = s} = F \cup {p}
  BY <1>1
<1>5. Cardinality(F \cup {p}) = Cardinality(F) + 1
  BY <1>2, <1>3, FS_AddElement
<1>6. QED  BY <1>1, <1>4, <1>5 DEF InFlight

LEMMA FlightLess ==
  ASSUME NEW s, NEW p \in Procs, pc[p] = "sig", on[p] = s, pc'[p] # "sig",
         \A q \in Procs \ {p} :
           (pc'[q] = "sig" /\ on'[q] = s) <=> (pc[q] = "sig" /\ on[q] = s)
  PROVE  InFlight(s)' + 1 = InFlight(s)
<1>1. PICK F : F = {q \in Procs : pc'[q] = "sig" /\ on'[q] = s}
  OBVIOUS
<1>2. F \subseteq Procs /\ p \notin F
  BY <1>1
<1>3. IsFiniteSet(F)
  BY <1>2, ProcsAssumption, FS_Subset
<1>4. {q \in Procs : pc[q] = "sig" /\ on[q] = s} = F \cup {p}
  BY <1>1
<1>5. Cardinality(F \cup {p}) = Cardinality(F) + 1
  BY <1>2, <1>3, FS_AddElement
<1>6. QED  BY <1>1, <1>4, <1>5 DEF InFlight

\* Creators are where they were, and so is what users hold.
LEMMA CreatorsKept ==
  ASSUME GInv, used' = used,
         \A q \in Procs : pc'[q] \in Creating <=> pc[q] \in Creating,
         \A q \in Procs : pc[q] \in Creating =>
           /\ pc'[q] = pc[q] /\ on'[q] = on[q] /\ left'[q] = left[q]
           /\ cnt'[on[q]] = cnt[on[q]] /\ credit'[on[q]] = credit[on[q]]
           /\ pend'[on[q]] = pend[on[q]]
  PROVE  CreatorsOK' /\ \A s : Live(s)' <=> Live(s)
<1>1. CreatorsOK'
  <2>1. ASSUME NEW p \in Procs, pc'[p] \in Creating
        PROVE  /\ used'[on'[p]] /\ pend'[on'[p]] = 0
               /\ \A q \in Procs \ {p} : pc'[q] \in Creating => on'[q] # on'[p]
               /\ pc'[p] = "drain" => credit'[on'[p]] = left'[p]
               /\ pc'[p] = "init" => credit'[on'[p]] = cnt'[on'[p]] + left'[p]
    <3>1. /\ pc[p] \in Creating /\ pc'[p] = pc[p] /\ on'[p] = on[p] /\ left'[p] = left[p]
          /\ cnt'[on[p]] = cnt[on[p]] /\ credit'[on[p]] = credit[on[p]]
          /\ pend'[on[p]] = pend[on[p]]
      BY <2>1
    <3>2. /\ used[on[p]] /\ pend[on[p]] = 0
          /\ \A q \in Procs \ {p} : pc[q] \in Creating => on[q] # on[p]
          /\ pc[p] = "drain" => credit[on[p]] = left[p]
          /\ pc[p] = "init" => credit[on[p]] = cnt[on[p]] + left[p]
      BY <3>1 DEF GInv, CreatorsOK
    <3>3. QED  BY <3>1, <3>2
  <2>2. QED  BY <2>1 DEF CreatorsOK
<1>2. QED  BY <1>1 DEF Live, Creating

\* A creator's semaphore is not yet a user's.
LEMMA CreatorsNotLive ==
  ASSUME NEW q \in Procs, pc[q] \in Creating
  PROVE  ~Live(on[q])
BY DEF Live, Creating

\* While a context that creates and deletes runs outside its calls, nobody is in a flush.
LEMMA NoFlushMeanwhile ==
  ASSUME OwnersYield, GInv, NEW p \in Procs, Ops[p] \cap {"create", "delete"} # {}, At(p, "idle")
  PROVE  \A q \in Procs : pc[q] # "sig"
<1> SUFFICES ASSUME NEW q \in Procs, pc[q] = "sig" PROVE FALSE
  OBVIOUS
<1>1. "critical" \in Ops[q]
  BY DEF GInv, FlushersOK, Flushing
<1>2. p \in Tasks /\ q # p /\ (q \in Isrs \/ Prio[q] < Prio[p])
  BY <1>1 DEF OwnersYield, At
<1>3. /\ \A i \in Isrs : pc[i] = "idle"
      /\ \A r \in Tasks : Prio[r] < Prio[p] => Suspended(r)
  BY <1>2 DEF At, CanRun
<1>4. q \in Isrs \/ Suspended(q)
  BY <1>2, <1>3 DEF Procs
<1>5. QED  BY <1>3, <1>4 DEF Suspended, Waiting

LEMMA CreateG ==
  ASSUME OwnersYield, GInv, IInv', NEW p \in Procs, Create(p)
  PROVE  GInv'
<1>1. PICK s \in Sems, n \in 0..MaxInit :
        /\ ~used[s] /\ used' = [used EXCEPT ![s] = TRUE]
        /\ pend' = [pend EXCEPT ![s] = 0]
        /\ on' = [on EXCEPT ![p] = s] /\ left' = [left EXCEPT ![p] = n]
        /\ credit' = [credit EXCEPT ![s] = n]
  BY DEF Create, FirstFree
<1>2. /\ At(p, "idle") /\ pc[p] = "idle" /\ pc' = [pc EXCEPT ![p] = "drain"]
      /\ cnt' = cnt /\ owner' = owner /\ Ops[p] \cap {"create", "delete"} # {}
  BY DEF Create, Go, critvars, At
<1>3. \A q \in Procs : pc[q] # "sig"
  BY <1>2, NoFlushMeanwhile
<1>4. /\ pc \in [Procs -> Labels] /\ on \in [Procs -> Sems \cup {NoSem}]
      /\ used \in [Sems -> BOOLEAN] /\ pend \in [Sems -> Nat] /\ credit \in [Sems -> Int]
      /\ left \in [Procs -> 0..MaxInit] /\ cnt \in [Sems -> Nat]
  BY DEF GInv, IInv, TypeOK
<1>5. /\ pc'[p] = "drain" /\ on'[p] = s /\ left'[p] = n
      /\ \A q \in Procs \ {p} : pc'[q] = pc[q] /\ on'[q] = on[q] /\ left'[q] = left[q]
      /\ used'[s] = TRUE /\ pend'[s] = 0 /\ credit'[s] = n
      /\ \A r \in Sems \ {s} : used'[r] = used[r] /\ pend'[r] = pend[r] /\ credit'[r] = credit[r]
  BY <1>1, <1>2, <1>4
<1>6. /\ ~Live(s) /\ ~Live(s)'
      /\ \A r \in Sems \ {s} : Live(r)' <=> Live(r)
  BY <1>1, <1>2, <1>5 DEF Live
<1>7. FlushersOK'
  BY <1>2, <1>5 DEF GInv, FlushersOK, Flushing
<1>8. CreatorsOK'
  <2>1. \A q \in Procs \ {p} : pc[q] \in Creating => on[q] \in Sems \ {s}
    BY <1>1, <1>4 DEF GInv, IInv, InPool, CreatorsOK, Creating
  <2>2. ASSUME NEW q \in Procs \ {p}, pc'[q] \in Creating
        PROVE  /\ used'[on'[q]] /\ pend'[on'[q]] = 0
               /\ \A r \in Procs \ {q} : pc'[r] \in Creating => on'[r] # on'[q]
               /\ pc'[q] = "drain" => credit'[on'[q]] = left'[q]
               /\ pc'[q] = "init" => credit'[on'[q]] = cnt'[on'[q]] + left'[q]
    <3>1. /\ pc[q] \in Creating /\ pc'[q] = pc[q] /\ on'[q] = on[q] /\ left'[q] = left[q]
          /\ on[q] \in Sems \ {s}
      BY <1>5, <2>1, <2>2
    <3>2. /\ used[on[q]] /\ pend[on[q]] = 0
          /\ \A r \in Procs \ {q} : pc[r] \in Creating => on[r] # on[q]
          /\ pc[q] = "drain" => credit[on[q]] = left[q]
          /\ pc[q] = "init" => credit[on[q]] = cnt[on[q]] + left[q]
      BY <3>1 DEF GInv, CreatorsOK
    <3>3. QED  BY <1>2, <1>5, <3>1, <3>2
  <2>3. \A q \in Procs \ {p} : pc'[q] \in Creating => on'[q] # s
    BY <1>5, <2>1
  <2>4. QED  BY <1>5, <2>2, <2>3 DEF CreatorsOK
<1>9. UsersOK'
  <2>1. ASSUME NEW q \in Procs, pc'[q] = "sig" \/ pc'[q] \in Waiting
        PROVE  on'[q] \in Sems /\ Live(on[q])' /\ (pc'[q] \in Waiting => q \in Tasks)
    <3>1. q # p /\ pc'[q] = pc[q] /\ on'[q] = on[q]
      BY <1>5, <2>1 DEF Waiting
    <3>2. on[q] \in Sems /\ Live(on[q]) /\ (pc[q] \in Waiting => q \in Tasks)
      BY <2>1, <3>1 DEF GInv, UsersOK
    <3>3. PICK r : r = on[q]
      OBVIOUS
    <3>4. r \in Sems \ {s} /\ Live(r)'
      BY <1>6, <3>2, <3>3
    <3>5. Live(on[q])'
      BY <3>1, <3>3, <3>4 DEF Live
    <3>6. QED  BY <3>1, <3>2, <3>5
  <2>2. \A r \in Sems : pend'[r] > 0 => Live(r)'
    BY <1>5, <1>6 DEF GInv, UsersOK
  <2>3. QED  BY <2>1, <2>2 DEF UsersOK
<1>10. GiveConservation'
  <2>1. ASSUME NEW r \in Sems, Live(r)'
        PROVE  credit'[r] = cnt'[r] + pend'[r] + InFlight(r)'
    <3>1. r \in Sems \ {s} /\ Live(r)
      BY <1>6, <2>1
    <3>2. InFlight(r)' = InFlight(r)
      <4>1. \A q \in Procs : (pc'[q] = "sig" /\ on'[q] = r) <=> (pc[q] = "sig" /\ on[q] = r)
        BY <1>3, <1>5
      <4>2. QED  BY <4>1, FlightSame
    <3>3. QED  BY <1>2, <1>5, <3>1, <3>2 DEF GInv, GiveConservation
  <2>2. QED  BY <2>1 DEF GiveConservation
<1>11. QED  BY <1>7, <1>8, <1>9, <1>10 DEF GInv

LEMMA DeleteG ==
  ASSUME OwnersYield, GInv, IInv', NEW p \in Procs, Delete(p)
  PROVE  GInv'
<1>1. PICK s \in Sems :
        /\ Live(s) /\ Waiters(s) = {}
        /\ used' = [used EXCEPT ![s] = FALSE] /\ pend' = [pend EXCEPT ![s] = 0]
  BY DEF Delete
<1>2. /\ At(p, "idle") /\ Ops[p] \cap {"create", "delete"} # {}
      /\ UNCHANGED <<cnt, pc, on, left, owner, credit>>
  BY DEF Delete, pvars, critvars, hvars
<1>3. \A q \in Procs : pc[q] # "sig"
  BY <1>2, NoFlushMeanwhile
<1>4. used \in [Sems -> BOOLEAN] /\ pend \in [Sems -> Nat]
  BY DEF GInv, IInv, TypeOK
<1>5. /\ used'[s] = FALSE /\ pend'[s] = 0
      /\ \A r \in Sems \ {s} : used'[r] = used[r] /\ pend'[r] = pend[r]
  BY <1>1, <1>4
<1>6. ~Live(s)' /\ \A r \in Sems \ {s} : Live(r)' <=> Live(r)
  BY <1>2, <1>5 DEF Live
<1>7. FlushersOK'
  BY <1>2 DEF GInv, FlushersOK
<1>8. CreatorsOK'
  <2>1. \A q \in Procs : pc[q] \in Creating => on[q] \in Sems \ {s}
    BY <1>1, CreatorsNotLive DEF GInv, IInv, InPool, Creating
  <2>2. QED  BY <1>2, <1>5, <2>1 DEF GInv, CreatorsOK
<1>9. UsersOK'
  <2>1. ASSUME NEW q \in Procs, pc'[q] = "sig" \/ pc'[q] \in Waiting
        PROVE  on'[q] \in Sems /\ Live(on[q])' /\ (pc'[q] \in Waiting => q \in Tasks)
    <3>1. on[q] \in Sems /\ Live(on[q]) /\ q \in Tasks /\ pc[q] \in Waiting
      BY <1>2, <1>3, <2>1 DEF GInv, UsersOK
    <3>2. PICK r : r = on[q]
      OBVIOUS
    <3>3. r \in Sems \ {s} /\ Live(r)'
      BY <1>1, <1>6, <3>1, <3>2 DEF Waiters
    <3>4. Live(on[q])'
      BY <1>2, <3>2, <3>3 DEF Live
    <3>5. QED  BY <1>2, <3>1, <3>4
  <2>2. \A r \in Sems : pend'[r] > 0 => Live(r)'
    BY <1>5, <1>6 DEF GInv, UsersOK
  <2>3. QED  BY <2>1, <2>2 DEF UsersOK
<1>10. GiveConservation'
  <2>1. ASSUME NEW r \in Sems, Live(r)'
        PROVE  credit'[r] = cnt'[r] + pend'[r] + InFlight(r)'
    <3>1. r \in Sems \ {s} /\ Live(r)
      BY <1>6, <2>1
    <3>2. InFlight(r)' = InFlight(r)
      BY <1>2, FlightSame
    <3>3. QED  BY <1>2, <1>5, <3>1, <3>2 DEF GInv, GiveConservation
  <2>2. QED  BY <2>1 DEF GiveConservation
<1>11. QED  BY <1>7, <1>8, <1>9, <1>10 DEF GInv

LEMMA DrainG ==
  ASSUME GInv, IInv', NEW p \in Procs, Drain(p) \/ InitialGive(p)
  PROVE  GInv'
<1>1. PICK s : s = on[p]
  OBVIOUS
<1>2. /\ pc[p] \in Creating /\ s \in Sems /\ ~Live(s)
      /\ used[s] /\ pend[s] = 0
      /\ \A q \in Procs \ {p} : pc[q] \in Creating => on[q] # s
      /\ pc[p] = "drain" => credit[s] = left[p]
      /\ pc[p] = "init" => credit[s] = cnt[s] + left[p]
  <2>1. pc[p] \in Creating /\ s \in Sems
    BY <1>1 DEF Drain, InitialGive, At, Creating, GInv, IInv, InPool
  <2>2. QED  BY <1>1, <2>1, CreatorsNotLive DEF GInv, CreatorsOK
<1>3. UNCHANGED <<used, pend, on, owner, credit>>
  BY DEF Drain, InitialGive, critvars, hvars
<1>4. /\ pc \in [Procs -> Labels] /\ cnt \in [Sems -> Nat] /\ left \in [Procs -> 0..MaxInit]
      /\ credit \in [Sems -> Int] /\ MaxInit \in Nat
  BY BoundsAssumption DEF GInv, IInv, TypeOK
<1>5. /\ \A q \in Procs \ {p} : pc'[q] = pc[q] /\ left'[q] = left[q]
      /\ \A r \in Sems \ {s} : cnt'[r] = cnt[r]
      /\ pc'[p] \in Creating
      /\ pc'[p] = "drain" => credit[s] = left'[p]
      /\ pc'[p] = "init" => credit[s] = cnt'[s] + left'[p]
  <2>1. CASE Drain(p)
    BY <1>1, <1>2, <1>4, <2>1 DEF Drain, At, Go, Creating
  <2>2. CASE InitialGive(p)
    <3>1. /\ pc[p] = "init" /\ left[p] > 0 /\ pc' = pc
          /\ left' = [left EXCEPT ![p] = left[p] - 1] /\ cnt' = [cnt EXCEPT ![s] = cnt[s] + 1]
      BY <1>1, <2>2 DEF InitialGive, At
    <3>2. left[p] \in Nat /\ cnt[s] \in Nat /\ credit[s] = cnt[s] + left[p]
      BY <1>2, <1>4, <3>1
    <3>3. left'[p] = left[p] - 1 /\ cnt'[s] = cnt[s] + 1
      BY <1>2, <1>4, <3>1
    <3>4. QED  BY <1>2, <1>4, <3>1, <3>2, <3>3
  <2>3. QED  BY <2>1, <2>2
<1>6. \A r : Live(r)' <=> Live(r)
  BY <1>2, <1>3, <1>5 DEF Live, Creating
<1>7. \A q \in Procs : (pc'[q] = "sig" <=> pc[q] = "sig") /\ (pc'[q] \in Waiting <=> pc[q] \in Waiting)
  BY <1>2, <1>5 DEF Creating, Waiting
<1>8. FlushersOK'
  BY <1>2, <1>3, <1>5 DEF GInv, FlushersOK, Creating, Flushing
<1>9. CreatorsOK'
  <2>1. \A q \in Procs \ {p} : pc[q] \in Creating => on[q] \in Sems \ {s}
    BY <1>2 DEF GInv, IInv, InPool, Creating
  <2>2. QED  BY <1>1, <1>2, <1>3, <1>5, <2>1 DEF GInv, CreatorsOK
<1>10. UsersOK'
  <2>1. ASSUME NEW q \in Procs, pc'[q] = "sig" \/ pc'[q] \in Waiting
        PROVE  on'[q] \in Sems /\ Live(on[q])' /\ (pc'[q] \in Waiting => q \in Tasks)
    <3>1. on[q] \in Sems /\ Live(on[q]) /\ (pc[q] \in Waiting => q \in Tasks)
      BY <1>7, <2>1 DEF GInv, UsersOK
    <3>2. PICK r : r = on[q]
      OBVIOUS
    <3>3. Live(on[q])'
      BY <1>3, <1>6, <3>1, <3>2 DEF Live
    <3>4. QED  BY <1>3, <1>7, <3>1, <3>3
  <2>2. \A r \in Sems : pend'[r] > 0 => Live(r)'
    BY <1>3, <1>6 DEF GInv, UsersOK
  <2>3. QED  BY <2>1, <2>2 DEF UsersOK
<1>11. GiveConservation'
  <2>1. ASSUME NEW r \in Sems, Live(r)'
        PROVE  credit'[r] = cnt'[r] + pend'[r] + InFlight(r)'
    <3>1. r \in Sems \ {s} /\ Live(r)
      BY <1>2, <1>6, <2>1
    <3>2. InFlight(r)' = InFlight(r)
      BY <1>3, <1>7, FlightSame
    <3>3. QED  BY <1>3, <1>5, <3>1, <3>2 DEF GInv, GiveConservation
  <2>2. QED  BY <2>1 DEF GiveConservation
<1>12. QED  BY <1>8, <1>9, <1>10, <1>11 DEF GInv

LEMMA CreateReturnG ==
  ASSUME GInv, IInv', NEW p \in Procs, CreateReturn(p)
  PROVE  GInv'
<1>1. PICK s : s = on[p]
  OBVIOUS
<1>2. pc[p] = "init" /\ left[p] = 0 /\ s \in Sems
  BY <1>1 DEF CreateReturn, At, GInv, IInv, InPool
<1>3. /\ UNCHANGED <<used, pend, cnt, left, owner, credit>>
      /\ pc' = [pc EXCEPT ![p] = "idle"] /\ on' = [on EXCEPT ![p] = NoSem]
  BY DEF CreateReturn, Go, svars, critvars, hvars
<1>4. /\ pc \in [Procs -> Labels] /\ on \in [Procs -> Sems \cup {NoSem}]
      /\ cnt \in [Sems -> Nat]
  BY DEF GInv, IInv, TypeOK
<1>5. /\ pc'[p] = "idle" /\ on'[p] = NoSem
      /\ \A q \in Procs \ {p} : pc'[q] = pc[q] /\ on'[q] = on[q]
  BY <1>3, <1>4
<1>6. /\ used[s] /\ pend[s] = 0 /\ credit[s] = cnt[s] /\ ~Live(s)
      /\ \A q \in Procs \ {p} : pc[q] \in Creating => on[q] # s
  <2>1. pc[p] \in Creating
    BY <1>2 DEF Creating
  <2>2. /\ used[s] /\ pend[s] = 0 /\ credit[s] = cnt[s] + left[p]
        /\ \A q \in Procs \ {p} : pc[q] \in Creating => on[q] # s
    BY <1>1, <1>2, <2>1 DEF GInv, CreatorsOK
  <2>3. QED  BY <1>1, <1>2, <1>4, <2>1, <2>2, CreatorsNotLive
<1>7. \A r \in Sems : Live(r)' <=> Live(r) \/ r = s
  BY <1>1, <1>2, <1>3, <1>5, <1>6 DEF Live, Creating
<1>8. FlushersOK'
  BY <1>3, <1>5 DEF GInv, FlushersOK, Flushing
<1>9. CreatorsOK'
  BY <1>3, <1>5 DEF GInv, CreatorsOK, Creating
<1>10. UsersOK'
  <2>1. ASSUME NEW q \in Procs, pc'[q] = "sig" \/ pc'[q] \in Waiting
        PROVE  on'[q] \in Sems /\ Live(on[q])' /\ (pc'[q] \in Waiting => q \in Tasks)
    <3>1. q # p /\ pc'[q] = pc[q] /\ on'[q] = on[q]
      BY <1>5, <2>1 DEF Waiting
    <3>2. on[q] \in Sems /\ Live(on[q]) /\ (pc[q] \in Waiting => q \in Tasks)
      BY <2>1, <3>1 DEF GInv, UsersOK
    <3>3. PICK r : r = on[q]
      OBVIOUS
    <3>4. Live(on[q])'
      BY <1>7, <3>1, <3>2, <3>3 DEF Live
    <3>5. QED  BY <3>1, <3>2, <3>4
  <2>2. \A r \in Sems : pend'[r] > 0 => Live(r)'
    BY <1>3, <1>7 DEF GInv, UsersOK
  <2>3. QED  BY <2>1, <2>2 DEF UsersOK
<1>11. GiveConservation'
  <2>1. ASSUME NEW r \in Sems, Live(r)'
        PROVE  credit'[r] = cnt'[r] + pend'[r] + InFlight(r)'
    <3>1. InFlight(r)' = InFlight(r)
      <4>1. \A q \in Procs : (pc'[q] = "sig" /\ on'[q] = r) <=> (pc[q] = "sig" /\ on[q] = r)
        BY <1>2, <1>5
      <4>2. QED  BY <4>1, FlightSame
    <3>2. CASE r = s
      <4>1. \A q \in Procs : ~ (pc[q] = "sig" /\ on[q] = s)
        BY <1>6 DEF GInv, UsersOK
      <4>2. InFlight(s) = 0
        BY <4>1, FlightNone
      <4>3. QED  BY <1>2, <1>3, <1>4, <1>6, <3>1, <3>2, <4>2
    <3>3. CASE r # s
      BY <1>3, <1>7, <2>1, <3>1, <3>3 DEF GInv, GiveConservation
    <3>4. QED  BY <3>2, <3>3
  <2>2. QED  BY <2>1 DEF GiveConservation
<1>12. QED  BY <1>8, <1>9, <1>10, <1>11 DEF GInv

\* Steps that leave every account, every wait and every gift under way alone.
LEMMA QuietG ==
  ASSUME GInv, IInv', FlushersOK', UNCHANGED <<cnt, used, pend, left, credit>>,
         \A q \in Procs : (pc'[q] = pc[q] /\ on'[q] = on[q])
                          \/ (pc[q] \notin Creating \cup {"sig"}
                              /\ pc'[q] \notin Creating \cup {"sig"} \cup Waiting)
  PROVE  GInv'
<1>1. /\ \A q \in Procs : pc'[q] \in Creating <=> pc[q] \in Creating
      /\ \A q \in Procs : pc[q] \in Creating => pc'[q] = pc[q] /\ on'[q] = on[q]
  BY DEF Creating
<1>2. CreatorsOK' /\ \A s : Live(s)' <=> Live(s)
  BY <1>1, CreatorsKept
<1>3. UsersOK'
  <2>1. ASSUME NEW q \in Procs, pc'[q] = "sig" \/ pc'[q] \in Waiting
        PROVE  on'[q] \in Sems /\ Live(on[q])' /\ (pc'[q] \in Waiting => q \in Tasks)
    <3>1. pc'[q] = pc[q] /\ on'[q] = on[q]
      BY <2>1
    <3>2. on[q] \in Sems /\ Live(on[q]) /\ (pc[q] \in Waiting => q \in Tasks)
      BY <2>1, <3>1 DEF GInv, UsersOK
    <3>3. PICK r : r = on[q]
      OBVIOUS
    <3>4. Live(on[q])'
      BY <1>2, <3>1, <3>2, <3>3 DEF Live
    <3>5. QED  BY <3>1, <3>2, <3>4
  <2>2. \A r \in Sems : pend'[r] > 0 => Live(r)'
    BY <1>2 DEF GInv, UsersOK
  <2>3. QED  BY <2>1, <2>2 DEF UsersOK
<1>4. GiveConservation'
  <2>1. ASSUME NEW r \in Sems, Live(r)'
        PROVE  credit'[r] = cnt'[r] + pend'[r] + InFlight(r)'
    <3>1. InFlight(r)' = InFlight(r)
      <4>1. \A q \in Procs : (pc'[q] = "sig" /\ on'[q] = r) <=> (pc[q] = "sig" /\ on[q] = r)
        OBVIOUS
      <4>2. QED  BY <4>1, FlightSame
    <3>2. Live(r)
      BY <1>2, <2>1
    <3>3. QED  BY <3>1, <3>2 DEF GInv, GiveConservation
  <2>2. QED  BY <2>1 DEF GiveConservation
<1>5. QED  BY <1>2, <1>3, <1>4 DEF GInv

\* Steps that change the account of one semaphore that a user holds.
LEMMA AccountG ==
  ASSUME GInv, IInv', FlushersOK', UNCHANGED <<used, left>>, NEW s \in Sems, Live(s),
         \A r \in Sems \ {s} : cnt'[r] = cnt[r] /\ pend'[r] = pend[r] /\ credit'[r] = credit[r],
         \A q \in Procs : \/ pc'[q] = pc[q] /\ on'[q] = on[q]
                          \/ /\ pc[q] \notin Creating /\ (pc[q] = "sig" => on[q] = s)
                             /\ pc'[q] \notin Creating
                             /\ pc'[q] = "sig" \/ pc'[q] \in Waiting => on'[q] = s
                             /\ pc'[q] \in Waiting => q \in Tasks,
         credit'[s] = cnt'[s] + pend'[s] + InFlight(s)'
  PROVE  GInv'
<1>1. \A q \in Procs : pc'[q] \in Creating <=> pc[q] \in Creating
  OBVIOUS
<1>2. \A q \in Procs : pc[q] \in Creating =>
           /\ pc'[q] = pc[q] /\ on'[q] = on[q] /\ left'[q] = left[q]
           /\ cnt'[on[q]] = cnt[on[q]] /\ credit'[on[q]] = credit[on[q]]
           /\ pend'[on[q]] = pend[on[q]]
  <2>1. \A q \in Procs : pc[q] \in Creating => on[q] \in Sems \ {s}
    BY CreatorsNotLive DEF GInv, IInv, InPool, Creating
  <2>2. QED  BY <2>1
<1>3. CreatorsOK' /\ \A r : Live(r)' <=> Live(r)
  BY <1>1, <1>2, CreatorsKept
<1>4. UsersOK'
  <2>1. ASSUME NEW q \in Procs, pc'[q] = "sig" \/ pc'[q] \in Waiting
        PROVE  on'[q] \in Sems /\ Live(on[q])' /\ (pc'[q] \in Waiting => q \in Tasks)
    <3>1. PICK r : r = on'[q]
      OBVIOUS
    <3>2. r \in Sems /\ Live(r) /\ (pc'[q] \in Waiting => q \in Tasks)
      BY <2>1, <3>1 DEF GInv, UsersOK
    <3>3. Live(on[q])'
      BY <1>3, <3>1, <3>2 DEF Live
    <3>4. QED  BY <3>1, <3>2, <3>3
  <2>2. \A r \in Sems : pend'[r] > 0 => Live(r)'
    BY <1>3 DEF GInv, UsersOK
  <2>3. QED  BY <2>1, <2>2 DEF UsersOK
<1>5. GiveConservation'
  <2>1. ASSUME NEW r \in Sems \ {s}, Live(r)'
        PROVE  credit'[r] = cnt'[r] + pend'[r] + InFlight(r)'
    <3>1. InFlight(r)' = InFlight(r)
      <4>1. \A q \in Procs : (pc'[q] = "sig" /\ on'[q] = r) <=> (pc[q] = "sig" /\ on[q] = r)
        OBVIOUS
      <4>2. QED  BY <4>1, FlightSame
    <3>2. Live(r)
      BY <1>3, <2>1
    <3>3. QED  BY <3>1, <3>2 DEF GInv, GiveConservation
  <2>2. QED  BY <2>1 DEF GiveConservation
<1>6. QED  BY <1>3, <1>4, <1>5 DEF GInv

\* The numbers that GiveConservation adds.
LEMMA AccountOf ==
  ASSUME GInv, NEW s \in Sems, Live(s)
  PROVE  /\ cnt[s] \in Nat /\ pend[s] \in Nat /\ credit[s] \in Int /\ InFlight(s) \in Nat
         /\ credit[s] = cnt[s] + pend[s] + InFlight(s)
BY FlightFinite DEF GInv, IInv, TypeOK, GiveConservation

LEMMA GiveMaskedG ==
  ASSUME GInv, IInv', NEW p \in Procs, GiveMasked(p)
  PROVE  GInv'
<1>1. PICK s \in Sems : /\ Live(s) /\ credit' = [credit EXCEPT ![s] = @ + 1 - 0]
                        /\ pend' = [pend EXCEPT ![s] = @ + 1]
  BY DEF GiveMasked, CountGive
<1>2. UNCHANGED <<cnt, used, pc, on, left, owner>>
  BY DEF GiveMasked, pvars, critvars
<1>3. pend \in [Sems -> Nat] /\ credit \in [Sems -> Int]
  BY DEF GInv, IInv, TypeOK
<1>4. /\ pend'[s] = pend[s] + 1 /\ credit'[s] = credit[s] + 1
      /\ \A r \in Sems \ {s} : pend'[r] = pend[r] /\ credit'[r] = credit[r]
  BY <1>1, <1>3
<1>5. InFlight(s)' = InFlight(s)
  BY <1>2, FlightSame
<1>6. credit'[s] = cnt'[s] + pend'[s] + InFlight(s)'
  BY <1>1, <1>2, <1>4, <1>5, AccountOf
<1>7. FlushersOK'
  BY <1>2 DEF GInv, FlushersOK
<1>8. QED  BY <1>1, <1>2, <1>4, <1>6, <1>7, AccountG

LEMMA TakeG ==
  ASSUME GInv, IInv', NEW p \in Procs, Take(p)
  PROVE  GInv'
<1>1. /\ pc[p] = "idle" /\ p \in Tasks
      /\ UNCHANGED <<used, pend, left, owner>>
  BY DEF Take, At, TaskCallRefused, Procs, critvars
<1>2. PICK s \in Sems :
        /\ Live(s)
        /\ \/ /\ cnt' = [cnt EXCEPT ![s] = @ - 1]
              /\ credit' = [credit EXCEPT ![s] = @ - 1]
              /\ UNCHANGED <<pc, on>>
           \/ /\ \E l \in Waiting : pc' = [pc EXCEPT ![p] = l]
              /\ on' = [on EXCEPT ![p] = s]
              /\ UNCHANGED <<cnt, credit>>
  BY DEF Take, Go
<1>3. /\ cnt \in [Sems -> Nat] /\ credit \in [Sems -> Int]
      /\ pc \in [Procs -> Labels] /\ on \in [Procs -> Sems \cup {NoSem}]
  BY DEF GInv, IInv, TypeOK
<1>4. CASE /\ cnt' = [cnt EXCEPT ![s] = @ - 1] /\ credit' = [credit EXCEPT ![s] = @ - 1]
           /\ UNCHANGED <<pc, on>>
  <2>1. /\ cnt'[s] = cnt[s] - 1 /\ credit'[s] = credit[s] - 1
        /\ \A r \in Sems \ {s} : cnt'[r] = cnt[r] /\ credit'[r] = credit[r]
    BY <1>3, <1>4
  <2>2. InFlight(s)' = InFlight(s)
    BY <1>4, FlightSame
  <2>3. credit'[s] = cnt'[s] + pend'[s] + InFlight(s)'
    BY <1>1, <1>2, <2>1, <2>2, AccountOf
  <2>4. FlushersOK'
    BY <1>1, <1>4 DEF GInv, FlushersOK
  <2>5. QED  BY <1>1, <1>2, <1>4, <2>1, <2>3, <2>4, AccountG
<1>5. CASE /\ \E l \in Waiting : pc' = [pc EXCEPT ![p] = l]
           /\ on' = [on EXCEPT ![p] = s] /\ UNCHANGED <<cnt, credit>>
  <2>1. /\ pc'[p] \in Waiting /\ on'[p] = s
        /\ \A q \in Procs \ {p} : pc'[q] = pc[q] /\ on'[q] = on[q]
    BY <1>3, <1>5
  <2>2. \A r : InFlight(r)' = InFlight(r)
    <3>1. \A r, q : q \in Procs => ((pc'[q] = "sig" /\ on'[q] = r) <=> (pc[q] = "sig" /\ on[q] = r))
      BY <1>1, <2>1 DEF Waiting
    <3>2. QED  BY <3>1, FlightSame
  <2>3. credit'[s] = cnt'[s] + pend'[s] + InFlight(s)'
    BY <1>1, <1>2, <1>5, <2>2, AccountOf
  <2>4. FlushersOK'
    BY <1>1, <2>1 DEF GInv, FlushersOK, Waiting, Flushing
  <2>5. \A q \in Procs : \/ pc'[q] = pc[q] /\ on'[q] = on[q]
                         \/ /\ pc[q] \notin Creating /\ (pc[q] = "sig" => on[q] = s)
                            /\ pc'[q] \notin Creating
                            /\ pc'[q] = "sig" \/ pc'[q] \in Waiting => on'[q] = s
                            /\ pc'[q] \in Waiting => q \in Tasks
    BY <1>1, <2>1 DEF Waiting, Creating
  <2>6. \A r \in Sems \ {s} : cnt'[r] = cnt[r] /\ pend'[r] = pend[r] /\ credit'[r] = credit[r]
    BY <1>1, <1>5
  <2>7. QED  BY <1>1, <1>2, <2>3, <2>4, <2>5, <2>6, AccountG
<1>6. QED  BY <1>2, <1>4, <1>5

LEMMA QuietStepsG ==
  ASSUME GInv, IInv', NEW p \in Procs,
         TakeTimeout(p) \/ EnterCritical(p) \/ ExitCritical(p) \/ FlushStart(p) \/ FlushNext(p)
  PROVE  GInv'
<1>1. UNCHANGED <<cnt, used, pend, left, credit>>
  BY DEF TakeTimeout, EnterCritical, ExitCritical, FlushStart, FlushNext, svars, pvars, hvars
<1>2. pc \in [Procs -> Labels] /\ on \in [Procs -> Sems \cup {NoSem}]
  BY DEF GInv, IInv, TypeOK
<1>3. /\ \A q \in Procs \ {p} : pc'[q] = pc[q] /\ on'[q] = on[q]
      /\ \/ pc'[p] = pc[p] /\ on'[p] = on[p]
         \/ pc[p] \in {"idle", "wait_timed", "flush", "pop"} /\ pc'[p] \in {"idle", "flush", "pop"}
  BY <1>2 DEF TakeTimeout, EnterCritical, ExitCritical, FlushStart, FlushNext, At, Go, pvars
<1>4. FlushersOK'
  <2>1. CASE TakeTimeout(p)
    <3>1. owner' = owner /\ pc' = [pc EXCEPT ![p] = "idle"]
      BY <2>1 DEF TakeTimeout, Go, critvars
    <3>2. QED  BY <1>2, <3>1 DEF GInv, FlushersOK, Flushing
  <2>2. CASE EnterCritical(p)
    <3>1. owner' = p /\ pc' = pc /\ "critical" \in Ops[p]
      BY <2>2 DEF EnterCritical, pvars
    <3>2. QED  BY <3>1 DEF GInv, FlushersOK
  <2>3. CASE ExitCritical(p)
    <3>1. /\ owner = p /\ owner' \in {owner, NoProc}
          /\ pc' = pc \/ pc' = [pc EXCEPT ![p] = "flush"]
      BY <2>3 DEF ExitCritical, Masked, Go
    <3>2. p # NoProc
      BY ProcsAssumption
    <3>3. QED  BY <1>2, <3>1, <3>2 DEF GInv, FlushersOK
  <2>4. CASE FlushStart(p) \/ FlushNext(p)
    <3>1. /\ owner' = owner /\ pc[p] \in Flushing
          /\ pc' = pc \/ \E l \in {"idle", "pop"} : pc' = [pc EXCEPT ![p] = l]
      BY <2>4 DEF FlushStart, FlushNext, At, Go, critvars, Flushing
    <3>2. QED  BY <1>2, <3>1 DEF GInv, FlushersOK
  <2>5. QED  BY <2>1, <2>2, <2>3, <2>4
<1>5. \A q \in Procs : (pc'[q] = pc[q] /\ on'[q] = on[q])
                       \/ (pc[q] \notin Creating \cup {"sig"}
                           /\ pc'[q] \notin Creating \cup {"sig"} \cup Waiting)
                       \/ (pc[q] = "pop" /\ pc'[q] = "pop")
  BY <1>3 DEF Creating, Waiting
<1>6. \A q \in Procs : (pc'[q] = pc[q] /\ on'[q] = on[q])
                       \/ (pc[q] \notin Creating \cup {"sig"}
                           /\ pc'[q] \notin Creating \cup {"sig"} \cup Waiting)
  BY <1>5 DEF Creating, Waiting
<1>7. QED  BY <1>1, <1>4, <1>6, QuietG

LEMMA FlushPopG ==
  ASSUME GInv, IInv', NEW p \in Procs, FlushPop(p)
  PROVE  GInv'
<1>1. PICK s : s = on[p]
  OBVIOUS
<1>2. /\ pc[p] = "pop" /\ s \in Sems /\ pend[s] > 0
      /\ pend' = [pend EXCEPT ![s] = @ - 1] /\ pc' = [pc EXCEPT ![p] = "sig"]
      /\ UNCHANGED <<cnt, used, on, left, owner, credit>>
  BY <1>1 DEF FlushPop, At, Go, GInv, IInv, InPool, critvars, hvars
<1>3. Live(s)
  BY <1>2 DEF GInv, UsersOK
<1>4. pc \in [Procs -> Labels] /\ pend \in [Sems -> Nat]
  BY DEF GInv, IInv, TypeOK
<1>5. /\ pc'[p] = "sig" /\ \A q \in Procs \ {p} : pc'[q] = pc[q]
      /\ pend'[s] = pend[s] - 1 /\ \A r \in Sems \ {s} : pend'[r] = pend[r]
  BY <1>2, <1>4
<1>6. InFlight(s)' = InFlight(s) + 1
  BY <1>1, <1>2, <1>5, FlightMore
<1>7. credit'[s] = cnt'[s] + pend'[s] + InFlight(s)'
  BY <1>2, <1>3, <1>5, <1>6, AccountOf
<1>8. FlushersOK'
  BY <1>2, <1>5 DEF GInv, FlushersOK, Flushing
<1>9. \A q \in Procs : \/ pc'[q] = pc[q] /\ on'[q] = on[q]
                       \/ /\ pc[q] \notin Creating /\ (pc[q] = "sig" => on[q] = s)
                          /\ pc'[q] \notin Creating
                          /\ pc'[q] = "sig" \/ pc'[q] \in Waiting => on'[q] = s
                          /\ pc'[q] \in Waiting => q \in Tasks
  BY <1>1, <1>2, <1>5 DEF Creating, Waiting
<1>10. QED  BY <1>2, <1>3, <1>5, <1>7, <1>8, <1>9, AccountG

\* sig_sem gives the count to a waiter, whose take is accounted for, or keeps it.
LEMMA SigSemGives ==
  ASSUME GInv, NEW p \in Procs, NEW s \in Sems, NEW l \in {"idle", "pop"}, NEW o \in Sems \cup {NoSem},
         pc[p] \in {"idle", "sig"}, SigSem(p, s, l, o)
  PROVE  /\ \A r \in Sems \ {s} : cnt'[r] = cnt[r]
         /\ cnt'[s] + Handed(s) = cnt[s] + 1 /\ Handed(s) \in {0, 1}
         /\ pc'[p] = l /\ on'[p] = o
         /\ \A q \in Procs \ {p} :
              \/ pc'[q] = pc[q] /\ on'[q] = on[q]
              \/ pc[q] \in Waiting /\ pc'[q] = "idle"
<1>1. /\ cnt \in [Sems -> Nat] /\ pc \in [Procs -> Labels]
      /\ on \in [Procs -> Sems \cup {NoSem}] /\ Tasks \subseteq Procs
  BY DEF GInv, IInv, TypeOK, Procs
<1>2. CASE \E w \in Waiters(s) :
             /\ pc' = [pc EXCEPT ![w] = "idle", ![p] = l]
             /\ on' = [on EXCEPT ![w] = NoSem, ![p] = o]
             /\ cnt' = cnt
  <2>1. PICK w \in Waiters(s) :
             /\ pc' = [pc EXCEPT ![w] = "idle", ![p] = l]
             /\ on' = [on EXCEPT ![w] = NoSem, ![p] = o]
             /\ cnt' = cnt
    BY <1>2
  <2>2. w \in Procs /\ pc[w] \in Waiting /\ w # p
    BY <1>1 DEF Waiters, Waiting
  <2>3. Handed(s) = 1
    BY <2>1 DEF Handed
  <2>4. /\ pc'[p] = l /\ on'[p] = o
        /\ \A q \in Procs \ {p} :
              \/ pc'[q] = pc[q] /\ on'[q] = on[q]
              \/ pc[q] \in Waiting /\ pc'[q] = "idle"
    BY <1>1, <2>1, <2>2
  <2>5. cnt'[s] + 1 = cnt[s] + 1
    BY <2>1
  <2>6. QED  BY <2>1, <2>3, <2>4, <2>5
<1>3. CASE /\ Waiters(s) = {} /\ cnt' = [cnt EXCEPT ![s] = @ + 1] /\ Go(p, l)
           /\ on' = [on EXCEPT ![p] = o]
  <2>1. Handed(s) = 0
    BY <1>3 DEF Handed
  <2>2. /\ pc'[p] = l /\ on'[p] = o
        /\ \A q \in Procs \ {p} : pc'[q] = pc[q] /\ on'[q] = on[q]
        /\ cnt'[s] = cnt[s] + 1 /\ \A r \in Sems \ {s} : cnt'[r] = cnt[r]
    BY <1>1, <1>3 DEF Go
  <2>3. cnt[s] \in Nat
    BY <1>1
  <2>4. QED  BY <2>1, <2>2, <2>3
<1>4. QED  BY <1>2, <1>3 DEF SigSem

LEMMA GiveG ==
  ASSUME GInv, IInv', NEW p \in Procs, Give(p)
  PROVE  GInv'
<1>1. pc[p] = "idle" /\ UNCHANGED <<used, pend, left, owner>>
  BY DEF Give, At, critvars
<1>2. PICK s \in Sems : /\ Live(s) /\ SigSem(p, s, "idle", NoSem)
                        /\ credit' = [credit EXCEPT ![s] = @ + 1 - Handed(s)]
  BY DEF Give, CountGive
<1>3. /\ \A r \in Sems \ {s} : cnt'[r] = cnt[r]
      /\ cnt'[s] + Handed(s) = cnt[s] + 1 /\ Handed(s) \in {0, 1}
      /\ pc'[p] = "idle" /\ on'[p] = NoSem
      /\ \A q \in Procs \ {p} :
              \/ pc'[q] = pc[q] /\ on'[q] = on[q]
              \/ pc[q] \in Waiting /\ pc'[q] = "idle"
  BY <1>1, <1>2, SigSemGives
<1>4. credit \in [Sems -> Int] /\ cnt'[s] \in Nat
  BY DEF GInv, IInv, TypeOK
<1>5. /\ credit'[s] = credit[s] + 1 - Handed(s)
      /\ \A r \in Sems \ {s} : credit'[r] = credit[r]
  BY <1>2, <1>4
<1>6. InFlight(s)' = InFlight(s)
  <2>1. \A q \in Procs : (pc'[q] = "sig" /\ on'[q] = s) <=> (pc[q] = "sig" /\ on[q] = s)
    BY <1>1, <1>3 DEF Waiting
  <2>2. QED  BY <2>1, FlightSame
<1>7. credit'[s] = cnt'[s] + pend'[s] + InFlight(s)'
  BY <1>1, <1>2, <1>3, <1>4, <1>5, <1>6, AccountOf
<1>8. FlushersOK'
  BY <1>1, <1>3 DEF GInv, FlushersOK, Flushing
<1>9. \A q \in Procs : \/ pc'[q] = pc[q] /\ on'[q] = on[q]
                       \/ /\ pc[q] \notin Creating /\ (pc[q] = "sig" => on[q] = s)
                          /\ pc'[q] \notin Creating
                          /\ pc'[q] = "sig" \/ pc'[q] \in Waiting => on'[q] = s
                          /\ pc'[q] \in Waiting => q \in Tasks
  BY <1>1, <1>3 DEF Creating, Waiting
<1>10. QED  BY <1>1, <1>2, <1>3, <1>5, <1>7, <1>8, <1>9, AccountG

LEMMA FlushSignalG ==
  ASSUME GInv, IInv', NEW p \in Procs, FlushSignal(p)
  PROVE  GInv'
<1>1. PICK s : s = on[p]
  OBVIOUS
<1>2. /\ pc[p] = "sig" /\ s \in Sems /\ Live(s) /\ SigSem(p, s, "pop", s)
      /\ credit' = [credit EXCEPT ![s] = @ - Handed(s)]
      /\ UNCHANGED <<used, pend, left, owner>>
  BY <1>1 DEF FlushSignal, At, GInv, UsersOK, critvars
<1>3. /\ \A r \in Sems \ {s} : cnt'[r] = cnt[r]
      /\ cnt'[s] + Handed(s) = cnt[s] + 1 /\ Handed(s) \in {0, 1}
      /\ pc'[p] = "pop" /\ on'[p] = s
      /\ \A q \in Procs \ {p} :
              \/ pc'[q] = pc[q] /\ on'[q] = on[q]
              \/ pc[q] \in Waiting /\ pc'[q] = "idle"
  BY <1>2, SigSemGives
<1>4. credit \in [Sems -> Int] /\ cnt'[s] \in Nat
  BY <1>2 DEF GInv, IInv, TypeOK
<1>5. /\ credit'[s] = credit[s] - Handed(s)
      /\ \A r \in Sems \ {s} : credit'[r] = credit[r]
  BY <1>2, <1>4
<1>6. InFlight(s)' + 1 = InFlight(s) /\ InFlight(s)' \in Nat
  <2>1. \A q \in Procs \ {p} : (pc'[q] = "sig" /\ on'[q] = s) <=> (pc[q] = "sig" /\ on[q] = s)
    BY <1>3 DEF Waiting
  <2>2. pc'[p] # "sig"
    BY <1>3
  <2>3. InFlight(s)' + 1 = InFlight(s)
    BY <1>1, <1>2, <2>1, <2>2, FlightLess
  <2>4. InFlight(s)' \in Nat
    <3>1. IsFiniteSet({q \in Procs : pc'[q] = "sig" /\ on'[q] = s})
      <4>1. {q \in Procs : pc'[q] = "sig" /\ on'[q] = s} \subseteq Procs
        OBVIOUS
      <4>2. QED  BY <4>1, ProcsAssumption, FS_Subset
    <3>2. QED  BY <3>1, FS_CardinalityType DEF InFlight
  <2>5. QED  BY <2>3, <2>4
<1>7. credit'[s] = cnt'[s] + pend'[s] + InFlight(s)'
  <2>1. PICK c, d, f, g, h : /\ c = cnt[s] /\ d = cnt'[s] /\ f = InFlight(s) /\ g = InFlight(s)'
                             /\ h = Handed(s)
    OBVIOUS
  <2>2. /\ c \in Nat /\ d \in Nat /\ f \in Nat /\ g \in Nat /\ h \in {0, 1}
        /\ d + h = c + 1 /\ g + 1 = f
    BY <1>2, <1>3, <1>4, <1>6, <2>1, AccountOf
  <2>3. /\ pend[s] \in Nat /\ credit[s] \in Int /\ credit[s] = c + pend[s] + f
    BY <1>2, <2>1, AccountOf
  <2>4. credit'[s] = credit[s] - h /\ pend'[s] = pend[s]
    BY <1>2, <1>5, <2>1
  <2>5. QED  BY <2>1, <2>2, <2>3, <2>4
<1>8. FlushersOK'
  BY <1>2, <1>3 DEF GInv, FlushersOK, Flushing
<1>9. \A q \in Procs : \/ pc'[q] = pc[q] /\ on'[q] = on[q]
                       \/ /\ pc[q] \notin Creating /\ (pc[q] = "sig" => on[q] = s)
                          /\ pc'[q] \notin Creating
                          /\ pc'[q] = "sig" \/ pc'[q] \in Waiting => on'[q] = s
                          /\ pc'[q] \in Waiting => q \in Tasks
  BY <1>1, <1>2, <1>3 DEF Creating, Waiting
<1>10. QED  BY <1>2, <1>3, <1>5, <1>7, <1>8, <1>9, AccountG

LEMMA GNext == OwnersYield => (GInv /\ [Next]_vars => GInv')
<1> SUFFICES ASSUME OwnersYield, GInv, [Next]_vars PROVE GInv'
  OBVIOUS
<1>1. IInv'
  BY NextInv DEF GInv
<1>2. CASE UNCHANGED vars
  <2>1. UNCHANGED <<cnt, used, pend, total, pc, on, left, owner, nest, credit>>
    BY <1>2 DEF vars, svars, pvars, critvars, hvars
  <2>2. FlushersOK'
    BY <2>1 DEF GInv, FlushersOK
  <2>3. QED  BY <1>1, <2>1, <2>2, QuietG
<1>3. ASSUME NEW p \in Procs, Work(p) \/ ExitCritical(p) \/ Call(p)
      PROVE  GInv'
  BY <1>1, <1>3, CreateG, DeleteG, DrainG, CreateReturnG, GiveG, GiveMaskedG, TakeG,
     QuietStepsG, FlushPopG, FlushSignalG DEF Work, Call
<1>4. QED  BY <1>2, <1>3 DEF Next

LEMMA GInit == Init => GInv
<1> SUFFICES ASSUME Init PROVE GInv
  OBVIOUS
<1>1. IInv
  BY InitInv
<1>2. FlushersOK /\ CreatorsOK /\ UsersOK
  BY DEF Init, FlushersOK, CreatorsOK, UsersOK, Flushing, Creating, Waiting
<1>3. GiveConservation
  BY DEF Init, GiveConservation, Live
<1>4. QED  BY <1>1, <1>2, <1>3 DEF GInv

\* Every give reported as made, and no other, is in the kernel count, pending, or about
\* to be repaid, when whoever creates and deletes semaphores is less urgent than every
\* other context that flushes (esp_shim_core.c:274-374, esp_shim.c:84-195).
THEOREM GivesConserved == OwnersYield => (Spec => []GiveConservation)
<1> SUFFICES ASSUME OwnersYield PROVE Spec => []GiveConservation
  OBVIOUS
<1>1. GInv /\ [Next]_vars => GInv'
  BY GNext
<1>2. GInv => GiveConservation
  BY DEF GInv
<1>3. QED  BY <1>1, <1>2, GInit, PTL DEF Spec
=============================================================================
