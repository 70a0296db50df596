------------------------------ MODULE SetLemmas ------------------------------
(***************************************************************************)
(* What the proofs need of sets of numbers: that the least element the     *)
(* code's searches pick is there, and how the sums that account for        *)
(* pending items and for memory change.                                    *)
(***************************************************************************)
EXTENDS Integers, FiniteSetsExt, Functions, FiniteSetTheorems, WellFoundedInduction, TLAPS

\* Every set of natural numbers that is not empty has a least element.
LEMMA NatMin ==
  ASSUME NEW S, S \subseteq Nat, S # {}
  PROVE  \E m \in S : \A x \in S : m <= x
<1> DEFINE R == OpToRel(<, Nat)
<1>1. IsWellFoundedOn(R, Nat)
  BY NatLessThanWellFounded
<1>2. \A x, y \in Nat : <<x, y>> \in R <=> x < y
  BY DEF OpToRel
<1> HIDE DEF R
<1>3. PICK m \in S : \A y \in S : ~ (<<y, m>> \in R)
  BY <1>1, WFMin
<1>4. ASSUME NEW x \in S PROVE m <= x
  <2>1. m \in Nat /\ x \in Nat
    OBVIOUS
  <2>2. ~ (x < m)
    BY <2>1, <1>2, <1>3
  <2> QED
    BY <2>1, <2>2
<1> QED
  BY <1>4

\* The first free slot, the earliest event: Min is in its set and below the rest.
LEMMA MinIsIn ==
  ASSUME NEW S, S \subseteq Nat, S # {}
  PROVE  Min(S) \in S /\ \A x \in S : Min(S) <= x
BY NatMin DEF Min

\* So is the maximum of a set that is not empty and stays below some number.
LEMMA MaxIsIn ==
  ASSUME NEW S, S \subseteq Nat, S # {}, NEW n \in Nat, \A x \in S : x <= n
  PROVE  Max(S) \in S /\ \A x \in S : x <= Max(S)
<1> DEFINE D == {n - x : x \in S}
<1>1. D \subseteq Nat /\ D # {}
  <2>1. \A x \in S : x \in Nat /\ x <= n
    OBVIOUS
  <2>2. \A x \in S : n - x \in Nat
    BY <2>1
  <2> QED
    BY <2>2
<1>2. PICK d \in D : \A x \in D : d <= x
  BY <1>1, NatMin
<1>3. PICK m \in S : d = n - m
  BY <1>2
<1>4. \A x \in S : x <= m
  <2> SUFFICES ASSUME NEW x \in S PROVE x <= m
    OBVIOUS
  <2>1. n - x \in D
    OBVIOUS
  <2>2. n - m <= n - x /\ n \in Nat /\ m \in Nat /\ x \in Nat
    BY <1>2, <1>3, <2>1
  <2> QED
    BY <2>2
<1>5. \A x \in S : m >= x
  BY <1>4
<1>6. Max(S) \in S /\ \A x \in S : Max(S) >= x
  BY <1>5 DEF Max
<1> QED
  BY <1>6

-----------------------------------------------------------------------------
(* Sums.  The sum of F over T is defined by recursion; induction here is   *)
(* over the subsets of a finite set, held in a set instead of an operator. *)

\* What holds of a subset when it holds of the smaller ones holds of them all.
LEMMA SubsetInduction ==
  ASSUME NEW T, IsFiniteSet(T), NEW G,
         \A s \in SUBSET T : (\A r \in SUBSET s : r # s => r \in G) => s \in G
  PROVE  SUBSET T \subseteq G
<1> SUFFICES ASSUME NEW b \in SUBSET T, b \notin G PROVE FALSE
  OBVIOUS
<1> DEFINE Bad == {s \in SUBSET T : s \notin G}
           Sizes == {Cardinality(s) : s \in Bad}
<1>1. \A s \in SUBSET T : IsFiniteSet(s) /\ Cardinality(s) \in Nat
  BY FS_Subset, FS_CardinalityType
<1>2. Sizes \subseteq Nat /\ Sizes # {}
  BY <1>1
<1>3. PICK n \in Sizes : \A m \in Sizes : n <= m
  <2> HIDE DEF Sizes
  <2> QED
    BY <1>2, NatMin
<1>4. PICK s \in Bad : n = Cardinality(s)
  OBVIOUS
<1>5. \A r \in SUBSET s : r # s => r \in G
  <2> SUFFICES ASSUME NEW r \in SUBSET s, r # s, r \notin G PROVE FALSE
    OBVIOUS
  <2>1. r \in Bad /\ Cardinality(r) \in Sizes
    OBVIOUS
  <2>2. n <= Cardinality(r)
    BY <1>3, <2>1
  <2>3. Cardinality(r) <= Cardinality(s) /\ Cardinality(r) # Cardinality(s)
    BY <1>1, FS_Subset
  <2> QED
    BY <1>1, <1>4, <2>1, <2>2, <2>3
<1> QED
  BY <1>5

\* The element the folds of the community modules take first.
FirstOf(s) == CHOOSE x \in s : TRUE

\* g is the function the sum of F over T is read from, ...
IsSumOf(g, F, T) ==
  g = [s \in SUBSET T |-> IF s = {} THEN 0 ELSE F[FirstOf(s)] + g[s \ {FirstOf(s)}]]

\* ... the function that the definition chooses ...
LEMMA SumChosen ==
  ASSUME NEW F, NEW T
  PROVE  SumFunctionOnSet(F, T) = (CHOOSE g : IsSumOf(g, F, T))[T]
BY Zenon DEF SumFunctionOnSet, FoldFunctionOnSet, MapThenFoldSet, IsSumOf, FirstOf

LEMMA FirstOfIn ==
  ASSUME NEW s, s # {}
  PROVE  FirstOf(s) \in s
BY DEF FirstOf

\* ... and there is one: the sum over a set that is not empty is its first element and
\* the sum over the others.
LEMMA SumRecursion ==
  ASSUME NEW F, NEW T, IsFiniteSet(T)
  PROVE  SumFunctionOnSet(F, T)
           = IF T = {} THEN 0
             ELSE F[FirstOf(T)] + SumFunctionOnSet(F, T \ {FirstOf(T)})
<1> DEFINE Sum(s) == SumFunctionOnSet(F, s)
           Step(s) == IF s = {} THEN 0 ELSE F[FirstOf(s)] + Sum(s \ {FirstOf(s)})
           Good == {s \in SUBSET T : Sum(s) = Step(s)}
<1>1. ASSUME NEW s \in SUBSET T, \A r \in SUBSET s : r # s => r \in Good
      PROVE  s \in Good
  <2> DEFINE h == [r \in SUBSET s |-> IF r = s THEN Step(s) ELSE Sum(r)]
             g == CHOOSE x : IsSumOf(x, F, s)
  <2>1. ASSUME NEW r \in SUBSET s
        PROVE  h[r] = IF r = {} THEN 0 ELSE F[FirstOf(r)] + h[r \ {FirstOf(r)}]
    <3>1. r # {} => /\ FirstOf(r) \in r /\ r \ {FirstOf(r)} \in SUBSET s
                    /\ r \ {FirstOf(r)} # s
      BY FirstOfIn
    <3>2. h[r] = Step(r)
      BY <1>1
    <3>3. r # {} => h[r \ {FirstOf(r)}] = Sum(r \ {FirstOf(r)})
      BY <3>1
    <3> QED
      BY <3>2, <3>3
  <2>2. IsSumOf(h, F, s)
    <3> HIDE DEF h
    <3>1. h = [r \in SUBSET s |-> h[r]]
      BY DEF h
    <3>2. [r \in SUBSET s |-> h[r]]
            = [r \in SUBSET s |-> IF r = {} THEN 0 ELSE F[FirstOf(r)] + h[r \ {FirstOf(r)}]]
      BY <2>1
    <3> QED
      BY <3>1, <3>2 DEF IsSumOf
  <2>3. IsSumOf(g, F, s)
    BY <2>2
  <2> HIDE DEF g
  <2>4. \A r \in SUBSET s : g[r] = IF r = {} THEN 0 ELSE F[FirstOf(r)] + g[r \ {FirstOf(r)}]
    BY <2>3 DEF IsSumOf
  <2> DEFINE Same == {r \in SUBSET s : r # s => g[r] = Sum(r)}
  <2>5. ASSUME NEW r \in SUBSET s, \A q \in SUBSET r : q # r => q \in Same
        PROVE  r \in Same
    <3> SUFFICES ASSUME r # s PROVE g[r] = Sum(r)
      OBVIOUS
    <3>1. Sum(r) = Step(r)
      BY <1>1
    <3>2. CASE r = {}
      BY <2>4, <3>1, <3>2
    <3>3. CASE r # {}
      <4>1. FirstOf(r) \in r
        BY <3>3, FirstOfIn
      <4>2. r \ {FirstOf(r)} \in SUBSET r /\ r \ {FirstOf(r)} # r /\ r \ {FirstOf(r)} # s
        BY <4>1
      <4>3. g[r \ {FirstOf(r)}] = Sum(r \ {FirstOf(r)})
        BY <2>5, <4>2
      <4> QED
        BY <2>4, <3>1, <3>3, <4>3
    <3> QED
      BY <3>2, <3>3
  <2>6. SUBSET s \subseteq Same
    <3>1. IsFiniteSet(s)
      BY FS_Subset
    <3> HIDE DEF Same
    <3> QED
      BY <2>5, <3>1, SubsetInduction
  <2>7. Sum(s) = g[s]
    BY SumChosen DEF g
  <2>8. CASE s = {}
    BY <2>4, <2>7, <2>8
  <2>9. CASE s # {}
    <3>1. FirstOf(s) \in s
      BY <2>9, FirstOfIn
    <3>2. s \ {FirstOf(s)} \in SUBSET s /\ s \ {FirstOf(s)} # s
      BY <3>1
    <3>3. g[s \ {FirstOf(s)}] = Sum(s \ {FirstOf(s)})
      BY <2>6, <3>2
    <3>4. g[s] = F[FirstOf(s)] + g[s \ {FirstOf(s)}]
      BY <2>4, <2>9
    <3> QED
      BY <2>7, <2>9, <3>3, <3>4
  <2> QED
    BY <2>8, <2>9
<1>2. SUBSET T \subseteq Good
  <2> HIDE DEF Good
  <2> QED
    BY <1>1, SubsetInduction
<1> QED
  BY <1>2

\* A sum of natural numbers is one.
LEMMA SumNat ==
  ASSUME NEW F, NEW T, IsFiniteSet(T), \A x \in T : F[x] \in Nat
  PROVE  SumFunctionOnSet(F, T) \in Nat
<1> DEFINE Sum(s) == SumFunctionOnSet(F, s)
           Good == {s \in SUBSET T : Sum(s) \in Nat}
<1>1. ASSUME NEW s \in SUBSET T, \A r \in SUBSET s : r # s => r \in Good
      PROVE  s \in Good
  <2>1. IsFiniteSet(s)
    BY FS_Subset
  <2>2. CASE s = {}
    <3>1. Sum(s) = 0
      BY <2>1, <2>2, SumRecursion
    <3> QED
      BY <3>1
  <2>3. CASE s # {}
    <3>1. FirstOf(s) \in s
      BY <2>3, FirstOfIn
    <3>2. Sum(s \ {FirstOf(s)}) \in Nat
      BY <1>1, <3>1
    <3>3. Sum(s) = F[FirstOf(s)] + Sum(s \ {FirstOf(s)})
      BY <2>1, <2>3, SumRecursion
    <3>4. F[FirstOf(s)] \in Nat
      BY <3>1
    <3>5. Sum(s) \in Nat
      <4> HIDE DEF Sum
      <4> QED
        BY <3>2, <3>3, <3>4
    <3> QED
      BY <3>5
  <2> QED
    BY <2>2, <2>3
<1>2. SUBSET T \subseteq Good
  <2> HIDE DEF Good
  <2> QED
    BY <1>1, SubsetInduction
<1> QED
  BY <1>2

\* A sum has a value for every member.
LEMMA SumSame ==
  ASSUME NEW F, NEW H, NEW T, IsFiniteSet(T), \A x \in T : F[x] = H[x]
  PROVE  SumFunctionOnSet(F, T) = SumFunctionOnSet(H, T)
<1> DEFINE Sum(s) == SumFunctionOnSet(F, s)
           Tot(s) == SumFunctionOnSet(H, s)
           Good == {s \in SUBSET T : Sum(s) = Tot(s)}
<1>1. ASSUME NEW s \in SUBSET T, \A r \in SUBSET s : r # s => r \in Good
      PROVE  s \in Good
  <2>1. IsFiniteSet(s)
    BY FS_Subset
  <2>2. CASE s = {}
    BY <2>1, <2>2, SumRecursion
  <2>3. CASE s # {}
    <3>1. FirstOf(s) \in s
      BY <2>3, FirstOfIn
    <3>2. Sum(s \ {FirstOf(s)}) = Tot(s \ {FirstOf(s)})
      BY <1>1, <3>1
    <3>3. /\ Sum(s) = F[FirstOf(s)] + Sum(s \ {FirstOf(s)})
          /\ Tot(s) = H[FirstOf(s)] + Tot(s \ {FirstOf(s)})
      BY <2>1, <2>3, SumRecursion
    <3>4. F[FirstOf(s)] = H[FirstOf(s)]
      BY <3>1
    <3> QED
      BY <3>2, <3>3, <3>4
  <2> QED
    BY <2>2, <2>3
<1>2. SUBSET T \subseteq Good
  <2> HIDE DEF Good
  <2> QED
    BY <1>1, SubsetInduction
<1> QED
  BY <1>2

\* Any member may be taken out of a sum, not only the first.
LEMMA SumTakeOut ==
  ASSUME NEW F, NEW T, IsFiniteSet(T), \A x \in T : F[x] \in Nat, NEW a \in T
  PROVE  SumFunctionOnSet(F, T) = F[a] + SumFunctionOnSet(F, T \ {a})
<1> DEFINE Sum(s) == SumFunctionOnSet(F, s)
           Good == {s \in SUBSET T : \A x \in s : Sum(s) = F[x] + Sum(s \ {x})}
<1>1. ASSUME NEW s \in SUBSET T, \A r \in SUBSET s : r # s => r \in Good
      PROVE  s \in Good
  <2> SUFFICES ASSUME NEW x \in s PROVE Sum(s) = F[x] + Sum(s \ {x})
    OBVIOUS
  <2>1. IsFiniteSet(s)
    BY FS_Subset
  <2>2. PICK c : c = FirstOf(s)
    OBVIOUS
  <2>3. c \in s /\ Sum(s) = F[c] + Sum(s \ {c})
    BY <2>1, <2>2, FirstOfIn, SumRecursion
  <2>4. CASE x = c
    BY <2>3, <2>4
  <2>5. CASE x # c
    <3>1. Sum(s \ {c}) = F[x] + Sum((s \ {c}) \ {x})
      <4>1. s \ {c} \in SUBSET s /\ s \ {c} # s /\ x \in s \ {c}
        BY <2>3, <2>5
      <4> QED
        BY <1>1, <4>1
    <3>2. Sum(s \ {x}) = F[c] + Sum((s \ {x}) \ {c})
      <4>1. s \ {x} \in SUBSET s /\ s \ {x} # s /\ c \in s \ {x}
        BY <2>3, <2>5
      <4> QED
        BY <1>1, <4>1
    <3>3. (s \ {c}) \ {x} = (s \ {x}) \ {c}
      OBVIOUS
    <3>4. F[x] \in Nat /\ F[c] \in Nat /\ Sum((s \ {c}) \ {x}) \in Nat
      <4>1. IsFiniteSet((s \ {c}) \ {x})
        BY <2>1, FS_Subset
      <4>2. Sum((s \ {c}) \ {x}) \in Nat
        BY <4>1, SumNat
      <4> QED
        BY <2>3, <4>2
    <3> HIDE DEF Sum
    <3> QED
      BY <2>3, <3>1, <3>2, <3>3, <3>4
  <2> QED
    BY <2>4, <2>5
<1>2. SUBSET T \subseteq Good
  <2> HIDE DEF Good
  <2> QED
    BY <1>1, SubsetInduction
<1> QED
  BY <1>2

\* One more member, and a member alone.
LEMMA SumPutIn ==
  ASSUME NEW F, NEW T, IsFiniteSet(T), NEW a, a \notin T, \A x \in T \cup {a} : F[x] \in Nat
  PROVE  SumFunctionOnSet(F, T \cup {a}) = F[a] + SumFunctionOnSet(F, T)
<1>1. IsFiniteSet(T \cup {a}) /\ a \in T \cup {a} /\ (T \cup {a}) \ {a} = T
  BY FS_AddElement
<1> QED
  BY <1>1, SumTakeOut

LEMMA SumEmpty ==
  ASSUME NEW F
  PROVE  SumFunctionOnSet(F, {}) = 0
BY SumRecursion, FS_EmptySet

LEMMA SumZero ==
  ASSUME NEW F, NEW T, IsFiniteSet(T), \A x \in T : F[x] = 0
  PROVE  SumFunctionOnSet(F, T) = 0
<1> DEFINE Sum(s) == SumFunctionOnSet(F, s)
           Good == {s \in SUBSET T : Sum(s) = 0}
<1>1. ASSUME NEW s \in SUBSET T, \A r \in SUBSET s : r # s => r \in Good
      PROVE  s \in Good
  <2>1. IsFiniteSet(s)
    BY FS_Subset
  <2>2. CASE s = {}
    BY <2>2, SumEmpty
  <2>3. CASE s # {}
    <3>1. FirstOf(s) \in s
      BY <2>3, FirstOfIn
    <3>2. Sum(s \ {FirstOf(s)}) = 0 /\ F[FirstOf(s)] = 0
      BY <1>1, <3>1
    <3>3. Sum(s) = F[FirstOf(s)] + Sum(s \ {FirstOf(s)})
      BY <2>1, <2>3, SumRecursion
    <3> QED
      BY <3>2, <3>3
  <2> QED
    BY <2>2, <2>3
<1>2. SUBSET T \subseteq Good
  <2> HIDE DEF Good
  <2> QED
    BY <1>1, SubsetInduction
<1> QED
  BY <1>2

LEMMA SumOne ==
  ASSUME NEW F, NEW a, F[a] \in Nat
  PROVE  SumFunctionOnSet(F, {a}) = F[a]
<1>1. IsFiniteSet({}) /\ a \notin {} /\ {} \cup {a} = {a} /\ \A x \in {} \cup {a} : F[x] \in Nat
  BY FS_EmptySet
<1>2. SumFunctionOnSet(F, {a}) = F[a] + SumFunctionOnSet(F, {})
  BY <1>1, SumPutIn
<1> QED
  BY <1>2, SumEmpty

\* One value changes.
LEMMA SumOneChanges ==
  ASSUME NEW F, NEW H, NEW T, IsFiniteSet(T), NEW a \in T,
         \A x \in T : F[x] \in Nat /\ H[x] \in Nat, \A x \in T \ {a} : H[x] = F[x]
  PROVE  SumFunctionOnSet(H, T) = (SumFunctionOnSet(F, T) - F[a]) + H[a]
<1>1. /\ SumFunctionOnSet(F, T) = F[a] + SumFunctionOnSet(F, T \ {a})
      /\ SumFunctionOnSet(H, T) = H[a] + SumFunctionOnSet(H, T \ {a})
  BY SumTakeOut
<1>2. IsFiniteSet(T \ {a})
  BY FS_Subset
<1>3. SumFunctionOnSet(H, T \ {a}) = SumFunctionOnSet(F, T \ {a})
  BY <1>2, SumSame
<1>4. SumFunctionOnSet(F, T \ {a}) \in Nat /\ F[a] \in Nat /\ H[a] \in Nat
  BY <1>2, SumNat
<1> QED
  BY <1>1, <1>3, <1>4

\* A sum over two sets with no common member.
LEMMA SumUnion ==
  ASSUME NEW F, NEW S, NEW T, IsFiniteSet(S), IsFiniteSet(T), S \cap T = {},
         \A x \in S \cup T : F[x] \in Nat
  PROVE  SumFunctionOnSet(F, S \cup T) = SumFunctionOnSet(F, S) + SumFunctionOnSet(F, T)
<1> DEFINE Sum(s) == SumFunctionOnSet(F, s)
           Good == {s \in SUBSET T : Sum(S \cup s) = Sum(S) + Sum(s)}
<1>1. ASSUME NEW s \in SUBSET T, \A r \in SUBSET s : r # s => r \in Good
      PROVE  s \in Good
  <2>1. IsFiniteSet(s) /\ IsFiniteSet(S \cup s)
    BY FS_Subset, FS_Union
  <2>2. Sum(S) \in Nat
    BY SumNat
  <2>3. CASE s = {}
    <3>1. Sum(s) = 0 /\ S \cup s = S
      BY <2>3, SumEmpty
    <3>2. Sum(S \cup s) = Sum(S)
      BY <3>1
    <3>3. Sum(S) = Sum(S) + 0
      BY <2>2
    <3> QED
      BY <3>1, <3>2, <3>3
  <2>4. CASE s # {}
    <3>1. PICK x \in s : TRUE
      BY <2>4
    <3>2. Sum(s) = F[x] + Sum(s \ {x})
      BY <2>1, SumTakeOut
    <3>3. Sum(S \cup s) = F[x] + Sum((S \cup s) \ {x})
      BY <2>1, SumTakeOut
    <3>4. (S \cup s) \ {x} = S \cup (s \ {x})
      OBVIOUS
    <3>5. Sum(S \cup (s \ {x})) = Sum(S) + Sum(s \ {x})
      <4>1. s \ {x} \in SUBSET s /\ s \ {x} # s
        BY <3>1
      <4> QED
        BY <1>1, <4>1
    <3>6. F[x] \in Nat /\ Sum(s \ {x}) \in Nat
      <4>1. IsFiniteSet(s \ {x})
        BY <2>1, FS_Subset
      <4> QED
        BY <4>1, SumNat
    <3>7. PICK u, v, w, y, z : /\ u = Sum(S) /\ v = Sum(s) /\ w = Sum(S \cup s)
                              /\ y = Sum(s \ {x}) /\ z = Sum(S \cup (s \ {x}))
      OBVIOUS
    <3>8. w = F[x] + z /\ v = F[x] + y /\ z = u + y
      BY <3>2, <3>3, <3>4, <3>5, <3>7
    <3>9. w = u + v
      BY <2>2, <3>6, <3>7, <3>8
    <3> QED
      BY <3>7, <3>9
  <2> QED
    BY <2>3, <2>4
<1>2. SUBSET T \subseteq Good
  <2> HIDE DEF Good
  <2> QED
    BY <1>1, SubsetInduction
<1> QED
  BY <1>2
=============================================================================
