------------------------------ MODULE WindowLemmas ------------------------------
(***************************************************************************)
(* Lemmas about sums, and about rings of buckets that count by time slot,  *)
(* for the proofs about RollingWindow, RetryBudget and what is built on    *)
(* them.                                                                   *)
(*                                                                         *)
(* SumFunctionOnSet of the module Functions is a function defined by       *)
(* recursion over the subsets of a set.  The induction is over sets: a set *)
(* of naturals that holds 0 and the successor of each of its members holds *)
(* every natural.                                                          *)
(***************************************************************************)
EXTENDS Integers, Functions, FiniteSetTheorems, WellFoundedInduction, TLAPS

LEMMA NaturalsBySteps ==
    ASSUME NEW K, 0 \in K, \A n \in Nat : n \in K => n + 1 \in K
    PROVE  \A n \in Nat : n \in K
<1> DEFINE S == Nat \ K
           R == OpToRel(<, Nat)
<1> SUFFICES ASSUME S # {} PROVE FALSE
  OBVIOUS
<1>1. S \subseteq Nat
  OBVIOUS
<1>2. \A x, y \in Nat : y < x => <<y, x>> \in R
  BY DEF OpToRel
<1>3. IsWellFoundedOn(R, Nat)
  BY NatLessThanWellFounded
<1> HIDE DEF R, S
<1>4. PICK k \in S : \A j \in S : <<j, k>> \notin R
  BY <1>1, <1>3, WFMin, Zenon
<1>5. \A j \in S : ~(j < k)
  BY <1>1, <1>2, <1>4
<1>6. k \in Nat /\ k \notin K
  BY DEF S
<1>7. k # 0 /\ k - 1 \in Nat
  BY <1>6
<1>8. k - 1 \in K
  BY <1>5, <1>7 DEF S
<1>9. (k - 1) + 1 \in K
  BY <1>7, <1>8
<1> QED
  BY <1>6, <1>9

(* A family of sets that holds {} and, with a set, every set with one      *)
(* element more, holds every finite set.                                   *)
LEMMA SetsByElements ==
    ASSUME NEW S, IsFiniteSet(S), NEW F, {} \in F,
           \A T \in SUBSET S : \A x \in S : T \in F => T \cup {x} \in F
    PROVE  S \in F
<1> DEFINE K == {n \in Nat : \A T \in SUBSET S : Cardinality(T) = n => T \in F}
<1>1. \A T \in SUBSET S : IsFiniteSet(T) /\ Cardinality(T) \in Nat
  BY FS_Subset, FS_CardinalityType
<1>2. 0 \in K
  BY <1>1, FS_EmptySet
<1>3. ASSUME NEW n \in Nat, n \in K PROVE n + 1 \in K
  <2> SUFFICES ASSUME NEW T \in SUBSET S, Cardinality(T) = n + 1 PROVE T \in F
    OBVIOUS
  <2>1. T # {}
    <3>1. Cardinality({}) = 0
      BY FS_EmptySet
    <3> QED
      BY <3>1
  <2>2. PICK x \in T : TRUE
    BY <2>1
  <2>3. Cardinality(T \ {x}) = n
    BY <1>1, FS_RemoveElement
  <2>4. T \ {x} \in F
    BY <1>3, <2>3
  <2>5. T = (T \ {x}) \cup {x}
    BY <2>2
  <2> QED
    BY <2>2, <2>4, <2>5
<1> HIDE DEF K
<1>4. \A n \in Nat : n \in K
  BY <1>2, <1>3, NaturalsBySteps
<1> QED
  BY <1>1, <1>4 DEF K

-----------------------------------------------------------------------------
(* The recursive function is defined.                                      *)

Pick(s) == CHOOSE x \in s : TRUE

(* h sums f over every member of D, a set of sets.                         *)
Sums(f, D, h) ==
    h = [s \in D |-> IF s = {} THEN 0 ELSE f[Pick(s)] + h[s \ {Pick(s)}]]

LEMMA SumByPicks ==
    ASSUME NEW f, NEW S
    PROVE  SumFunctionOnSet(f, S) = (CHOOSE h : Sums(f, SUBSET S, h))[S]
BY DEF SumFunctionOnSet, FoldFunctionOnSet, MapThenFoldSet, Sums, Pick

Small(S, n) == {s \in SUBSET S : Cardinality(s) <= n}

LEMMA PickSmaller ==
    ASSUME NEW S, IsFiniteSet(S), NEW s \in SUBSET S, s # {}
    PROVE  /\ Pick(s) \in s
           /\ s \ {Pick(s)} \in SUBSET S
           /\ Cardinality(s) \in Nat
           /\ Cardinality(s \ {Pick(s)}) \in Nat
           /\ Cardinality(s \ {Pick(s)}) + 1 = Cardinality(s)
<1>1. Pick(s) \in s
  BY DEF Pick
<1>2. IsFiniteSet(s) /\ Cardinality(s) \in Nat
  BY FS_Subset, FS_CardinalityType
<1>3. /\ IsFiniteSet(s \ {Pick(s)})
      /\ Cardinality(s \ {Pick(s)}) = Cardinality(s) - 1
      /\ Cardinality(s \ {Pick(s)}) \in Nat
  BY <1>1, <1>2, FS_RemoveElement, FS_CardinalityType
<1> QED
  BY <1>1, <1>2, <1>3

LEMMA SumsOfSmall ==
    ASSUME NEW f, NEW S, IsFiniteSet(S)
    PROVE  \A n \in Nat : \E h : Sums(f, Small(S, n), h)
<1> DEFINE K == {n \in Nat : \E h : Sums(f, Small(S, n), h)}
<1>1. 0 \in K
  <2>1. \A s \in Small(S, 0) : s = {}
    BY FS_Subset, FS_CardinalityType, FS_EmptySet DEF Small
  <2>2. Sums(f, Small(S, 0), [s \in Small(S, 0) |-> 0])
    BY <2>1 DEF Sums
  <2> QED
    BY <2>2
<1>2. ASSUME NEW n \in Nat, n \in K PROVE n + 1 \in K
  <2>1. PICK h : Sums(f, Small(S, n), h)
    BY <1>2
  <2> DEFINE Sum(g, s) == IF s = {} THEN 0 ELSE f[Pick(s)] + g[s \ {Pick(s)}]
             D == Small(S, n + 1)
             h1 == [s \in D |-> Sum(h, s)]
  <2>2. \A s \in Small(S, n) : s \in D /\ h[s] = Sum(h, s)
    <3>1. Small(S, n) \subseteq D
      BY FS_Subset, FS_CardinalityType DEF Small
    <3> QED
      BY <2>1, <3>1 DEF Sums
  <2>3. \A s \in D : s # {} => s \ {Pick(s)} \in Small(S, n)
    BY PickSmaller DEF Small
  <2> HIDE DEF D
  <2>4. \A s \in Small(S, n) : h1[s] = h[s]
    BY <2>2
  <2>5. \A s \in D : Sum(h, s) = Sum(h1, s)
    BY <2>3, <2>4
  <2>6. h1 = [s \in D |-> Sum(h1, s)]
    BY <2>5
  <2>7. Sums(f, D, h1)
    BY <2>6 DEF Sums
  <2> QED
    BY <2>7 DEF D
<1> HIDE DEF K
<1>3. \A n \in Nat : n \in K
  BY <1>1, <1>2, NaturalsBySteps
<1> QED
  BY <1>3 DEF K

LEMMA SumsExist ==
    ASSUME NEW f, NEW S, IsFiniteSet(S)
    PROVE  \E h : Sums(f, SUBSET S, h)
<1>1. Cardinality(S) \in Nat
  BY FS_CardinalityType
<1>2. Small(S, Cardinality(S)) = SUBSET S
  BY FS_Subset DEF Small
<1>3. \E h : Sums(f, Small(S, Cardinality(S)), h)
  BY <1>1, SumsOfSmall
<1> QED
  BY <1>2, <1>3

(* Two functions that sum over the subsets of T agree.                     *)
LEMMA SumsAgree ==
    ASSUME NEW f, NEW T, IsFiniteSet(T),
           NEW A, NEW g, SUBSET T \subseteq A, Sums(f, A, g),
           NEW B, NEW h, SUBSET T \subseteq B, Sums(f, B, h)
    PROVE  \A s \in SUBSET T : g[s] = h[s]
<1> DEFINE K == {n \in Nat : \A s \in SUBSET T : Cardinality(s) = n => g[s] = h[s]}
<1>1. \A s \in SUBSET T :
        /\ g[s] = IF s = {} THEN 0 ELSE f[Pick(s)] + g[s \ {Pick(s)}]
        /\ h[s] = IF s = {} THEN 0 ELSE f[Pick(s)] + h[s \ {Pick(s)}]
  BY DEF Sums
<1>2. \A s \in SUBSET T : Cardinality(s) \in Nat /\ (Cardinality(s) = 0 <=> s = {})
  BY FS_Subset, FS_CardinalityType, FS_EmptySet
<1>3. 0 \in K
  BY <1>1, <1>2
<1>4. ASSUME NEW n \in Nat, n \in K PROVE n + 1 \in K
  <2> SUFFICES ASSUME NEW s \in SUBSET T, Cardinality(s) = n + 1 PROVE g[s] = h[s]
    OBVIOUS
  <2>1. s # {}
    BY FS_EmptySet
  <2>2. s \ {Pick(s)} \in SUBSET T /\ Cardinality(s \ {Pick(s)}) = n
    BY <2>1, PickSmaller
  <2>3. g[s \ {Pick(s)}] = h[s \ {Pick(s)}]
    BY <1>4, <2>2
  <2> QED
    BY <1>1, <2>1, <2>3
<1> HIDE DEF K
<1>5. \A n \in Nat : n \in K
  BY <1>3, <1>4, NaturalsBySteps
<1> QED
  BY <1>2, <1>5 DEF K

-----------------------------------------------------------------------------
(* What a sum is, one element at a time.                                   *)

LEMMA SumOfNothing ==
    ASSUME NEW f
    PROVE  SumFunctionOnSet(f, {}) = 0
<1> DEFINE h == CHOOSE g : Sums(f, SUBSET {}, g)
<1>1. Sums(f, SUBSET {}, h)
  BY SumsExist, FS_EmptySet
<1>2. SumFunctionOnSet(f, {}) = h[{}]
  BY SumByPicks
<1> HIDE DEF h
<1> QED
  BY <1>1, <1>2 DEF Sums

LEMMA SumPicked ==
    ASSUME NEW f, NEW S, IsFiniteSet(S), S # {}
    PROVE  /\ Pick(S) \in S
           /\ SumFunctionOnSet(f, S) = f[Pick(S)] + SumFunctionOnSet(f, S \ {Pick(S)})
<1> DEFINE T == S \ {Pick(S)}
           g == CHOOSE i : Sums(f, SUBSET S, i)
           h == CHOOSE i : Sums(f, SUBSET T, i)
<1>1. Pick(S) \in S
  BY DEF Pick
<1>2. IsFiniteSet(T)
  BY FS_Subset
<1>3. Sums(f, SUBSET S, g) /\ SumFunctionOnSet(f, S) = g[S]
  BY SumsExist, SumByPicks
<1>4. Sums(f, SUBSET T, h) /\ SumFunctionOnSet(f, T) = h[T]
  BY <1>2, SumsExist, SumByPicks
<1>5. SUBSET T \subseteq SUBSET S /\ SUBSET T \subseteq SUBSET T
  OBVIOUS
<1>6. g[T] = h[T]
  <2> HIDE DEF g, h, T
  <2>1. \A s \in SUBSET T : g[s] = h[s]
    BY <1>2, <1>3, <1>4, <1>5, SumsAgree
  <2> QED
    BY <2>1
<1>7. g[S] = f[Pick(S)] + g[T]
  BY <1>3 DEF Sums
<1> QED
  BY <1>1, <1>3, <1>4, <1>6, <1>7

(* f has integers on S.                                                    *)
Ints(f, S) == \A x \in S : f[x] \in Int

Nats(f, S) == \A x \in S : f[x] \in Nat

LEMMA SumIsInt ==
    ASSUME NEW f, NEW S, IsFiniteSet(S), Ints(f, S)
    PROVE  SumFunctionOnSet(f, S) \in Int
<1> DEFINE K == {n \in Nat : \A T \in SUBSET S :
                   Cardinality(T) = n => SumFunctionOnSet(f, T) \in Int}
<1>1. \A T \in SUBSET S :
        /\ IsFiniteSet(T) /\ Cardinality(T) \in Nat
        /\ Cardinality(T) = 0 <=> T = {}
  BY FS_Subset, FS_CardinalityType, FS_EmptySet
<1>2. 0 \in K
  BY <1>1, SumOfNothing
<1>3. ASSUME NEW n \in Nat, n \in K PROVE n + 1 \in K
  <2> SUFFICES ASSUME NEW T \in SUBSET S, Cardinality(T) = n + 1
               PROVE  SumFunctionOnSet(f, T) \in Int
    OBVIOUS
  <2>1. T # {}
    BY <1>1
  <2>2. T \ {Pick(T)} \in SUBSET S /\ Cardinality(T \ {Pick(T)}) = n
    BY <2>1, PickSmaller
  <2>3. SumFunctionOnSet(f, T \ {Pick(T)}) \in Int
    BY <1>3, <2>2
  <2>4. f[Pick(T)] \in Int
    BY <1>1, <2>1, SumPicked DEF Ints
  <2> QED
    BY <1>1, <2>1, <2>3, <2>4, SumPicked
<1> HIDE DEF K
<1>4. \A n \in Nat : n \in K
  BY <1>2, <1>3, NaturalsBySteps
<1> QED
  BY <1>1, <1>4 DEF K

(* The order of summation does not matter: any element can come first.     *)
LEMMA SumSplit ==
    ASSUME NEW f, NEW S, IsFiniteSet(S), Ints(f, S), NEW x \in S
    PROVE  SumFunctionOnSet(f, S) = f[x] + SumFunctionOnSet(f, S \ {x})
<1> DEFINE Sum(T) == SumFunctionOnSet(f, T)
           K == {n \in Nat : \A T \in SUBSET S : Cardinality(T) = n =>
                   \A y \in T : Sum(T) = f[y] + Sum(T \ {y})}
<1>1. \A T \in SUBSET S :
        /\ IsFiniteSet(T) /\ Cardinality(T) \in Nat
        /\ Cardinality(T) = 0 <=> T = {}
        /\ Sum(T) \in Int
  <2> TAKE T \in SUBSET S
  <2>1. IsFiniteSet(T) /\ Cardinality(T) \in Nat
    BY FS_Subset, FS_CardinalityType
  <2>2. Cardinality(T) = 0 <=> T = {}
    BY <2>1, FS_EmptySet
  <2>3. Ints(f, T)
    BY DEF Ints
  <2> QED
    BY <2>1, <2>2, <2>3, SumIsInt
<1> HIDE DEF Sum
<1>2. 0 \in K
  BY <1>1
<1>3. ASSUME NEW n \in Nat, n \in K PROVE n + 1 \in K
  <2> SUFFICES ASSUME NEW T \in SUBSET S, Cardinality(T) = n + 1, NEW y \in T
               PROVE  Sum(T) = f[y] + Sum(T \ {y})
    OBVIOUS
  <2> DEFINE p == Pick(T)
  <2>1. p \in T /\ Sum(T) = f[p] + Sum(T \ {p})
    BY <1>1, SumPicked DEF Sum
  <2> HIDE DEF p
  <2>2. CASE p = y
    BY <2>1, <2>2
  <2>3. CASE p # y
    <3>1. \A z \in T : Cardinality(T \ {z}) = n
      <4> TAKE z \in T
      <4>1. Cardinality(T \ {z}) = Cardinality(T) - 1
        BY <1>1, FS_RemoveElement
      <4> QED
        BY <4>1
    <3>2. Sum(T \ {p}) = f[y] + Sum((T \ {p}) \ {y})
      BY <1>3, <2>1, <2>3, <3>1
    <3>3. Sum(T \ {y}) = f[p] + Sum((T \ {y}) \ {p})
      BY <1>3, <2>1, <2>3, <3>1
    <3>4. (T \ {p}) \ {y} = (T \ {y}) \ {p}
      OBVIOUS
    <3>5. f[p] \in Int /\ f[y] \in Int /\ Sum((T \ {p}) \ {y}) \in Int
      BY <1>1, <2>1 DEF Ints
    <3>6. f[p] + (f[y] + Sum((T \ {p}) \ {y})) = f[y] + (f[p] + Sum((T \ {p}) \ {y}))
      BY <3>5
    <3> QED
      BY <2>1, <3>2, <3>3, <3>4, <3>6, Zenon
  <2> QED
    BY <2>2, <2>3
<1> HIDE DEF K
<1>4. \A n \in Nat : n \in K
  BY <1>2, <1>3, NaturalsBySteps
<1>5. S \in SUBSET S
  OBVIOUS
<1>6. Sum(S) = f[x] + Sum(S \ {x})
  BY <1>1, <1>4, <1>5 DEF K
<1> QED
  BY <1>6 DEF Sum

LEMMA SumOfMore ==
    ASSUME NEW f, NEW S, IsFiniteSet(S), NEW x, x \notin S, Ints(f, S \cup {x})
    PROVE  SumFunctionOnSet(f, S \cup {x}) = f[x] + SumFunctionOnSet(f, S)
<1>1. IsFiniteSet(S \cup {x})
  BY FS_AddElement
<1>2. (S \cup {x}) \ {x} = S
  OBVIOUS
<1>3. SumFunctionOnSet(f, S \cup {x}) = f[x] + SumFunctionOnSet(f, (S \cup {x}) \ {x})
  BY <1>1, SumSplit
<1> QED
  BY <1>2, <1>3

-----------------------------------------------------------------------------
(* Sums compared.                                                          *)

LEMMA SumIsNat ==
    ASSUME NEW f, NEW S, IsFiniteSet(S), Nats(f, S)
    PROVE  SumFunctionOnSet(f, S) \in Nat
<1> DEFINE F == {T \in SUBSET S : SumFunctionOnSet(f, T) \in Nat}
<1>1. {} \in F
  BY SumOfNothing
<1>2. ASSUME NEW T \in SUBSET S, NEW x \in S, T \in F PROVE T \cup {x} \in F
  <2>1. CASE x \in T
    <3>1. T \cup {x} = T
      BY <2>1
    <3> QED
      BY <1>2, <3>1
  <2>2. CASE x \notin T
    <3>1. IsFiniteSet(T) /\ Ints(f, T \cup {x}) /\ f[x] \in Nat
      BY FS_Subset DEF Ints, Nats
    <3>2. SumFunctionOnSet(f, T \cup {x}) = f[x] + SumFunctionOnSet(f, T)
      BY <2>2, <3>1, SumOfMore
    <3> QED
      BY <1>2, <3>1, <3>2
  <2> QED
    BY <2>1, <2>2
<1> HIDE DEF F
<1>3. S \in F
  BY <1>1, <1>2, SetsByElements
<1> QED
  BY <1>3 DEF F

(* Functions that agree on a set have the same sum over it.                *)
LEMMA SumsEqual ==
    ASSUME NEW f, NEW g, NEW S, IsFiniteSet(S), Ints(f, S), \A x \in S : f[x] = g[x]
    PROVE  SumFunctionOnSet(f, S) = SumFunctionOnSet(g, S)
<1> DEFINE F == {T \in SUBSET S : SumFunctionOnSet(f, T) = SumFunctionOnSet(g, T)}
<1>1. {} \in F
  BY SumOfNothing
<1>2. ASSUME NEW T \in SUBSET S, NEW x \in S, T \in F PROVE T \cup {x} \in F
  <2>1. CASE x \in T
    <3>1. T \cup {x} = T
      BY <2>1
    <3> QED
      BY <1>2, <3>1
  <2>2. CASE x \notin T
    <3>1. IsFiniteSet(T) /\ Ints(f, T \cup {x}) /\ Ints(g, T \cup {x})
      BY FS_Subset DEF Ints
    <3>2. /\ SumFunctionOnSet(f, T \cup {x}) = f[x] + SumFunctionOnSet(f, T)
          /\ SumFunctionOnSet(g, T \cup {x}) = g[x] + SumFunctionOnSet(g, T)
      BY <2>2, <3>1, SumOfMore
    <3>3. f[x] = g[x]
      OBVIOUS
    <3> QED
      BY <1>2, <3>2, <3>3
  <2> QED
    BY <2>1, <2>2
<1> HIDE DEF F
<1>3. S \in F
  BY <1>1, <1>2, SetsByElements
<1> QED
  BY <1>3 DEF F

LEMMA SumOfZeros ==
    ASSUME NEW f, NEW S, IsFiniteSet(S), \A x \in S : f[x] = 0
    PROVE  SumFunctionOnSet(f, S) = 0
<1> DEFINE F == {T \in SUBSET S : SumFunctionOnSet(f, T) = 0}
<1>1. {} \in F
  BY SumOfNothing
<1>2. ASSUME NEW T \in SUBSET S, NEW x \in S, T \in F PROVE T \cup {x} \in F
  <2>1. CASE x \in T
    <3>1. T \cup {x} = T
      BY <2>1
    <3> QED
      BY <1>2, <3>1
  <2>2. CASE x \notin T
    <3>1. IsFiniteSet(T) /\ Ints(f, T \cup {x}) /\ f[x] = 0
      BY FS_Subset DEF Ints
    <3>2. SumFunctionOnSet(f, T \cup {x}) = f[x] + SumFunctionOnSet(f, T)
      BY <2>2, <3>1, SumOfMore
    <3> QED
      BY <1>2, <3>1, <3>2
  <2> QED
    BY <2>1, <2>2
<1> HIDE DEF F
<1>3. S \in F
  BY <1>1, <1>2, SetsByElements
<1> QED
  BY <1>3 DEF F

LEMMA SumOfUnion ==
    ASSUME NEW f, NEW S, NEW T, IsFiniteSet(S), IsFiniteSet(T), S \cap T = {},
           Ints(f, S \cup T)
    PROVE  SumFunctionOnSet(f, S \cup T) = SumFunctionOnSet(f, S) + SumFunctionOnSet(f, T)
<1> DEFINE Sum(U) == SumFunctionOnSet(f, U)
           F == {U \in SUBSET T : Sum(S \cup U) = Sum(S) + Sum(U)}
<1>1. \A U \in SUBSET T : IsFiniteSet(U) /\ IsFiniteSet(S \cup U) /\ Sum(U) \in Int
  <2> TAKE U \in SUBSET T
  <2>1. IsFiniteSet(U)
    BY FS_Subset
  <2>2. Ints(f, U)
    BY DEF Ints
  <2> QED
    BY <2>1, <2>2, FS_Union, SumIsInt
<1>2. Sum(S) \in Int
  BY SumIsInt DEF Ints
<1>3. {} \in F
  <2>1. S \cup {} = S
    OBVIOUS
  <2> QED
    BY <1>2, <2>1, SumOfNothing
<1>4. ASSUME NEW U \in SUBSET T, NEW x \in T, U \in F PROVE U \cup {x} \in F
  <2>1. CASE x \in U
    <3>1. U \cup {x} = U
      BY <2>1
    <3> QED
      BY <1>4, <3>1
  <2>2. CASE x \notin U
    <3>1. x \notin S \cup U /\ (S \cup U) \cup {x} = S \cup (U \cup {x})
      BY <2>2
    <3>2. Ints(f, U \cup {x}) /\ Ints(f, (S \cup U) \cup {x}) /\ f[x] \in Int
      BY DEF Ints
    <3>3. Sum(U \cup {x}) = f[x] + Sum(U)
      BY <1>1, <2>2, <3>2, SumOfMore
    <3>4. Sum((S \cup U) \cup {x}) = f[x] + Sum(S \cup U)
      BY <1>1, <3>1, <3>2, SumOfMore
    <3>5. Sum(S \cup U) = Sum(S) + Sum(U) /\ Sum(U) \in Int
      BY <1>1, <1>4
    <3> HIDE DEF Sum
    <3>6. f[x] + (Sum(S) + Sum(U)) = Sum(S) + (f[x] + Sum(U))
      BY <1>2, <3>2, <3>5
    <3>7. Sum(S \cup (U \cup {x})) = Sum(S) + Sum(U \cup {x})
      BY <3>1, <3>3, <3>4, <3>5, <3>6, Zenon
    <3> QED
      BY <3>7
  <2> QED
    BY <2>1, <2>2
<1>5. IsFiniteSet(T)
  OBVIOUS
<1> HIDE DEF F
<1>6. T \in F
  BY <1>3, <1>4, <1>5, SetsByElements
<1> QED
  BY <1>6 DEF F

LEMMA SumOfFewer ==
    ASSUME NEW f, NEW T, IsFiniteSet(T), Nats(f, T), NEW S \in SUBSET T
    PROVE  SumFunctionOnSet(f, S) <= SumFunctionOnSet(f, T)
<1>1. T = S \cup (T \ S) /\ S \cap (T \ S) = {}
  OBVIOUS
<1>2. IsFiniteSet(S) /\ IsFiniteSet(T \ S)
  BY FS_Subset
<1>3. Ints(f, S \cup (T \ S)) /\ Nats(f, S) /\ Nats(f, T \ S)
  BY DEF Ints, Nats
<1>4. SumFunctionOnSet(f, T) = SumFunctionOnSet(f, S) + SumFunctionOnSet(f, T \ S)
  BY <1>1, <1>2, <1>3, SumOfUnion
<1>5. SumFunctionOnSet(f, S) \in Nat /\ SumFunctionOnSet(f, T \ S) \in Nat
  BY <1>2, <1>3, SumIsNat
<1> QED
  BY <1>4, <1>5

(* One value of a function changes.                                        *)
LEMMA SumOfChanged ==
    ASSUME NEW f, NEW g, NEW S, IsFiniteSet(S), Ints(f, S), NEW x \in S, NEW d \in Int,
           g[x] = f[x] + d, \A y \in S \ {x} : g[y] = f[y]
    PROVE  SumFunctionOnSet(g, S) = SumFunctionOnSet(f, S) + d
<1>1. IsFiniteSet(S \ {x}) /\ Ints(f, S \ {x}) /\ Ints(g, S) /\ f[x] \in Int
  BY FS_Subset DEF Ints
<1>2. SumFunctionOnSet(f, S \ {x}) = SumFunctionOnSet(g, S \ {x})
  BY <1>1, SumsEqual
<1>3. SumFunctionOnSet(f, S \ {x}) \in Int
  BY <1>1, SumIsInt
<1>4. SumFunctionOnSet(f, S) = f[x] + SumFunctionOnSet(f, S \ {x})
  BY SumSplit
<1>5. SumFunctionOnSet(g, S) = g[x] + SumFunctionOnSet(g, S \ {x})
  BY <1>1, SumSplit
<1> QED
  BY <1>1, <1>2, <1>3, <1>4, <1>5

(* The elements summed over are renamed, no two to the same.               *)
LEMMA SumRenamed ==
    ASSUME NEW f, NEW g, NEW S, IsFiniteSet(S), Ints(f, S), NEW m,
           \A x, y \in S : m[x] = m[y] => x = y,
           \A x \in S : g[m[x]] = f[x]
    PROVE  SumFunctionOnSet(g, {m[x] : x \in S}) = SumFunctionOnSet(f, S)
<1> DEFINE Image(T) == {m[x] : x \in T}
           F == {T \in SUBSET S :
                   IsFiniteSet(Image(T)) /\ SumFunctionOnSet(g, Image(T)) = SumFunctionOnSet(f, T)}
<1>1. {} \in F
  <2>1. Image({}) = {}
    OBVIOUS
  <2> QED
    BY <2>1, SumOfNothing, FS_EmptySet
<1>2. ASSUME NEW T \in SUBSET S, NEW x \in S, T \in F PROVE T \cup {x} \in F
  <2>1. CASE x \in T
    <3>1. T \cup {x} = T
      BY <2>1
    <3> QED
      BY <1>2, <3>1
  <2>2. CASE x \notin T
    <3>1. IsFiniteSet(T) /\ Ints(f, T \cup {x})
      BY FS_Subset DEF Ints
    <3>2. m[x] \notin Image(T) /\ Image(T \cup {x}) = Image(T) \cup {m[x]}
      BY <2>2
    <3>3. Ints(g, Image(T) \cup {m[x]})
      BY DEF Ints
    <3>4. IsFiniteSet(Image(T)) /\ SumFunctionOnSet(g, Image(T)) = SumFunctionOnSet(f, T)
      BY <1>2
    <3> HIDE DEF Image
    <3>5. SumFunctionOnSet(g, Image(T) \cup {m[x]}) = g[m[x]] + SumFunctionOnSet(g, Image(T))
      BY <3>2, <3>3, <3>4, SumOfMore
    <3>6. SumFunctionOnSet(f, T \cup {x}) = f[x] + SumFunctionOnSet(f, T)
      BY <2>2, <3>1, SumOfMore
    <3>7. IsFiniteSet(Image(T) \cup {m[x]})
      BY <3>4, FS_AddElement
    <3>8. g[m[x]] = f[x]
      OBVIOUS
    <3> QED
      BY <3>2, <3>4, <3>5, <3>6, <3>7, <3>8
  <2> QED
    BY <2>1, <2>2
<1> HIDE DEF F
<1>3. S \in F
  BY <1>1, <1>2, SetsByElements
<1> QED
  BY <1>3 DEF F

-----------------------------------------------------------------------------
(* Quotients and remainders.                                               *)

LEMMA RemainderRange ==
    ASSUME NEW n \in Nat \ {0}, NEW a \in Int
    PROVE  a % n \in 0 .. n - 1
OBVIOUS

LEMMA QuotientRemainder ==
    ASSUME NEW n \in Nat \ {0}, NEW a \in Int
    PROVE  a \div n \in Int /\ a = n * (a \div n) + (a % n)
OBVIOUS

LEMMA SmallMultiple ==
    ASSUME NEW n \in Nat \ {0}, NEW k \in Int, n * k < n
    PROVE  k <= 0
<1> SUFFICES ASSUME k >= 1 PROVE FALSE
  OBVIOUS
<1>1. n * k >= n
  OBVIOUS
<1> QED
  BY <1>1

(* Slots less than n apart have different remainders.                      *)
LEMMA RemaindersDiffer ==
    ASSUME NEW n \in Nat \ {0}, NEW a \in Int, NEW b \in Int,
           a % n = b % n, a <= b, b - a < n
    PROVE  a = b
<1> DEFINE p == a \div n
           q == b \div n
<1>1. p \in Int /\ q \in Int /\ a = n * p + (a % n) /\ b = n * q + (b % n)
  BY QuotientRemainder
<1>2. a % n \in Int
  BY RemainderRange
<1> HIDE DEF p, q
<1>3. b - a = n * (q - p) /\ a - b = n * (p - q)
  BY <1>1, <1>2
<1>4. q - p <= 0 /\ p - q <= 0
  BY <1>1, <1>3, SmallMultiple
<1> QED
  BY <1>1, <1>4

LEMMA QuotientsOrdered ==
    ASSUME NEW n \in Nat \ {0}, NEW a \in Int, NEW b \in Int, a <= b
    PROVE  a \div n <= b \div n
<1> DEFINE p == a \div n
           q == b \div n
<1>1. p \in Int /\ q \in Int /\ a = n * p + (a % n) /\ b = n * q + (b % n)
  BY QuotientRemainder
<1>2. a % n \in 0 .. n - 1 /\ b % n \in 0 .. n - 1
  BY RemainderRange
<1> HIDE DEF p, q
<1>3. n * (p - q) < n
  <2>1. n * (p - q) = n * p - n * q /\ n * p \in Int /\ n * q \in Int
    BY <1>1
  <2> DEFINE x == n * p
             y == n * q
  <2> HIDE DEF x, y
  <2>2. x - y < n
    BY <1>1, <1>2, <2>1 DEF x, y
  <2> QED
    BY <2>1, <2>2 DEF x, y
<1>4. p - q <= 0
  BY <1>1, <1>3, SmallMultiple
<1>5. p <= q
  BY <1>1, <1>4
<1> QED
  BY <1>5 DEF p, q

(* So n slots in a row have each a bucket of their own.                    *)
LEMMA BucketsDiffer ==
    ASSUME NEW n \in Nat \ {0}, NEW last \in Int
    PROVE  /\ \A s \in last - n + 1 .. last : s % n \in 0 .. n - 1
           /\ \A s, r \in last - n + 1 .. last : s % n = r % n => s = r
<1>1. ASSUME NEW s \in last - n + 1 .. last PROVE s % n \in 0 .. n - 1
  <2>1. s \in Int
    OBVIOUS
  <2> QED
    BY <2>1, RemainderRange
<1>2. ASSUME NEW s \in last - n + 1 .. last, NEW r \in last - n + 1 .. last, s % n = r % n
      PROVE  s = r
  <2>1. s \in Int /\ r \in Int /\ s - r < n /\ r - s < n
    OBVIOUS
  <2>2. CASE s <= r
    BY <1>2, <2>1, <2>2, RemaindersDiffer
  <2>3. CASE r <= s
    <3>1. r = s
      BY <1>2, <2>1, <2>3, RemaindersDiffer
    <3> QED
      BY <3>1
  <2> QED
    BY <2>1, <2>2, <2>3
<1> QED
  BY <1>1, <1>2

(* Each remainder is that of a slot among the n up to last.                *)
LEMMA RemainderFound ==
    ASSUME NEW n \in Nat \ {0}, NEW last \in Int, NEW b \in 0 .. n - 1
    PROVE  \E s \in last - n + 1 .. last : s % n = b
<1> DEFINE q == (last - b) \div n
           r == (last - b) % n
           s == last - r
           p == s \div n
           c == s % n
<1>1. q \in Int /\ r \in 0 .. n - 1 /\ last - b = n * q + r
  BY QuotientRemainder, RemainderRange
<1>2. s \in last - n + 1 .. last
  BY <1>1
<1>3. p \in Int /\ c \in 0 .. n - 1 /\ s = n * p + c
  <2> HIDE DEF r
  <2>1. s \in Int
    BY <1>1
  <2> HIDE DEF s
  <2> QED
    BY <2>1, QuotientRemainder, RemainderRange
<1> HIDE DEF q, r, p, c
<1>4. s = n * q + b
  BY <1>1
<1>5. c - b = n * (q - p) /\ b - c = n * (p - q)
  BY <1>1, <1>3, <1>4
<1>6. q - p <= 0 /\ p - q <= 0
  BY <1>1, <1>3, <1>5, SmallMultiple
<1>7. c - b = 0
  BY <1>1, <1>3, <1>5, <1>6
<1>8. c = b
  BY <1>3, <1>7
<1> QED
  BY <1>2, <1>8 DEF c

-----------------------------------------------------------------------------
(* A ring of n buckets counts by slot: the bucket s % n holds the count h  *)
(* of slot s, for the n slots up to last.                                  *)
Mirrors(ring, n, h, last) == \A s \in last - n + 1 .. last : ring[s % n] = h[s]

(* What is left of a ring whose window moves from slot last to current.    *)
Swept(n, last, current) ==
    IF current - last >= n THEN 0 .. n - 1
                           ELSE {s % n : s \in last + 1 .. current}

KeptOf(ring, n, stale) == [b \in 0 .. n - 1 |-> IF b \in stale THEN 0 ELSE ring[b]]

(* The buckets add up to the counts of the slots.                          *)
LEMMA RingTotal ==
    ASSUME NEW n \in Nat \ {0}, NEW last \in Int, NEW ring, NEW h,
           Mirrors(ring, n, h, last), \A s \in last - n + 1 .. last : h[s] \in Int
    PROVE  SumFunctionOnSet(ring, 0 .. n - 1) =
             SumFunctionOnSet(h, last - n + 1 .. last)
<1> DEFINE S == last - n + 1 .. last
           m == [s \in S |-> s % n]
<1>1. IsFiniteSet(S) /\ Ints(h, S)
  BY FS_Interval DEF Ints
<1>2. \A x, y \in S : m[x] = m[y] => x = y
  <2>1. \A x, y \in S : x % n = y % n => x = y
    BY BucketsDiffer, Zenon
  <2> QED
    BY <2>1, Zenon
<1>3. \A x \in S : ring[m[x]] = h[x]
  BY DEF Mirrors
<1>4. {m[x] : x \in S} = 0 .. n - 1
  <2>1. \A x \in S : m[x] \in 0 .. n - 1
    <3>1. \A x \in S : x % n \in 0 .. n - 1
      BY BucketsDiffer, Zenon
    <3> QED
      BY <3>1, Zenon
  <2>2. \A b \in 0 .. n - 1 : \E x \in S : b = m[x]
    BY RemainderFound
  <2> HIDE DEF m, S
  <2> QED
    BY <2>1, <2>2
<1> HIDE DEF m, S
<1>5. SumFunctionOnSet(ring, {m[x] : x \in S}) = SumFunctionOnSet(h, S)
  BY <1>1, <1>2, <1>3, SumRenamed
<1> QED
  BY <1>4, <1>5 DEF S

(* The window moves: nothing was counted yet in the slots it moves into.   *)
LEMMA RingMoves ==
    ASSUME NEW n \in Nat \ {0}, NEW last \in Int, NEW current \in Int, last <= current,
           NEW ring, NEW h, Mirrors(ring, n, h, last),
           \A s \in last + 1 .. current : h[s] = 0
    PROVE  Mirrors(KeptOf(ring, n, Swept(n, last, current)), n, h, current)
<1> DEFINE stale == Swept(n, last, current)
<1> SUFFICES ASSUME NEW s \in current - n + 1 .. current
             PROVE  KeptOf(ring, n, stale)[s % n] = h[s]
  BY DEF Mirrors
<1>1. s % n \in 0 .. n - 1
  BY RemainderRange
<1>2. CASE s > last
  <2>1. s \in last + 1 .. current
    BY <1>2
  <2>2. s % n \in stale
    BY <1>1, <2>1 DEF Swept
  <2> QED
    BY <1>1, <2>1, <2>2 DEF KeptOf
<1>3. CASE s <= last
  <2>1. s \in last - n + 1 .. last /\ ~(current - last >= n)
    BY <1>3
  <2>2. ASSUME s % n \in stale PROVE FALSE
    <3>1. PICK r \in last + 1 .. current : s % n = r % n
      BY <2>1, <2>2 DEF Swept
    <3>2. s \in current - n + 1 .. current /\ r \in current - n + 1 .. current
      BY <2>1, <3>1
    <3>3. s = r
      BY <3>1, <3>2, BucketsDiffer, Zenon
    <3> QED
      BY <1>3, <3>1, <3>3
  <2> QED
    BY <1>1, <2>1, <2>2 DEF KeptOf, Mirrors
<1> QED
  BY <1>2, <1>3

(* One more is counted in the newest slot.                                 *)
LEMMA RingCounts ==
    ASSUME NEW n \in Nat \ {0}, NEW last \in Int, NEW ring, NEW h, NEW d,
           Mirrors(ring, n, h, last), DOMAIN ring = 0 .. n - 1,
           NEW g, g[last] = h[last] + d, \A s \in last - n + 1 .. last - 1 : g[s] = h[s]
    PROVE  Mirrors([ring EXCEPT ![last % n] = @ + d], n, g, last)
<1> SUFFICES ASSUME NEW s \in last - n + 1 .. last
             PROVE  [ring EXCEPT ![last % n] = @ + d][s % n] = g[s]
  BY DEF Mirrors
<1>0. last \in last - n + 1 .. last
  OBVIOUS
<1>1. s % n \in 0 .. n - 1 /\ ring[s % n] = h[s] /\ ring[last % n] = h[last]
  BY <1>0, BucketsDiffer, Zenon DEF Mirrors
<1>2. CASE s = last
  BY <1>1, <1>2, Zenon
<1>3. CASE s # last
  <2>1. s % n # last % n
    BY <1>0, <1>3, BucketsDiffer, Zenon
  <2>2. g[s] = h[s]
    BY <1>3
  <2> QED
    BY <1>1, <2>1, <2>2, Zenon
<1> QED
  BY <1>2, <1>3

LEMMA SweptBuckets ==
    ASSUME NEW n \in Nat \ {0}, NEW last \in Int, NEW current \in Int
    PROVE  Swept(n, last, current) \subseteq 0 .. n - 1
BY RemainderRange DEF Swept

(* What is swept out is what the total loses.                              *)
LEMMA KeptTotal ==
    ASSUME NEW n \in Nat \ {0}, NEW ring, Ints(ring, 0 .. n - 1), NEW stale \in SUBSET (0 .. n - 1)
    PROVE  /\ SumFunctionOnSet(KeptOf(ring, n, stale), 0 .. n - 1) =
                SumFunctionOnSet(ring, 0 .. n - 1) - SumFunctionOnSet(ring, stale)
           /\ stale = 0 .. n - 1 => SumFunctionOnSet(KeptOf(ring, n, stale), 0 .. n - 1) = 0
<1> DEFINE B == 0 .. n - 1
           kept == KeptOf(ring, n, stale)
           rest == B \ stale
<1>1. IsFiniteSet(B) /\ IsFiniteSet(stale) /\ IsFiniteSet(rest)
  <2>1. IsFiniteSet(B)
    BY FS_Interval
  <2>2. rest \in SUBSET B
    OBVIOUS
  <2> QED
    BY <2>1, <2>2, FS_Subset
<1>2. B = stale \cup rest /\ stale \cap rest = {}
  OBVIOUS
<1>3. /\ \A b \in stale : kept[b] = 0
      /\ \A b \in rest : ring[b] = kept[b] /\ ring[b] \in Int
      /\ Ints(ring, stale) /\ Ints(ring, rest) /\ Ints(kept, B)
  BY DEF KeptOf, Ints
<1> HIDE DEF B, kept, rest
<1>4. SumFunctionOnSet(kept, stale) = 0
  BY <1>1, <1>3, SumOfZeros
<1>5. SumFunctionOnSet(ring, rest) = SumFunctionOnSet(kept, rest)
  BY <1>1, <1>3, SumsEqual
<1>6. Ints(ring, B)
  BY DEF B
<1>7. /\ SumFunctionOnSet(kept, B) = SumFunctionOnSet(kept, stale) + SumFunctionOnSet(kept, rest)
      /\ SumFunctionOnSet(ring, B) = SumFunctionOnSet(ring, stale) + SumFunctionOnSet(ring, rest)
  BY <1>1, <1>2, <1>3, <1>6, SumOfUnion
<1>8. SumFunctionOnSet(ring, stale) \in Int /\ SumFunctionOnSet(ring, rest) \in Int
  BY <1>1, <1>3, SumIsInt
<1>9. SumFunctionOnSet(kept, B) = SumFunctionOnSet(ring, B) - SumFunctionOnSet(ring, stale)
  BY <1>4, <1>5, <1>7, <1>8
<1> QED
  BY <1>4, <1>9 DEF B, kept

================================================================================
