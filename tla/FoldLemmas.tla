----------------------------- MODULE FoldLemmas -----------------------------
(* Induction over the natural numbers, and what the community module's     *)
(* SumFunctionOnSet computes for every finite set.                         *)
(*                                                                         *)
(* The library states induction for an operator; here it is stated for a   *)
(* set of numbers, from the fact that Nat is well-founded.                 *)
EXTENDS Naturals, Sequences, FiniteSets, Functions, FiniteSetTheorems,
        WellFoundedInduction, TLAPS

Descent == {p \in Nat \X Nat : p[1] < p[2]}

(* There is no infinite descent in the natural numbers.                    *)
LEMMA NatDescent == IsWellFoundedOn(Descent, Nat)
<1>1. Descent = OpToRel(<, Nat)
  BY DEF Descent, OpToRel
<1> QED
  BY <1>1, NatLessThanWellFounded

(* A set that contains zero and the successors of its numbers contains all *)
(* numbers: a smallest one outside would have a predecessor inside.        *)
LEMMA SetInduction ==
    ASSUME NEW S, 0 \in S, \A n \in Nat : n \in S => n + 1 \in S
    PROVE  Nat \subseteq S
<1> DEFINE T == Nat \ S
<1>1. SUFFICES ASSUME T # {} PROVE FALSE
  OBVIOUS
<1>2. PICK x \in T : \A y \in T : <<y, x>> \notin Descent
  <2>1. T \subseteq Nat
    OBVIOUS
  <2> HIDE DEF T
  <2> QED
    BY <1>1, <2>1, NatDescent, WFMin
<1>3. x \in Nat /\ x # 0 /\ x - 1 \in Nat /\ x - 1 < x
  OBVIOUS
<1>4. x - 1 \notin T
  BY <1>2, <1>3 DEF Descent
<1> QED
  BY <1>3, <1>4

-----------------------------------------------------------------------------
(* The recursive function behind SumFunctionOnSet: it takes one element    *)
(* after the other, the one that CHOOSE yields.                            *)
Any(s) == CHOOSE x \in s : TRUE

Unfold(f, iter, s) == IF s = {} THEN 0 ELSE f[Any(s)] + iter[s \ {Any(s)}]

IsSum(iter, f, S) == iter = [s \in SUBSET S |-> Unfold(f, iter, s)]

(* The library's definition, unfolded.                                     *)
LEMMA SumIsIterated ==
    ASSUME NEW f, NEW S
    PROVE  SumFunctionOnSet(f, S) = (CHOOSE iter : IsSum(iter, f, S))[S]
  BY DEF SumFunctionOnSet, FoldFunctionOnSet, MapThenFoldSet, IsSum, Unfold,
         Any

(* Taking the chosen element leaves a smaller set.                         *)
LEMMA AnySmaller ==
    ASSUME NEW S, IsFiniteSet(S), NEW s \in SUBSET S, s # {}
    PROVE  /\ Any(s) \in s /\ s \ {Any(s)} \in SUBSET S
           /\ IsFiniteSet(s) /\ Cardinality(s) \in Nat \ {0}
           /\ \A x \in s : Cardinality(s \ {x}) = Cardinality(s) - 1
<1>1. Any(s) \in s
  BY DEF Any
<1>2. IsFiniteSet(s) /\ Cardinality(s) \in Nat
  BY FS_Subset, FS_CardinalityType
<1>3. Cardinality(s) # 0
  BY <1>2, FS_EmptySet
<1> QED
  BY <1>1, <1>2, <1>3, FS_RemoveElement

(* The function exists on the subsets of any size.                         *)
LEMMA SumExists ==
    ASSUME NEW f, NEW S, IsFiniteSet(S)
    PROVE  \E iter : IsSum(iter, f, S)
<1> DEFINE Upto(n) == {s \in SUBSET S : Cardinality(s) <= n}
           Works(n) == \E iter : iter = [s \in Upto(n) |-> Unfold(f, iter, s)]
           W == {n \in Nat : Works(n)}
<1>1. 0 \in W
  <2>1. ASSUME NEW iter, NEW s \in Upto(0)
        PROVE  Unfold(f, iter, s) = 0
    <3>1. s = {}
      BY <2>1, AnySmaller
    <3> QED
      BY <3>1 DEF Unfold
  <2> DEFINE z == [s \in Upto(0) |-> 0]
  <2>2. z = [s \in Upto(0) |-> Unfold(f, z, s)]
    BY <2>1
  <2> QED
    BY <2>2
<1>2. ASSUME NEW n \in Nat, n \in W
      PROVE  n + 1 \in W
  <2>1. PICK g : g = [s \in Upto(n) |-> Unfold(f, g, s)]
    BY <1>2
  <2> DEFINE h == [s \in Upto(n + 1) |-> Unfold(f, g, s)]
  <2>2. Upto(n) \subseteq Upto(n + 1)
    BY FS_Subset, FS_CardinalityType
  <2>3. \A s \in Upto(n) : h[s] = g[s]
    BY <2>1, <2>2
  <2>4. \A s \in Upto(n + 1) : s # {} => s \ {Any(s)} \in Upto(n)
    BY AnySmaller
  <2>5. ASSUME NEW s \in Upto(n + 1)
        PROVE  Unfold(f, h, s) = Unfold(f, g, s)
    <3> HIDE DEF h, Upto
    <3>1. CASE s = {}
      BY <3>1 DEF Unfold
    <3>2. CASE s # {}
      <4>1. h[s \ {Any(s)}] = g[s \ {Any(s)}]
        BY <2>3, <2>4, <3>2
      <4> QED
        BY <3>2, <4>1 DEF Unfold
    <3> QED
      BY <3>1, <3>2
  <2>6. h = [s \in Upto(n + 1) |-> Unfold(f, h, s)]
    <3> HIDE DEF Upto
    <3> QED
      BY <2>5
  <2> HIDE DEF h, Upto
  <2> QED
    BY <2>6
<1>3. Cardinality(S) \in Nat
  BY FS_CardinalityType
<1>4. Works(Cardinality(S))
  <2> HIDE DEF Works
  <2> QED
    BY <1>1, <1>2, <1>3, SetInduction
<1>5. Upto(Cardinality(S)) = SUBSET S
  BY FS_Subset
<1> QED
  BY <1>4, <1>5 DEF IsSum

(* Two such functions agree where the functions that are summed do.        *)
LEMMA SumsAgree ==
    ASSUME NEW S, IsFiniteSet(S), NEW T, IsFiniteSet(T), NEW f, NEW g,
           NEW i, IsSum(i, f, S), NEW j, IsSum(j, g, T),
           NEW s \in SUBSET (S \cap T), \A x \in s : f[x] = g[x]
    PROVE  i[s] = j[s]
<1> DEFINE Agree(n) == \A u \in SUBSET s : Cardinality(u) = n => i[u] = j[u]
           W == {n \in Nat : Agree(n)}
<1>1. ASSUME NEW u \in SUBSET s
      PROVE  i[u] = Unfold(f, i, u) /\ j[u] = Unfold(g, j, u)
  BY DEF IsSum
<1>2. IsFiniteSet(s) /\ Cardinality(s) \in Nat
  BY FS_Subset, FS_CardinalityType
<1>3. 0 \in W
  <2> SUFFICES ASSUME NEW u \in SUBSET s, Cardinality(u) = 0
               PROVE  i[u] = j[u]
    OBVIOUS
  <2>1. u = {}
    BY <1>2, AnySmaller
  <2> QED
    BY <1>1, <2>1 DEF Unfold
<1>4. ASSUME NEW n \in Nat, n \in W
      PROVE  n + 1 \in W
  <2> SUFFICES ASSUME NEW u \in SUBSET s, Cardinality(u) = n + 1
               PROVE  i[u] = j[u]
    OBVIOUS
  <2>1. u # {}
    BY <1>2, FS_EmptySet
  <2>2. /\ Any(u) \in u /\ u \ {Any(u)} \in SUBSET s
        /\ Cardinality(u \ {Any(u)}) = n
    <3>1. /\ Any(u) \in u /\ u \ {Any(u)} \in SUBSET s
          /\ Cardinality(u \ {Any(u)}) = Cardinality(u) - 1
      <4> HIDE DEF W
      <4>1. IsFiniteSet(s) /\ u \in SUBSET s
        BY <1>2
      <4> QED
        BY <2>1, <4>1, AnySmaller
    <3> QED
      BY <3>1
  <2>3. f[Any(u)] = g[Any(u)] /\ i[u \ {Any(u)}] = j[u \ {Any(u)}]
    BY <1>4, <2>2
  <2> QED
    BY <1>1, <2>1, <2>3 DEF Unfold
<1>5. Agree(Cardinality(s))
  <2> HIDE DEF Agree
  <2> QED
    BY <1>2, <1>3, <1>4, SetInduction
<1> QED
  BY <1>5

(* The values are natural numbers.                                         *)
LEMMA SumsAreNat ==
    ASSUME NEW S, IsFiniteSet(S), NEW f, \A x \in S : f[x] \in Nat,
           NEW i, IsSum(i, f, S), NEW s \in SUBSET S
    PROVE  i[s] \in Nat
<1> DEFINE Good(n) == \A u \in SUBSET S : Cardinality(u) = n => i[u] \in Nat
           W == {n \in Nat : Good(n)}
<1>1. \A u \in SUBSET S : i[u] = Unfold(f, i, u)
  BY DEF IsSum
<1>2. IsFiniteSet(s) /\ Cardinality(s) \in Nat
  BY FS_Subset, FS_CardinalityType
<1>3. 0 \in W
  <2> SUFFICES ASSUME NEW u \in SUBSET S, Cardinality(u) = 0
               PROVE  i[u] \in Nat
    OBVIOUS
  <2>1. u = {}
    BY AnySmaller
  <2>2. Unfold(f, i, u) = 0
    BY <2>1 DEF Unfold
  <2>3. i[u] = 0
    BY <1>1, <2>2
  <2> QED
    BY <2>3
<1>4. ASSUME NEW n \in Nat, n \in W
      PROVE  n + 1 \in W
  <2> SUFFICES ASSUME NEW u \in SUBSET S, Cardinality(u) = n + 1
               PROVE  i[u] \in Nat
    OBVIOUS
  <2>1. u # {}
    BY FS_EmptySet
  <2>2. /\ Any(u) \in S /\ u \ {Any(u)} \in SUBSET S
        /\ Cardinality(u \ {Any(u)}) = n
    BY <2>1, AnySmaller
  <2>3. f[Any(u)] \in Nat /\ i[u \ {Any(u)}] \in Nat
    BY <1>4, <2>2
  <2>4. Unfold(f, i, u) = f[Any(u)] + i[u \ {Any(u)}]
    BY <2>1 DEF Unfold
  <2>5. i[u] = f[Any(u)] + i[u \ {Any(u)}]
    BY <1>1, <2>4
  <2> HIDE DEF W
  <2> QED
    BY <2>3, <2>5
<1>5. Good(Cardinality(s))
  <2> HIDE DEF Good
  <2> QED
    BY <1>2, <1>3, <1>4, SetInduction
<1> QED
  BY <1>5

(* Any element may be taken first.                                         *)
LEMMA SumsTakeAny ==
    ASSUME NEW S, IsFiniteSet(S), NEW f, \A x \in S : f[x] \in Nat,
           NEW i, IsSum(i, f, S), NEW s \in SUBSET S, NEW y \in s
    PROVE  i[s] = f[y] + i[s \ {y}]
<1> DEFINE Good(n) == \A u \in SUBSET S : Cardinality(u) = n =>
                         \A x \in u : i[u] = f[x] + i[u \ {x}]
           W == {n \in Nat : Good(n)}
<1>1. \A u \in SUBSET S : i[u] = Unfold(f, i, u) /\ i[u] \in Nat
  BY SumsAreNat DEF IsSum
<1>2. IsFiniteSet(s) /\ Cardinality(s) \in Nat
  BY FS_Subset, FS_CardinalityType
<1>3. 0 \in W
  <2> SUFFICES ASSUME NEW u \in SUBSET S, Cardinality(u) = 0, u # {}
               PROVE  FALSE
    OBVIOUS
  <2> QED
    BY AnySmaller
<1>4. ASSUME NEW n \in Nat, n \in W
      PROVE  n + 1 \in W
  <2> SUFFICES ASSUME NEW u \in SUBSET S, Cardinality(u) = n + 1,
                      NEW x \in u
               PROVE  i[u] = f[x] + i[u \ {x}]
    OBVIOUS
  <2> DEFINE c == Any(u)
  <2>1. c \in u /\ Cardinality(u \ {c}) = n /\ Cardinality(u \ {x}) = n
    BY AnySmaller
  <2>2. i[u] = f[c] + i[u \ {c}]
    BY <1>1 DEF Unfold
  <2> HIDE DEF c
  <2>3. CASE x = c
    BY <2>2, <2>3
  <2>4. CASE x # c
    <3> DEFINE v == u \ {c, x}
    <3>1. (u \ {c}) \ {x} = v /\ (u \ {x}) \ {c} = v
      OBVIOUS
    <3>2. i[u \ {c}] = f[x] + i[v]
      BY <1>4, <2>1, <2>4, <3>1
    <3>3. i[u \ {x}] = f[c] + i[v]
      BY <1>4, <2>1, <2>4, <3>1
    <3>4. f[c] \in Nat /\ f[x] \in Nat /\ i[v] \in Nat
      BY <1>1, <2>1
    <3> QED
      BY <2>2, <3>2, <3>3, <3>4
  <2> QED
    BY <2>3, <2>4
<1>5. Good(Cardinality(s))
  <2> HIDE DEF Good
  <2> QED
    BY <1>2, <1>3, <1>4, SetInduction
<1> QED
  BY <1>5

-----------------------------------------------------------------------------
(* What SumFunctionOnSet returns on a finite set of indices.               *)
LEMMA SumOf ==
    ASSUME NEW f, NEW S, IsFiniteSet(S)
    PROVE  \E iter : IsSum(iter, f, S) /\ SumFunctionOnSet(f, S) = iter[S]
<1>1. \E iter : IsSum(iter, f, S)
  BY SumExists
<1>2. IsSum(CHOOSE iter : IsSum(iter, f, S), f, S)
  BY <1>1
<1> QED
  BY <1>2, SumIsIterated

(* The sum over no index is zero.                                          *)
LEMMA SumEmpty ==
    ASSUME NEW f
    PROVE  SumFunctionOnSet(f, {}) = 0
<1>1. IsFiniteSet({})
  BY FS_EmptySet
<1>2. PICK i : IsSum(i, f, {}) /\ SumFunctionOnSet(f, {}) = i[{}]
  BY <1>1, SumOf
<1>3. i[{}] = Unfold(f, i, {})
  BY <1>2 DEF IsSum
<1> QED
  BY <1>2, <1>3 DEF Unfold

(* The sum of natural numbers is one.                                      *)
LEMMA SumIsNat ==
    ASSUME NEW S, IsFiniteSet(S), NEW f, \A x \in S : f[x] \in Nat
    PROVE  SumFunctionOnSet(f, S) \in Nat
<1>1. PICK i : IsSum(i, f, S) /\ SumFunctionOnSet(f, S) = i[S]
  BY SumOf
<1>2. S \in SUBSET S
  OBVIOUS
<1> QED
  BY <1>1, <1>2, SumsAreNat

(* Only the values at the indices matter.                                  *)
LEMMA SumSame ==
    ASSUME NEW S, IsFiniteSet(S), NEW f, NEW g, \A x \in S : f[x] = g[x]
    PROVE  SumFunctionOnSet(f, S) = SumFunctionOnSet(g, S)
<1>1. PICK i : IsSum(i, f, S) /\ SumFunctionOnSet(f, S) = i[S]
  BY SumOf
<1>2. PICK j : IsSum(j, g, S) /\ SumFunctionOnSet(g, S) = j[S]
  BY SumOf
<1>3. S \in SUBSET (S \cap S)
  OBVIOUS
<1> QED
  BY <1>1, <1>2, <1>3, SumsAgree

(* A sum is the value at any index plus the sum over the others.           *)
LEMMA SumTakes ==
    ASSUME NEW S, IsFiniteSet(S), NEW f, \A x \in S : f[x] \in Nat,
           NEW y \in S
    PROVE  SumFunctionOnSet(f, S) = f[y] + SumFunctionOnSet(f, S \ {y})
<1> DEFINE R == S \ {y}
<1>1. IsFiniteSet(R) /\ R \in SUBSET (S \cap R) /\ S \in SUBSET S
  BY FS_Subset
<1> HIDE DEF R
<1>2. PICK i : IsSum(i, f, S) /\ SumFunctionOnSet(f, S) = i[S]
  BY SumOf
<1>3. PICK j : IsSum(j, f, R) /\ SumFunctionOnSet(f, R) = j[R]
  BY <1>1, SumOf
<1>4. i[R] = j[R]
  BY <1>1, <1>2, <1>3, SumsAgree
<1>5. i[S] = f[y] + i[R]
  BY <1>1, <1>2, SumsTakeAny DEF R
<1> QED
  BY <1>2, <1>3, <1>4, <1>5 DEF R

(* The sum of zeros is zero.                                               *)
LEMMA SumOfZeros ==
    ASSUME NEW S, IsFiniteSet(S), NEW f, \A x \in S : f[x] = 0
    PROVE  SumFunctionOnSet(f, S) = 0
<1> DEFINE Zero(n) == \A u \in SUBSET S : Cardinality(u) = n =>
                         SumFunctionOnSet(f, u) = 0
           W == {n \in Nat : Zero(n)}
<1>1. 0 \in W
  <2> SUFFICES ASSUME NEW u \in SUBSET S, Cardinality(u) = 0
               PROVE  SumFunctionOnSet(f, u) = 0
    OBVIOUS
  <2>1. u = {}
    BY AnySmaller
  <2> QED
    BY <2>1, SumEmpty
<1>2. ASSUME NEW n \in Nat, n \in W
      PROVE  n + 1 \in W
  <2> SUFFICES ASSUME NEW u \in SUBSET S, Cardinality(u) = n + 1
               PROVE  SumFunctionOnSet(f, u) = 0
    OBVIOUS
  <2>1. u # {}
    BY FS_EmptySet
  <2>2. PICK y : y \in u
    BY <2>1
  <2>3. /\ IsFiniteSet(u) /\ u \ {y} \in SUBSET S
        /\ Cardinality(u \ {y}) = n
    BY <2>2, AnySmaller
  <2>4. SumFunctionOnSet(f, u \ {y}) = 0
    BY <1>2, <2>3
  <2> HIDE DEF W
  <2>5. \A x \in u : f[x] \in Nat
    OBVIOUS
  <2>6. SumFunctionOnSet(f, u) = f[y] + SumFunctionOnSet(f, u \ {y})
    BY <2>2, <2>3, <2>5, SumTakes
  <2> QED
    BY <2>2, <2>4, <2>6
<1>3. Cardinality(S) \in Nat
  BY FS_CardinalityType
<1>4. Zero(Cardinality(S))
  <2> HIDE DEF Zero
  <2> QED
    BY <1>1, <1>2, <1>3, SetInduction
<1> QED
  BY <1>4

(* A change of one value changes the sum by as much.                       *)
LEMMA SumChanges ==
    ASSUME NEW S, IsFiniteSet(S), NEW y \in S,
           NEW f, \A x \in S : f[x] \in Nat,
           NEW g, \A x \in S : g[x] \in Nat,
           \A x \in S : x # y => g[x] = f[x]
    PROVE  SumFunctionOnSet(g, S) + f[y] = SumFunctionOnSet(f, S) + g[y]
<1> DEFINE R == S \ {y}
<1>1. IsFiniteSet(R)
  BY FS_Subset
<1>2. SumFunctionOnSet(f, R) = SumFunctionOnSet(g, R)
  BY <1>1, SumSame
<1>3. SumFunctionOnSet(f, R) \in Nat
  BY <1>1, SumIsNat
<1>4. /\ SumFunctionOnSet(f, S) = f[y] + SumFunctionOnSet(f, R)
      /\ SumFunctionOnSet(g, S) = g[y] + SumFunctionOnSet(g, R)
  BY SumTakes
<1> HIDE DEF R
<1> QED
  BY <1>2, <1>3, <1>4

(* A sum over 1 .. n + 1 is its last value plus the sum over 1 .. n.       *)
LEMMA SumLast ==
    ASSUME NEW n \in Nat, NEW f, \A k \in 1 .. n + 1 : f[k] \in Nat
    PROVE  /\ SumFunctionOnSet(f, 1 .. n + 1)
                = f[n + 1] + SumFunctionOnSet(f, 1 .. n)
           /\ SumFunctionOnSet(f, 1 .. n) \in Nat
<1>1. IsFiniteSet(1 .. n + 1) /\ IsFiniteSet(1 .. n)
  BY FS_Interval
<1>2. n + 1 \in 1 .. n + 1 /\ (1 .. n + 1) \ {n + 1} = 1 .. n
  OBVIOUS
<1>3. SumFunctionOnSet(f, 1 .. n + 1)
        = f[n + 1] + SumFunctionOnSet(f, (1 .. n + 1) \ {n + 1})
  BY <1>1, <1>2, SumTakes
<1>4. \A k \in 1 .. n : f[k] \in Nat
  OBVIOUS
<1> QED
  BY <1>1, <1>2, <1>3, <1>4, SumIsNat

(* ... and its first value plus the sum of the others, moved down by one.  *)
LEMMA SumFirst ==
    ASSUME NEW n \in Nat, NEW f, \A k \in 1 .. n + 1 : f[k] \in Nat,
           NEW g, \A k \in 1 .. n : g[k] = f[k + 1]
    PROVE  SumFunctionOnSet(f, 1 .. n + 1)
             = f[1] + SumFunctionOnSet(g, 1 .. n)
<1> DEFINE Shifts(m) == SumFunctionOnSet(f, 1 .. m + 1)
                          = f[1] + SumFunctionOnSet(g, 1 .. m)
           W == {m \in Nat : m <= n => Shifts(m)}
<1>1. 0 \in W
  <2>1. 1 .. 0 = {} /\ 0 + 1 = 1 /\ \A k \in 1 .. 0 + 1 : f[k] \in Nat
    OBVIOUS
  <2>2. SumFunctionOnSet(f, 1 .. 0 + 1)
          = f[0 + 1] + SumFunctionOnSet(f, 1 .. 0)
    BY <2>1, SumLast
  <2> QED
    BY <2>1, <2>2, SumEmpty
<1>2. ASSUME NEW m \in Nat, m \in W
      PROVE  m + 1 \in W
  <2> SUFFICES ASSUME m + 1 <= n
               PROVE  Shifts(m + 1)
    OBVIOUS
  <2>1. Shifts(m)
    BY <1>2
  <2> HIDE DEF W
  <2>2. /\ \A k \in 1 .. m + 1 : g[k] \in Nat
        /\ \A k \in 1 .. (m + 1) + 1 : f[k] \in Nat
    OBVIOUS
  <2>3. /\ SumFunctionOnSet(g, 1 .. m + 1)
             = g[m + 1] + SumFunctionOnSet(g, 1 .. m)
        /\ SumFunctionOnSet(g, 1 .. m) \in Nat
    BY <2>2, SumLast
  <2>4. SumFunctionOnSet(f, 1 .. (m + 1) + 1)
          = f[(m + 1) + 1] + SumFunctionOnSet(f, 1 .. m + 1)
    BY <2>2, SumLast
  <2>5. /\ g[m + 1] = f[(m + 1) + 1] /\ g[m + 1] \in Nat /\ f[1] \in Nat
    BY <2>2
  <2> QED
    BY <2>1, <2>3, <2>4, <2>5
<1> HIDE DEF Shifts
<1>3. Nat \subseteq W
  BY <1>1, <1>2, SetInduction
<1>4. Shifts(n)
  BY <1>3
<1> QED
  BY <1>4 DEF Shifts
=============================================================================
