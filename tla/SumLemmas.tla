----------------------------- MODULE SumLemmas ------------------------------
(***************************************************************************)
(* Induction over numbers and finite sets, and the laws of the sum of a     *)
(* function over a finite set (SumFunctionOnSet of the community modules),  *)
(* for the proofs about counters and balances that are kept incrementally.  *)
(*                                                                         *)
(* The library's induction theorems take a predicate; these take a set,     *)
(* and rest on the least element of a set of numbers.                       *)
(***************************************************************************)
EXTENDS Integers, Sequences, FiniteSets, Functions, FiniteSetTheorems,
        WellFoundedInduction, TLAPS

\* Every nonempty set of naturals has a least element.
LEMMA LeastNumber ==
    ASSUME NEW T \in SUBSET Nat, T # {}
    PROVE  \E m \in T : \A k \in T : m <= k
<1>1. PICK x \in T : \A y \in T : ~(<<y, x>> \in OpToRel(<, Nat))
  BY WFMin, NatLessThanWellFounded
<1>2. \A y \in T : ~(y < x)
  BY <1>1 DEF OpToRel
<1> QED
  BY <1>2

\* A set with 0 and with each number's successor holds every number.
LEMMA NumberInduction ==
    ASSUME NEW P, 0 \in P, \A n \in Nat : n \in P => n + 1 \in P
    PROVE  \A n \in Nat : n \in P
<1> DEFINE Rest == Nat \ P
<1>1. SUFFICES ASSUME Rest # {} PROVE FALSE
  OBVIOUS
<1>2. PICK m \in Rest : \A k \in Rest : m <= k
  BY <1>1, LeastNumber
<1>3. m # 0 /\ m - 1 \in Nat /\ m - 1 \in P
  BY <1>2
<1> QED
  BY <1>3

\* A set of sets that holds {} and, with each proper part of S, that part and
\* one element more, holds S.
LEMMA FiniteInduction ==
    ASSUME NEW S, IsFiniteSet(S), NEW P, {} \in P,
           \A T \in SUBSET S : \A x \in S \ T : T \in P => T \cup {x} \in P
    PROVE  S \in P
<1> DEFINE Parts == {T \in SUBSET S : T \in P}
           Left == {Cardinality(S \ T) : T \in Parts}
<1>1. \A T \in SUBSET S : IsFiniteSet(S \ T) /\ Cardinality(S \ T) \in Nat
  BY FS_Subset, FS_CardinalityType
<1>2. Left \in SUBSET Nat /\ Left # {}
  BY <1>1
<1>3. PICK m \in Left : \A k \in Left : m <= k
  BY <1>2, LeastNumber
<1>4. PICK T \in Parts : m = Cardinality(S \ T)
  BY <1>3
<1>5. CASE S \ T = {}
  BY <1>4, <1>5
<1>6. CASE S \ T # {}
  <2>1. PICK x \in S \ T : TRUE
    BY <1>6
  <2>2. T \cup {x} \in Parts
    BY <1>4, <2>1
  <2>3. S \ (T \cup {x}) = (S \ T) \ {x}
    OBVIOUS
  <2>4. Cardinality(S \ (T \cup {x})) = m - 1
    <3> DEFINE D == S \ T
    <3>1. IsFiniteSet(D) /\ x \in D /\ Cardinality(D) = m
      BY <1>1, <1>4, <2>1
    <3>2. Cardinality(D \ {x}) = Cardinality(D) - 1
      <4> HIDE DEF D
      <4> QED
        BY <3>1, FS_RemoveElement
    <3> QED
      BY <2>3, <3>1, <3>2
  <2>5. m - 1 \in Left
    BY <2>2, <2>4
  <2> HIDE DEF Left
  <2> QED
    BY <1>2, <1>3, <2>5
<1> QED
  BY <1>5, <1>6

-----------------------------------------------------------------------------
(* The fold behind a sum *)

Some(s) == CHOOSE x \in s : TRUE

\* What the fold does with the part s, given its values for the parts of s.
SumStep(f, g, s) == IF s = {} THEN 0 ELSE f[Some(s)] + g[s \ {Some(s)}]

\* g is the fold over all parts of S.
Folds_(f, g, S) == g = [s \in SUBSET S |-> SumStep(f, g, s)]

LEMMA SomeIn == \A s : s # {} => Some(s) \in s
  BY DEF Some

\* The fold exists: it is built for parts of up to n elements, for every n.
LEMMA FoldExists ==
    ASSUME NEW S, IsFiniteSet(S), NEW f
    PROVE  \E g : Folds_(f, g, S)
<1> DEFINE UpTo(n) == {s \in SUBSET S : Cardinality(s) <= n}
           Good(n) == \E g : \A s \in UpTo(n) : g[s] = SumStep(f, g, s)
           P == {n \in Nat : Good(n)}
<1>1. \A s \in SUBSET S : IsFiniteSet(s) /\ Cardinality(s) \in Nat
  BY FS_Subset, FS_CardinalityType
<1>2. 0 \in P
  <2> DEFINE g == [s \in SUBSET S |-> 0]
  <2>1. \A s \in UpTo(0) : s = {} /\ g[s] = 0
    BY <1>1, FS_EmptySet
  <2> QED
    BY <2>1 DEF SumStep
<1>3. ASSUME NEW n \in Nat, n \in P PROVE n + 1 \in P
  <2>1. PICK g : \A s \in UpTo(n) : g[s] = SumStep(f, g, s)
    BY <1>3
  <2> DEFINE h == [s \in SUBSET S |-> SumStep(f, g, s)]
  <2>2. ASSUME NEW s \in UpTo(n + 1) PROVE h[s] = SumStep(f, h, s)
    <3>1. CASE s = {}
      BY <3>1 DEF SumStep
    <3>2. CASE s # {}
      <4> DEFINE r == s \ {Some(s)}
      <4>1. Some(s) \in s
        BY <3>2, SomeIn
      <4>2. r \in SUBSET S /\ Cardinality(r) = Cardinality(s) - 1
        BY <1>1, <4>1, FS_RemoveElement
      <4>3. r \in UpTo(n)
        BY <1>1, <4>2
      <4>4. h[r] = g[r]
        BY <2>1, <4>3
      <4>5. h[s] = SumStep(f, g, s)
        OBVIOUS
      <4> QED
        BY <3>2, <4>4, <4>5 DEF SumStep
    <3> QED
      BY <3>1, <3>2
  <2>3. Good(n + 1)
    BY <2>2
  <2> QED
    BY <2>3
<1> DEFINE size == Cardinality(S)
<1>4. size \in P
  <2> HIDE DEF P
  <2> QED
    BY <1>1, <1>2, <1>3, NumberInduction
<1>5. PICK g : \A s \in UpTo(size) : g[s] = SumStep(f, g, s)
  BY <1>4
<1>6. \A s \in SUBSET S : s \in UpTo(size)
  BY FS_Subset
<1> DEFINE h == [s \in SUBSET S |-> g[s]]
<1>7. ASSUME NEW s \in SUBSET S PROVE h[s] = SumStep(f, h, s)
  <2>1. h[s] = SumStep(f, g, s)
    BY <1>5, <1>6
  <2>2. s # {} => h[s \ {Some(s)}] = g[s \ {Some(s)}]
    OBVIOUS
  <2> QED
    BY <2>1, <2>2 DEF SumStep
<1>8. h = [s \in SUBSET S |-> SumStep(f, h, s)]
  BY <1>7
<1> QED
  BY <1>8 DEF Folds_

\* Two folds of one function agree wherever both are defined.
LEMMA FoldsAgree ==
    ASSUME NEW S, NEW T, NEW f, NEW g, NEW h,
           Folds_(f, g, S), Folds_(f, h, T),
           NEW U, IsFiniteSet(U), U \subseteq S, U \subseteq T
    PROVE  g[U] = h[U]
<1> DEFINE Small(n) == {s \in SUBSET U : Cardinality(s) <= n}
           P == {n \in Nat : \A s \in Small(n) : g[s] = h[s]}
<1>1. \A s \in SUBSET U : IsFiniteSet(s) /\ Cardinality(s) \in Nat
  BY FS_Subset, FS_CardinalityType
<1>2. \A s \in SUBSET U : g[s] = SumStep(f, g, s) /\ h[s] = SumStep(f, h, s)
  BY DEF Folds_
<1>3. 0 \in P
  <2>1. \A s \in Small(0) : s = {}
    BY <1>1, FS_EmptySet
  <2> QED
    BY <1>2, <2>1 DEF SumStep
<1>4. ASSUME NEW n \in Nat, n \in P PROVE n + 1 \in P
  <2>1. ASSUME NEW s \in Small(n + 1) PROVE g[s] = h[s]
    <3>1. CASE s = {}
      BY <1>2, <3>1 DEF SumStep
    <3>2. CASE s # {}
      <4> DEFINE r == s \ {Some(s)}
      <4>1. Some(s) \in s
        BY <3>2, SomeIn
      <4>2. r \in SUBSET U /\ Cardinality(r) = Cardinality(s) - 1
        BY <1>1, <4>1, FS_RemoveElement
      <4>3. r \in Small(n)
        BY <1>1, <4>2
      <4>4. g[r] = h[r]
        BY <1>4, <4>3
      <4> QED
        BY <1>2, <3>2, <4>4 DEF SumStep
    <3> QED
      BY <3>1, <3>2
  <2> QED
    BY <2>1
<1> DEFINE size == Cardinality(U)
<1>5. size \in P
  <2> HIDE DEF P
  <2> QED
    BY <1>1, <1>3, <1>4, NumberInduction
<1> QED
  BY <1>1, <1>5

\* The sum of the community modules is such a fold, read at its whole set.
LEMMA SumIsFold ==
    ASSUME NEW S, IsFiniteSet(S), NEW f
    PROVE  \E g : Folds_(f, g, S) /\ SumFunctionOnSet(f, S) = g[S]
<1> DEFINE iter == CHOOSE g : g = [s \in SUBSET S |->
                      IF s = {} THEN 0
                      ELSE f[CHOOSE x \in s : TRUE]
                           + g[s \ {CHOOSE x \in s : TRUE}]]
<1>1. SumFunctionOnSet(f, S) = iter[S]
  BY DEF SumFunctionOnSet, FoldFunctionOnSet, MapThenFoldSet
<1>2. \E g : g = [s \in SUBSET S |->
                      IF s = {} THEN 0
                      ELSE f[CHOOSE x \in s : TRUE]
                           + g[s \ {CHOOSE x \in s : TRUE}]]
  <2>1. PICK g : Folds_(f, g, S)
    BY FoldExists
  <2>2. g = [s \in SUBSET S |->
                IF s = {} THEN 0
                ELSE f[CHOOSE x \in s : TRUE]
                     + g[s \ {CHOOSE x \in s : TRUE}]]
    BY <2>1 DEF Folds_, SumStep, Some
  <2> QED
    BY <2>2
<1>3. Folds_(f, iter, S)
  BY <1>2 DEF Folds_, SumStep, Some
<1> QED
  BY <1>1, <1>3

\* One step of the sum, whatever element the fold picks.
LEMMA SumUnfolds ==
    ASSUME NEW S, IsFiniteSet(S), NEW f
    PROVE  SumFunctionOnSet(f, S)
             = IF S = {} THEN 0
               ELSE f[Some(S)] + SumFunctionOnSet(f, S \ {Some(S)})
<1>1. PICK g : Folds_(f, g, S) /\ SumFunctionOnSet(f, S) = g[S]
  BY SumIsFold
<1>2. g[S] = SumStep(f, g, S)
  BY <1>1 DEF Folds_
<1>3. CASE S = {}
  BY <1>1, <1>2, <1>3 DEF SumStep
<1>4. CASE S # {}
  <2> DEFINE R == S \ {Some(S)}
  <2>1. IsFiniteSet(R) /\ R \subseteq S
    BY FS_Subset
  <2>2. PICK h : Folds_(f, h, R) /\ SumFunctionOnSet(f, R) = h[R]
    BY <2>1, SumIsFold
  <2>3. g[R] = h[R]
    BY <1>1, <2>1, <2>2, FoldsAgree
  <2> QED
    BY <1>1, <1>2, <1>4, <2>2, <2>3 DEF SumStep
<1> QED
  BY <1>3, <1>4

-----------------------------------------------------------------------------
(* The laws of the sum *)

LEMMA SumEmpty == \A f : SumFunctionOnSet(f, {}) = 0
  BY SumUnfolds, FS_EmptySet

\* A sum of integers is an integer.
LEMMA SumInts ==
    ASSUME NEW S, IsFiniteSet(S), NEW f, \A i \in S : f[i] \in Int
    PROVE  SumFunctionOnSet(f, S) \in Int
<1> DEFINE P == {n \in Nat : \A T \in SUBSET S :
                    Cardinality(T) = n => SumFunctionOnSet(f, T) \in Int}
<1>1. \A T \in SUBSET S : IsFiniteSet(T) /\ Cardinality(T) \in Nat
  BY FS_Subset, FS_CardinalityType
<1>2. 0 \in P
  <2>1. \A T \in SUBSET S : Cardinality(T) = 0 => T = {}
    BY <1>1, FS_EmptySet
  <2> QED
    BY <2>1, SumEmpty
<1>3. ASSUME NEW n \in Nat, n \in P PROVE n + 1 \in P
  <2>1. ASSUME NEW T \in SUBSET S, Cardinality(T) = n + 1
        PROVE  SumFunctionOnSet(f, T) \in Int
    <3> DEFINE c == Some(T)
    <3>1. T # {} /\ c \in T
      BY <2>1, FS_EmptySet, SomeIn
    <3> HIDE DEF c
    <3>2. \A y \in T : T \ {y} \in SUBSET S /\ Cardinality(T \ {y}) = n
      BY <1>1, <2>1, FS_RemoveElement
    <3>3. SumFunctionOnSet(f, T \ {c}) \in Int
      BY <1>3, <3>1, <3>2
    <3>4. SumFunctionOnSet(f, T) = f[c] + SumFunctionOnSet(f, T \ {c})
      BY <1>1, <3>1, SumUnfolds DEF c
    <3> QED
      BY <3>1, <3>3, <3>4
  <2> QED
    BY <2>1
<1> DEFINE size == Cardinality(S)
<1>4. size \in P
  <2> HIDE DEF P
  <2> QED
    BY <1>1, <1>2, <1>3, NumberInduction
<1> QED
  BY <1>1, <1>4

\* Any element may be taken out first.
LEMMA SumTakesAny ==
    ASSUME NEW S, IsFiniteSet(S), NEW f, \A i \in S : f[i] \in Int
    PROVE  \A y \in S : SumFunctionOnSet(f, S)
                            = f[y] + SumFunctionOnSet(f, S \ {y})
<1> DEFINE Law(T) == \A y \in T : SumFunctionOnSet(f, T)
                                    = f[y] + SumFunctionOnSet(f, T \ {y})
           P == {n \in Nat : \A T \in SUBSET S : Cardinality(T) = n => Law(T)}
<1>1. \A T \in SUBSET S : IsFiniteSet(T) /\ Cardinality(T) \in Nat
  BY FS_Subset, FS_CardinalityType
<1>2. 0 \in P
  <2>1. \A T \in SUBSET S : Cardinality(T) = 0 => T = {}
    BY <1>1, FS_EmptySet
  <2> QED
    BY <2>1, SumEmpty
<1>3. ASSUME NEW n \in Nat, n \in P PROVE n + 1 \in P
  <2>1. ASSUME NEW T \in SUBSET S, Cardinality(T) = n + 1 PROVE Law(T)
    <3>1. T # {}
      BY <2>1, FS_EmptySet
    <3> DEFINE c == Some(T)
    <3>2. c \in T
      BY <3>1, SomeIn
    <3>3. SumFunctionOnSet(f, T) = f[c] + SumFunctionOnSet(f, T \ {c})
      BY <1>1, <3>1, SumUnfolds
    <3>4. \A y \in T : T \ {y} \in SUBSET S /\ Cardinality(T \ {y}) = n
      BY <1>1, <2>1, FS_RemoveElement
    <3>5. \A y \in T : Law(T \ {y})
      BY <1>3, <3>4
    <3> HIDE DEF c
    <3>6. ASSUME NEW y \in T
          PROVE  SumFunctionOnSet(f, T) = f[y] + SumFunctionOnSet(f, T \ {y})
      <4>1. CASE y = c
        BY <3>3, <4>1
      <4>2. CASE y # c
        <5> DEFINE rest == SumFunctionOnSet(f, (T \ {c}) \ {y})
        <5>1. (T \ {c}) \ {y} = (T \ {y}) \ {c}
          OBVIOUS
        <5>2. y \in T \ {c} /\ c \in T \ {y}
          BY <3>2, <4>2
        <5>3. SumFunctionOnSet(f, T \ {c}) = f[y] + rest
          BY <3>2, <3>5, <5>2
        <5>4. SumFunctionOnSet(f, T \ {y}) = f[c] + rest
          BY <3>5, <5>1, <5>2
        <5>5. f[y] \in Int /\ f[c] \in Int
          BY <3>2
        <5>6. rest \in Int
          BY <1>1, SumInts
        <5> HIDE DEF rest
        <5> QED
          BY <3>3, <5>3, <5>4, <5>5, <5>6
      <4> QED
        BY <4>1, <4>2
    <3> QED
      BY <3>6
  <2> QED
    BY <2>1
<1> DEFINE size == Cardinality(S)
<1>4. size \in P
  <2> HIDE DEF P
  <2> QED
    BY <1>1, <1>2, <1>3, NumberInduction
<1> QED
  BY <1>1, <1>4

LEMMA SumAdds ==
    ASSUME NEW S, IsFiniteSet(S), NEW x, x \notin S,
           NEW f, \A i \in S \cup {x} : f[i] \in Int
    PROVE  SumFunctionOnSet(f, S \cup {x}) = SumFunctionOnSet(f, S) + f[x]
<1> DEFINE T == S \cup {x}
<1>1. IsFiniteSet(T) /\ x \in T /\ T \ {x} = S
  BY FS_AddElement
<1>2. SumFunctionOnSet(f, T) = f[x] + SumFunctionOnSet(f, T \ {x})
  BY <1>1, SumTakesAny
<1>3. SumFunctionOnSet(f, S) \in Int /\ f[x] \in Int
  BY SumInts
<1>4. SumFunctionOnSet(f, T) = SumFunctionOnSet(f, S) + f[x]
  <2> HIDE DEF T
  <2>1. T \ {x} = S
    BY <1>1
  <2>2. SumFunctionOnSet(f, T \ {x}) = SumFunctionOnSet(f, S)
    BY <2>1, Zenon
  <2> QED
    BY <1>2, <1>3, <2>2
<1> QED
  BY <1>4

\* Only the values on the set matter.
LEMMA SumSame ==
    ASSUME NEW S, IsFiniteSet(S), NEW f, NEW g,
           \A i \in S : f[i] \in Int /\ g[i] = f[i]
    PROVE  SumFunctionOnSet(g, S) = SumFunctionOnSet(f, S)
<1> DEFINE P == {T \in SUBSET S :
                    SumFunctionOnSet(g, T) = SumFunctionOnSet(f, T)}
<1>1. {} \in P
  BY SumEmpty
<1>2. ASSUME NEW T \in SUBSET S, NEW x \in S \ T, T \in P
      PROVE  T \cup {x} \in P
  <2>1. IsFiniteSet(T) /\ x \notin T /\ T \cup {x} \in SUBSET S
    BY FS_Subset
  <2>2. /\ SumFunctionOnSet(f, T \cup {x}) = SumFunctionOnSet(f, T) + f[x]
        /\ SumFunctionOnSet(g, T \cup {x}) = SumFunctionOnSet(g, T) + g[x]
    BY <2>1, SumAdds
  <2> QED
    BY <1>2, <2>1, <2>2
<1>3. S \in P
  <2> HIDE DEF P
  <2> QED
    BY <1>1, <1>2, FiniteInduction
<1> QED
  BY <1>3

\* A sum over one element more, of a function that agrees on the others.
LEMMA SumGains ==
    ASSUME NEW S, IsFiniteSet(S), NEW x, x \notin S, NEW f, NEW g,
           \A i \in S : f[i] \in Int /\ g[i] = f[i], g[x] \in Int
    PROVE  SumFunctionOnSet(g, S \cup {x}) = SumFunctionOnSet(f, S) + g[x]
<1>1. \A i \in S \cup {x} : g[i] \in Int
  OBVIOUS
<1>2. SumFunctionOnSet(g, S \cup {x}) = SumFunctionOnSet(g, S) + g[x]
  BY <1>1, SumAdds
<1>3. SumFunctionOnSet(g, S) = SumFunctionOnSet(f, S)
  BY SumSame
<1> QED
  BY <1>2, <1>3

\* One value changes: the sum changes by as much.
LEMMA SumChanges ==
    ASSUME NEW S, IsFiniteSet(S), NEW x \in S, NEW f, NEW g,
           \A i \in S : f[i] \in Int /\ g[i] \in Int,
           \A i \in S \ {x} : g[i] = f[i]
    PROVE  SumFunctionOnSet(g, S) = SumFunctionOnSet(f, S) - f[x] + g[x]
<1> DEFINE T == S \ {x}
<1>1. IsFiniteSet(T)
  BY FS_Subset
<1>2. SumFunctionOnSet(g, T) = SumFunctionOnSet(f, T)
  BY <1>1, SumSame
<1>3. SumFunctionOnSet(f, T) \in Int
  BY <1>1, SumInts
<1>4. /\ SumFunctionOnSet(f, S) = f[x] + SumFunctionOnSet(f, T)
      /\ SumFunctionOnSet(g, S) = g[x] + SumFunctionOnSet(g, T)
  BY SumTakesAny
<1> HIDE DEF T
<1> QED
  BY <1>2, <1>3, <1>4

LEMMA SumUnion ==
    ASSUME NEW S, IsFiniteSet(S), NEW T, IsFiniteSet(T), S \cap T = {},
           NEW f, \A i \in S \cup T : f[i] \in Int
    PROVE  SumFunctionOnSet(f, S \cup T)
             = SumFunctionOnSet(f, S) + SumFunctionOnSet(f, T)
<1> DEFINE P == {U \in SUBSET T : SumFunctionOnSet(f, S \cup U)
                    = SumFunctionOnSet(f, S) + SumFunctionOnSet(f, U)}
<1>1. {} \in P
  <2>1. S \cup {} = S
    OBVIOUS
  <2> QED
    BY <2>1, SumEmpty, SumInts
<1>2. ASSUME NEW U \in SUBSET T, NEW x \in T \ U, U \in P
      PROVE  U \cup {x} \in P
  <2> DEFINE V == S \cup U
  <2>1. IsFiniteSet(U) /\ IsFiniteSet(V) /\ x \notin V /\ x \notin U
    BY FS_Subset, FS_Union
  <2>2. SumFunctionOnSet(f, V \cup {x}) = SumFunctionOnSet(f, V) + f[x]
    BY <2>1, SumAdds
  <2>3. SumFunctionOnSet(f, U \cup {x}) = SumFunctionOnSet(f, U) + f[x]
    BY <2>1, SumAdds
  <2>4. /\ SumFunctionOnSet(f, S) \in Int /\ SumFunctionOnSet(f, U) \in Int
        /\ f[x] \in Int
    BY <2>1, SumInts
  <2>5. S \cup (U \cup {x}) = V \cup {x}
    OBVIOUS
  <2>6. SumFunctionOnSet(f, V)
          = SumFunctionOnSet(f, S) + SumFunctionOnSet(f, U)
    BY <1>2
  <2>7. SumFunctionOnSet(f, V \cup {x})
          = SumFunctionOnSet(f, S) + SumFunctionOnSet(f, U \cup {x})
    <3> HIDE DEF V
    <3> QED
      BY <2>2, <2>3, <2>4, <2>6
  <2> QED
    BY <1>2, <2>5, <2>7
<1>3. T \in P
  <2> HIDE DEF P
  <2> QED
    BY <1>1, <1>2, FiniteInduction
<1> QED
  BY <1>3

LEMMA SumNats ==
    ASSUME NEW S, IsFiniteSet(S), NEW f, \A i \in S : f[i] \in Nat
    PROVE  SumFunctionOnSet(f, S) \in Nat
<1> DEFINE P == {T \in SUBSET S : SumFunctionOnSet(f, T) \in Nat}
<1>1. {} \in P
  BY SumEmpty
<1>2. ASSUME NEW T \in SUBSET S, NEW x \in S \ T, T \in P
      PROVE  T \cup {x} \in P
  <2>1. IsFiniteSet(T) /\ x \notin T
    BY FS_Subset
  <2>2. SumFunctionOnSet(f, T \cup {x}) = SumFunctionOnSet(f, T) + f[x]
    <3>1. \A i \in T \cup {x} : f[i] \in Int
      OBVIOUS
    <3> QED
      BY <2>1, <3>1, SumAdds
  <2> QED
    BY <1>2, <2>2
<1>3. S \in P
  <2> HIDE DEF P
  <2> QED
    BY <1>1, <1>2, FiniteInduction
<1> QED
  BY <1>3

-----------------------------------------------------------------------------
(* Sums over sequences *)

LEMMA SeqSumInts ==
    ASSUME NEW s \in Seq(Int)
    PROVE  SumFunction(s) \in Int
<1>1. DOMAIN s = 1..Len(s) /\ Len(s) \in Nat /\ \A i \in DOMAIN s : s[i] \in Int
  OBVIOUS
<1>2. IsFiniteSet(DOMAIN s)
  BY <1>1, FS_Interval
<1> QED
  BY <1>1, <1>2, SumInts DEF SumFunction

\* Moving the indices by one changes nothing.
LEMMA SumShifts ==
    ASSUME NEW n \in Nat, NEW f, NEW g,
           \A i \in 1..n : g[i] \in Int /\ f[i + 1] = g[i]
    PROVE  SumFunctionOnSet(f, 2..n + 1) = SumFunctionOnSet(g, 1..n)
<1> DEFINE P == {k \in Nat : k <= n =>
                    SumFunctionOnSet(f, 2..k + 1) = SumFunctionOnSet(g, 1..k)}
<1>1. 0 \in P
  <2>1. 2..0 + 1 = {} /\ 1..0 = {}
    OBVIOUS
  <2> QED
    BY <2>1, SumEmpty
<1>2. ASSUME NEW k \in Nat, k \in P PROVE k + 1 \in P
  <2> SUFFICES ASSUME k + 1 <= n
               PROVE  SumFunctionOnSet(f, 2..(k + 1) + 1)
                        = SumFunctionOnSet(g, 1..k + 1)
    OBVIOUS
  <2>1. /\ IsFiniteSet(2..k + 1) /\ IsFiniteSet(1..k)
        /\ k + 2 \notin 2..k + 1 /\ k + 1 \notin 1..k
    BY FS_Interval
  <2>2. 2..(k + 1) + 1 = (2..k + 1) \cup {k + 2} /\ 1..k + 1 = 1..k \cup {k + 1}
    OBVIOUS
  <2>3. \A i \in (2..k + 1) \cup {k + 2} : f[i] \in Int
    <3> SUFFICES ASSUME NEW i \in (2..k + 1) \cup {k + 2} PROVE f[i] \in Int
      OBVIOUS
    <3>1. i - 1 \in 1..n /\ (i - 1) + 1 = i
      OBVIOUS
    <3> QED
      BY <3>1
  <2>4. \A i \in 1..k \cup {k + 1} : g[i] \in Int
    OBVIOUS
  <2>5. SumFunctionOnSet(f, (2..k + 1) \cup {k + 2})
          = SumFunctionOnSet(f, 2..k + 1) + f[k + 2]
    <3> DEFINE S == 2..k + 1
               x == k + 2
    <3> HIDE DEF S, x
    <3>1. IsFiniteSet(S) /\ x \notin S /\ \A i \in S \cup {x} : f[i] \in Int
      BY <2>1, <2>3 DEF S, x
    <3>2. SumFunctionOnSet(f, S \cup {x}) = SumFunctionOnSet(f, S) + f[x]
      BY <3>1, SumAdds
    <3> QED
      BY <3>2 DEF S, x
  <2>6. SumFunctionOnSet(g, 1..k \cup {k + 1})
          = SumFunctionOnSet(g, 1..k) + g[k + 1]
    <3> DEFINE S == 1..k
               x == k + 1
    <3> HIDE DEF S, x
    <3>1. IsFiniteSet(S) /\ x \notin S /\ \A i \in S \cup {x} : g[i] \in Int
      BY <2>1, <2>4 DEF S, x
    <3>2. SumFunctionOnSet(g, S \cup {x}) = SumFunctionOnSet(g, S) + g[x]
      BY <3>1, SumAdds
    <3> QED
      BY <3>2 DEF S, x
  <2>7. f[k + 2] = g[k + 1]
    <3>1. k + 1 \in 1..n /\ (k + 1) + 1 = k + 2
      OBVIOUS
    <3> QED
      BY <3>1
  <2>8. SumFunctionOnSet(f, 2..k + 1) = SumFunctionOnSet(g, 1..k)
    BY <1>2
  <2> QED
    BY <2>2, <2>5, <2>6, <2>7, <2>8
<1>3. n \in P
  <2> HIDE DEF P
  <2> QED
    BY <1>1, <1>2, NumberInduction
<1> QED
  BY <1>3

LEMMA SeqSumAppends ==
    ASSUME NEW s \in Seq(Int), NEW x \in Int
    PROVE  SumFunction(Append(s, x)) = SumFunction(s) + x
<1> DEFINE t == Append(s, x)
           n == Len(s)
<1>1. n \in Nat /\ DOMAIN s = 1..n /\ DOMAIN t = 1..n \cup {n + 1}
  OBVIOUS
<1>2. t[n + 1] = x /\ \A i \in 1..n : s[i] \in Int /\ t[i] = s[i]
  OBVIOUS
<1> HIDE DEF t, n
<1>3. IsFiniteSet(1..n) /\ n + 1 \notin 1..n
  BY <1>1, FS_Interval
<1>4. SumFunctionOnSet(t, 1..n \cup {n + 1}) = SumFunctionOnSet(t, 1..n) + x
  BY <1>2, <1>3, SumAdds
<1>5. SumFunctionOnSet(t, 1..n) = SumFunctionOnSet(s, 1..n)
  BY <1>2, <1>3, SumSame
<1>6. SumFunction(t) = SumFunction(s) + x
  BY <1>1, <1>4, <1>5 DEF SumFunction
<1> QED
  BY <1>6 DEF t

LEMMA SeqSumTail ==
    ASSUME NEW s \in Seq(Int), s # <<>>
    PROVE  SumFunction(Tail(s)) = SumFunction(s) - s[1]
<1> DEFINE t == Tail(s)
           n == Len(t)
<1>1. n \in Nat /\ DOMAIN t = 1..n /\ DOMAIN s = 1..n + 1
  OBVIOUS
<1>2. s[1] \in Int /\ \A i \in 1..n : t[i] \in Int /\ s[i + 1] = t[i]
  OBVIOUS
<1>3. \A i \in 2..n + 1 : s[i] \in Int
  OBVIOUS
<1> HIDE DEF t, n
<1>4. SumFunctionOnSet(s, 2..n + 1) = SumFunctionOnSet(t, 1..n)
  BY <1>1, <1>2, SumShifts
<1>5. /\ 1..n + 1 = (2..n + 1) \cup {1} /\ 1 \notin 2..n + 1
      /\ IsFiniteSet(2..n + 1) /\ \A i \in (2..n + 1) \cup {1} : s[i] \in Int
  <2>1. 1..n + 1 = (2..n + 1) \cup {1} /\ 1 \notin 2..n + 1
    BY <1>1
  <2>2. IsFiniteSet(2..n + 1)
    BY <1>1, FS_Interval
  <2> QED
    BY <1>2, <1>3, <2>1, <2>2
<1>6. SumFunctionOnSet(s, (2..n + 1) \cup {1})
        = SumFunctionOnSet(s, 2..n + 1) + s[1]
  BY <1>5, SumAdds
<1>7. SumFunctionOnSet(s, 2..n + 1) \in Int
  BY <1>5, SumInts
<1>8. SumFunction(t) = SumFunctionOnSet(s, 2..n + 1)
  BY <1>1, <1>4 DEF SumFunction
<1>9. SumFunction(s) = SumFunctionOnSet(s, 2..n + 1) + s[1]
  BY <1>1, <1>5, <1>6 DEF SumFunction
<1>10. SumFunction(t) = SumFunction(s) - s[1]
  BY <1>2, <1>7, <1>8, <1>9
<1> QED
  BY <1>10 DEF t

=============================================================================
