--------------------------- MODULE VmStdlib_proofs ---------------------------
(***************************************************************************)
(* Proofs about the standard library of the reference machine, for every   *)
(* number of clients, every capacity, every thought and in every           *)
(* interleaving: what encode returns is true, work that was acknowledged is *)
(* shared, and every row, counter and line is told.                        *)
(*                                                                         *)
(* The folds and recursive functions of the model come first: a fold is    *)
(* followed through the steps it takes, a recursive function is shown to   *)
(* satisfy its own equation because children have smaller numbers.  The    *)
(* cache, the database and the console have an invariant each, which knows *)
(* its own variables only; the last section shows that the library's steps *)
(* are steps of all three and joins the invariants with the entities'.     *)
(***************************************************************************)
EXTENDS VmStdlib, SumLemmas, SequenceTheorems

-----------------------------------------------------------------------------
(* Folds over a sequence, as the steps they take *)

\* The last of a set of places, and what is left when it is taken away.
LEMMA MaxIs ==
    ASSUME NEW n \in Nat, NEW s \in SUBSET (1..n), s # {}
    PROVE  /\ Max(s) \in s /\ \A j \in s : j <= Max(s)
           /\ Max(s) \in 1..n
           /\ \A m \in Nat : s \in SUBSET (1..(m + 1)) =>
                 s \ {Max(s)} \in SUBSET (1..m)
<1> DEFINE P == {n - i : i \in s}
<1>1. P \in SUBSET Nat /\ P # {}
  <2>1. \A i \in s : n - i \in Nat
    OBVIOUS
  <2>2. PICK i \in s : TRUE
    OBVIOUS
  <2>3. n - i \in P
    BY <2>2
  <2> QED
    BY <2>1, <2>3
<1>2. PICK m \in P : \A k \in P : m <= k
  <2> HIDE DEF P
  <2> QED
    BY <1>1, LeastNumber
<1>3. PICK i \in s : m = n - i
  BY <1>2
<1>4. ASSUME NEW j \in s PROVE j <= i
  <2>1. n - j \in P
    OBVIOUS
  <2>2. n - i <= n - j
    BY <1>2, <1>3, <2>1
  <2>3. i \in Nat /\ j \in Nat
    OBVIOUS
  <2> QED
    BY <2>2, <2>3
<1>5. \E x \in s : \A y \in s : x >= y
  <2>1. \A y \in s : i >= y
    BY <1>4
  <2> QED
    BY <1>3, <2>1
<1>6. Max(s) \in s /\ \A j \in s : Max(s) >= j
  BY <1>5 DEF Max
<1>7. Max(s) \in 1..n /\ \A j \in s : j \in 1..n
  BY <1>6
<1>8. ASSUME NEW m1 \in Nat, s \in SUBSET (1..(m1 + 1))
      PROVE  s \ {Max(s)} \in SUBSET (1..m1)
  <2>1. ASSUME NEW j \in s, j # Max(s) PROVE j \in 1..m1
    <3>1. j \in 1..(m1 + 1) /\ Max(s) \in 1..(m1 + 1) /\ Max(s) >= j
      BY <1>6, <1>8
    <3>2. PICK y \in 1..(m1 + 1) : y = Max(s)
      BY <3>1
    <3> QED
      BY <2>1, <3>1, <3>2
  <2> QED
    BY <2>1
<1>9. \A j \in s : j <= Max(s)
  BY <1>6, <1>7
<1> QED
  BY <1>6, <1>7, <1>8, <1>9

\* The last place of all.
LEMMA MaxUpTo ==
    ASSUME NEW i \in Nat \ {0}
    PROVE  Max(1..i) = i /\ (1..i) \ {i} = 1..(i - 1)
<1>1. Max(1..i) \in 1..i /\ i <= Max(1..i)
  BY MaxIs
<1> QED
  BY <1>1

\* What a fold through the functions fs does with a set of places.
FoldStep(fs, x, g, s) ==
    IF s = {} THEN x ELSE fs[Max(s)][g[s \ {Max(s)}]]

\* The functions fs, each on a set that all of them map to itself.
Steps(n, A, x, fs) ==
    n \in Nat /\ x \in A /\ \A i \in 1..n : \A a \in A : fs[i][a] \in A

Unfolds(n, A, x, fs, g) ==
    /\ g \in [SUBSET (1..n) -> A]
    /\ \A s \in SUBSET (1..n) : g[s] = FoldStep(fs, x, g, s)

\* g satisfies the equation of the fold as far as its values are in A.
Folds(n, A, x, fs, g) ==
    /\ g[{}] = x
    /\ \A s \in SUBSET (1..n) : s # {} /\ g[s \ {Max(s)}] \in A =>
          g[s] = fs[Max(s)][g[s \ {Max(s)}]]

\* The values a fold goes through.
Runs(n, A, x, fs, g, h) ==
    /\ h \in [0..n -> A]
    /\ h[0] = x /\ h[n] = g[1..n]
    /\ \A i \in 1..n : h[i] = fs[i][h[i - 1]]

\* Each function takes what is in I[i - 1] to I[i].
Carries(n, A, x, fs, I) ==
    /\ x \in I[0]
    /\ \A i \in 1..n : \A a \in A : a \in I[i - 1] => fs[i][a] \in I[i]

\* The fold exists, and stays in a set that every function maps to itself.
LEMMA StepsExist ==
    ASSUME NEW n, NEW A, NEW x, NEW fs, Steps(n, A, x, fs)
    PROVE  \E g : Unfolds(n, A, x, fs, g)
<1> n \in Nat /\ x \in A /\ \A i \in 1..n : \A a \in A : fs[i][a] \in A
  BY DEF Steps
<1> DEFINE Good(m) == \E g : \A s \in SUBSET (1..m) :
                         s \in SUBSET (1..n) =>
                            g[s] \in A /\ g[s] = FoldStep(fs, x, g, s)
           P == {m \in Nat : Good(m)}
<1>1. 0 \in P
  <2> DEFINE g == [s \in SUBSET (1..n) |-> x]
  <2>1. \A s \in SUBSET (1..0) : s = {} /\ g[s] = x
    OBVIOUS
  <2> QED
    BY <2>1 DEF FoldStep
<1>2. ASSUME NEW m \in Nat, m \in P PROVE m + 1 \in P
  <2>1. PICK g : \A s \in SUBSET (1..m) : s \in SUBSET (1..n) =>
                    g[s] \in A /\ g[s] = FoldStep(fs, x, g, s)
    BY <1>2
  <2> DEFINE h == [s \in SUBSET (1..n) |-> FoldStep(fs, x, g, s)]
  <2>2. ASSUME NEW s \in SUBSET (1..(m + 1)), s \in SUBSET (1..n)
        PROVE  h[s] \in A /\ h[s] = FoldStep(fs, x, h, s)
    <3>1. h[s] = FoldStep(fs, x, g, s)
      BY <2>2
    <3>2. CASE s = {}
      BY <3>1, <3>2 DEF FoldStep
    <3>3. CASE s # {}
      <4> DEFINE r == s \ {Max(s)}
      <4>1. r \in SUBSET (1..m) /\ r \in SUBSET (1..n) /\ Max(s) \in 1..n
        BY <2>2, <3>3, MaxIs
      <4>2. g[r] \in A /\ h[r] = g[r]
        BY <2>1, <4>1
      <4> QED
        BY <3>1, <3>3, <4>1, <4>2 DEF FoldStep
    <3> QED
      BY <3>2, <3>3
  <2>3. Good(m + 1)
    <3> HIDE DEF h
    <3> QED
      BY <2>2
  <2> QED
    BY <2>3
<1>3. n \in P
  <2> HIDE DEF P
  <2> QED
    BY <1>1, <1>2, NumberInduction
<1>4. PICK g : \A s \in SUBSET (1..n) : g[s] \in A /\ g[s] = FoldStep(fs, x, g, s)
  BY <1>3
<1> DEFINE h == [s \in SUBSET (1..n) |-> g[s]]
<1>5. ASSUME NEW s \in SUBSET (1..n) PROVE h[s] = FoldStep(fs, x, h, s)
  <2>1. h[s] = FoldStep(fs, x, g, s)
    BY <1>4
  <2>2. h[s \ {Max(s)}] = g[s \ {Max(s)}]
    OBVIOUS
  <2> QED
    BY <2>1, <2>2 DEF FoldStep
<1>6. h \in [SUBSET (1..n) -> A]
  BY <1>4
<1> HIDE DEF h
<1> QED
  BY <1>5, <1>6 DEF Unfolds

\* Whatever satisfies the equation of the fold within A goes through the
\* functions one after the other.
LEMMA StepsRun ==
    ASSUME NEW n, NEW A, NEW x, NEW fs, Steps(n, A, x, fs),
           NEW g, Folds(n, A, x, fs, g)
    PROVE  \E h : Runs(n, A, x, fs, g, h)
<1> /\ n \in Nat /\ x \in A /\ \A i \in 1..n : \A a \in A : fs[i][a] \in A
    /\ g[{}] = x
    /\ \A s \in SUBSET (1..n) : s # {} /\ g[s \ {Max(s)}] \in A =>
          g[s] = fs[Max(s)][g[s \ {Max(s)}]]
  BY DEF Steps, Folds
<1> DEFINE h == [i \in 0..n |-> g[1..i]]
           P == {m \in Nat : m <= n => g[1..m] \in A}
<1>1. 1..0 = {}
  OBVIOUS
<1>2. ASSUME NEW i \in 1..n, g[1..(i - 1)] \in A
      PROVE  g[1..i] = fs[i][g[1..(i - 1)]] /\ g[1..i] \in A
  <2>1. Max(1..i) = i /\ (1..i) \ {i} = 1..(i - 1)
    BY MaxUpTo
  <2>2. 1..i \in SUBSET (1..n) /\ 1..i # {}
    OBVIOUS
  <2> QED
    BY <1>2, <2>1, <2>2
<1>3. 0 \in P
  BY <1>1
<1>4. ASSUME NEW m \in Nat, m \in P PROVE m + 1 \in P
  <2>1. SUFFICES ASSUME m + 1 <= n PROVE g[1..(m + 1)] \in A
    OBVIOUS
  <2>2. m + 1 \in 1..n /\ (m + 1) - 1 = m /\ g[1..m] \in A
    BY <1>4, <2>1
  <2> QED
    BY <1>2, <2>2
<1>5. \A m \in Nat : m \in P
  <2> HIDE DEF P
  <2> QED
    BY <1>3, <1>4, NumberInduction
<1>6. \A i \in 0..n : g[1..i] \in A
  BY <1>5
<1>7. h \in [0..n -> A] /\ h[0] = x /\ h[n] = g[1..n]
  BY <1>1, <1>6
<1>8. ASSUME NEW i \in 1..n PROVE h[i] = fs[i][h[i - 1]]
  <2>1. i - 1 \in 0..n /\ i \in 0..n
    OBVIOUS
  <2> QED
    BY <1>2, <1>6, <2>1
<1> HIDE DEF h
<1> QED
  BY <1>7, <1>8 DEF Runs

\* A fold stays in a set that every step maps to itself.
LEMMA StepsStay ==
    ASSUME NEW n, NEW A, NEW x, NEW fs, Steps(n, A, x, fs),
           NEW g, Folds(n, A, x, fs, g)
    PROVE  g[1..n] \in A
<1>1. PICK h : Runs(n, A, x, fs, g, h)
  BY StepsRun
<1>2. n \in 0..n
  BY DEF Steps
<1> QED
  BY <1>1, <1>2 DEF Runs

\* What holds at the start and is kept by each step holds at the end.
LEMMA StepsCarry ==
    ASSUME NEW n, NEW A, NEW x, NEW fs, Steps(n, A, x, fs),
           NEW g, Folds(n, A, x, fs, g),
           NEW I, Carries(n, A, x, fs, I)
    PROVE  g[1..n] \in A /\ g[1..n] \in I[n]
<1> n \in Nat
  BY DEF Steps
<1>5. PICK h : Runs(n, A, x, fs, g, h)
  BY StepsRun
<1>1. /\ h \in [0..n -> A] /\ h[0] = x /\ h[n] = g[1..n]
      /\ \A i \in 1..n : h[i] = fs[i][h[i - 1]]
  BY <1>5 DEF Runs
<1> DEFINE P == {m \in Nat : m <= n => h[m] \in I[m]}
<1>2. 0 \in P
  BY <1>1 DEF Carries
<1>3. ASSUME NEW m \in Nat, m \in P PROVE m + 1 \in P
  <2>1. SUFFICES ASSUME m + 1 <= n PROVE h[m + 1] \in I[m + 1]
    OBVIOUS
  <2>2. m + 1 \in 1..n /\ (m + 1) - 1 = m /\ h[m] \in I[m] /\ h[m] \in A
    BY <1>1, <1>3, <2>1
  <2>3. h[m + 1] = fs[m + 1][h[m]]
    BY <1>1, <2>2
  <2> QED
    BY <2>2, <2>3 DEF Carries
<1>4. \A m \in Nat : m \in P
  <2> HIDE DEF P
  <2> QED
    BY <1>2, <1>3, NumberInduction
<1> QED
  BY <1>1, <1>4

-----------------------------------------------------------------------------
(* The LRU map *)

KeysOf(lru) == {lru[i].key : i \in DOMAIN lru}

\* A key that is there is found at its place.
LEMMA PlaceIs ==
    ASSUME NEW E, NEW lru \in Seq(E), NEW k, Has(lru, k)
    PROVE  /\ Place(lru, k) \in 1..Len(lru)
           /\ Find(lru, k) \in E /\ Find(lru, k).key = k
<1>1. At(lru, k) # {}
  BY DEF Has
<1>2. Place(lru, k) \in At(lru, k)
  BY <1>1 DEF Place
<1> QED
  BY <1>2 DEF At, Find

\* Taking one entry out moves up those behind it.
LEMMA RemoveIs ==
    ASSUME NEW E, NEW s \in Seq(E), NEW i \in 1..Len(s)
    PROVE  /\ RemoveAt(s, i) \in Seq(E) /\ Len(RemoveAt(s, i)) = Len(s) - 1
           /\ \A j \in 1..Len(s) : j # i =>
                 \E l \in DOMAIN RemoveAt(s, i) : RemoveAt(s, i)[l] = s[j]
<1> DEFINE a == SubSeq(s, 1, i - 1)
           b == SubSeq(s, i + 1, Len(s))
<1>1. /\ a \in Seq(E) /\ Len(a) = i - 1 /\ \A j \in 1..(i - 1) : a[j] = s[j]
      /\ b \in Seq(E) /\ Len(b) = Len(s) - i
      /\ \A j \in 1..(Len(s) - i) : b[j] = s[i + j]
  OBVIOUS
<1>2. RemoveAt(s, i) = a \o b
  BY DEF RemoveAt
<1> HIDE DEF a, b
<1>3. /\ a \o b \in Seq(E) /\ Len(a \o b) = Len(s) - 1
      /\ \A j \in 1..(i - 1) : (a \o b)[j] = s[j]
      /\ \A j \in (i + 1)..Len(s) : (a \o b)[j - 1] = s[j]
  <2>6. a \in Seq(E) /\ b \in Seq(E)
    BY <1>1
  <2>1. a \o b \in Seq(E) /\ Len(a \o b) = Len(a) + Len(b)
    BY <2>6, ConcatProperties
  <2>5. Len(a) + Len(b) = Len(s) - 1
    BY <1>1
  <2>2. \A j \in 1..Len(a) : (a \o b)[j] = a[j]
    BY <1>1
  <2>3. \A j \in 1..Len(b) : (a \o b)[Len(a) + j] = b[j]
    BY <1>1
  <2>4. ASSUME NEW j \in (i + 1)..Len(s) PROVE (a \o b)[j - 1] = s[j]
    <3>1. j - i \in 1..Len(b) /\ Len(a) + (j - i) = j - 1 /\ i + (j - i) = j
      BY <1>1
    <3> QED
      BY <1>1, <2>3, <3>1
  <2> QED
    BY <1>1, <2>1, <2>2, <2>4, <2>5
<1>4. DOMAIN (a \o b) = 1..(Len(s) - 1)
  BY <1>3
<1>5. ASSUME NEW j \in 1..Len(s), j # i
      PROVE  \E l \in 1..(Len(s) - 1) : (a \o b)[l] = s[j]
  <2>1. CASE j < i
    <3>1. j \in 1..(i - 1) /\ j \in 1..(Len(s) - 1)
      BY <2>1
    <3> QED
      BY <1>3, <3>1
  <2>2. CASE j > i
    <3>1. j \in (i + 1)..Len(s) /\ j - 1 \in 1..(Len(s) - 1)
      BY <2>2
    <3> QED
      BY <1>3, <3>1
  <2>3. j < i \/ j > i
    BY <1>5
  <2> QED
    BY <2>1, <2>2, <2>3
<1> QED
  BY <1>2, <1>3, <1>4, <1>5

\* A map without a key.
LEMMA WithoutIs ==
    ASSUME NEW E, NEW lru \in Seq(E), NEW k
    PROVE  /\ Without(lru, k) \in Seq(E)
           /\ Len(Without(lru, k)) <= Len(lru)
           /\ Has(lru, k) => Len(Without(lru, k)) = Len(lru) - 1
           /\ KeysOf(lru) \subseteq KeysOf(Without(lru, k)) \cup {k}
<1>1. CASE ~Has(lru, k)
  BY <1>1 DEF Without
<1>2. CASE Has(lru, k)
  <2> DEFINE p == Place(lru, k)
             w == RemoveAt(lru, p)
  <2>1. p \in 1..Len(lru) /\ lru[p].key = k
    BY <1>2, PlaceIs DEF Find
  <2>2. Without(lru, k) = w
    BY <1>2 DEF Without
  <2>3. /\ w \in Seq(E) /\ Len(w) = Len(lru) - 1
        /\ \A j \in 1..Len(lru) : j # p => \E l \in DOMAIN w : w[l] = lru[j]
    <3> HIDE DEF p
    <3> QED
      BY <2>1, RemoveIs
  <2> HIDE DEF p, w
  <2>4. KeysOf(lru) \subseteq KeysOf(w) \cup {k}
    BY <2>1, <2>3 DEF KeysOf
  <2> QED
    BY <2>2, <2>3, <2>4
<1> QED
  BY <1>1, <1>2

\* An entry in front of a map.
LEMMA InFront ==
    ASSUME NEW E, NEW lru \in Seq(E), NEW e \in E
    PROVE  /\ <<e>> \o lru \in Seq(E) /\ Len(<<e>> \o lru) = Len(lru) + 1
           /\ KeysOf(lru) \cup {e.key} \subseteq KeysOf(<<e>> \o lru)
<1> DEFINE all == <<e>> \o lru
<1>1. /\ all \in Seq(E) /\ Len(all) = Len(lru) + 1 /\ all[1] = e
      /\ \A j \in 1..Len(lru) : all[j + 1] = lru[j]
  OBVIOUS
<1> HIDE DEF all
<1>2. /\ 1 \in DOMAIN all /\ \A j \in 1..Len(lru) : j + 1 \in DOMAIN all
  BY <1>1
<1>3. KeysOf(lru) \cup {e.key} \subseteq KeysOf(all)
  <2>1. DOMAIN lru = 1..Len(lru)
    OBVIOUS
  <2>2. ASSUME NEW j \in DOMAIN lru PROVE lru[j].key \in KeysOf(all)
    <3>1. j + 1 \in DOMAIN all /\ all[j + 1] = lru[j]
      BY <1>1, <1>2, <2>1
    <3> QED
      BY <3>1, Zenon DEF KeysOf
  <2>3. e.key \in KeysOf(all)
    BY <1>1, <1>2, Zenon DEF KeysOf
  <2>4. KeysOf(lru) \subseteq KeysOf(all)
    BY <2>2, Zenon DEF KeysOf
  <2> QED
    BY <2>3, <2>4
<1> QED
  BY <1>1, <1>3 DEF all

\* Looking a key up makes its entry the first one.
LEMMA TouchIs ==
    ASSUME NEW E, NEW lru \in Seq(E), NEW k
    PROVE  /\ Touch(lru, k) \in Seq(E) /\ Len(Touch(lru, k)) = Len(lru)
           /\ KeysOf(lru) \subseteq KeysOf(Touch(lru, k))
<1>1. CASE ~Has(lru, k)
  BY <1>1 DEF Touch
<1>2. CASE Has(lru, k)
  <2> DEFINE e == Find(lru, k)
             w == Without(lru, k)
  <2>1. e \in E /\ e.key = k
    BY <1>2, PlaceIs
  <2>2. /\ w \in Seq(E) /\ Len(w) = Len(lru) - 1
        /\ KeysOf(lru) \subseteq KeysOf(w) \cup {k}
    BY <1>2, WithoutIs
  <2>3. Touch(lru, k) = <<e>> \o w
    BY <1>2 DEF Touch
  <2> HIDE DEF e, w
  <2>4. /\ <<e>> \o w \in Seq(E) /\ Len(<<e>> \o w) = Len(w) + 1
        /\ KeysOf(w) \cup {e.key} \subseteq KeysOf(<<e>> \o w)
    BY <2>1, <2>2, InFront
  <2> QED
    BY <2>1, <2>2, <2>3, <2>4
<1> QED
  BY <1>1, <1>2

\* put keeps a map within its room, and loses no key of one that is not full.
LEMMA PutIs ==
    ASSUME NEW E, NEW lru \in Seq(E), NEW e \in E, NEW room \in Nat \ {0}
    PROVE  /\ Put(lru, e, room) \in Seq(E)
           /\ Len(lru) <= room => Len(Put(lru, e, room)) <= room
           /\ Len(lru) < room =>
                 KeysOf(lru) \cup {e.key} \subseteq KeysOf(Put(lru, e, room))
<1> DEFINE w == Without(lru, e.key)
           all == <<e>> \o w
<1>1. /\ w \in Seq(E) /\ Len(w) <= Len(lru)
      /\ KeysOf(lru) \subseteq KeysOf(w) \cup {e.key}
  BY WithoutIs
<1>2. Put(lru, e, room) = IF Len(all) > room THEN Front(all) ELSE all
  BY DEF Put
<1> HIDE DEF w
<1>3. /\ all \in Seq(E) /\ Len(all) = Len(w) + 1
      /\ KeysOf(w) \cup {e.key} \subseteq KeysOf(all)
  BY <1>1, InFront
<1> HIDE DEF all
<1>4. Front(all) \in Seq(E) /\ Len(Front(all)) = Len(all) - 1
  BY <1>1, <1>3 DEF Front
<1>5. Len(lru) < room => Put(lru, e, room) = all
  BY <1>1, <1>2, <1>3
<1> QED
  BY <1>1, <1>2, <1>3, <1>4, <1>5

-----------------------------------------------------------------------------
(* One pass of the cache's driver *)

CacheStats == [hits : Nat, misses : Nat, sets : Nat, evictions : Nat]

\* What a get may be answered with when the map holds entries of E only.
Answers(E) ==
    {p \in Keys \X (Values \cup {Miss}) :
        p[2] = Miss \/ [key |-> p[1], val |-> p[2]] \in E}

\* The state a pass carries along.
Passing(E) == [lru : Seq(E), stats : CacheStats, resp : [CacheIds -> Seq(Answers(E))]]

\* Unless an eviction was counted the keys of K are in the map, and no answer
\* has missed one of them.  Evictions are only ever added to the count low.
Holding(E, K, low) ==
    {a \in Passing(E) :
        /\ Len(a.lru) <= Capacity /\ a.stats.evictions >= low
        /\ a.stats.evictions = 0 =>
              /\ K \subseteq KeysOf(a.lru)
              /\ \A c \in CacheIds : \A i \in DOMAIN a.resp[c] :
                    a.resp[c][i][1] \in K => a.resp[c][i][2] # Miss}

\* As long as only sets have been served.
Writing(E, K, low) ==
    {a \in Holding(E, K, low) : \A c \in CacheIds : a.resp[c] = <<>>}

\* One put of a pass: the key is in the map afterwards, or an eviction counted.
LEMMA PutOneHolds ==
    ASSUME NEW E, NEW K, NEW low \in Nat, NEW a \in Writing(E, K, low), NEW e \in E
    PROVE  PutOne(a, e) \in Writing(E, K \cup {e.key}, low)
<1> DEFINE b == PutOne(a, e)
           room == Capacity
           full == IF Len(a.lru) = room THEN 1 ELSE 0
<1>1. /\ a \in Passing(E) /\ Len(a.lru) <= Capacity /\ a.stats.evictions >= low
      /\ a.stats.evictions = 0 => K \subseteq KeysOf(a.lru)
      /\ \A c \in CacheIds : a.resp[c] = <<>>
  BY DEF Writing, Holding
<1>2. /\ b.lru = Put(a.lru, e, Capacity) /\ b.resp = a.resp
      /\ b.stats = Plus(a.stats, [hits |-> 0, misses |-> 0, sets |-> 1,
                                 evictions |-> full])
      /\ b = [lru |-> b.lru, stats |-> b.stats, resp |-> b.resp]
  BY DEF PutOne
<1>3. /\ a.lru \in Seq(E) /\ a.stats \in CacheStats
      /\ a.resp \in [CacheIds -> Seq(Answers(E))]
  BY <1>1 DEF Passing
<1>4. Capacity \in Nat \ {0}
  BY CacheAssumption DEF CacheAssumption
<1>5. /\ b.lru \in Seq(E) /\ Len(b.lru) <= Capacity
      /\ Len(a.lru) < Capacity => KeysOf(a.lru) \cup {e.key} \subseteq KeysOf(b.lru)
  BY <1>1, <1>2, <1>3, <1>4, PutIs
<1>6. /\ a.stats.hits \in Nat /\ a.stats.misses \in Nat
      /\ a.stats.sets \in Nat /\ a.stats.evictions \in Nat
  BY <1>3 DEF CacheStats
<1>7. Len(a.lru) \in Nat /\ full \in {0, 1} /\ (full = 0 => Len(a.lru) # Capacity)
  BY <1>3
<1> HIDE DEF b, full
<1>8. /\ b.stats \in CacheStats
      /\ b.stats.evictions = a.stats.evictions + full
  BY <1>2, <1>6, <1>7 DEF CacheStats, Plus
<1>9. b \in Passing(E)
  BY <1>2, <1>3, <1>5, <1>8 DEF Passing
<1>10. b.stats.evictions >= low
  BY <1>1, <1>6, <1>7, <1>8
<1>11. b.stats.evictions = 0 => K \cup {e.key} \subseteq KeysOf(b.lru)
  <2> SUFFICES ASSUME b.stats.evictions = 0
               PROVE  K \cup {e.key} \subseteq KeysOf(b.lru)
    OBVIOUS
  <2>1. a.stats.evictions = 0 /\ full = 0
    BY <1>6, <1>7, <1>8
  <2>2. Len(a.lru) < Capacity
    BY <1>1, <1>4, <1>7, <2>1
  <2> QED
    BY <1>1, <1>5, <2>1, <2>2
<1>12. \A c \in CacheIds : b.resp[c] = <<>>
  BY <1>1, <1>2
<1>13. \A c \in CacheIds : DOMAIN b.resp[c] = {}
  BY <1>12
<1> QED
  BY <1>5, <1>9, <1>10, <1>11, <1>12, <1>13 DEF Writing, Holding, b

\* One get of a pass: what is in the map is not missed.
LEMMA GetHolds ==
    ASSUME NEW E \in SUBSET [key : Keys, val : Values], NEW K, NEW low \in Nat,
           NEW a \in Holding(E, K, low), NEW c \in CacheIds, NEW k \in Keys
    PROVE  Get(a, c, k) \in Holding(E, K, low)
<1> DEFINE b == Get(a, c, k)
           hit == Has(a.lru, k)
           v == IF hit THEN Find(a.lru, k).val ELSE Miss
<1>1. /\ a \in Passing(E) /\ Len(a.lru) <= Capacity /\ a.stats.evictions >= low
      /\ a.stats.evictions = 0 => K \subseteq KeysOf(a.lru)
      /\ \A d \in CacheIds : \A i \in DOMAIN a.resp[d] :
            a.stats.evictions = 0 /\ a.resp[d][i][1] \in K => a.resp[d][i][2] # Miss
  BY DEF Holding
<1>2. /\ b.lru = Touch(a.lru, k)
      /\ b.stats = Plus(a.stats, Looked(hit))
      /\ b.resp = [a.resp EXCEPT ![c] = Append(@, <<k, v>>)]
      /\ b = [lru |-> b.lru, stats |-> b.stats, resp |-> b.resp]
  BY DEF Get, Answer
<1>3. /\ a.lru \in Seq(E) /\ a.stats \in CacheStats
      /\ a.resp \in [CacheIds -> Seq(Answers(E))]
  BY <1>1 DEF Passing
<1>4. /\ b.lru \in Seq(E) /\ Len(b.lru) = Len(a.lru)
      /\ KeysOf(a.lru) \subseteq KeysOf(b.lru)
  BY <1>2, <1>3, TouchIs
<1>5. b.stats \in CacheStats /\ b.stats.evictions = a.stats.evictions
  <2> HIDE DEF b, hit
  <2>1. /\ a.stats.hits \in Nat /\ a.stats.misses \in Nat
        /\ a.stats.sets \in Nat /\ a.stats.evictions \in Nat
    BY <1>3 DEF CacheStats
  <2> QED
    BY <1>2, <2>1 DEF CacheStats, Plus, Looked
<1>6. /\ hit => Find(a.lru, k) \in E /\ Find(a.lru, k).key = k
      /\ ~hit => k \notin KeysOf(a.lru)
  BY <1>3, PlaceIs DEF Has, At, KeysOf
<1>7. hit => v \in Values /\ v # Miss /\ [key |-> k, val |-> v] \in E
  <2>1. SUFFICES ASSUME hit PROVE v \in Values /\ v # Miss /\ [key |-> k, val |-> v] \in E
    OBVIOUS
  <2> DEFINE e == Find(a.lru, k)
  <2>2. e \in [key : Keys, val : Values] /\ e \in E /\ e.key = k /\ v = e.val
    BY <1>6, <2>1
  <2> HIDE DEF e, v
  <2>3. e = [key |-> k, val |-> v] /\ v \in Values
    BY <2>2
  <2> QED
    BY <2>2, <2>3, MissAssumption DEF MissAssumption
<1>8. <<k, v>> \in Answers(E)
  BY <1>7 DEF Answers
<1> HIDE DEF b, v, hit
<1>9. /\ b.resp \in [CacheIds -> Seq(Answers(E))]
      /\ b.resp[c] = Append(a.resp[c], <<k, v>>)
      /\ \A d \in CacheIds : d # c => b.resp[d] = a.resp[d]
  BY <1>2, <1>3, <1>8
<1>10. b \in Passing(E)
  BY <1>2, <1>4, <1>5, <1>9 DEF Passing
<1>11. ASSUME NEW d \in CacheIds, NEW i \in DOMAIN b.resp[d],
              b.stats.evictions = 0, b.resp[d][i][1] \in K
       PROVE  b.resp[d][i][2] # Miss
  <2>1. CASE d # c
    BY <1>1, <1>5, <1>9, <1>11, <2>1
  <2>2. CASE d = c /\ i = Len(a.resp[c]) + 1
    <3>1. b.resp[d][i] = <<k, v>>
      BY <1>3, <1>9, <2>2
    <3>2. k \in K
      BY <1>11, <3>1
    <3>3. hit
      BY <1>1, <1>5, <1>6, <1>11, <3>2
    <3> QED
      BY <1>7, <3>1, <3>3
  <2>3. CASE d = c /\ i # Len(a.resp[c]) + 1
    <3>1. a.resp[c] \in Seq(Answers(E))
      BY <1>3
    <3>2. i \in DOMAIN a.resp[c] /\ b.resp[d][i] = a.resp[c][i]
      BY <1>9, <2>3, <3>1
    <3> QED
      BY <1>1, <1>5, <1>11, <3>2
  <2> QED
    BY <2>1, <2>2, <2>3
<1>12. b.stats.evictions = 0 => K \subseteq KeysOf(b.lru)
  BY <1>1, <1>4, <1>5
<1>13. Len(b.lru) <= Capacity /\ b.stats.evictions >= low
  BY <1>1, <1>4, <1>5
<1> QED
  BY <1>10, <1>11, <1>12, <1>13 DEF Holding, b

\* The keys a pass has put can only grow.
LEMMA WritingMore ==
    ASSUME NEW E, NEW K, NEW L, NEW low \in Nat, K \subseteq L
    PROVE  Writing(E, L, low) \subseteq Writing(E, K, low)
<1> SUFFICES ASSUME NEW a \in Writing(E, L, low) PROVE a \in Writing(E, K, low)
  OBVIOUS
<1>1. /\ a \in Passing(E) /\ Len(a.lru) <= Capacity /\ a.stats.evictions >= low
      /\ a.stats.evictions = 0 => L \subseteq KeysOf(a.lru)
      /\ \A c \in CacheIds : a.resp[c] = <<>>
  BY DEF Writing, Holding
<1>2. \A c \in CacheIds : DOMAIN a.resp[c] = {}
  BY <1>1
<1> QED
  BY <1>1, <1>2 DEF Writing, Holding

\* The sets of a request leave its keys in the map, or count an eviction.
LEMMA PutAllHolds ==
    ASSUME NEW E, NEW K, NEW low \in Nat, NEW acc \in Writing(E, K, low),
           NEW request, request.items \in Seq(E)
    PROVE  PutAll(acc, request) \in Writing(E, K \cup KeysOf(request.items), low)
<1> DEFINE items == request.items
           n == Len(items)
           A == Writing(E, K, low)
           fs == [i \in 1..n |-> [a \in A |-> PutOne(a, items[i])]]
           Fold(g) == g = [s \in SUBSET (1..n) |->
                             IF s = {} THEN acc
                             ELSE PutOne(g[s \ {Max(s)}], items[Max(s)])]
           fold == CHOOSE g : Fold(g)
<1>1. n \in Nat /\ DOMAIN items = 1..n /\ \A i \in 1..n : items[i] \in E
  OBVIOUS
<1>2. PutAll(acc, request) = fold[1..n]
  BY <1>1 DEF PutAll, FoldLeft, MapThenFoldSet
<1>3. ASSUME NEW i \in 1..n, NEW a \in A
      PROVE  fs[i][a] = PutOne(a, items[i]) /\ fs[i][a] \in A
  <2>1. PutOne(a, items[i]) \in Writing(E, K \cup {items[i].key}, low)
    BY <1>1, PutOneHolds
  <2>2. PutOne(a, items[i]) \in A
    BY <2>1, WritingMore
  <2> QED
    BY <2>2
<1>0. acc \in A /\ \A i \in 1..n : \A a \in A : fs[i][a] \in A
  BY <1>3
<1> HIDE DEF fs
<1>14. Steps(n, A, acc, fs)
  BY <1>0, <1>1 DEF Steps
<1>15. PICK g : Unfolds(n, A, acc, fs, g)
  <2> HIDE DEF n, A
  <2> QED
    BY <1>14, StepsExist
<1>4. /\ g \in [SUBSET (1..n) -> A]
      /\ \A s \in SUBSET (1..n) : g[s] = FoldStep(fs, acc, g, s)
  BY <1>15 DEF Unfolds
<1>5. Fold(g)
  <2> HIDE DEF n, A
  <2> DEFINE f == [s \in SUBSET (1..n) |->
                     IF s = {} THEN acc
                     ELSE PutOne(g[s \ {Max(s)}], items[Max(s)])]
  <2>1. ASSUME NEW s \in SUBSET (1..n) PROVE g[s] = f[s]
    <3>1. g[s] = FoldStep(fs, acc, g, s)
      BY <1>4
    <3>2. CASE s = {}
      BY <3>1, <3>2 DEF FoldStep
    <3>3. CASE s # {}
      <4>1. Max(s) \in 1..n /\ g[s \ {Max(s)}] \in A
        BY <1>1, <1>4, <3>3, MaxIs
      <4> QED
        BY <1>3, <3>1, <3>3, <4>1 DEF FoldStep
    <3> QED
      BY <3>2, <3>3
  <2> HIDE DEF f
  <2>2. g = f
    <3>1. g = [s \in SUBSET (1..n) |-> g[s]]
      BY <1>4
    <3>2. f = [s \in SUBSET (1..n) |-> f[s]]
      BY DEF f
    <3> QED
      BY <2>1, <3>1, <3>2
  <2> QED
    BY <2>2 DEF f
<1>6. Fold(fold)
  <2> HIDE DEF Fold
  <2> QED
    BY <1>5
<1>7. /\ fold[{}] = acc
      /\ \A s \in SUBSET (1..n) : s # {} =>
            fold[s] = PutOne(fold[s \ {Max(s)}], items[Max(s)])
  <2> HIDE DEF fold, n
  <2> QED
    BY <1>6
<1> HIDE DEF fold, A, n
<1>8. Folds(n, A, acc, fs, fold)
  BY <1>1, <1>3, <1>7, MaxIs DEF Folds
<1> DEFINE L(i) == K \cup {items[j].key : j \in 1..i}
           I == [i \in 0..n |-> Writing(E, L(i), low)]
<1>9. /\ L(0) = K /\ L(n) = K \cup KeysOf(items)
      /\ \A i \in 1..n : L(i) = L(i - 1) \cup {items[i].key}
  <2>1. \A i \in 1..n : 1..i = (1..(i - 1)) \cup {i}
    BY <1>1
  <2> QED
    BY <1>1, <2>1 DEF KeysOf
<1> HIDE DEF L
<1>10. Carries(n, A, acc, fs, I)
  <2>1. \A i \in 0..n : I[i] = Writing(E, L(i), low)
    OBVIOUS
  <2> HIDE DEF I
  <2>2. ASSUME NEW i \in 1..n, NEW a \in A, a \in I[i - 1] PROVE fs[i][a] \in I[i]
    <3>1. i - 1 \in 0..n /\ i \in 0..n
      BY <1>1
    <3>2. a \in Writing(E, L(i - 1), low)
      BY <2>1, <2>2, <3>1
    <3>3. PutOne(a, items[i]) \in Writing(E, L(i - 1) \cup {items[i].key}, low)
      BY <1>1, <3>2, PutOneHolds
    <3> QED
      BY <1>3, <1>9, <2>1, <3>1, <3>3
  <2>3. acc \in I[0]
    BY <1>1, <1>9, <2>1
  <2> QED
    BY <2>2, <2>3 DEF Carries
<1>12. I[n] = Writing(E, L(n), low)
  BY <1>1 DEF L
<1>11. fold[1..n] \in I[n]
  <2> HIDE DEF I
  <2> QED
    BY <1>8, <1>10, <1>14, StepsCarry
<1> QED
  BY <1>2, <1>9, <1>11, <1>12

\* The gets of a request miss nothing that is in the map.
LEMMA GetAllHolds ==
    ASSUME NEW E \in SUBSET [key : Keys, val : Values], NEW K, NEW low \in Nat,
           NEW acc \in Holding(E, K, low), NEW request,
           request.items \in Seq(Keys), request.client \in CacheIds
    PROVE  GetAll(acc, request) \in Holding(E, K, low)
<1> DEFINE items == request.items
           n == Len(items)
           A == Holding(E, K, low)
           fs == [i \in 1..n |-> [a \in A |-> Get(a, request.client, items[i])]]
           Fold(g) == g = [s \in SUBSET (1..n) |->
                             IF s = {} THEN acc
                             ELSE Get(g[s \ {Max(s)}], request.client, items[Max(s)])]
           fold == CHOOSE g : Fold(g)
<1>1. n \in Nat /\ DOMAIN items = 1..n /\ \A i \in 1..n : items[i] \in Keys
  OBVIOUS
<1>2. GetAll(acc, request) = fold[1..n]
  BY <1>1 DEF GetAll, FoldLeft, MapThenFoldSet
<1>3. ASSUME NEW i \in 1..n, NEW a \in A
      PROVE  fs[i][a] = Get(a, request.client, items[i]) /\ fs[i][a] \in A
  BY <1>1, GetHolds
<1>4. Steps(n, A, acc, fs)
  BY <1>1, <1>3 DEF Steps
<1> HIDE DEF fs
<1>5. PICK g : Unfolds(n, A, acc, fs, g)
  <2> HIDE DEF n, A
  <2> QED
    BY <1>4, StepsExist
<1>6. Fold(g)
  <2> HIDE DEF n, A
  <2> DEFINE f == [s \in SUBSET (1..n) |->
                     IF s = {} THEN acc
                     ELSE Get(g[s \ {Max(s)}], request.client, items[Max(s)])]
  <2>1. ASSUME NEW s \in SUBSET (1..n) PROVE g[s] = f[s]
    <3>1. g \in [SUBSET (1..n) -> A] /\ g[s] = FoldStep(fs, acc, g, s)
      BY <1>5 DEF Unfolds
    <3>2. CASE s = {}
      BY <3>1, <3>2 DEF FoldStep
    <3>3. CASE s # {}
      <4>1. Max(s) \in 1..n /\ g[s \ {Max(s)}] \in A
        BY <1>1, <3>1, <3>3, MaxIs
      <4> QED
        BY <1>3, <3>1, <3>3, <4>1 DEF FoldStep
    <3> QED
      BY <3>2, <3>3
  <2> HIDE DEF f
  <2>2. g = [s \in SUBSET (1..n) |-> g[s]] /\ f = [s \in SUBSET (1..n) |-> f[s]]
    BY <1>5 DEF f, Unfolds
  <2>3. g = f
    BY <2>1, <2>2
  <2> QED
    BY <2>3 DEF f
<1>7. Fold(fold)
  <2> HIDE DEF Fold
  <2> QED
    BY <1>6
<1>8. /\ fold[{}] = acc
      /\ \A s \in SUBSET (1..n) : s # {} =>
            fold[s] = Get(fold[s \ {Max(s)}], request.client, items[Max(s)])
  <2> HIDE DEF fold, n
  <2> QED
    BY <1>7
<1> HIDE DEF fold, A, n
<1>9. Folds(n, A, acc, fs, fold)
  BY <1>1, <1>3, <1>8, MaxIs DEF Folds
<1> QED
  BY <1>2, <1>4, <1>9, StepsStay DEF A

\* A request as its handle sends it.
Requests(E) ==
    [client : CacheIds, kind : {"get"}, items : Seq(Keys)]
        \cup [client : CacheIds, kind : {"set"}, items : Seq(E)]

SetKeys(queue) ==
    IF Pending(queue, "set") THEN KeysOf(Head(queue).items) ELSE {}

WriteQueue(a, queue) == IF Pending(queue, "set") THEN PutAll(a, Head(queue)) ELSE a

ReadQueue(a, queue) == IF Pending(queue, "get") THEN GetAll(a, Head(queue)) ELSE a

\* The set of one client, if it sent one.
LEMMA WriteQueueHolds ==
    ASSUME NEW E, NEW K, NEW low \in Nat, NEW a \in Writing(E, K, low),
           NEW queue \in Seq(Requests(E))
    PROVE  WriteQueue(a, queue) \in Writing(E, K \cup SetKeys(queue), low)
<1>1. CASE Pending(queue, "set")
  <2>1. Head(queue) \in Requests(E) /\ Head(queue).kind = "set"
    BY <1>1 DEF Pending
  <2>2. Head(queue).items \in Seq(E)
    BY <2>1 DEF Requests
  <2> QED
    BY <1>1, <2>2, PutAllHolds DEF WriteQueue, SetKeys
<1>2. CASE ~Pending(queue, "set")
  BY <1>2 DEF WriteQueue, SetKeys
<1> QED
  BY <1>1, <1>2

\* The get of one client, if it sent one.
LEMMA ReadQueueHolds ==
    ASSUME NEW E \in SUBSET [key : Keys, val : Values], NEW K, NEW low \in Nat,
           NEW a \in Holding(E, K, low), NEW queue \in Seq(Requests(E))
    PROVE  ReadQueue(a, queue) \in Holding(E, K, low)
<1>1. CASE Pending(queue, "get")
  <2>1. Head(queue) \in Requests(E) /\ Head(queue).kind = "get"
    BY <1>1 DEF Pending
  <2>2. Head(queue).items \in Seq(Keys) /\ Head(queue).client \in CacheIds
    BY <2>1 DEF Requests
  <2> QED
    BY <1>1, <2>2, GetAllHolds DEF ReadQueue
<1>2. CASE ~Pending(queue, "get")
  BY <1>2 DEF ReadQueue
<1> QED
  BY <1>1, <1>2

\* The two loops of a pass.
WriteFold(start, queues) ==
    CHOOSE g : g = [s \in SUBSET (DOMAIN queues) |->
                      IF s = {} THEN start
                      ELSE WriteQueue(g[s \ {Max(s)}], queues[Max(s)])]

ReadFold(start, queues) ==
    CHOOSE g : g = [s \in SUBSET (DOMAIN queues) |->
                      IF s = {} THEN start
                      ELSE ReadQueue(g[s \ {Max(s)}], queues[Max(s)])]

Fresh(lru, counted) == [lru |-> lru, stats |-> counted,
                        resp |-> [c \in CacheIds |-> <<>>]]

\* A pass is its two loops over the clients.
LEMMA ServedIs ==
    Served = ReadFold(WriteFold(Fresh(cache.lru, stats), caReq)[DOMAIN caReq], caReq)
                [DOMAIN caReq]
BY DEF Served, FoldLeft, MapThenFoldSet, WriteFold, ReadFold, WriteQueue, ReadQueue, Fresh

\* The keys of all the sets that the clients up to i have sent.
KeysSent(queues, i) == UNION {SetKeys(queues[c]) : c \in 1..i}

\* The loop over the sets.
LEMMA WritesHold ==
    ASSUME NEW E, NEW K, NEW low \in Nat, NEW start \in Writing(E, K, low),
           NEW queues \in [CacheIds -> Seq(Requests(E))]
    PROVE  WriteFold(start, queues)[CacheIds]
             \in Writing(E, K \cup KeysSent(queues, CacheClients), low)
<1> DEFINE n == CacheClients
           A == Writing(E, K, low)
           fs == [i \in 1..n |-> [a \in A |-> WriteQueue(a, queues[i])]]
           Fold(g) == g = [s \in SUBSET (1..n) |->
                             IF s = {} THEN start
                             ELSE WriteQueue(g[s \ {Max(s)}], queues[Max(s)])]
           fold == CHOOSE g : Fold(g)
<1>1. /\ n \in Nat /\ DOMAIN queues = 1..n /\ CacheIds = 1..n
      /\ \A i \in 1..n : queues[i] \in Seq(Requests(E))
  BY CacheAssumption DEF CacheAssumption, CacheIds
<1>2. WriteFold(start, queues)[CacheIds] = fold[1..n]
  BY <1>1 DEF WriteFold
<1>3. ASSUME NEW i \in 1..n, NEW a \in A
      PROVE  fs[i][a] = WriteQueue(a, queues[i]) /\ fs[i][a] \in A
  <2>1. WriteQueue(a, queues[i]) \in Writing(E, K \cup SetKeys(queues[i]), low)
    BY <1>1, WriteQueueHolds
  <2>2. WriteQueue(a, queues[i]) \in A
    BY <2>1, WritingMore
  <2> QED
    BY <2>2
<1>4. Steps(n, A, start, fs)
  BY <1>1, <1>3 DEF Steps
<1> HIDE DEF fs
<1>5. PICK g : Unfolds(n, A, start, fs, g)
  <2> HIDE DEF n, A
  <2> QED
    BY <1>4, StepsExist
<1>6. Fold(g)
  <2> HIDE DEF n, A
  <2> DEFINE f == [s \in SUBSET (1..n) |->
                     IF s = {} THEN start
                     ELSE WriteQueue(g[s \ {Max(s)}], queues[Max(s)])]
  <2>1. ASSUME NEW s \in SUBSET (1..n) PROVE g[s] = f[s]
    <3>1. g \in [SUBSET (1..n) -> A] /\ g[s] = FoldStep(fs, start, g, s)
      BY <1>5 DEF Unfolds
    <3>2. CASE s = {}
      BY <3>1, <3>2 DEF FoldStep
    <3>3. CASE s # {}
      <4>1. Max(s) \in 1..n /\ g[s \ {Max(s)}] \in A
        BY <1>1, <3>1, <3>3, MaxIs
      <4> QED
        BY <1>3, <3>1, <3>3, <4>1 DEF FoldStep
    <3> QED
      BY <3>2, <3>3
  <2> HIDE DEF f
  <2>2. g = [s \in SUBSET (1..n) |-> g[s]] /\ f = [s \in SUBSET (1..n) |-> f[s]]
    BY <1>5 DEF f, Unfolds
  <2>3. g = f
    BY <2>1, <2>2
  <2> QED
    BY <2>3 DEF f
<1>7. Fold(fold)
  <2> HIDE DEF Fold
  <2> QED
    BY <1>6
<1>8. /\ fold[{}] = start
      /\ \A s \in SUBSET (1..n) : s # {} =>
            fold[s] = WriteQueue(fold[s \ {Max(s)}], queues[Max(s)])
  <2> HIDE DEF fold, n
  <2> QED
    BY <1>7
<1> HIDE DEF fold, A, n
<1>9. Folds(n, A, start, fs, fold)
  BY <1>1, <1>3, <1>8, MaxIs DEF Folds
<1> DEFINE L(i) == K \cup KeysSent(queues, i)
           I == [i \in 0..n |-> Writing(E, L(i), low)]
<1>10. /\ L(0) = K
       /\ \A i \in 1..n : L(i) = L(i - 1) \cup SetKeys(queues[i])
  <2>1. \A i \in 1..n : 1..i = (1..(i - 1)) \cup {i}
    BY <1>1
  <2> QED
    BY <1>1, <2>1 DEF KeysSent
<1> HIDE DEF L
<1>11. Carries(n, A, start, fs, I)
  <2>1. \A i \in 0..n : I[i] = Writing(E, L(i), low)
    OBVIOUS
  <2> HIDE DEF I
  <2>2. ASSUME NEW i \in 1..n, NEW a \in A, a \in I[i - 1] PROVE fs[i][a] \in I[i]
    <3>1. i - 1 \in 0..n /\ i \in 0..n
      BY <1>1
    <3>2. a \in Writing(E, L(i - 1), low)
      BY <2>1, <2>2, <3>1
    <3>3. WriteQueue(a, queues[i]) \in Writing(E, L(i - 1) \cup SetKeys(queues[i]), low)
      BY <1>1, <3>2, WriteQueueHolds
    <3> QED
      BY <1>3, <1>10, <2>1, <3>1, <3>3
  <2>3. start \in I[0]
    BY <1>1, <1>10, <2>1
  <2> QED
    BY <2>2, <2>3 DEF Carries
<1>12. I[n] = Writing(E, L(n), low)
  BY <1>1
<1>13. fold[1..n] \in I[n]
  <2> HIDE DEF I
  <2> QED
    BY <1>4, <1>9, <1>11, StepsCarry
<1> QED
  BY <1>2, <1>12, <1>13 DEF L, n

\* The loop over the gets.
LEMMA ReadsHold ==
    ASSUME NEW E \in SUBSET [key : Keys, val : Values], NEW K, NEW low \in Nat,
           NEW start \in Holding(E, K, low),
           NEW queues \in [CacheIds -> Seq(Requests(E))]
    PROVE  ReadFold(start, queues)[CacheIds] \in Holding(E, K, low)
<1> DEFINE n == CacheClients
           A == Holding(E, K, low)
           fs == [i \in 1..n |-> [a \in A |-> ReadQueue(a, queues[i])]]
           Fold(g) == g = [s \in SUBSET (1..n) |->
                             IF s = {} THEN start
                             ELSE ReadQueue(g[s \ {Max(s)}], queues[Max(s)])]
           fold == CHOOSE g : Fold(g)
<1>1. /\ n \in Nat /\ DOMAIN queues = 1..n /\ CacheIds = 1..n
      /\ \A i \in 1..n : queues[i] \in Seq(Requests(E))
  BY CacheAssumption DEF CacheAssumption, CacheIds
<1>2. ReadFold(start, queues)[CacheIds] = fold[1..n]
  BY <1>1 DEF ReadFold
<1>3. ASSUME NEW i \in 1..n, NEW a \in A
      PROVE  fs[i][a] = ReadQueue(a, queues[i]) /\ fs[i][a] \in A
  BY <1>1, ReadQueueHolds
<1>4. Steps(n, A, start, fs)
  BY <1>1, <1>3 DEF Steps
<1> HIDE DEF fs
<1>5. PICK g : Unfolds(n, A, start, fs, g)
  <2> HIDE DEF n, A
  <2> QED
    BY <1>4, StepsExist
<1>6. Fold(g)
  <2> HIDE DEF n, A
  <2> DEFINE f == [s \in SUBSET (1..n) |->
                     IF s = {} THEN start
                     ELSE ReadQueue(g[s \ {Max(s)}], queues[Max(s)])]
  <2>1. ASSUME NEW s \in SUBSET (1..n) PROVE g[s] = f[s]
    <3>1. g \in [SUBSET (1..n) -> A] /\ g[s] = FoldStep(fs, start, g, s)
      BY <1>5 DEF Unfolds
    <3>2. CASE s = {}
      BY <3>1, <3>2 DEF FoldStep
    <3>3. CASE s # {}
      <4>1. Max(s) \in 1..n /\ g[s \ {Max(s)}] \in A
        BY <1>1, <3>1, <3>3, MaxIs
      <4> QED
        BY <1>3, <3>1, <3>3, <4>1 DEF FoldStep
    <3> QED
      BY <3>2, <3>3
  <2> HIDE DEF f
  <2>2. g = [s \in SUBSET (1..n) |-> g[s]] /\ f = [s \in SUBSET (1..n) |-> f[s]]
    BY <1>5 DEF f, Unfolds
  <2>3. g = f
    BY <2>1, <2>2
  <2> QED
    BY <2>3 DEF f
<1>7. Fold(fold)
  <2> HIDE DEF Fold
  <2> QED
    BY <1>6
<1>8. /\ fold[{}] = start
      /\ \A s \in SUBSET (1..n) : s # {} =>
            fold[s] = ReadQueue(fold[s \ {Max(s)}], queues[Max(s)])
  <2> HIDE DEF fold, n
  <2> QED
    BY <1>7
<1> HIDE DEF fold, A, n
<1>9. Folds(n, A, start, fs, fold)
  BY <1>1, <1>3, <1>8, MaxIs DEF Folds
<1> QED
  BY <1>2, <1>4, <1>9, StepsStay DEF A

\* What a pass makes of the map, the counters and the answers.
LEMMA ServedHolds ==
    ASSUME NEW E \in SUBSET [key : Keys, val : Values],
           cache.lru \in Seq(E), Len(cache.lru) <= Capacity, stats \in CacheStats,
           caReq \in [CacheIds -> Seq(Requests(E))]
    PROVE  Served \in Holding(E, KeysOf(cache.lru) \cup KeysSent(caReq, CacheClients),
                              stats.evictions)
<1> DEFINE K == KeysOf(cache.lru)
           low == stats.evictions
           start == Fresh(cache.lru, stats)
           L == K \cup KeysSent(caReq, CacheClients)
           written == WriteFold(start, caReq)[CacheIds]
<1>1. start \in Writing(E, K, low) /\ low \in Nat
  <2>1. \A c \in CacheIds : start.resp[c] = <<>> /\ DOMAIN start.resp[c] = {}
    BY DEF Fresh
  <2>2. /\ start.lru = cache.lru /\ start.stats = stats
        /\ start.resp \in [CacheIds -> Seq(Answers(E))]
        /\ start \in [lru : Seq(E), stats : CacheStats,
                      resp : [CacheIds -> Seq(Answers(E))]]
    BY DEF Fresh
  <2>3. low \in Nat
    BY DEF CacheStats
  <2> HIDE DEF start
  <2> QED
    BY <2>1, <2>2, <2>3 DEF Writing, Holding, Passing
<1> HIDE DEF start, low
<1>2. DOMAIN caReq = CacheIds
  OBVIOUS
<1>3. Served = ReadFold(written, caReq)[CacheIds]
  BY <1>2, ServedIs DEF start
<1>4. written \in Writing(E, L, low)
  BY <1>1, WritesHold
<1>5. written \in Holding(E, L, low)
  BY <1>4 DEF Writing
<1> HIDE DEF written, L
<1>6. ReadFold(written, caReq)[CacheIds] \in Holding(E, L, low)
  BY <1>1, <1>5, ReadsHold
<1> QED
  BY <1>3, <1>6 DEF L, K, low

\* The cache's own state, in which every entry of the map is one of E.
CacheTypes(E) ==
    /\ caCall \in [CacheIds -> {"idle", "waiting", "dropped"}]
    /\ caReq \in [CacheIds -> Seq(Requests(E))]
    /\ caResp \in [CacheIds -> Seq(Seq(Answers(E)))]
    /\ cache \in [at : {"select", "emitting", "last", "exit"},
                  closed : SUBSET CacheIds, lru : Seq(E)]
    /\ Len(cache.lru) <= Capacity
    /\ stats \in CacheStats
    /\ caTotals \in [hits : Nat, misses : Nat]
    /\ caEmitted \in [stats : CacheStats, times : Nat]
    /\ sure \in [now : SUBSET Keys, asking : [CacheIds -> SUBSET Keys]]

\* A waiting client has one request or one answer in its queues, any other
\* nothing.
Queued ==
    \A c \in CacheIds :
        IF caCall[c] = "waiting" THEN Len(caReq[c]) + Len(caResp[c]) = 1
        ELSE caReq[c] = <<>> /\ caResp[c] = <<>>

\* Without evictions, whatever anybody may count on is in the map, or in the
\* set its client is waiting to have served.
Kept ==
    caEmitted.stats.evictions + stats.evictions = 0 =>
        /\ sure.now \subseteq KeysOf(cache.lru)
        /\ \A c \in CacheIds :
              sure.asking[c] \subseteq KeysOf(cache.lru) \cup SetKeys(caReq[c])

Counted ==
    /\ caEmitted.stats.hits + stats.hits = caTotals.hits
    /\ caEmitted.stats.misses + stats.misses = caTotals.misses
    /\ cache.at \in {"last", "exit"} => ~Unreported

CacheInv(E) == CacheTypes(E) /\ Queued /\ Kept /\ Counted /\ AnswersShared

\* The cache beside clients that put entries of E and ask for anything.
CacheNext(E) ==
    \/ \E c \in CacheIds : \E keys \in Seq(Keys) : BatchGet(c, keys)
    \/ \E c \in CacheIds : \E entries \in Seq(E) : BatchSet(c, entries)
    \/ \E c \in CacheIds : CacheReturn(c) \/ CacheDrop(c)
    \/ CachePassShut \/ CachePassEmit \/ CacheEmitted \/ CacheLast \/ CacheExit

\* The cache starts with nothing to be wrong.
LEMMA CacheInitInv ==
    ASSUME NEW E \in SUBSET [key : Keys, val : Values], CacheInit
    PROVE  CacheInv(E)
<1>1. CacheTypes(E)
  <2>1. <<>> \in Seq(E) /\ Len(<<>>) <= Capacity
    BY CacheAssumption DEF CacheAssumption
  <2>2. NoStats \in CacheStats
    BY DEF NoStats, CacheStats
  <2> QED
    BY <2>1, <2>2 DEF CacheInit, CacheTypes
<1>2. Queued
  BY DEF CacheInit, Queued
<1>3. Kept
  BY DEF CacheInit, Kept
<1>4. Counted
  BY DEF CacheInit, Counted, NoStats
<1>5. AnswersShared
  BY DEF CacheInit, AnswersShared
<1> QED
  BY <1>1, <1>2, <1>3, <1>4, <1>5 DEF CacheInv

\* A request is queued: a get may count on what is acknowledged, a set on its own
\* entries.
LEMMA AskKeeps ==
    ASSUME NEW E \in SUBSET [key : Keys, val : Values], CacheInv(E),
           NEW c \in CacheIds, NEW kind \in {"get", "set"}, NEW items,
           kind = "get" => items \in Seq(Keys), kind = "set" => items \in Seq(E),
           CacheAsk(c, kind, items)
    PROVE  CacheInv(E)'
<1> DEFINE r == [client |-> c, kind |-> kind, items |-> items]
           asked == IF kind = "get" THEN sure.now ELSE {e.key : e \in Range(items)}
<1>1. /\ CacheTypes(E) /\ Queued /\ Kept /\ Counted /\ AnswersShared
  BY DEF CacheInv
<1>2. r \in Requests(E)
  BY DEF Requests
<1>3. caReq[c] = <<>> /\ caResp[c] = <<>>
  BY <1>1 DEF Queued, CacheAsk
<1>4. /\ caReq' = [caReq EXCEPT ![c] = Append(@, r)]
      /\ caCall' = [caCall EXCEPT ![c] = "waiting"]
      /\ sure' = [sure EXCEPT !.asking[c] = asked]
      /\ caResp' = caResp /\ cache' = cache /\ stats' = stats
      /\ caTotals' = caTotals /\ caEmitted' = caEmitted
  BY DEF CacheAsk
<1>5. kind = "set" => asked = KeysOf(items) /\ asked \subseteq Keys
  BY DEF KeysOf, Range
<1>6. asked \in SUBSET Keys
  BY <1>1, <1>5 DEF CacheTypes
<1>7. SetKeys(<<r>>) = IF kind = "set" THEN KeysOf(items) ELSE {}
  BY DEF SetKeys, Pending
<1> HIDE DEF r, asked
<1>8. /\ caReq' \in [CacheIds -> Seq(Requests(E))] /\ caReq'[c] = <<r>>
      /\ \A d \in CacheIds : d # c => caReq'[d] = caReq[d]
  BY <1>1, <1>2, <1>3, <1>4 DEF CacheTypes
<1>9. /\ caCall' \in [CacheIds -> {"idle", "waiting", "dropped"}]
      /\ caCall'[c] = "waiting" /\ \A d \in CacheIds : d # c => caCall'[d] = caCall[d]
  BY <1>1, <1>4 DEF CacheTypes
<1>10. /\ sure' \in [now : SUBSET Keys, asking : [CacheIds -> SUBSET Keys]]
       /\ sure'.now = sure.now /\ sure'.asking[c] = asked
       /\ \A d \in CacheIds : d # c => sure'.asking[d] = sure.asking[d]
  BY <1>1, <1>4, <1>6 DEF CacheTypes
<1>11. CacheTypes(E)'
  BY <1>1, <1>4, <1>8, <1>9, <1>10 DEF CacheTypes
<1>12. Queued'
  <2>1. Len(<<r>>) + Len(<<>>) = 1
    OBVIOUS
  <2> QED
    BY <1>1, <1>3, <1>4, <1>8, <1>9, <2>1 DEF Queued
<1>13. Kept'
  <2> SUFFICES ASSUME caEmitted.stats.evictions + stats.evictions = 0
               PROVE  /\ sure'.now \subseteq KeysOf(cache.lru)
                      /\ \A d \in CacheIds : sure'.asking[d] \subseteq
                            KeysOf(cache.lru) \cup SetKeys(caReq'[d])
    BY <1>4 DEF Kept
  <2>1. /\ sure.now \subseteq KeysOf(cache.lru)
        /\ \A d \in CacheIds : sure.asking[d] \subseteq
              KeysOf(cache.lru) \cup SetKeys(caReq[d])
    BY <1>1 DEF Kept
  <2>2. asked \subseteq KeysOf(cache.lru) \cup SetKeys(<<r>>)
    BY <1>5, <1>7, <2>1 DEF asked
  <2> QED
    BY <1>8, <1>10, <2>1, <2>2
<1>14. Counted'
  BY <1>1, <1>4 DEF Counted, Unreported
<1>15. AnswersShared'
  <2> SUFFICES ASSUME NEW d \in CacheIds, NEW n \in DOMAIN caResp[d],
                      NEW i \in DOMAIN caResp[d][n],
                      caResp[d][n][i][2] = Miss,
                      caResp[d][n][i][1] \in sure'.asking[d]
               PROVE  caEmitted.stats.evictions + stats.evictions > 0
    BY <1>4 DEF AnswersShared
  <2>1. d # c
    BY <1>3
  <2> QED
    BY <1>1, <1>10, <2>1 DEF AnswersShared
<1> QED
  BY <1>11, <1>12, <1>13, <1>14, <1>15 DEF CacheInv

\* Two queues with one element between them.
LEMMA OneOfTwo ==
    ASSUME NEW S, NEW T, NEW p \in Seq(S), NEW q \in Seq(T), Len(p) + Len(q) = 1
    PROVE  /\ q # <<>> => p = <<>> /\ Len(q) = 1 /\ Tail(q) = <<>>
           /\ p # <<>> => q = <<>> /\ Len(p) = 1
<1>1. Len(p) \in Nat /\ Len(q) \in Nat
  OBVIOUS
<1>2. \A a, b \in Nat : a + b = 1 => (a = 0 /\ b = 1) \/ (a = 1 /\ b = 0)
  OBVIOUS
<1>3. (Len(p) = 0 /\ Len(q) = 1) \/ (Len(p) = 1 /\ Len(q) = 0)
  BY <1>1, <1>2
<1>4. \A s : s \in Seq(T) /\ Len(s) = 0 => s = <<>>
  OBVIOUS
<1>5. \A s : s \in Seq(S) /\ Len(s) = 0 => s = <<>>
  OBVIOUS
<1>6. ASSUME Len(q) = 1 PROVE Tail(q) = <<>>
  <2>2. q # <<>>
    <3> SUFFICES ASSUME q = <<>> PROVE FALSE
      OBVIOUS
    <3>1. Len(q) = 0
      OBVIOUS
    <3> QED
      BY <1>6, <3>1
  <2>1. Tail(q) \in Seq(T) /\ Len(Tail(q)) = 0
    BY <1>6, <2>2
  <2> QED
    BY <1>4, <2>1
<1>7. q # <<>> => Len(q) # 0
  BY <1>4
<1>8. p # <<>> => Len(p) # 0
  BY <1>5
<1>9. (Len(p) = 0 => p = <<>>) /\ (Len(q) = 0 => q = <<>>)
  BY <1>4, <1>5
<1> QED
  BY <1>3, <1>6, <1>7, <1>8, <1>9

\* An answer is taken: what a set has put is from now on for all to find.
LEMMA CacheReturnKeeps ==
    ASSUME NEW E \in SUBSET [key : Keys, val : Values], CacheInv(E),
           NEW c \in CacheIds, CacheReturn(c)
    PROVE  CacheInv(E)'
<1> DEFINE more == IF Head(caResp[c]) = <<>> THEN sure.asking[c] ELSE {}
<1>1. /\ CacheTypes(E) /\ Queued /\ Kept /\ Counted /\ AnswersShared
  BY DEF CacheInv
<1>2. /\ caCall[c] = "waiting" /\ caResp[c] # <<>>
      /\ caCall' = [caCall EXCEPT ![c] = "idle"]
      /\ caResp' = [caResp EXCEPT ![c] = Tail(@)]
      /\ sure' = [now |-> sure.now \cup more,
                  asking |-> [sure.asking EXCEPT ![c] = {}]]
      /\ caReq' = caReq /\ cache' = cache /\ stats' = stats
      /\ caTotals' = caTotals /\ caEmitted' = caEmitted
  BY DEF CacheReturn
<1>3. more \subseteq sure.asking[c]
  OBVIOUS
<1> HIDE DEF more
<1>4. /\ caReq[c] \in Seq(Requests(E)) /\ caResp[c] \in Seq(Seq(Answers(E)))
      /\ Len(caReq[c]) + Len(caResp[c]) = 1
  BY <1>1, <1>2 DEF Queued, CacheTypes
<1>5. caReq[c] = <<>>
  BY <1>2, <1>4, OneOfTwo
<1>6. Tail(caResp[c]) = <<>>
  BY <1>2, <1>4, OneOfTwo
<1>7. /\ caResp' \in [CacheIds -> Seq(Seq(Answers(E)))] /\ caResp'[c] = <<>>
      /\ \A d \in CacheIds : d # c => caResp'[d] = caResp[d]
  BY <1>1, <1>2, <1>6 DEF CacheTypes
<1>8. /\ caCall' \in [CacheIds -> {"idle", "waiting", "dropped"}]
      /\ caCall'[c] = "idle" /\ \A d \in CacheIds : d # c => caCall'[d] = caCall[d]
  BY <1>1, <1>2 DEF CacheTypes
<1>9. /\ sure' \in [now : SUBSET Keys, asking : [CacheIds -> SUBSET Keys]]
      /\ sure'.now = sure.now \cup more /\ sure'.asking[c] = {}
      /\ \A d \in CacheIds : d # c => sure'.asking[d] = sure.asking[d]
  <2>1. sure.now \in SUBSET Keys /\ sure.asking \in [CacheIds -> SUBSET Keys]
    BY <1>1 DEF CacheTypes
  <2> QED
    BY <1>2, <1>3, <2>1
<1>10. CacheTypes(E)'
  BY <1>1, <1>2, <1>7, <1>8, <1>9 DEF CacheTypes
<1>11. Queued'
  BY <1>1, <1>2, <1>5, <1>7, <1>8 DEF Queued
<1>12. Kept'
  <2> SUFFICES ASSUME caEmitted.stats.evictions + stats.evictions = 0
               PROVE  /\ sure'.now \subseteq KeysOf(cache.lru)
                      /\ \A d \in CacheIds : sure'.asking[d] \subseteq
                            KeysOf(cache.lru) \cup SetKeys(caReq[d])
    BY <1>2 DEF Kept
  <2>1. /\ sure.now \subseteq KeysOf(cache.lru)
        /\ \A d \in CacheIds : sure.asking[d] \subseteq
              KeysOf(cache.lru) \cup SetKeys(caReq[d])
    BY <1>1 DEF Kept
  <2>2. SetKeys(<<>>) = {}
    BY DEF SetKeys, Pending
  <2> QED
    BY <1>3, <1>5, <1>9, <2>1, <2>2
<1>13. Counted'
  BY <1>1, <1>2 DEF Counted, Unreported
<1>14. AnswersShared'
  <2> SUFFICES ASSUME NEW d \in CacheIds, NEW n \in DOMAIN caResp'[d],
                      NEW i \in DOMAIN caResp'[d][n],
                      caResp'[d][n][i][2] = Miss,
                      caResp'[d][n][i][1] \in sure'.asking[d]
               PROVE  caEmitted.stats.evictions + stats.evictions > 0
    BY <1>2 DEF AnswersShared
  <2>1. d # c
    BY <1>9
  <2> QED
    BY <1>1, <1>7, <1>9, <2>1 DEF AnswersShared
<1> QED
  BY <1>10, <1>11, <1>12, <1>13, <1>14 DEF CacheInv

\* A handle goes.
LEMMA CacheDropKeeps ==
    ASSUME NEW E \in SUBSET [key : Keys, val : Values], CacheInv(E),
           NEW c \in CacheIds, CacheDrop(c)
    PROVE  CacheInv(E)'
<1>1. /\ CacheTypes(E) /\ Queued /\ Kept /\ Counted /\ AnswersShared
  BY DEF CacheInv
<1>2. /\ caCall[c] = "idle" /\ caCall' = [caCall EXCEPT ![c] = "dropped"]
      /\ caReq' = caReq /\ caResp' = caResp /\ cache' = cache /\ stats' = stats
      /\ caTotals' = caTotals /\ caEmitted' = caEmitted /\ sure' = sure
  BY DEF CacheDrop
<1>3. CacheTypes(E)'
  BY <1>1, <1>2 DEF CacheTypes
<1>4. Queued'
  BY <1>1, <1>2 DEF Queued, CacheTypes
<1>5. Kept' /\ Counted' /\ AnswersShared'
  BY <1>1, <1>2 DEF Kept, Counted, Unreported, AnswersShared
<1> QED
  BY <1>3, <1>4, <1>5 DEF CacheInv

\* A pass, whether or not it ends in an emission.
LEMMA PassKeeps ==
    ASSUME NEW E \in SUBSET [key : Keys, val : Values], CacheInv(E),
           CachePass, NEW next \in {"select", "emitting"}, cache' = Passed(next),
           stats' \in CacheStats, caEmitted' \in [stats : CacheStats, times : Nat],
           caEmitted'.stats.hits + stats'.hits
             = caEmitted.stats.hits + Served.stats.hits,
           caEmitted'.stats.misses + stats'.misses
             = caEmitted.stats.misses + Served.stats.misses,
           caEmitted'.stats.evictions + stats'.evictions
             = caEmitted.stats.evictions + Served.stats.evictions
    PROVE  CacheInv(E)'
<1> DEFINE K == KeysOf(cache.lru) \cup KeysSent(caReq, CacheClients)
           s == Served
           low == stats.evictions
<1>1. CacheTypes(E) /\ Queued /\ Kept /\ Counted /\ AnswersShared
  BY DEF CacheInv
<1>2. s \in Holding(E, K, low)
  BY <1>1, ServedHolds DEF CacheTypes
<1> HIDE DEF s, K
<1>3. /\ s.lru \in Seq(E) /\ s.stats \in CacheStats
      /\ s.resp \in [CacheIds -> Seq(Answers(E))]
      /\ Len(s.lru) <= Capacity /\ s.stats.evictions >= low
      /\ s.stats.evictions = 0 =>
            /\ K \subseteq KeysOf(s.lru)
            /\ \A c \in CacheIds : \A i \in DOMAIN s.resp[c] :
                  s.resp[c][i][1] \in K => s.resp[c][i][2] # Miss
  BY <1>2 DEF Holding, Passing
<1> HIDE DEF low
<1>4. /\ caTotals' = [hits |-> caTotals.hits + s.stats.hits - stats.hits,
                      misses |-> caTotals.misses + s.stats.misses - stats.misses]
      /\ caReq' = [c \in CacheIds |-> <<>>]
      /\ caResp' = [c \in CacheIds |->
                       IF c \in CacheAsking THEN Append(caResp[c], s.resp[c])
                       ELSE caResp[c]]
      /\ caCall' = caCall /\ sure' = sure
  BY DEF CachePass, s
<1>5. cache'.lru = s.lru
      /\ cache' \in [at : {"select", "emitting", "last", "exit"},
                     closed : SUBSET CacheIds, lru : Seq(E)]
      /\ cache'.at \notin {"last", "exit"}
  BY <1>1, <1>3 DEF Passed, CacheLeaving, CacheTypes, s
<1>6. ASSUME NEW c \in CacheIds
      PROVE  /\ caReq[c] # <<>> => /\ caCall[c] = "waiting" /\ caResp[c] = <<>>
                                   /\ Len(caReq[c]) = 1
             /\ caReq[c] \in Seq(Requests(E)) /\ caResp[c] \in Seq(Seq(Answers(E)))
  <2>1. caReq[c] \in Seq(Requests(E)) /\ caResp[c] \in Seq(Seq(Answers(E)))
    BY <1>1 DEF CacheTypes
  <2>2. ASSUME caReq[c] # <<>>
        PROVE  caCall[c] = "waiting" /\ caResp[c] = <<>> /\ Len(caReq[c]) = 1
    <3>1. caCall[c] = "waiting" /\ Len(caReq[c]) + Len(caResp[c]) = 1
      BY <1>1, <2>2 DEF Queued
    <3> QED
      BY <2>1, <2>2, <3>1, OneOfTwo
  <2> QED
    BY <2>1, <2>2
<1>7. ASSUME NEW c \in CacheIds
      PROVE  /\ caReq'[c] = <<>>
             /\ caResp'[c] = IF caReq[c] # <<>> THEN <<s.resp[c]>> ELSE caResp[c]
             /\ caResp'[c] \in Seq(Seq(Answers(E)))
  <2>1. caReq'[c] = <<>> /\ s.resp[c] \in Seq(Answers(E))
    BY <1>3, <1>4
  <2>2. CASE caReq[c] # <<>>
    <3>1. caResp'[c] = Append(caResp[c], s.resp[c]) /\ caResp[c] = <<>>
      BY <1>4, <1>6, <2>2 DEF CacheAsking
    <3>2. caResp'[c] = <<s.resp[c]>>
      BY <3>1
    <3> QED
      BY <2>1, <2>2, <3>2
  <2>3. CASE caReq[c] = <<>>
    <3>1. caResp'[c] = caResp[c]
      BY <1>4, <2>3 DEF CacheAsking
    <3> QED
      BY <1>6, <2>1, <2>3, <3>1
  <2> QED
    BY <2>2, <2>3
<1>8. CacheTypes(E)'
  <2>1. caReq' \in [CacheIds -> Seq(Requests(E))]
    BY <1>4
  <2>2. caResp' \in [CacheIds -> Seq(Seq(Answers(E)))]
    BY <1>4, <1>7
  <2>3. caTotals' \in [hits : Nat, misses : Nat]
    <3>1. \A a, b, d, e \in Nat : a + b = d => d + e - b \in Nat
      OBVIOUS
    <3>2. /\ stats.hits \in Nat /\ stats.misses \in Nat
          /\ s.stats.hits \in Nat /\ s.stats.misses \in Nat
          /\ caEmitted.stats.hits \in Nat /\ caEmitted.stats.misses \in Nat
          /\ caTotals.hits \in Nat /\ caTotals.misses \in Nat
      BY <1>1, <1>3 DEF CacheTypes, CacheStats
    <3>3. /\ caTotals.hits + s.stats.hits - stats.hits \in Nat
          /\ caTotals.misses + s.stats.misses - stats.misses \in Nat
      BY <1>1, <3>1, <3>2 DEF Counted
    <3> QED
      BY <1>4, <3>3
  <2> QED
    BY <1>1, <1>3, <1>4, <1>5, <2>1, <2>2, <2>3 DEF CacheTypes
<1>9. Queued'
  <2> SUFFICES ASSUME NEW c \in CacheIds
               PROVE  IF caCall[c] = "waiting"
                      THEN Len(caReq'[c]) + Len(caResp'[c]) = 1
                      ELSE caReq'[c] = <<>> /\ caResp'[c] = <<>>
    BY <1>4 DEF Queued
  <2>1. CASE caReq[c] # <<>>
    <3>1. caCall[c] = "waiting" /\ caReq'[c] = <<>> /\ caResp'[c] = <<s.resp[c]>>
      BY <1>6, <1>7, <2>1
    <3>2. Len(<<>>) + Len(<<s.resp[c]>>) = 1
      OBVIOUS
    <3> QED
      BY <3>1, <3>2
  <2>2. CASE caReq[c] = <<>>
    <3>1. caReq'[c] = caReq[c] /\ caResp'[c] = caResp[c]
      BY <1>7, <2>2
    <3> QED
      BY <1>1, <3>1 DEF Queued
  <2> QED
    BY <2>1, <2>2
<1>10. /\ caEmitted.stats.evictions \in Nat /\ s.stats.evictions \in Nat
       /\ stats.evictions \in Nat
       /\ caEmitted'.stats.evictions + stats'.evictions
             = caEmitted.stats.evictions + s.stats.evictions
  BY <1>1, <1>3 DEF CacheTypes, CacheStats, s
<1>11. ASSUME caEmitted'.stats.evictions + stats'.evictions = 0
       PROVE  /\ s.stats.evictions = 0
              /\ caEmitted.stats.evictions + stats.evictions = 0
  <2>1. \A a, b, d \in Nat : a + b = 0 /\ b >= d => b = 0 /\ a + d = 0
    OBVIOUS
  <2> QED
    BY <1>3, <1>10, <1>11, <2>1 DEF low
<1>12. ASSUME caEmitted'.stats.evictions + stats'.evictions = 0
       PROVE  /\ sure.now \subseteq K
              /\ \A c \in CacheIds : sure.asking[c] \subseteq K
  <2>1. /\ sure.now \subseteq KeysOf(cache.lru)
        /\ \A c \in CacheIds :
              sure.asking[c] \subseteq KeysOf(cache.lru) \cup SetKeys(caReq[c])
    BY <1>1, <1>11, <1>12 DEF Kept
  <2>2. \A c \in CacheIds : SetKeys(caReq[c]) \subseteq KeysSent(caReq, CacheClients)
    BY DEF KeysSent, CacheIds
  <2> QED
    BY <2>1, <2>2 DEF K
<1>13. Kept'
  <2>1. KeysOf(s.lru) = KeysOf(cache'.lru)
    BY <1>5
  <2>2. ASSUME caEmitted'.stats.evictions + stats'.evictions = 0
        PROVE  K \subseteq KeysOf(cache'.lru)
    BY <1>3, <1>11, <2>1, <2>2
  <2>3. ASSUME caEmitted'.stats.evictions + stats'.evictions = 0
        PROVE  /\ sure'.now \subseteq KeysOf(cache'.lru)
               /\ \A c \in CacheIds : sure'.asking[c] \subseteq KeysOf(cache'.lru)
    BY <1>4, <1>12, <2>2, <2>3
  <2> QED
    BY <2>3 DEF Kept
<1>14. Counted'
  <2>1. \A a, b, d, e, f, g \in Nat : a + b = d /\ e + f = a + g => e + f = d + g - b
    OBVIOUS
  <2>2. /\ stats.hits \in Nat /\ stats.misses \in Nat
        /\ stats'.hits \in Nat /\ stats'.misses \in Nat
        /\ s.stats.hits \in Nat /\ s.stats.misses \in Nat
        /\ caEmitted.stats.hits \in Nat /\ caEmitted.stats.misses \in Nat
        /\ caEmitted'.stats.hits \in Nat /\ caEmitted'.stats.misses \in Nat
        /\ caTotals.hits \in Nat /\ caTotals.misses \in Nat
    BY <1>1, <1>3 DEF CacheTypes, CacheStats
  <2>3. /\ caEmitted'.stats.hits + stats'.hits = caTotals.hits + s.stats.hits - stats.hits
        /\ caEmitted'.stats.misses + stats'.misses
              = caTotals.misses + s.stats.misses - stats.misses
    BY <1>1, <2>1, <2>2 DEF Counted, s
  <2> QED
    BY <1>4, <1>5, <2>3 DEF Counted
<1>15. AnswersShared'
  <2> SUFFICES ASSUME NEW c \in CacheIds, NEW n \in DOMAIN caResp'[c],
                      NEW i \in DOMAIN caResp'[c][n],
                      caResp'[c][n][i][2] = Miss,
                      caResp'[c][n][i][1] \in sure.asking[c]
               PROVE  caEmitted'.stats.evictions + stats'.evictions > 0
    BY <1>4 DEF AnswersShared
  <2>1. \A a \in Nat : a # 0 => a > 0
    OBVIOUS
  <2>2. caEmitted'.stats.evictions + stats'.evictions \in Nat
    BY <1>10
  <2>3. SUFFICES ASSUME caEmitted'.stats.evictions + stats'.evictions = 0 PROVE FALSE
    BY <2>1, <2>2
  <2>4. CASE caReq[c] # <<>>
    <3>3. caResp'[c] = <<s.resp[c]>>
      BY <1>7, <2>4
    <3>1. n = 1 /\ caResp'[c][n] = s.resp[c]
      BY <3>3
    <3> QED
      BY <1>3, <1>11, <1>12, <2>3, <3>1
  <2>5. CASE caReq[c] = <<>>
    <3>1. caResp'[c] = caResp[c]
      BY <1>7, <2>5
    <3> QED
      BY <1>1, <1>11, <2>3, <3>1 DEF AnswersShared
  <2> QED
    BY <2>4, <2>5
<1> QED
  BY <1>8, <1>9, <1>13, <1>14, <1>15 DEF CacheInv

\* Counters are added place by place.
LEMMA PlusNats ==
    ASSUME NEW a \in CacheStats, NEW b \in CacheStats
    PROVE  /\ Plus(a, b) \in CacheStats
           /\ Plus(a, b).hits = a.hits + b.hits
           /\ Plus(a, b).misses = a.misses + b.misses
           /\ Plus(a, b).evictions = a.evictions + b.evictions
BY DEF Plus, CacheStats

\* Nothing counted is a count.
LEMMA NothingCounted ==
    /\ NoStats \in CacheStats /\ NoStats.hits = 0 /\ NoStats.misses = 0
    /\ NoStats.sets = 0 /\ NoStats.evictions = 0
BY DEF NoStats, CacheStats

\* What an emission takes over is no longer to be reported.
LEMMA Emits ==
    ASSUME caEmitted \in [stats : CacheStats, times : Nat], NEW s \in CacheStats
    PROVE  /\ Emission(s) \in [stats : CacheStats, times : Nat]
           /\ Emission(s).stats.hits + NoStats.hits = caEmitted.stats.hits + s.hits
           /\ Emission(s).stats.misses + NoStats.misses
                = caEmitted.stats.misses + s.misses
           /\ Emission(s).stats.evictions + NoStats.evictions
                = caEmitted.stats.evictions + s.evictions
<1>1. caEmitted.stats \in CacheStats /\ caEmitted.times + 1 \in Nat
  OBVIOUS
<1>2. Emission(s).stats = Plus(caEmitted.stats, s)
      /\ Emission(s) = [stats |-> Emission(s).stats, times |-> caEmitted.times + 1]
  BY DEF Emission
<1>3. \A n \in Nat : n + 0 = n
  OBVIOUS
<1>4. /\ Emission(s).stats.hits \in Nat /\ Emission(s).stats.misses \in Nat
      /\ Emission(s).stats.evictions \in Nat
  BY <1>1, <1>2, PlusNats DEF CacheStats
<1> QED
  BY <1>1, <1>2, <1>3, <1>4, PlusNats, NothingCounted

\* Every step of the cache keeps its invariant, whoever its clients are.
LEMMA CacheStepKeeps ==
    ASSUME NEW E \in SUBSET [key : Keys, val : Values], CacheInv(E),
           [CacheNext(E)]_cacheVars
    PROVE  CacheInv(E)'
<1>1. CacheTypes(E) /\ Queued /\ Kept /\ Counted /\ AnswersShared
  BY DEF CacheInv
<1>2. ASSUME CachePass PROVE Served.stats \in CacheStats
  BY <1>1, ServedHolds DEF CacheTypes, Holding, Passing
<1>3. ASSUME NEW c \in CacheIds, NEW keys \in Seq(Keys), BatchGet(c, keys)
      PROVE  CacheInv(E)'
  BY <1>3, AskKeeps DEF BatchGet
<1>4. ASSUME NEW c \in CacheIds, NEW entries \in Seq(E), BatchSet(c, entries)
      PROVE  CacheInv(E)'
  BY <1>4, AskKeeps DEF BatchSet
<1>5. ASSUME NEW c \in CacheIds, CacheReturn(c) \/ CacheDrop(c)
      PROVE  CacheInv(E)'
  BY <1>5, CacheReturnKeeps, CacheDropKeeps
<1>6. CASE CachePassShut
  <2>1. CachePass /\ stats' = Served.stats /\ cache' = Passed("select")
        /\ caEmitted' = caEmitted
    BY <1>6 DEF CachePassShut
  <2>2. stats' \in CacheStats /\ caEmitted' \in [stats : CacheStats, times : Nat]
    BY <1>1, <1>2, <2>1 DEF CacheTypes
  <2>3. /\ caEmitted'.stats.hits + stats'.hits
             = caEmitted.stats.hits + Served.stats.hits
        /\ caEmitted'.stats.misses + stats'.misses
             = caEmitted.stats.misses + Served.stats.misses
        /\ caEmitted'.stats.evictions + stats'.evictions
             = caEmitted.stats.evictions + Served.stats.evictions
    BY <2>1
  <2> QED
    BY <2>1, <2>2, <2>3, PassKeeps
<1>7. CASE CachePassEmit
  <2>1. CachePass /\ stats' = NoStats /\ cache' = Passed("emitting")
        /\ caEmitted' = Emission(Served.stats)
    BY <1>7 DEF CachePassEmit
  <2>2. Served.stats \in CacheStats /\ caEmitted \in [stats : CacheStats, times : Nat]
    BY <1>1, <1>2, <2>1 DEF CacheTypes
  <2>3. stats' \in CacheStats /\ caEmitted' \in [stats : CacheStats, times : Nat]
    BY <2>1, <2>2, Emits, NothingCounted
  <2>4. /\ caEmitted'.stats.hits + stats'.hits
             = caEmitted.stats.hits + Served.stats.hits
        /\ caEmitted'.stats.misses + stats'.misses
             = caEmitted.stats.misses + Served.stats.misses
        /\ caEmitted'.stats.evictions + stats'.evictions
             = caEmitted.stats.evictions + Served.stats.evictions
    BY <2>1, <2>2, Emits
  <2> QED
    BY <2>1, <2>3, <2>4, PassKeeps
<1>8. CASE CacheEmitted
  <2>1. /\ cache.at = "emitting" /\ cache' = [cache EXCEPT !.at = "select"]
        /\ caCall' = caCall /\ caReq' = caReq /\ caResp' = caResp /\ stats' = stats
        /\ caTotals' = caTotals /\ caEmitted' = caEmitted /\ sure' = sure
    BY <1>8 DEF CacheEmitted
  <2>2. /\ cache' \in [at : {"select", "emitting", "last", "exit"},
                       closed : SUBSET CacheIds, lru : Seq(E)]
        /\ cache'.lru = cache.lru /\ cache'.at = "select"
    BY <1>1, <2>1 DEF CacheTypes
  <2>3. CacheTypes(E)'
    BY <1>1, <2>1, <2>2 DEF CacheTypes
  <2>4. Queued' /\ Kept' /\ AnswersShared'
    BY <1>1, <2>1, <2>2 DEF Queued, Kept, AnswersShared
  <2>5. Counted'
    BY <1>1, <2>1, <2>2 DEF Counted
  <2> QED
    BY <2>3, <2>4, <2>5 DEF CacheInv
<1>9. CASE CacheLast
  <2>1. /\ cache' = [cache EXCEPT !.at = "last"] /\ stats' = NoStats
        /\ caEmitted' = Emission(stats)
        /\ caCall' = caCall /\ caReq' = caReq /\ caResp' = caResp
        /\ caTotals' = caTotals /\ sure' = sure
    BY <1>9 DEF CacheLast
  <2>2. /\ cache' \in [at : {"select", "emitting", "last", "exit"},
                       closed : SUBSET CacheIds, lru : Seq(E)]
        /\ cache'.lru = cache.lru /\ cache'.at = "last"
    BY <1>1, <2>1 DEF CacheTypes
  <2>3. /\ caEmitted'.stats.hits + stats'.hits = caEmitted.stats.hits + stats.hits
        /\ caEmitted'.stats.misses + stats'.misses
             = caEmitted.stats.misses + stats.misses
        /\ caEmitted'.stats.evictions + stats'.evictions
             = caEmitted.stats.evictions + stats.evictions
        /\ stats' \in CacheStats /\ caEmitted' \in [stats : CacheStats, times : Nat]
    BY <1>1, <2>1, Emits, NothingCounted DEF CacheTypes
  <2>4. CacheTypes(E)'
    BY <1>1, <2>1, <2>2, <2>3 DEF CacheTypes
  <2>5. Queued' /\ Kept' /\ AnswersShared'
    BY <1>1, <2>1, <2>2, <2>3 DEF Queued, Kept, AnswersShared
  <2>6. Counted'
    <3>1. ~(stats'.hits > 0 \/ stats'.misses > 0 \/ stats'.sets > 0)
      BY <2>1, NothingCounted
    <3> QED
      BY <1>1, <2>1, <2>3, <3>1 DEF Counted, Unreported
  <2> QED
    BY <2>4, <2>5, <2>6 DEF CacheInv
<1>10. CASE CacheExit
  <2>1. /\ cache.at = "last" \/ ~Unreported
        /\ cache' = [cache EXCEPT !.at = "exit"]
        /\ caCall' = caCall /\ caReq' = caReq /\ caResp' = caResp /\ stats' = stats
        /\ caTotals' = caTotals /\ caEmitted' = caEmitted /\ sure' = sure
    BY <1>10 DEF CacheExit
  <2>2. /\ cache' \in [at : {"select", "emitting", "last", "exit"},
                       closed : SUBSET CacheIds, lru : Seq(E)]
        /\ cache'.lru = cache.lru /\ cache'.at = "exit"
    BY <1>1, <2>1 DEF CacheTypes
  <2>3. CacheTypes(E)'
    BY <1>1, <2>1, <2>2 DEF CacheTypes
  <2>4. Queued' /\ Kept' /\ AnswersShared'
    BY <1>1, <2>1, <2>2 DEF Queued, Kept, AnswersShared
  <2>5. Counted'
    BY <1>1, <2>1, <2>2 DEF Counted, Unreported
  <2> QED
    BY <2>3, <2>4, <2>5 DEF CacheInv
<1>11. CASE UNCHANGED cacheVars
  <2>1. /\ cache' = cache
        /\ caCall' = caCall /\ caReq' = caReq /\ caResp' = caResp /\ stats' = stats
        /\ caTotals' = caTotals /\ caEmitted' = caEmitted /\ sure' = sure
    BY <1>11 DEF cacheVars
  <2>2. CacheTypes(E)' /\ Queued' /\ Kept'
    BY <1>1, <2>1 DEF CacheTypes, Queued, Kept
  <2>3. Counted' /\ AnswersShared'
    BY <1>1, <2>1 DEF Counted, Unreported, AnswersShared
  <2> QED
    BY <2>2, <2>3 DEF CacheInv
<1> QED
  BY <1>3, <1>4, <1>5, <1>6, <1>7, <1>8, <1>9, <1>10, <1>11 DEF CacheNext

-----------------------------------------------------------------------------
(* Recursion over the nodes *)

\* Two folds through the same functions end alike.
LEMMA StepsUnique ==
    ASSUME NEW n, NEW A, NEW x, NEW fs, Steps(n, A, x, fs),
           NEW g, Folds(n, A, x, fs, g), NEW k, Folds(n, A, x, fs, k)
    PROVE  g[1..n] = k[1..n]
<1>1. PICK h : Runs(n, A, x, fs, k, h)
  BY StepsRun
<1> DEFINE I == [i \in 0..n |-> {h[i]}]
<1>2. n \in Nat
  BY DEF Steps
<1>3. Carries(n, A, x, fs, I)
  <2>1. /\ h[0] = x /\ \A i \in 1..n : h[i] = fs[i][h[i - 1]]
    BY <1>1 DEF Runs
  <2>2. \A i \in 1..n : i - 1 \in 0..n /\ i \in 0..n
    BY <1>2
  <2>3. x \in I[0]
    BY <1>2, <2>1
  <2>4. ASSUME NEW i \in 1..n, NEW a \in A, a \in I[i - 1] PROVE fs[i][a] \in I[i]
    <3>1. a = h[i - 1]
      BY <2>2, <2>4
    <3> QED
      BY <2>1, <2>2, <3>1
  <2> HIDE DEF I
  <2> QED
    BY <2>3, <2>4 DEF Carries
<1>4. g[1..n] \in I[n]
  <2> HIDE DEF I
  <2> QED
    BY <1>3, StepsCarry
<1>5. n \in 0..n /\ h[n] = k[1..n]
  BY <1>1, <1>2 DEF Runs
<1> QED
  BY <1>4, <1>5

\* A set of numbers that holds every number all of whose predecessors it holds.
LEMMA StrongInduction ==
    ASSUME NEW P, \A n \in Nat : (\A k \in Nat : k < n => k \in P) => n \in P
    PROVE  \A n \in Nat : n \in P
<1> DEFINE Rest == Nat \ P
<1>1. SUFFICES ASSUME Rest # {} PROVE FALSE
  OBVIOUS
<1>2. PICK m \in Rest : \A k \in Rest : m <= k
  BY <1>1, LeastNumber
<1>3. \A k \in Nat : k < m => k \in P
  BY <1>2
<1> QED
  BY <1>2, <1>3

\* What f is at the children of n.
KidsOf(f, n) == [i \in DOMAIN Kids[n] |-> f[Kids[n][i]]]

\* step gives a value in V from those of the children alone.
Descends(V, step) ==
    /\ step \in [Node \X [Node -> V] -> V]
    /\ \A n \in Node : \A f, g \in [Node -> V] :
          KidsOf(f, n) = KidsOf(g, n) => step[<<n, f>>] = step[<<n, g>>]

\* f follows step below m.
Below(V, step, f, m) ==
    /\ f \in [Node -> V]
    /\ \A n \in Node : n < m => f[n] = step[<<n, f>>]

Follows(V, step, f) ==
    f \in [Node -> V] /\ \A n \in Node : f[n] = step[<<n, f>>]

\* Children are nodes with smaller numbers.
LEMMA KidsAre ==
    ASSUME NEW n \in Node
    PROVE  /\ n \in Nat /\ Kids[n] \in Seq(Node)
           /\ Len(Kids[n]) \in Nat /\ DOMAIN Kids[n] = 1..Len(Kids[n])
           /\ \A i \in 1..Len(Kids[n]) : Kids[n][i] \in Node /\ Kids[n][i] < n
<1>1. n \in Nat /\ Kids[n] \in Seq(Node)
      /\ \A i \in DOMAIN Kids[n] : Kids[n][i] < n
  BY EncodeAssumption DEF EncodeAssumption
<1> QED
  BY <1>1

\* Functions that agree below n agree at its children.
LEMMA KidsAgree ==
    ASSUME NEW n \in Node, NEW f, NEW g,
           \A k \in Node : k < n => f[k] = g[k]
    PROVE  KidsOf(f, n) = KidsOf(g, n)
BY KidsAre DEF KidsOf

\* Two functions that follow a step below m agree there.
LEMMA BelowAgree ==
    ASSUME NEW V, NEW step, Descends(V, step),
           NEW f, NEW i \in Nat, Below(V, step, f, i),
           NEW g, NEW j \in Nat, Below(V, step, g, j)
    PROVE  \A n \in Node : n < i /\ n < j => f[n] = g[n]
<1> DEFINE P == {n \in Nat : n \in Node /\ n < i /\ n < j => f[n] = g[n]}
<1>1. ASSUME NEW n \in Nat, \A k \in Nat : k < n => k \in P PROVE n \in P
  <2> SUFFICES ASSUME n \in Node, n < i, n < j PROVE f[n] = g[n]
    OBVIOUS
  <2>1. f \in [Node -> V] /\ g \in [Node -> V]
        /\ f[n] = step[<<n, f>>] /\ g[n] = step[<<n, g>>]
    BY DEF Below
  <2>2. \A k \in Node : k < n => f[k] = g[k]
    <3> SUFFICES ASSUME NEW k \in Node, k < n PROVE f[k] = g[k]
      OBVIOUS
    <3>1. k \in Nat /\ k \in P
      BY <1>1, KidsAre
    <3>2. k < i /\ k < j
      BY <3>1
    <3> QED
      BY <3>1, <3>2
  <2>3. KidsOf(f, n) = KidsOf(g, n)
    BY <2>2, KidsAgree
  <2> QED
    BY <2>1, <2>3 DEF Descends
<1>2. \A n \in Nat : n \in P
  <2> HIDE DEF P
  <2> QED
    BY <1>1, StrongInduction
<1> QED
  BY <1>2, KidsAre

\* A function that follows a step as far as m, for every m.
LEMMA BelowExists ==
    ASSUME NEW V, NEW v \in V, NEW step, Descends(V, step)
    PROVE  \A m \in Nat : \E f : Below(V, step, f, m)
<1> DEFINE P == {m \in Nat : \E f : Below(V, step, f, m)}
<1>1. 0 \in P
  <2>1. [n \in Node |-> v] \in [Node -> V] /\ \A n \in Node : ~(n < 0)
    BY KidsAre
  <2>2. Below(V, step, [n \in Node |-> v], 0)
    BY <2>1 DEF Below
  <2> QED
    BY <2>2
<1>2. ASSUME NEW m \in Nat, m \in P PROVE m + 1 \in P
  <2>1. PICK f : Below(V, step, f, m)
    BY <1>2
  <2> DEFINE g == [n \in Node |-> IF n = m THEN step[<<n, f>>] ELSE f[n]]
  <2>2. f \in [Node -> V] /\ \A n \in Node : n < m => f[n] = step[<<n, f>>]
    BY <2>1 DEF Below
  <2>3. g \in [Node -> V]
    BY <2>2 DEF Descends
  <2>4. ASSUME NEW n \in Node, n < m + 1 PROVE g[n] = step[<<n, g>>]
    <3>1. n \in Nat /\ n <= m
      BY <2>4, KidsAre
    <3>2. \A k \in Node : k < n => f[k] = g[k]
      BY <3>1, KidsAre
    <3>3. KidsOf(f, n) = KidsOf(g, n)
      <4> HIDE DEF g
      <4> QED
        BY <3>2, KidsAgree
    <3>4. step[<<n, f>>] = step[<<n, g>>]
      <4> HIDE DEF g
      <4> QED
        BY <2>2, <2>3, <3>3 DEF Descends
    <3>5. g[n] = step[<<n, f>>]
      BY <2>2, <3>1
    <3> QED
      BY <3>4, <3>5
  <2>5. Below(V, step, g, m + 1)
    <3> HIDE DEF g
    <3> QED
      BY <2>3, <2>4 DEF Below
  <2> QED
    BY <2>5
<1>3. \A m \in Nat : m \in P
  <2> HIDE DEF P
  <2> QED
    BY <1>1, <1>2, NumberInduction
<1> QED
  BY <1>3

\* Every step that looks at the children alone has a function that follows it.
LEMMA RecursionExists ==
    ASSUME NEW V, NEW v \in V, NEW step, Descends(V, step)
    PROVE  \E f : Follows(V, step, f)
<1> DEFINE upTo == [m \in Nat |-> CHOOSE f : Below(V, step, f, m)]
           f == [n \in Node |-> upTo[n + 1][n]]
<1>1. \A m \in Nat : Below(V, step, upTo[m], m)
  BY BelowExists
<1> HIDE DEF upTo
<1>2. ASSUME NEW n \in Node
      PROVE  /\ n + 1 \in Nat /\ n < n + 1 /\ upTo[n + 1] \in [Node -> V]
             /\ upTo[n + 1][n] = step[<<n, upTo[n + 1]>>]
  <2>1. n + 1 \in Nat /\ n < n + 1
    BY KidsAre
  <2> QED
    BY <1>1, <2>1 DEF Below
<1>3. f \in [Node -> V]
  BY <1>2
<1>4. ASSUME NEW n \in Node PROVE f[n] = step[<<n, f>>]
  <2> DEFINE g == upTo[n + 1]
  <2>1. ASSUME NEW k \in Node, k < n PROVE f[k] = g[k]
    <3>1. k + 1 \in Nat /\ n + 1 \in Nat /\ k < k + 1 /\ k < n + 1
      BY <2>1, KidsAre
    <3>2. upTo[k + 1][k] = upTo[n + 1][k]
      BY <1>1, <3>1, BelowAgree
    <3> QED
      BY <3>2
  <2>2. g \in [Node -> V] /\ f[n] = step[<<n, g>>]
    BY <1>2
  <2> HIDE DEF f, g
  <2>3. KidsOf(f, n) = KidsOf(g, n)
    BY <2>1, KidsAgree
  <2> QED
    BY <1>3, <2>2, <2>3 DEF Descends
<1> HIDE DEF f
<1> QED
  BY <1>3, <1>4 DEF Follows

\* What f makes of the children keeps a set, from x on.
KidsStay(A, x, f, n) ==
    /\ n \in Node /\ x \in A
    /\ \A i \in 1..Len(Kids[n]) : \A a \in A : f[Kids[n][i]][a] \in A

\* One child after the other is a fold.
LEMMA EachKidFolds ==
    ASSUME NEW A, NEW x, NEW f, NEW n, KidsStay(A, x, f, n)
    PROVE  /\ Steps(Len(Kids[n]), A, x, KidsOf(f, n))
           /\ \E g : /\ Folds(Len(Kids[n]), A, x, KidsOf(f, n), g)
                     /\ EachKid(f, x, n) = g[1..Len(Kids[n])]
<1> DEFINE m == Len(Kids[n])
           fs == KidsOf(f, n)
           Fold(g) == g = [s \in SUBSET (1..m) |->
                             IF s = {} THEN x ELSE f[Kids[n][Max(s)]][g[s \ {Max(s)}]]]
           fold == CHOOSE g : Fold(g)
<1>1. n \in Node /\ m \in Nat /\ DOMAIN Kids[n] = 1..m
  BY KidsAre DEF KidsStay
<1>2. EachKid(f, x, n) = fold[1..m]
  BY <1>1 DEF EachKid, FoldLeft, MapThenFoldSet
<1>3. \A i \in 1..m : fs[i] = f[Kids[n][i]]
  BY <1>1 DEF KidsOf
<1> HIDE DEF fs, m
<1>4. Steps(m, A, x, fs)
  BY <1>1, <1>3 DEF Steps, KidsStay, m
<1>5. PICK g : Unfolds(m, A, x, fs, g)
  BY <1>4, StepsExist
<1>6. Fold(g)
  <2> DEFINE k == [s \in SUBSET (1..m) |->
                     IF s = {} THEN x ELSE f[Kids[n][Max(s)]][g[s \ {Max(s)}]]]
  <2>1. ASSUME NEW s \in SUBSET (1..m) PROVE g[s] = k[s]
    <3>1. g[s] = FoldStep(fs, x, g, s)
      BY <1>5 DEF Unfolds
    <3>2. CASE s = {}
      BY <3>1, <3>2 DEF FoldStep
    <3>3. CASE s # {}
      <4>1. Max(s) \in 1..m
        BY <1>1, <3>3, MaxIs
      <4> QED
        BY <1>3, <3>1, <3>3, <4>1 DEF FoldStep
    <3> QED
      BY <3>2, <3>3
  <2> HIDE DEF k
  <2>2. g = [s \in SUBSET (1..m) |-> g[s]] /\ k = [s \in SUBSET (1..m) |-> k[s]]
    BY <1>5 DEF k, Unfolds
  <2>3. g = k
    BY <2>1, <2>2
  <2> QED
    BY <2>3 DEF k
<1>7. Fold(fold)
  <2> HIDE DEF Fold
  <2> QED
    BY <1>6
<1>8. /\ fold[{}] = x
      /\ \A s \in SUBSET (1..m) : s # {} =>
            fold[s] = f[Kids[n][Max(s)]][fold[s \ {Max(s)}]]
  <2> HIDE DEF fold
  <2> QED
    BY <1>7
<1> HIDE DEF fold
<1>9. Folds(m, A, x, fs, fold)
  BY <1>1, <1>3, <1>8, MaxIs DEF Folds
<1> QED
  BY <1>2, <1>4, <1>9 DEF fs, m

\* Only what f is at the children counts.
LEMMA EachKidSame ==
    ASSUME NEW A, NEW x, NEW f, NEW g, NEW n,
           KidsStay(A, x, f, n), KidsOf(f, n) = KidsOf(g, n)
    PROVE  EachKid(f, x, n) = EachKid(g, x, n)
<1> DEFINE m == Len(Kids[n])
           fs == KidsOf(f, n)
<1>1. KidsStay(A, x, g, n)
  <2>1. n \in Node
    BY DEF KidsStay
  <2>2. DOMAIN Kids[n] = 1..Len(Kids[n])
    BY <2>1, KidsAre
  <2>3. \A i \in 1..Len(Kids[n]) : f[Kids[n][i]] = g[Kids[n][i]]
    <3>1. ASSUME NEW i \in 1..Len(Kids[n]) PROVE f[Kids[n][i]] = g[Kids[n][i]]
      <4>1. KidsOf(f, n)[i] = f[Kids[n][i]] /\ KidsOf(g, n)[i] = g[Kids[n][i]]
        BY <2>2 DEF KidsOf
      <4> QED
        BY <4>1
    <3> QED
      BY <3>1
  <2> QED
    BY <2>3 DEF KidsStay
<1>2. Steps(m, A, x, fs)
  BY EachKidFolds
<1>3. PICK h : Folds(m, A, x, fs, h) /\ EachKid(f, x, n) = h[1..m]
  BY EachKidFolds
<1>4. PICK k : Folds(m, A, x, fs, k) /\ EachKid(g, x, n) = k[1..m]
  BY <1>1, EachKidFolds
<1> HIDE DEF m, fs
<1> QED
  BY <1>2, <1>3, <1>4, StepsUnique

\* What each child carries on holds at the end.
LEMMA EachKidCarries ==
    ASSUME NEW A, NEW x, NEW f, NEW n, KidsStay(A, x, f, n),
           NEW I, Carries(Len(Kids[n]), A, x, KidsOf(f, n), I)
    PROVE  EachKid(f, x, n) \in A /\ EachKid(f, x, n) \in I[Len(Kids[n])]
<1> DEFINE m == Len(Kids[n])
           fs == KidsOf(f, n)
<1>1. Steps(m, A, x, fs)
  BY EachKidFolds
<1>2. PICK h : Folds(m, A, x, fs, h) /\ EachKid(f, x, n) = h[1..m]
  BY EachKidFolds
<1> HIDE DEF m, fs
<1>3. h[1..m] \in A /\ h[1..m] \in I[m]
  BY <1>1, <1>2, StepsCarry DEF m, fs
<1> QED
  BY <1>2, <1>3 DEF m

\* A set that each child keeps is kept.
LEMMA EachKidStays ==
    ASSUME NEW A, NEW x, NEW f, NEW n, KidsStay(A, x, f, n)
    PROVE  EachKid(f, x, n) \in A
<1> DEFINE m == Len(Kids[n])
           fs == KidsOf(f, n)
<1>1. Steps(m, A, x, fs)
  BY EachKidFolds
<1>2. PICK h : Folds(m, A, x, fs, h) /\ EachKid(f, x, n) = h[1..m]
  BY EachKidFolds
<1> HIDE DEF m, fs
<1> QED
  BY <1>1, <1>2, StepsStay

-----------------------------------------------------------------------------
(* The two walks *)

\* One level of collect_l1_misses and of encode_local.
CollectAt(f, n) ==
    [walk \in Walk |->
        IF n \in Leaf THEN walk
        ELSE IF Has(walk.l1, n) THEN [walk EXCEPT !.l1 = Touch(@, n)]
        ELSE EachKid(f, [walk EXCEPT !.keys = Append(@, n)], n)]

EncodeAt(f, n) ==
    [run \in Run |->
        IF n \in Leaf THEN [run EXCEPT !.vectors = Append(@, n)]
        ELSE IF Has(run.l1, n)
        THEN [l1 |-> Touch(run.l1, n), computed |-> run.computed,
              vectors |-> Append(run.vectors, Find(run.l1, n).val)]
        ELSE LET below == EachKid(f, [run EXCEPT !.vectors = <<>>], n)
                 vector == Compose(n, below.vectors)
             IN [l1 |-> below.l1,
                 computed |-> Append(below.computed, [key |-> n, val |-> vector]),
                 vectors |-> Append(run.vectors, vector)]]

\* What is assumed of the constants.
LEMMA LeavesAre == Leaf \subseteq Node /\ L1Room \in Nat \ {0} /\ Garbled \notin Node
BY EncodeAssumption DEF EncodeAssumption

\* What f is at the children of n maps A to itself.
KidsIn(A, f, n) == \A i \in 1..Len(Kids[n]) : f[Kids[n][i]] \in [A -> A]

\* A function of maps from A to A at the children keeps A.
LEMMA KidsStayIn ==
    ASSUME NEW A, NEW x \in A, NEW n \in Node, NEW f, KidsIn(A, f, n)
    PROVE  KidsStay(A, x, f, n)
BY DEF KidsStay, KidsIn

\* A function of maps from A to A everywhere is one at the children.
LEMMA AllIn ==
    ASSUME NEW A, NEW f \in [Node -> [A -> A]]
    PROVE  \A n \in Node : KidsIn(A, f, n)
BY KidsAre DEF KidsIn

\* A function that gives values of the right sort wherever its children do.
LEMMA EverywhereIn ==
    ASSUME NEW A, NEW f,
           \A n \in Node : KidsIn(A, f, n) => f[n] \in [A -> A]
    PROVE  \A n \in Node : f[n] \in [A -> A]
<1> DEFINE P == {n \in Nat : n \in Node => f[n] \in [A -> A]}
<1>1. ASSUME NEW n \in Nat, \A k \in Nat : k < n => k \in P PROVE n \in P
  <2> SUFFICES ASSUME n \in Node PROVE f[n] \in [A -> A]
    OBVIOUS
  <2>1. ASSUME NEW i \in 1..Len(Kids[n]) PROVE f[Kids[n][i]] \in [A -> A]
    <3>1. Kids[n][i] \in Node /\ Kids[n][i] < n /\ Kids[n][i] \in Nat
      BY KidsAre
    <3>2. Kids[n][i] \in P
      BY <1>1, <3>1
    <3> QED
      BY <3>1, <3>2
  <2> QED
    BY <2>1 DEF KidsIn
<1>2. \A n \in Nat : n \in P
  <2> HIDE DEF P
  <2> QED
    BY <1>1, StrongInduction
<1> QED
  BY <1>2, KidsAre

\* A walk that has missed one node more.
LEMMA WalkOn ==
    ASSUME NEW walk \in Walk, NEW n \in Node \ Leaf
    PROVE  [walk EXCEPT !.keys = Append(@, n)] \in Walk
<1>1. Append(walk.keys, n) \in Seq(Node \ Leaf)
  BY DEF Walk
<1> QED
  BY <1>1 DEF Walk

\* The walk for misses is typed, level by level.
LEMMA CollectTyped ==
    ASSUME NEW n \in Node, NEW f, KidsIn(Walk, f, n)
    PROVE  CollectAt(f, n) \in [Walk -> Walk]
<1> SUFFICES ASSUME NEW walk \in Walk PROVE CollectAt(f, n)[walk] \in Walk
  BY DEF CollectAt
<1>1. CASE n \in Leaf
  BY <1>1 DEF CollectAt
<1>2. CASE n \notin Leaf /\ Has(walk.l1, n)
  <2>1. Touch(walk.l1, n) \in Seq(Entry)
    BY TouchIs DEF Walk
  <2>2. [walk EXCEPT !.l1 = Touch(@, n)] \in Walk
    BY <2>1 DEF Walk
  <2> QED
    BY <1>2, <2>2 DEF CollectAt
<1>3. CASE n \notin Leaf /\ ~Has(walk.l1, n)
  <2> DEFINE x == [walk EXCEPT !.keys = Append(@, n)]
  <2>1. x \in Walk
    BY <1>3, WalkOn
  <2>2. CollectAt(f, n)[walk] = EachKid(f, x, n)
    BY <1>3 DEF CollectAt
  <2> HIDE DEF x
  <2> QED
    BY <2>1, <2>2, KidsStayIn, EachKidStays
<1> QED
  BY <1>1, <1>2, <1>3

\* A level of the walk asks the children only.
LEMMA CollectDescends ==
    LET V == [Walk -> Walk]
        step == [p \in Node \X [Node -> V] |-> CollectAt(p[2], p[1])]
    IN  Descends(V, step)
<1> DEFINE V == [Walk -> Walk]
           step == [p \in Node \X [Node -> V] |-> CollectAt(p[2], p[1])]
<1>1. ASSUME NEW n \in Node, NEW f \in [Node -> V] PROVE CollectAt(f, n) \in V
  BY AllIn, CollectTyped
<1>2. ASSUME NEW n \in Node, NEW f \in [Node -> V], NEW g \in [Node -> V],
             KidsOf(f, n) = KidsOf(g, n)
      PROVE  CollectAt(f, n) = CollectAt(g, n)
  <2>1. ASSUME NEW walk \in Walk
        PROVE  CollectAt(f, n)[walk] = CollectAt(g, n)[walk]
    <3>1. CASE n \in Leaf \/ Has(walk.l1, n)
      BY <3>1 DEF CollectAt
    <3>2. CASE n \notin Leaf /\ ~Has(walk.l1, n)
      <4> DEFINE x == [walk EXCEPT !.keys = Append(@, n)]
      <4>1. x \in Walk
        BY <3>2, WalkOn
      <4>2. CollectAt(f, n)[walk] = EachKid(f, x, n)
            /\ CollectAt(g, n)[walk] = EachKid(g, x, n)
        BY <3>2 DEF CollectAt
      <4> HIDE DEF x
      <4> QED
        <5>1. KidsIn(Walk, f, n)
          BY AllIn
        <5>2. KidsStay(Walk, x, f, n)
          BY <4>1, <5>1, KidsStayIn
        <5>3. EachKid(f, x, n) = EachKid(g, x, n)
          BY <1>2, <5>2, EachKidSame
        <5> QED
          BY <4>2, <5>3
    <3> QED
      BY <3>1, <3>2
  <2>2. CollectAt(f, n) \in V /\ CollectAt(g, n) \in V
    BY <1>1
  <2> QED
    BY <2>1, <2>2
<1>3. step \in [Node \X [Node -> V] -> V]
      /\ \A n \in Node : \A f \in [Node -> V] : step[<<n, f>>] = CollectAt(f, n)
  <2> HIDE DEF V
  <2> QED
    BY <1>1
<1> HIDE DEF step, V
<1>4. Descends(V, step)
  BY <1>2, <1>3 DEF Descends
<1> QED
  BY <1>4 DEF step, V

\* The recursive definition holds at every node.
LEMMA CollectIs ==
    /\ Collect \in [Node -> [Walk -> Walk]]
    /\ \A n \in Node : Collect[n] = CollectAt(Collect, n)
<1> DEFINE V == [Walk -> Walk]
           step == [p \in Node \X [Node -> V] |-> CollectAt(p[2], p[1])]
           v == [walk \in Walk |-> walk]
<1>1. v \in V
  OBVIOUS
<1>2. Descends(V, step)
  BY CollectDescends
<1>3. \A n \in Node : \A f \in [Node -> V] : step[<<n, f>>] = CollectAt(f, n)
  OBVIOUS
<1> HIDE DEF V, step, v
<1>4. PICK f : Follows(V, step, f)
  BY <1>1, <1>2, RecursionExists
<1>5. f = [n \in Node |-> CollectAt(f, n)]
  BY <1>3, <1>4 DEF Follows
<1>6. Collect = CHOOSE g : g = [n \in Node |-> CollectAt(g, n)]
  BY DEF Collect, CollectAt
<1>7. Collect = [n \in Node |-> CollectAt(Collect, n)]
  BY <1>5, <1>6
<1>8. \A n \in Node : Collect[n] = CollectAt(Collect, n)
  BY <1>7
<1>9. \A n \in Node : Collect[n] \in [Walk -> Walk]
  <2>1. PICK h : h = Collect
    OBVIOUS
  <2>2. ASSUME NEW n \in Node, KidsIn(Walk, h, n) PROVE h[n] \in [Walk -> Walk]
    BY <1>8, <2>1, <2>2, CollectTyped
  <2>3. \A n \in Node : h[n] \in [Walk -> Walk]
    BY <2>2, EverywhereIn
  <2> QED
    BY <2>1, <2>3
<1> QED
  BY <1>7, <1>8, <1>9

\* A run is typed in all its parts.
LEMMA RunFields ==
    ASSUME NEW run \in Run
    PROVE  /\ run.l1 \in Seq(Entry) /\ run.computed \in Seq(Entry)
           /\ run.vectors \in Seq(Vector)
BY DEF Run

\* A run that starts on the children of a node.
LEMMA RunFresh ==
    ASSUME NEW run \in Run PROVE [run EXCEPT !.vectors = <<>>] \in Run
<1>1. <<>> \in Seq(Vector)
  OBVIOUS
<1> QED
  BY <1>1 DEF Run

\* A run is made of typed parts.
LEMMA RunOn ==
    ASSUME NEW l \in Seq(Entry), NEW c \in Seq(Entry), NEW v \in Seq(Vector)
    PROVE  [l1 |-> l, computed |-> c, vectors |-> v] \in Run
BY DEF Run

\* The encoding is typed, level by level.
LEMMA EncodeTyped ==
    ASSUME NEW n \in Node, NEW f, KidsIn(Run, f, n)
    PROVE  EncodeAt(f, n) \in [Run -> Run]
<1> SUFFICES ASSUME NEW run \in Run PROVE EncodeAt(f, n)[run] \in Run
  BY DEF EncodeAt
<1>0. /\ run.l1 \in Seq(Entry) /\ run.computed \in Seq(Entry)
      /\ run.vectors \in Seq(Vector)
  BY RunFields
<1>1. CASE n \in Leaf
  <2>1. Append(run.vectors, n) \in Seq(Vector)
    BY <1>0 DEF Vector
  <2>2. [run EXCEPT !.vectors = Append(@, n)] \in Run
    BY <2>1 DEF Run
  <2> QED
    BY <1>1, <2>2 DEF EncodeAt
<1>2. CASE n \notin Leaf /\ Has(run.l1, n)
  <2>1. Touch(run.l1, n) \in Seq(Entry) /\ Find(run.l1, n) \in Entry
    BY <1>0, <1>2, TouchIs, PlaceIs
  <2>2. Append(run.vectors, Find(run.l1, n).val) \in Seq(Vector)
    BY <1>0, <2>1 DEF Entry
  <2> QED
    BY <1>0, <1>2, <2>1, <2>2, RunOn DEF EncodeAt
<1>3. CASE n \notin Leaf /\ ~Has(run.l1, n)
  <2> DEFINE x == [run EXCEPT !.vectors = <<>>]
             below == EachKid(f, x, n)
             vector == Compose(n, below.vectors)
             entry == [key |-> n, val |-> vector]
  <2>1. x \in Run
    BY RunFresh
  <2>2. EncodeAt(f, n)[run] =
          [l1 |-> below.l1, computed |-> Append(below.computed, entry),
           vectors |-> Append(run.vectors, vector)]
    BY <1>3 DEF EncodeAt
  <2> HIDE DEF x
  <2>3. below \in Run
    BY <2>1, KidsStayIn, EachKidStays
  <2>4. vector \in Vector
    BY DEF Compose, Vector
  <2> HIDE DEF below, vector
  <2>5. entry \in Entry
    BY <1>3, <2>4 DEF Entry
  <2> HIDE DEF entry
  <2>6. /\ below.l1 \in Seq(Entry) /\ Append(below.computed, entry) \in Seq(Entry)
        /\ Append(run.vectors, vector) \in Seq(Vector)
    BY <1>0, <2>3, <2>4, <2>5, RunFields
  <2> QED
    BY <2>2, <2>6, RunOn
<1> QED
  BY <1>1, <1>2, <1>3

\* A level of the encoding asks the children only.
LEMMA EncodeDescends ==
    LET V == [Run -> Run]
        step == [p \in Node \X [Node -> V] |-> EncodeAt(p[2], p[1])]
    IN  Descends(V, step)
<1> DEFINE V == [Run -> Run]
           step == [p \in Node \X [Node -> V] |-> EncodeAt(p[2], p[1])]
<1>1. ASSUME NEW n \in Node, NEW f \in [Node -> V] PROVE EncodeAt(f, n) \in V
  BY AllIn, EncodeTyped
<1>2. ASSUME NEW n \in Node, NEW f \in [Node -> V], NEW g \in [Node -> V],
             KidsOf(f, n) = KidsOf(g, n)
      PROVE  EncodeAt(f, n) = EncodeAt(g, n)
  <2>1. ASSUME NEW run \in Run
        PROVE  EncodeAt(f, n)[run] = EncodeAt(g, n)[run]
    <3>1. CASE n \in Leaf \/ Has(run.l1, n)
      BY <3>1 DEF EncodeAt
    <3>2. CASE n \notin Leaf /\ ~Has(run.l1, n)
      <4> DEFINE x == [run EXCEPT !.vectors = <<>>]
                 Made(below) ==
                   [l1 |-> below.l1,
                    computed |-> Append(below.computed,
                      [key |-> n, val |-> Compose(n, below.vectors)]),
                    vectors |-> Append(run.vectors, Compose(n, below.vectors))]
      <4>1. x \in Run
        BY RunFresh
      <4>2. EncodeAt(f, n)[run] = Made(EachKid(f, x, n))
            /\ EncodeAt(g, n)[run] = Made(EachKid(g, x, n))
        BY <3>2 DEF EncodeAt
      <4> HIDE DEF x, Made
      <4>3. KidsStay(Run, x, f, n)
        <5>1. KidsIn(Run, f, n)
          BY AllIn
        <5> QED
          BY <4>1, <5>1, KidsStayIn
      <4>4. EachKid(f, x, n) = EachKid(g, x, n)
        BY <1>2, <4>3, EachKidSame
      <4> QED
        BY <4>2, <4>4
    <3> QED
      BY <3>1, <3>2
  <2>2. EncodeAt(f, n) \in V /\ EncodeAt(g, n) \in V
    BY <1>1
  <2> QED
    BY <2>1, <2>2
<1>3. step \in [Node \X [Node -> V] -> V]
      /\ \A n \in Node : \A f \in [Node -> V] : step[<<n, f>>] = EncodeAt(f, n)
  <2> HIDE DEF V
  <2> QED
    BY <1>1
<1> HIDE DEF step, V
<1>4. Descends(V, step)
  BY <1>2, <1>3 DEF Descends
<1> QED
  BY <1>4 DEF step, V

\* The recursive definition holds at every node.
LEMMA EncodeIs ==
    /\ EncodeLocal \in [Node -> [Run -> Run]]
    /\ \A n \in Node : EncodeLocal[n] = EncodeAt(EncodeLocal, n)
<1> DEFINE V == [Run -> Run]
           step == [p \in Node \X [Node -> V] |-> EncodeAt(p[2], p[1])]
           v == [run \in Run |-> run]
<1>1. v \in V
  OBVIOUS
<1>2. Descends(V, step)
  BY EncodeDescends
<1>3. \A n \in Node : \A f \in [Node -> V] : step[<<n, f>>] = EncodeAt(f, n)
  OBVIOUS
<1> HIDE DEF V, step, v
<1>4. PICK f : Follows(V, step, f)
  BY <1>1, <1>2, RecursionExists
<1>5. f = [n \in Node |-> EncodeAt(f, n)]
  BY <1>3, <1>4 DEF Follows
<1>6. EncodeLocal = CHOOSE g : g = [n \in Node |-> EncodeAt(g, n)]
  BY DEF EncodeLocal, EncodeAt
<1>7. EncodeLocal = [n \in Node |-> EncodeAt(EncodeLocal, n)]
  BY <1>5, <1>6
<1>8. \A n \in Node : EncodeLocal[n] = EncodeAt(EncodeLocal, n)
  BY <1>7
<1>9. \A n \in Node : EncodeLocal[n] \in [Run -> Run]
  <2>1. PICK g : g = EncodeLocal
    OBVIOUS
  <2>2. ASSUME NEW n \in Node, KidsIn(Run, g, n) PROVE g[n] \in [Run -> Run]
    BY <1>8, <2>1, <2>2, EncodeTyped
  <2>3. \A n \in Node : g[n] \in [Run -> Run]
    BY <2>2, EverywhereIn
  <2> QED
    BY <2>1, <2>3
<1> QED
  BY <1>7, <1>8, <1>9

-----------------------------------------------------------------------------
(* What the walks do with entries that are true *)

\* The entries whose vector is the key's own.
Own == {[key |-> n, val |-> n] : n \in Node \ Leaf}

TrueWalk == [l1 : Seq(Own), keys : Seq(Node \ Leaf)]
TrueRun == [l1 : Seq(Own), computed : Seq(Own), vectors : Seq(Node)]

\* An entry is true when its vector is the key itself.
LEMMA OwnIs ==
    /\ Own \in SUBSET Entry
    /\ \A e : e \in Own => e.val = e.key /\ e.key \in Node \ Leaf
    /\ \A n \in Node \ Leaf : [key |-> n, val |-> n] \in Own
BY DEF Own, Entry, Vector

\* True walks and runs are walks and runs.
LEMMA TrueIsTyped == TrueWalk \subseteq Walk /\ TrueRun \subseteq Run
<1>1. Seq(Own) \subseteq Seq(Entry) /\ Seq(Node) \subseteq Seq(Vector)
  <2>1. Own \subseteq Entry /\ Node \subseteq Vector
    BY OwnIs DEF Vector
  <2> HIDE DEF Own
  <2> QED
    BY <2>1
<1> QED
  BY <1>1 DEF TrueWalk, TrueRun, Walk, Run

\* Looking for what L1 misses leaves it true, and misses inner nodes only.
LEMMA CollectTrue ==
    \A n \in Node : \A walk \in TrueWalk : Collect[n][walk] \in TrueWalk
<1> DEFINE P == {n \in Nat : n \in Node =>
                   \A walk \in TrueWalk : Collect[n][walk] \in TrueWalk}
<1>1. ASSUME NEW n \in Nat, \A k \in Nat : k < n => k \in P PROVE n \in P
  <2> SUFFICES ASSUME n \in Node, NEW walk \in TrueWalk
               PROVE  Collect[n][walk] \in TrueWalk
    OBVIOUS
  <2>0. /\ walk \in Walk /\ walk.l1 \in Seq(Own) /\ walk.keys \in Seq(Node \ Leaf)
        /\ Collect[n] = CollectAt(Collect, n)
    BY TrueIsTyped, CollectIs DEF TrueWalk
  <2>1. CASE n \in Leaf
    <3>1. Collect[n][walk] = walk
      BY <2>0, <2>1 DEF CollectAt
    <3> QED
      BY <3>1
  <2>2. CASE n \notin Leaf /\ Has(walk.l1, n)
    <3>1. Touch(walk.l1, n) \in Seq(Own)
      BY <2>0, TouchIs
    <3>2. Collect[n][walk] = [walk EXCEPT !.l1 = Touch(@, n)]
      BY <2>0, <2>2 DEF CollectAt
    <3> QED
      BY <2>0, <3>1, <3>2 DEF TrueWalk
  <2>3. CASE n \notin Leaf /\ ~Has(walk.l1, n)
    <3> DEFINE x == [walk EXCEPT !.keys = Append(@, n)]
    <3>1. x \in TrueWalk
      <4>1. Append(walk.keys, n) \in Seq(Node \ Leaf)
        BY <2>0, <2>3
      <4> QED
        BY <2>0, <4>1 DEF TrueWalk
    <3>2. Collect[n][walk] = EachKid(Collect, x, n)
      BY <2>0, <2>3 DEF CollectAt
    <3>3. KidsStay(TrueWalk, x, Collect, n)
      <4>1. ASSUME NEW i \in 1..Len(Kids[n]), NEW a \in TrueWalk
            PROVE  Collect[Kids[n][i]][a] \in TrueWalk
        <5>1. Kids[n][i] \in Node /\ Kids[n][i] < n /\ Kids[n][i] \in Nat
          BY KidsAre
        <5>2. Kids[n][i] \in P
          BY <1>1, <5>1
        <5> QED
          BY <5>1, <5>2
      <4> HIDE DEF x, P
      <4> QED
        BY <3>1, <4>1 DEF KidsStay
    <3> HIDE DEF x
    <3> QED
      BY <3>2, <3>3, EachKidStays
  <2> QED
    BY <2>1, <2>2, <2>3
<1>2. \A n \in Nat : n \in P
  <2> HIDE DEF P
  <2> QED
    BY <1>1, StrongInduction
<1> QED
  BY <1>2, KidsAre

\* Composing bottom-up adds the node's own vector to its siblings', and what
\* was computed on the way is true.
LEMMA EncodeTrue ==
    \A n \in Node : \A run \in TrueRun :
        /\ EncodeLocal[n][run] \in TrueRun
        /\ EncodeLocal[n][run].vectors = Append(run.vectors, n)
<1> DEFINE Right(n) == \A run \in TrueRun :
                          /\ EncodeLocal[n][run] \in TrueRun
                          /\ EncodeLocal[n][run].vectors = Append(run.vectors, n)
           P == {n \in Nat : n \in Node => Right(n)}
<1>1. ASSUME NEW n \in Nat, \A k \in Nat : k < n => k \in P PROVE n \in P
  <2> SUFFICES ASSUME n \in Node, NEW run \in TrueRun
               PROVE  /\ EncodeLocal[n][run] \in TrueRun
                      /\ EncodeLocal[n][run].vectors = Append(run.vectors, n)
    OBVIOUS
  <2>0. /\ run \in Run /\ run.l1 \in Seq(Own) /\ run.computed \in Seq(Own)
        /\ run.vectors \in Seq(Node)
        /\ EncodeLocal[n] = EncodeAt(EncodeLocal, n)
    BY TrueIsTyped, EncodeIs DEF TrueRun
  <2>4. Append(run.vectors, n) \in Seq(Node)
    BY <2>0
  <2>1. CASE n \in Leaf
    <3>1. EncodeLocal[n][run] = [run EXCEPT !.vectors = Append(@, n)]
      BY <2>0, <2>1 DEF EncodeAt
    <3> QED
      BY <2>0, <2>4, <3>1 DEF TrueRun
  <2>2. CASE n \notin Leaf /\ Has(run.l1, n)
    <3>1. Touch(run.l1, n) \in Seq(Own)
      BY <2>0, TouchIs
    <3>2. Find(run.l1, n) \in Own /\ Find(run.l1, n).key = n
      BY <2>0, <2>2, PlaceIs
    <3>3. Find(run.l1, n).val = n
      BY <3>2, OwnIs
    <3>4. EncodeLocal[n][run] =
            [l1 |-> Touch(run.l1, n), computed |-> run.computed,
             vectors |-> Append(run.vectors, n)]
      BY <2>0, <2>2, <3>3 DEF EncodeAt
    <3> QED
      BY <2>0, <2>4, <3>1, <3>4 DEF TrueRun
  <2>3. CASE n \notin Leaf /\ ~Has(run.l1, n)
    <3> DEFINE x == [run EXCEPT !.vectors = <<>>]
               m == Len(Kids[n])
               fs == KidsOf(EncodeLocal, n)
               I == [i \in 0..m |-> {r \in TrueRun : r.vectors = SubSeq(Kids[n], 1, i)}]
               below == EachKid(EncodeLocal, x, n)
    <3>1. x \in TrueRun /\ x.vectors = <<>>
      <4>1. <<>> \in Seq(Node)
        OBVIOUS
      <4> QED
        BY <2>0, <4>1 DEF TrueRun
    <3>2. /\ m \in Nat /\ DOMAIN Kids[n] = 1..m /\ Kids[n] \in Seq(Node)
          /\ \A i \in 1..m : /\ Kids[n][i] \in Node /\ Kids[n][i] < n
                             /\ Kids[n][i] \in Nat
      BY KidsAre
    <3>3. ASSUME NEW i \in 1..m, NEW a \in TrueRun
          PROVE  /\ fs[i][a] = EncodeLocal[Kids[n][i]][a]
                 /\ fs[i][a] \in TrueRun
                 /\ fs[i][a].vectors = Append(a.vectors, Kids[n][i])
      <4>1. Kids[n][i] \in P
        BY <1>1, <3>2
      <4>2. Right(Kids[n][i])
        BY <3>2, <4>1
      <4>3. fs[i] = EncodeLocal[Kids[n][i]]
        BY <3>2 DEF KidsOf
      <4> QED
        BY <4>2, <4>3
    <3> HIDE DEF x, P, Right, fs
    <3>4. KidsStay(TrueRun, x, EncodeLocal, n)
      BY <3>1, <3>3 DEF KidsStay
    <3>5. Carries(m, TrueRun, x, fs, I)
      <4>1. \A i \in 0..m : I[i] = {r \in TrueRun : r.vectors = SubSeq(Kids[n], 1, i)}
        OBVIOUS
      <4>2. SubSeq(Kids[n], 1, 0) = <<>> /\ 0 \in 0..m
        BY <3>2
      <4> HIDE DEF I, m
      <4>3. x \in I[0]
        BY <3>1, <4>1, <4>2
      <4>4. ASSUME NEW i \in 1..m, NEW a \in TrueRun, a \in I[i - 1]
            PROVE  fs[i][a] \in I[i]
        <5>1. i - 1 \in 0..m /\ i \in 0..m
          BY <3>2
        <5>2. a.vectors = SubSeq(Kids[n], 1, i - 1)
          BY <4>1, <4>4, <5>1
        <5>3. Append(SubSeq(Kids[n], 1, i - 1), Kids[n][i]) = SubSeq(Kids[n], 1, i)
          BY <3>2, <5>1 DEF m
        <5>4. fs[i][a] \in TrueRun /\ fs[i][a].vectors = SubSeq(Kids[n], 1, i)
          BY <3>3, <5>2, <5>3
        <5> QED
          BY <4>1, <5>1, <5>4
      <4> QED
        BY <4>3, <4>4 DEF Carries
    <3>6. below \in TrueRun /\ below \in I[m]
      <4> HIDE DEF I
      <4> QED
        BY <3>4, <3>5, EachKidCarries DEF fs
    <3>7. below.vectors = Kids[n]
      <4>1. SubSeq(Kids[n], 1, m) = Kids[n] /\ m \in 0..m
        BY <3>2
      <4> QED
        BY <3>6, <4>1
    <3> HIDE DEF below, I, m
    <3>8. EncodeLocal[n][run] =
            [l1 |-> below.l1,
             computed |-> Append(below.computed, [key |-> n, val |-> n]),
             vectors |-> Append(run.vectors, n)]
      <4>1. Compose(n, below.vectors) = n
        BY <3>7 DEF Compose
      <4> QED
        BY <2>0, <2>3, <4>1 DEF EncodeAt, below, x
    <3>9. Append(below.computed, [key |-> n, val |-> n]) \in Seq(Own)
      BY <2>3, <3>6, OwnIs DEF TrueRun
    <3> QED
      BY <2>4, <3>6, <3>8, <3>9 DEF TrueRun
  <2> QED
    BY <2>1, <2>2, <2>3
<1>2. \A n \in Nat : n \in P
  <2> HIDE DEF P
  <2> QED
    BY <1>1, StrongInduction
<1> QED
  BY <1>2, KidsAre

\* Putting a true entry keeps a map true.
LEMMA PutKeepsTrue ==
    ASSUME NEW map \in Seq(Own), NEW e \in Own
    PROVE  Put(map, e, L1Room) \in Seq(Own)
BY LeavesAre, PutIs

\* What was computed truly is installed truly.
LEMMA InstallTrue ==
    ASSUME NEW map \in Seq(Own), NEW entries \in Seq(Own)
    PROVE  InstallL1(map, entries) \in Seq(Own)
<1> DEFINE n == Len(entries)
           A == Seq(Own)
           fs == [i \in 1..n |-> [a \in A |-> Put(a, entries[i], L1Room)]]
           Fold(g) == g = [s \in SUBSET (1..n) |->
                             IF s = {} THEN map
                             ELSE Put(g[s \ {Max(s)}], entries[Max(s)], L1Room)]
           fold == CHOOSE g : Fold(g)
<1>1. n \in Nat /\ DOMAIN entries = 1..n /\ \A i \in 1..n : entries[i] \in Own
  OBVIOUS
<1>2. InstallL1(map, entries) = fold[1..n]
  BY <1>1 DEF InstallL1, FoldLeft, MapThenFoldSet
<1>3. ASSUME NEW i \in 1..n, NEW a \in A
      PROVE  fs[i][a] = Put(a, entries[i], L1Room) /\ fs[i][a] \in A
  BY <1>1, PutKeepsTrue
<1>4. Steps(n, A, map, fs)
  BY <1>1, <1>3 DEF Steps
<1> HIDE DEF fs
<1>5. PICK g : Unfolds(n, A, map, fs, g)
  <2> HIDE DEF n, A
  <2> QED
    BY <1>4, StepsExist
<1>6. Fold(g)
  <2> HIDE DEF n, A
  <2> DEFINE f == [s \in SUBSET (1..n) |->
                     IF s = {} THEN map
                     ELSE Put(g[s \ {Max(s)}], entries[Max(s)], L1Room)]
  <2>1. ASSUME NEW s \in SUBSET (1..n) PROVE g[s] = f[s]
    <3>1. g \in [SUBSET (1..n) -> A] /\ g[s] = FoldStep(fs, map, g, s)
      BY <1>5 DEF Unfolds
    <3>2. CASE s = {}
      BY <3>1, <3>2 DEF FoldStep
    <3>3. CASE s # {}
      <4>1. Max(s) \in 1..n /\ g[s \ {Max(s)}] \in A
        BY <1>1, <3>1, <3>3, MaxIs
      <4> QED
        BY <1>3, <3>1, <3>3, <4>1 DEF FoldStep
    <3> QED
      BY <3>2, <3>3
  <2> HIDE DEF f
  <2>2. g = [s \in SUBSET (1..n) |-> g[s]] /\ f = [s \in SUBSET (1..n) |-> f[s]]
    BY <1>5 DEF f, Unfolds
  <2>3. g = f
    BY <2>1, <2>2
  <2> QED
    BY <2>3 DEF f
<1>7. Fold(fold)
  <2> HIDE DEF Fold
  <2> QED
    BY <1>6
<1>8. /\ fold[{}] = map
      /\ \A s \in SUBSET (1..n) : s # {} =>
            fold[s] = Put(fold[s \ {Max(s)}], entries[Max(s)], L1Room)
  <2> HIDE DEF fold, n
  <2> QED
    BY <1>7
<1> HIDE DEF fold, A, n
<1>9. Folds(n, A, map, fs, fold)
  BY <1>1, <1>3, <1>8, MaxIs DEF Folds
<1> QED
  BY <1>2, <1>4, <1>9, StepsStay DEF A

\* What an answer puts into the map.
Filled(map, p, miss) ==
    IF p[2] = miss THEN map ELSE Put(map, [key |-> p[1], val |-> p[2]], L1Room)

\* The answers to a get from a map of true entries.
TrueAnswer(miss) ==
    {p \in (Node \ Leaf) \X (Vector \cup {miss}) : p[2] # miss => p[2] = p[1]}

\* One answer put into the map keeps it true.
LEMMA FilledTrue ==
    ASSUME NEW map \in Seq(Own), NEW miss, NEW p \in TrueAnswer(miss)
    PROVE  Filled(map, p, miss) \in Seq(Own)
<1>1. CASE p[2] = miss
  BY <1>1 DEF Filled
<1>2. CASE p[2] # miss
  <2>1. [key |-> p[1], val |-> p[2]] \in Own
    BY <1>2, OwnIs DEF TrueAnswer
  <2> QED
    BY <1>2, <2>1, PutKeepsTrue DEF Filled
<1> QED
  BY <1>1, <1>2

\* What L2 answers from true entries goes into L1 truly.
LEMMA PopulateTrue ==
    ASSUME NEW map \in Seq(Own), NEW miss, NEW answer \in Seq(TrueAnswer(miss))
    PROVE  Populate(map, answer, miss) \in Seq(Own)
<1> DEFINE n == Len(answer)
           A == Seq(Own)
           fs == [i \in 1..n |-> [a \in A |-> Filled(a, answer[i], miss)]]
           Fold(g) == g = [s \in SUBSET (1..n) |->
                             IF s = {} THEN map
                             ELSE Filled(g[s \ {Max(s)}], answer[Max(s)], miss)]
           fold == CHOOSE g : Fold(g)
<1>1. n \in Nat /\ DOMAIN answer = 1..n /\ \A i \in 1..n : answer[i] \in TrueAnswer(miss)
  OBVIOUS
<1>2. Populate(map, answer, miss) = fold[1..n]
  BY <1>1 DEF Populate, Filled, FoldLeft, MapThenFoldSet
<1>3. ASSUME NEW i \in 1..n, NEW a \in A
      PROVE  fs[i][a] = Filled(a, answer[i], miss) /\ fs[i][a] \in A
  BY <1>1, FilledTrue
<1>4. Steps(n, A, map, fs)
  BY <1>1, <1>3 DEF Steps
<1> HIDE DEF fs
<1>5. PICK g : Unfolds(n, A, map, fs, g)
  <2> HIDE DEF n, A
  <2> QED
    BY <1>4, StepsExist
<1>6. Fold(g)
  <2> HIDE DEF n, A
  <2> DEFINE f == [s \in SUBSET (1..n) |->
                     IF s = {} THEN map
                     ELSE Filled(g[s \ {Max(s)}], answer[Max(s)], miss)]
  <2>1. ASSUME NEW s \in SUBSET (1..n) PROVE g[s] = f[s]
    <3>1. g \in [SUBSET (1..n) -> A] /\ g[s] = FoldStep(fs, map, g, s)
      BY <1>5 DEF Unfolds
    <3>2. CASE s = {}
      BY <3>1, <3>2 DEF FoldStep
    <3>3. CASE s # {}
      <4>1. Max(s) \in 1..n /\ g[s \ {Max(s)}] \in A
        BY <1>1, <3>1, <3>3, MaxIs
      <4> QED
        BY <1>3, <3>1, <3>3, <4>1 DEF FoldStep
    <3> QED
      BY <3>2, <3>3
  <2> HIDE DEF f
  <2>2. g = [s \in SUBSET (1..n) |-> g[s]] /\ f = [s \in SUBSET (1..n) |-> f[s]]
    BY <1>5 DEF f, Unfolds
  <2>3. g = f
    BY <2>1, <2>2
  <2> QED
    BY <2>3 DEF f
<1>7. Fold(fold)
  <2> HIDE DEF Fold
  <2> QED
    BY <1>6
<1>8. /\ fold[{}] = map
      /\ \A s \in SUBSET (1..n) : s # {} =>
            fold[s] = Filled(fold[s \ {Max(s)}], answer[Max(s)], miss)
  <2> HIDE DEF fold, n
  <2> QED
    BY <1>7
<1> HIDE DEF fold, A, n
<1>9. Folds(n, A, map, fs, fold)
  BY <1>1, <1>3, <1>8, MaxIs DEF Folds
<1> QED
  BY <1>2, <1>4, <1>9, StepsStay DEF A

\* encode from true maps: the thought's own vector, true entries to install,
\* and a true map.
LEMMA ComputedTrue ==
    ASSUME NEW map \in Seq(Own), NEW n \in Node
    PROVE  /\ Computed(map, n).vector = n
           /\ Computed(map, n).computed \in Seq(Own)
           /\ Computed(map, n).l1 \in Seq(Own)
<1> DEFINE fresh == [l1 |-> map, computed |-> <<>>, vectors |-> <<>>]
           run == EncodeLocal[n][fresh]
<1>1. fresh \in TrueRun /\ fresh.vectors = <<>>
  <2>1. <<>> \in Seq(Own) /\ <<>> \in Seq(Node)
    OBVIOUS
  <2> QED
    BY <2>1 DEF TrueRun
<1>2. Computed(map, n) = [vector |-> run.vectors[1], computed |-> run.computed,
                          l1 |-> InstallL1(run.l1, run.computed)]
  BY DEF Computed
<1> HIDE DEF fresh
<1>3. run \in TrueRun /\ run.vectors = Append(<<>>, n)
  BY <1>1, EncodeTrue
<1> HIDE DEF run
<1>4. run.vectors[1] = n /\ run.computed \in Seq(Own) /\ run.l1 \in Seq(Own)
  BY <1>3 DEF TrueRun
<1>5. InstallL1(run.l1, run.computed) \in Seq(Own)
  BY <1>4, InstallTrue
<1> QED
  BY <1>2, <1>4, <1>5

\* The walk for misses leaves L1 true and asks for inner nodes only.
LEMMA MissesTrue ==
    ASSUME NEW map \in Seq(Own), NEW n \in Node
    PROVE  /\ Misses(map, n).l1 \in Seq(Own)
           /\ Misses(map, n).keys \in Seq(Node \ Leaf)
<1>1. [l1 |-> map, keys |-> <<>>] \in TrueWalk
  <2>1. <<>> \in Seq(Node \ Leaf)
    OBVIOUS
  <2> QED
    BY <2>1 DEF TrueWalk
<1>2. Misses(map, n) \in TrueWalk
  BY <1>1, CollectTrue DEF Misses
<1> QED
  BY <1>2 DEF TrueWalk

-----------------------------------------------------------------------------
(* The database *)

\* The first n batches, in order.
UpTo(n) == [i \in 1..n |-> i]

DbTypeOK ==
    /\ dbCall \in [DbIds -> {"idle", "waiting", "dropped"}]
    /\ dbSent \in [DbIds -> Nat]
    /\ dbConfirmed \in [DbIds -> Nat]
    /\ dbReq \in [DbIds -> Seq(Nat)]
    /\ dbAck \in [DbIds -> Nat]
    /\ db \in [at : {"select", "ack", "exit", "dead"}, flags : SUBSET DbIds,
               closed : SUBSET DbIds, rows : Nat]
    /\ dbTable \in [DbIds -> Seq(Nat)]

\* Where the batch of a client inside batch_send is while the driver lives: in
\* its queue, committed and to be acknowledged, or acknowledged.
InFlight(c) ==
    /\ dbSent[c] = dbConfirmed[c] + 1
    /\ \/ /\ dbReq[c] = <<dbSent[c]>> /\ dbAck[c] = 0 /\ c \notin db.flags
          /\ dbTable[c] = UpTo(dbConfirmed[c])
       \/ /\ dbReq[c] = <<>> /\ dbAck[c] = 0 /\ c \in db.flags
          /\ dbTable[c] = UpTo(dbSent[c])
       \/ /\ dbReq[c] = <<>> /\ dbAck[c] = 1 /\ c \notin db.flags
          /\ dbTable[c] = UpTo(dbSent[c])

AtRest(c) ==
    /\ dbConfirmed[c] = dbSent[c]
    /\ dbReq[c] = <<>> /\ dbAck[c] = 0 /\ c \notin db.flags
    /\ dbTable[c] = UpTo(dbSent[c])

\* A driver that has panicked leaves what it had committed behind.
LeftBehind(c) ==
    /\ dbReq[c] = <<>>
    /\ \E n \in Nat : /\ dbTable[c] = UpTo(n)
                      /\ dbConfirmed[c] + dbAck[c] <= n /\ n <= dbSent[c]

Client(c) ==
    IF db.at = "dead" THEN LeftBehind(c)
    ELSE IF dbCall[c] = "waiting" THEN InFlight(c) ELSE AtRest(c)

DriverOK ==
    /\ \A c \in db.closed : dbCall[c] = "dropped"
    /\ db.flags # {} => db.at = "ack"
    /\ db.at = "exit" => db.closed = DbIds

DbInv ==
    /\ DbTypeOK
    /\ \A c \in DbIds : Client(c)
    /\ DriverOK

-----------------------------------------------------------------------------
LEMMA LenUpTo == \A n \in Nat : UpTo(n) \in Seq(Nat) /\ Len(UpTo(n)) = n
  BY DEF UpTo

\* One more batch at the end.
LEMMA UpToNext ==
    ASSUME NEW n \in Nat
    PROVE  UpTo(n) \o <<n + 1>> = UpTo(n + 1)
<1>1. UpTo(n) \in Seq(Nat) /\ Len(UpTo(n)) = n
  BY LenUpTo
<1>2. Len(UpTo(n) \o <<n + 1>>) = n + 1 /\ UpTo(n) \o <<n + 1>> \in Seq(Nat)
  BY <1>1
<1>3. \A i \in 1..n + 1 : (UpTo(n) \o <<n + 1>>)[i] = i
  BY <1>1 DEF UpTo
<1> QED
  BY <1>2, <1>3 DEF UpTo

LEMMA UpToPlusNone ==
    ASSUME NEW n \in Nat
    PROVE  UpTo(n) \o <<>> = UpTo(n)
  BY LenUpTo

LEMMA DbAsksFinite == IsFiniteSet(DbAsking) /\ Cardinality(DbAsking) \in Nat
<1>1. IsFiniteSet(DbIds)
  BY DbAssumption, FS_Interval DEF DbIds
<1>2. IsFiniteSet(DbAsking)
  BY <1>1, FS_Subset DEF DbAsking
<1> QED
  BY <1>2, FS_CardinalityType

-----------------------------------------------------------------------------
LEMMA DbInitInv == DbInit => DbInv
<1> SUFFICES ASSUME DbInit PROVE DbInv
  OBVIOUS
<1>1. DbTypeOK
  BY DEF DbInit, DbTypeOK, DbNone
<1>2. UpTo(0) = <<>>
  BY DEF UpTo
<1>3. \A c \in DbIds : AtRest(c)
  BY <1>2 DEF DbInit, AtRest, DbNone
<1> QED
  BY <1>1, <1>3 DEF DbInit, DbInv, Client, DriverOK

\* Every step keeps the invariant.
LEMMA DbStepInv == DbInv /\ [DbNext]_dbVars => DbInv'
<1> SUFFICES ASSUME DbTypeOK, \A c \in DbIds : Client(c), DriverOK, [DbNext]_dbVars
             PROVE  DbInv'
  BY DEF DbInv
<1> USE DEF DriverOK
<1>1. ASSUME NEW c \in DbIds, DbSend(c) PROVE DbInv'
  <2>1. CASE DbGone
    <3>1. UNCHANGED <<dbCall, dbReq, dbConfirmed, dbAck, db, dbTable>>
      BY <1>1, <2>1 DEF DbSend
    <3>2. dbSent' = [dbSent EXCEPT ![c] = @ + 1] /\ dbCall[c] = "idle"
      BY <1>1 DEF DbSend
    <3>3. db.at = "dead"
      BY <2>1, <3>2 DEF DbGone
    <3>4. ASSUME NEW d \in DbIds PROVE Client(d)'
      <4>1. dbSent'[d] \in Nat /\ dbSent[d] \in Nat /\ dbSent'[d] >= dbSent[d]
        BY <3>2 DEF DbTypeOK
      <4>2. LeftBehind(d)
        BY <3>3 DEF Client
      <4>3. LeftBehind(d)'
        BY <3>1, <4>1, <4>2 DEF LeftBehind, DbTypeOK
      <4> QED
        BY <3>1, <3>3, <4>3 DEF Client
    <3>5. DbTypeOK' /\ DriverOK'
      BY <3>1, <3>2 DEF DbTypeOK
    <3> QED
      BY <3>4, <3>5 DEF DbInv
  <2>2. CASE ~DbGone
    <3>1. /\ UNCHANGED <<dbConfirmed, dbAck, db, dbTable>>
          /\ dbSent' = [dbSent EXCEPT ![c] = @ + 1]
          /\ dbReq' = [dbReq EXCEPT ![c] = Append(@, dbSent[c] + 1)]
          /\ dbCall' = [dbCall EXCEPT ![c] = "waiting"]
          /\ dbCall[c] = "idle"
      BY <1>1, <2>2 DEF DbSend
    <3>2. db.at # "dead" /\ AtRest(c)
      BY <2>2, <3>1 DEF DbGone, Client
    <3>3. dbReq'[c] = <<dbSent'[c]>> /\ dbSent'[c] = dbConfirmed'[c] + 1
      BY <3>1, <3>2 DEF DbTypeOK, AtRest
    <3>4. Client(c)'
      BY <3>1, <3>2, <3>3 DEF DbTypeOK, AtRest, InFlight, Client
    <3>5. ASSUME NEW d \in DbIds, d # c PROVE Client(d)'
      BY <3>1, <3>2, <3>5 DEF DbTypeOK, Client, AtRest, InFlight
    <3>6. DbTypeOK' /\ DriverOK'
      BY <3>1 DEF DbTypeOK
    <3> QED
      BY <3>4, <3>5, <3>6 DEF DbInv
  <2> QED
    BY <2>1, <2>2
<1>2. ASSUME NEW c \in DbIds, DbReturn(c) PROVE DbInv'
  <2>1. /\ dbCall[c] = "waiting"
        /\ dbCall' = [dbCall EXCEPT ![c] = "idle"]
        /\ UNCHANGED <<dbSent, dbReq, db, dbTable>>
    BY <1>2 DEF DbReturn
  <2>2. c \notin db.closed /\ db.at # "exit"
    BY <2>1 DEF DbTypeOK
  <2>3. CASE dbAck[c] > 0
    <3>1. /\ dbAck' = [dbAck EXCEPT ![c] = @ - 1]
          /\ dbConfirmed' = [dbConfirmed EXCEPT ![c] = @ + 1]
      BY <1>2, <2>3 DEF DbReturn, DbTypeOK
    <3>2. dbAck' \in [DbIds -> Nat] /\ dbConfirmed' \in [DbIds -> Nat]
      BY <2>3, <3>1 DEF DbTypeOK
    <3>3. DbTypeOK' /\ DriverOK'
      BY <2>1, <2>2, <3>2 DEF DbTypeOK
    <3>4. ASSUME NEW d \in DbIds, db.at = "dead" PROVE Client(d)'
      <4>1. dbConfirmed'[d] + dbAck'[d] = dbConfirmed[d] + dbAck[d]
        BY <3>1 DEF DbTypeOK
      <4>2. LeftBehind(d)
        BY <3>4 DEF Client
      <4>3. LeftBehind(d)'
        BY <2>1, <4>1, <4>2 DEF LeftBehind
      <4> QED
        BY <2>1, <3>4, <4>3 DEF Client
    <3>5. ASSUME db.at # "dead" PROVE Client(c)'
      <4>1. InFlight(c) /\ dbAck[c] = 1
        BY <2>1, <2>3, <3>5 DEF Client, InFlight, DbTypeOK
      <4> QED
        BY <2>1, <3>1, <3>5, <4>1 DEF Client, InFlight, AtRest, DbTypeOK
    <3>6. ASSUME NEW d \in DbIds, d # c, db.at # "dead" PROVE Client(d)'
      BY <2>1, <3>1, <3>6 DEF Client, InFlight, AtRest, DbTypeOK
    <3> QED
      BY <3>3, <3>4, <3>5, <3>6 DEF DbInv
  <2>4. CASE ~(dbAck[c] > 0)
    <3>1. db.at = "dead" /\ UNCHANGED <<dbAck, dbConfirmed>>
      BY <1>2, <2>2, <2>4 DEF DbReturn, DbGone
    <3>2. ASSUME NEW d \in DbIds PROVE Client(d)'
      BY <2>1, <3>1 DEF Client, LeftBehind
    <3>3. DbTypeOK' /\ DriverOK'
      BY <2>1, <2>2, <3>1 DEF DbTypeOK
    <3> QED
      BY <3>2, <3>3 DEF DbInv
  <2> QED
    BY <2>3, <2>4
<1>3. ASSUME NEW c \in DbIds, DbDrop(c) PROVE DbInv'
  <2>1. /\ dbCall[c] = "idle"
        /\ dbCall' = [dbCall EXCEPT ![c] = "dropped"]
        /\ UNCHANGED <<dbSent, dbConfirmed, dbReq, dbAck, db, dbTable>>
    BY <1>3 DEF DbDrop
  <2>2. ASSUME NEW d \in DbIds PROVE Client(d)'
    BY <2>1 DEF Client, LeftBehind, InFlight, AtRest, DbTypeOK
  <2>3. DbTypeOK' /\ DriverOK'
    BY <2>1 DEF DbTypeOK
  <2> QED
    BY <2>2, <2>3 DEF DbInv
<1>4. CASE DbPass
  <2>1. /\ db.at = "select" /\ db.flags = {}
        /\ dbTable' = [c \in DbIds |-> dbTable[c] \o dbReq[c]]
        /\ dbReq' = [c \in DbIds |-> <<>>]
        /\ UNCHANGED <<dbCall, dbSent, dbConfirmed, dbAck>>
    BY <1>4 DEF DbPass, Committed, DbNone
  <2>2. DbAsking \subseteq DbIds /\ DbLeaving \subseteq DbIds
    BY DEF DbAsking, DbLeaving
  <2>3. \E rows \in Nat :
           db' = [db EXCEPT !.at = "ack", !.flags = DbAsking,
                            !.closed = @ \cup DbLeaving, !.rows = rows]
    <3>1. db.rows \in Nat /\ db.rows + Cardinality(DbAsking) \in Nat
      BY DbAsksFinite DEF DbTypeOK
    <3>2. CASE db' = [db EXCEPT !.at = "ack", !.flags = DbAsking,
                                !.closed = @ \cup DbLeaving,
                                !.rows = db.rows + Cardinality(DbAsking)]
      BY <3>1, <3>2
    <3>3. CASE db' = [db EXCEPT !.at = "ack", !.flags = DbAsking,
                                !.closed = @ \cup DbLeaving, !.rows = 0]
      BY <3>3
    <3> QED
      BY <1>4, <3>2, <3>3 DEF DbPass, DbTypeOK
  <2>4. /\ db'.at = "ack" /\ db'.flags = DbAsking
        /\ db'.closed = db.closed \cup DbLeaving
        /\ db' \in [at : {"select", "ack", "exit", "dead"}, flags : SUBSET DbIds,
                    closed : SUBSET DbIds, rows : Nat]
    BY <2>2, <2>3 DEF DbTypeOK
  <2>5. ASSUME NEW c \in DbIds, dbCall[c] = "waiting" PROVE Client(c)'
    <3>1. InFlight(c)
      BY <2>1, <2>5 DEF Client
    <3>2. CASE dbReq[c] = <<>>
      <4>1. dbTable'[c] = UpTo(dbSent[c])
        BY <2>1, <3>1, <3>2, UpToPlusNone DEF InFlight, DbTypeOK
      <4>2. dbAck[c] = 1
        BY <2>1, <3>1, <3>2 DEF InFlight
      <4>3. c \notin db'.flags /\ dbReq'[c] = <<>> /\ dbAck'[c] = 1
        BY <2>1, <2>4, <3>2, <4>2 DEF DbAsking
      <4>4. dbSent'[c] = dbConfirmed'[c] + 1 /\ dbTable'[c] = UpTo(dbSent'[c])
        BY <2>1, <3>1, <4>1 DEF InFlight
      <4>5. InFlight(c)'
        BY <4>3, <4>4 DEF InFlight
      <4> QED
        BY <2>1, <2>4, <2>5, <4>5 DEF Client
    <3>3. CASE dbReq[c] # <<>>
      <4>1. dbTable'[c] = UpTo(dbSent[c])
        BY <2>1, <3>1, <3>3, UpToNext DEF InFlight, DbTypeOK
      <4> QED
        BY <2>1, <2>4, <2>5, <3>1, <3>3, <4>1 DEF Client, InFlight, DbAsking
    <3> QED
      BY <3>2, <3>3
  <2>6. ASSUME NEW c \in DbIds, dbCall[c] # "waiting" PROVE Client(c)'
    <3>1. AtRest(c)
      BY <2>1, <2>6 DEF Client
    <3> QED
      BY <2>1, <2>4, <2>6, <3>1, UpToPlusNone
      DEF Client, AtRest, DbTypeOK, DbAsking
  <2>7. DbTypeOK'
    BY <2>1, <2>4 DEF DbTypeOK
  <2>8. DriverOK'
    BY <2>1, <2>4 DEF DbLeaving
  <2> QED
    BY <2>5, <2>6, <2>7, <2>8 DEF DbInv
<1>5. CASE DbPanic
  <2>1. /\ db.at = "select" /\ db' = [db EXCEPT !.at = "dead"] /\ db.flags = {}
        /\ dbReq' = [c \in DbIds |-> <<>>]
        /\ UNCHANGED <<dbCall, dbSent, dbConfirmed, dbAck, dbTable>>
    BY <1>5 DEF DbPanic, DbNone
  <2>2. db'.at = "dead" /\ db'.closed = db.closed /\ db'.flags = {}
    BY <2>1 DEF DbTypeOK
  <2>3. ASSUME NEW c \in DbIds PROVE LeftBehind(c)'
    <3>1. CASE dbCall[c] = "waiting"
      <4>1. InFlight(c)
        BY <2>1, <3>1 DEF Client
      <4>2. dbConfirmed[c] \in Nat /\ dbSent[c] \in Nat
        BY DEF DbTypeOK
      <4>3. CASE dbReq[c] # <<>>
        <5>1. /\ dbTable'[c] = UpTo(dbConfirmed[c])
              /\ dbConfirmed'[c] + dbAck'[c] <= dbConfirmed[c]
              /\ dbConfirmed[c] <= dbSent'[c]
          BY <2>1, <4>1, <4>2, <4>3 DEF InFlight
        <5> QED
          BY <2>1, <4>2, <5>1 DEF LeftBehind
      <4>4. CASE dbReq[c] = <<>>
        <5>1. /\ dbTable'[c] = UpTo(dbSent[c])
              /\ dbConfirmed'[c] + dbAck'[c] <= dbSent[c]
              /\ dbSent[c] <= dbSent'[c]
          BY <2>1, <4>1, <4>2, <4>4 DEF InFlight
        <5> QED
          BY <2>1, <4>2, <5>1 DEF LeftBehind
      <4> QED
        BY <4>3, <4>4
    <3>2. CASE dbCall[c] # "waiting"
      <4>1. AtRest(c)
        BY <2>1, <3>2 DEF Client
      <4>2. dbConfirmed[c] \in Nat /\ dbSent[c] \in Nat
        BY DEF DbTypeOK
      <4>3. /\ dbTable'[c] = UpTo(dbSent[c])
            /\ dbConfirmed'[c] + dbAck'[c] <= dbSent[c]
            /\ dbSent[c] <= dbSent'[c]
        BY <2>1, <4>1, <4>2 DEF AtRest
      <4> QED
        BY <2>1, <4>2, <4>3 DEF LeftBehind
    <3> QED
      BY <3>1, <3>2
  <2>4. \A c \in DbIds : Client(c)'
    BY <2>2, <2>3 DEF Client
  <2>5. db' \in [at : {"select", "ack", "exit", "dead"}, flags : SUBSET DbIds,
                closed : SUBSET DbIds, rows : Nat]
    BY <2>1 DEF DbTypeOK
  <2>6. dbReq' \in [DbIds -> Seq(Nat)]
    BY <2>1
  <2>7. DbTypeOK'
    BY <2>1, <2>5, <2>6 DEF DbTypeOK
  <2>8. DriverOK'
    BY <2>1, <2>2
  <2> QED
    BY <2>4, <2>7, <2>8 DEF DbInv
<1>6. CASE DbAcknowledge
  <2>1. /\ db.at = "ack" /\ db' = [db EXCEPT !.at = "select", !.flags = {}]
        /\ dbAck' = [c \in DbIds |-> IF c \in db.flags THEN dbAck[c] + 1
                                                       ELSE dbAck[c]]
        /\ UNCHANGED <<dbCall, dbSent, dbConfirmed, dbReq, dbTable>>
    BY <1>6 DEF DbAcknowledge
  <2>2. db'.at = "select" /\ db'.closed = db.closed /\ db'.flags = {}
    BY <2>1 DEF DbTypeOK
  <2>3. ASSUME NEW c \in DbIds PROVE Client(c)'
    BY <2>1, <2>2 DEF Client, InFlight, AtRest, DbTypeOK
  <2>4. dbAck' \in [DbIds -> Nat]
    BY <2>1 DEF DbTypeOK
  <2>5. DbTypeOK' /\ DriverOK'
    BY <2>1, <2>2, <2>4 DEF DbTypeOK
  <2> QED
    BY <2>3, <2>5 DEF DbInv
<1>7. CASE DbExit
  <2>1. /\ db.at = "select" /\ db.closed = DbIds
        /\ db' = [db EXCEPT !.at = "exit", !.rows = 0]
        /\ UNCHANGED <<dbCall, dbSent, dbConfirmed, dbReq, dbAck, dbTable>>
    BY <1>7 DEF DbExit
  <2>2. db'.at = "exit" /\ db'.closed = db.closed /\ db'.flags = db.flags
    BY <2>1 DEF DbTypeOK
  <2>3. ASSUME NEW c \in DbIds PROVE Client(c)'
    BY <2>1, <2>2 DEF Client, InFlight, AtRest
  <2>4. DbTypeOK' /\ DriverOK'
    BY <2>1, <2>2 DEF DbTypeOK
  <2> QED
    BY <2>3, <2>4 DEF DbInv
<1>8. CASE UNCHANGED dbVars
  BY <1>8 DEF DbInv, DbTypeOK, dbVars, Client, LeftBehind, InFlight, AtRest
<1> QED
  BY <1>1, <1>2, <1>3, <1>4, <1>5, <1>6, <1>7, <1>8 DEF DbNext, DbDriver

-----------------------------------------------------------------------------
LEMMA DbInvConfirms == DbInv => ConfirmedIsCommitted
<1> SUFFICES ASSUME DbInv, NEW c \in DbIds
             PROVE  /\ dbTable[c] = UpTo(Len(dbTable[c]))
                    /\ dbConfirmed[c] <= Len(dbTable[c])
                    /\ Len(dbTable[c]) <= dbSent[c]
                    /\ db.at # "dead" =>
                         dbSent[c] = dbConfirmed[c]
                                     + (IF dbCall[c] = "waiting" THEN 1 ELSE 0)
                    /\ db.at = "exit" => Len(dbTable[c]) = dbSent[c]
  BY DEF ConfirmedIsCommitted, UpTo
<1>1. DbTypeOK
  BY DEF DbInv
<1>2. CASE db.at = "dead"
  BY <1>1, <1>2, LenUpTo DEF DbInv, Client, DriverOK, DbTypeOK, LeftBehind
<1>3. CASE db.at # "dead" /\ dbCall[c] = "waiting"
  <2>1. InFlight(c) /\ dbConfirmed[c] \in Nat /\ dbSent[c] \in Nat
    BY <1>1, <1>3 DEF DbInv, Client, DriverOK, DbTypeOK
  <2>2. /\ db.at # "exit"
        /\ dbTable[c] = UpTo(dbConfirmed[c]) \/ dbTable[c] = UpTo(dbSent[c])
    BY <1>1, <1>3, <2>1 DEF DbInv, Client, DriverOK, DbTypeOK, InFlight
  <2> QED
    BY <1>3, <2>1, <2>2, LenUpTo DEF InFlight
<1>4. CASE db.at # "dead" /\ dbCall[c] # "waiting"
  BY <1>1, <1>4, LenUpTo DEF DbInv, Client, DriverOK, DbTypeOK, AtRest
<1> QED
  BY <1>2, <1>3, <1>4

\* For any number of clients, whether or not the database fails, and in every
\* interleaving of the clients' calls with the driver's passes: what batch_send
\* was acknowledged for is in the table, which holds each client's batches in
\* order and once (database.rs, batch_send and the driver's loop).
THEOREM CommitsCorrect == DbSpec => []ConfirmedIsCommitted
<1>1. DbInit => DbInv
  BY DbInitInv
<1>2. DbInv /\ [DbNext]_dbVars => DbInv'
  BY DbStepInv
<1>3. DbInv => ConfirmedIsCommitted
  BY DbInvConfirms
<1> QED
  BY <1>1, <1>2, <1>3, PTL DEF DbSpec

-----------------------------------------------------------------------------
(* The console *)

Lines == [wire : Wire, line : Nat]

ConTypeOK ==
    /\ held \subseteq 1..Producers
    /\ said \in [1..Producers -> Nat]
    /\ wire \in [Wire -> Seq(Nat)]
    /\ mailbox \in Seq(Lines)
    /\ printed \in [Wire -> Seq(Nat)]

\* What is printed came before what waits in the mailbox, and that before
\* what is still in the producer's queue.
InOrder(w) ==
    /\ \A i, j \in 1..Len(printed[w]) : i < j => printed[w][i] < printed[w][j]
    /\ \A i \in 1..Len(printed[w]) : \A k \in 1..Len(mailbox) :
           mailbox[k].wire = w => printed[w][i] < mailbox[k].line
    /\ \A i \in 1..Len(printed[w]) : \A n \in 1..Len(wire[w]) :
           printed[w][i] < wire[w][n]
    /\ \A k, l \in 1..Len(mailbox) :
           k < l /\ mailbox[k].wire = w /\ mailbox[l].wire = w
             => mailbox[k].line < mailbox[l].line
    /\ \A k \in 1..Len(mailbox) : \A n \in 1..Len(wire[w]) :
           mailbox[k].wire = w => mailbox[k].line < wire[w][n]
    /\ wire[w] = <<>> \/ \E n \in Nat : wire[w] = <<n>>

\* A line is in the producer's queue, in the mailbox or on the screen.
Somewhere(w, n) ==
    \/ \E i \in 1..Len(printed[w]) : printed[w][i] = n
    \/ \E k \in 1..Len(mailbox) : mailbox[k].wire = w /\ mailbox[k].line = n
    \/ \E i \in 1..Len(wire[w]) : wire[w][i] = n

\* Every line a producer has sent is somewhere, and no other line is.
AllThere(p) ==
    \A n \in Nat : n \in 1..said[p]
                     <=> Somewhere(<<p, "out">>, n) \/ Somewhere(<<p, "err">>, n)

AllOut ==
    conAt = "exit" =>
        held = {} /\ mailbox = <<>> /\ \A w \in Wire : wire[w] = <<>>

ConInv ==
    /\ ConTypeOK
    /\ \A w \in Wire : InOrder(w)
    /\ \A p \in 1..Producers : AllThere(p)
    /\ AllOut

LEMMA ConInitInv == ConsoleInit => ConInv
<1> SUFFICES ASSUME ConsoleInit PROVE ConInv
  OBVIOUS
<1>1. ConTypeOK
  BY DEF ConsoleInit, ConTypeOK, Wire, Lines
<1>2. \A w \in Wire : wire[w] = <<>> /\ printed[w] = <<>>
  BY DEF ConsoleInit
<1>3. \A w \in Wire : InOrder(w) /\ \A n \in Nat : ~Somewhere(w, n)
  BY <1>2 DEF ConsoleInit, InOrder, Somewhere
<1>4. \A p \in 1..Producers : <<p, "out">> \in Wire /\ <<p, "err">> \in Wire
                              /\ said[p] = 0
  BY DEF Wire, ConsoleInit
<1>5. \A p \in 1..Producers : AllThere(p)
  BY <1>3, <1>4 DEF AllThere
<1> QED
  BY <1>1, <1>3, <1>5 DEF ConsoleInit, AllOut, ConInv

\* No line is numbered above what its producer has said.
LEMMA LinesAreSaid ==
    ASSUME ConInv, NEW p \in 1..Producers, NEW stream \in {"out", "err"}
    PROVE  /\ <<p, stream>> \in Wire
           /\ \A n \in Nat : Somewhere(<<p, stream>>, n) => n \in 1..said[p]
<1>1. <<p, stream>> \in Wire
  BY DEF Wire
<1> QED
  BY <1>1 DEF ConInv, AllThere

\* Whoever moves lines along without losing one keeps them all there.
LEMMA MovingKeepsAll ==
    ASSUME ConInv, said' = said,
           \A w \in Wire : \A n \in Nat : Somewhere(w, n)' <=> Somewhere(w, n)
    PROVE  \A p \in 1..Producers : AllThere(p)'
<1>1. \A p \in 1..Producers : <<p, "out">> \in Wire /\ <<p, "err">> \in Wire
  BY DEF Wire
<1> QED
  BY <1>1 DEF ConInv, AllThere

\* A producer says the next line: the highest number so far, and its queue was
\* empty.
LEMMA SayKeeps ==
    ASSUME ConInv, NEW p \in 1..Producers, NEW stream \in {"out", "err"},
           Say(p, stream)
    PROVE  ConInv'
<1> DEFINE v == <<p, stream>>
           x == said[p] + 1
<1>1. v \in Wire /\ ConTypeOK /\ said[p] \in Nat /\ x \in Nat
  <2>1. v \in Wire
    BY LinesAreSaid
  <2>2. ConTypeOK
    BY DEF ConInv
  <2>3. said[p] \in Nat
    BY <2>2 DEF ConTypeOK
  <2> QED
    BY <2>1, <2>2, <2>3
<1>2. /\ wire[v] = <<>> /\ wire' = [wire EXCEPT ![v] = <<x>>]
      /\ said' = [said EXCEPT ![p] = x]
      /\ held' = held /\ mailbox' = mailbox /\ printed' = printed
      /\ conAt' = conAt /\ p \in held
  BY DEF Say
<1>3. ASSUME NEW n \in Nat, Somewhere(v, n) PROVE n < x
  <2>1. n \in 1..said[p]
    BY <1>3, LinesAreSaid
  <2> QED
    BY <1>1, <2>1
<1> HIDE DEF x, v
<1>4. ConTypeOK'
  BY <1>1, <1>2 DEF ConTypeOK
<1>5. /\ wire'[v] = <<x>>
      /\ \A w \in Wire : w # v => wire'[w] = wire[w]
  BY <1>1, <1>2 DEF ConTypeOK
<1>6. ASSUME NEW w \in Wire PROVE InOrder(w)'
  <2>1. InOrder(w)
    BY DEF ConInv
  <2>2. CASE w # v
    BY <1>2, <1>5, <2>1, <2>2 DEF InOrder
  <2>3. CASE w = v
    <3>1. \A i \in 1..Len(printed[v]) : printed[v][i] \in Nat /\ printed[v][i] < x
      BY <1>1, <1>3 DEF Somewhere, ConTypeOK
    <3>2. \A k \in 1..Len(mailbox) : mailbox[k].wire = v => mailbox[k].line < x
      <4>1. \A k \in 1..Len(mailbox) : mailbox[k] \in Lines
        BY <1>1 DEF ConTypeOK
      <4>2. \A k \in 1..Len(mailbox) : mailbox[k].line \in Nat
        BY <4>1 DEF Lines
      <4> QED
        BY <1>3, <4>2 DEF Somewhere
    <3>3. Len(<<x>>) = 1 /\ <<x>>[1] = x
      OBVIOUS
    <3> QED
      BY <1>1, <1>2, <1>5, <2>1, <2>3, <3>1, <3>2, <3>3 DEF InOrder
  <2> QED
    BY <2>2, <2>3
<1>7. \A n \in Nat : Somewhere(v, n)' <=> Somewhere(v, n) \/ n = x
  BY <1>2, <1>5 DEF Somewhere
<1>8. \A w \in Wire : w # v => \A n \in Nat : Somewhere(w, n)' <=> Somewhere(w, n)
  BY <1>2, <1>5 DEF Somewhere
<1>9. ASSUME NEW q \in 1..Producers PROVE AllThere(q)'
  <2>1. AllThere(q) /\ <<q, "out">> \in Wire /\ <<q, "err">> \in Wire
    BY DEF ConInv, Wire
  <2>2. CASE q # p
    <3>1. <<q, "out">> # v /\ <<q, "err">> # v /\ said'[q] = said[q]
      BY <1>1, <1>2, <2>2 DEF v, ConTypeOK
    <3> QED
      BY <1>8, <2>1, <3>1 DEF AllThere
  <2>3. CASE q = p
    <3>1. said'[q] = x /\ \A n \in Nat : n \in 1..x <=> n \in 1..said[q] \/ n = x
      BY <1>1, <1>2, <2>3 DEF x, ConTypeOK
    <3>2. \/ v = <<q, "out">> /\ v # <<q, "err">>
          \/ v = <<q, "err">> /\ v # <<q, "out">>
      BY <2>3 DEF v
    <3> QED
      BY <1>7, <1>8, <2>1, <3>1, <3>2 DEF AllThere
  <2> QED
    BY <2>2, <2>3
<1>10. AllOut'
  BY <1>2 DEF ConInv, AllOut
<1> QED
  BY <1>4, <1>6, <1>9, <1>10 DEF ConInv

\* The fan-in thread takes the one line of a queue and puts it last.
LEMMA FanInKeeps ==
    ASSUME ConInv, ConsoleFanIn
    PROVE  ConInv'
<1>1. PICK v \in Wire :
         /\ wire[v] # <<>>
         /\ mailbox' = Append(mailbox, [wire |-> v, line |-> Head(wire[v])])
         /\ wire' = [wire EXCEPT ![v] = Tail(@)]
  BY DEF ConsoleFanIn
<1>2. /\ held' = held /\ said' = said /\ printed' = printed /\ conAt' = conAt
  BY DEF ConsoleFanIn
<1>3. ConTypeOK /\ InOrder(v)
  BY DEF ConInv
<1>4. PICK x \in Nat : wire[v] = <<x>>
  BY <1>1, <1>3 DEF InOrder
<1>5. Head(wire[v]) = x /\ Tail(wire[v]) = <<>> /\ Len(wire[v]) = 1 /\ wire[v][1] = x
  BY <1>4
<1> DEFINE m == [wire |-> v, line |-> x]
<1>6. /\ wire'[v] = <<>>
      /\ \A w \in Wire : w # v => wire'[w] = wire[w]
      /\ wire' \in [Wire -> Seq(Nat)]
  BY <1>1, <1>3, <1>5 DEF ConTypeOK
<1>7. m \in Lines /\ m.wire = v /\ m.line = x
  BY DEF Lines
<1>8. /\ mailbox \in Seq(Lines) /\ mailbox' = Append(mailbox, m)
      /\ mailbox' \in Seq(Lines) /\ Len(mailbox') = Len(mailbox) + 1
      /\ \A k \in 1..Len(mailbox) : mailbox'[k] = mailbox[k]
      /\ mailbox'[Len(mailbox) + 1] = m /\ Len(mailbox) \in Nat
  <2> HIDE DEF m
  <2> QED
    BY <1>1, <1>3, <1>5, <1>7 DEF ConTypeOK, m
<1> HIDE DEF m
<1>9. ConTypeOK'
  BY <1>2, <1>3, <1>6, <1>8 DEF ConTypeOK
<1>10. ASSUME NEW w \in Wire PROVE InOrder(w)'
  <2>1. InOrder(w)
    BY DEF ConInv
  <2>2. Len(<<>>) = 0
    OBVIOUS
  <2>3. CASE w # v
    <3>1. \A k \in 1..Len(mailbox') :
             mailbox'[k].wire = w => k \in 1..Len(mailbox) /\ mailbox'[k] = mailbox[k]
      BY <1>7, <1>8, <2>3
    <3> QED
      BY <1>2, <1>6, <2>1, <2>3, <3>1 DEF InOrder
  <2>4. CASE w = v
    <3>1. \A k \in 1..Len(mailbox') :
             \/ k \in 1..Len(mailbox) /\ mailbox'[k] = mailbox[k]
             \/ k = Len(mailbox) + 1 /\ mailbox'[k] = m
      BY <1>8
    <3>2. \A i \in 1..Len(printed[v]) : printed[v][i] < x
      BY <1>3, <1>4, <1>5 DEF InOrder
    <3>3. \A k \in 1..Len(mailbox) : mailbox[k].wire = v => mailbox[k].line < x
      BY <1>3, <1>4, <1>5 DEF InOrder
    <3>4. \A k, l \in 1..Len(mailbox') :
             k < l /\ mailbox'[k].wire = v /\ mailbox'[l].wire = v
               => mailbox'[k].line < mailbox'[l].line
      BY <1>3, <1>7, <1>8, <3>1, <3>3 DEF InOrder
    <3>5. \A i \in 1..Len(printed[v]) : \A k \in 1..Len(mailbox') :
             mailbox'[k].wire = v => printed[v][i] < mailbox'[k].line
      BY <1>3, <1>7, <3>1, <3>2 DEF InOrder
    <3>6. \A i, j \in 1..Len(printed[v]) :
             i < j => printed[v][i] < printed[v][j]
      BY <1>3 DEF InOrder
    <3>7. wire'[v] = <<>> /\ \A n \in 1..Len(wire'[v]) : FALSE
      BY <1>6, <2>2
    <3>8. InOrder(v)'
      BY <1>2, <3>4, <3>5, <3>6, <3>7 DEF InOrder
    <3> QED
      BY <2>4, <3>8
  <2> QED
    BY <2>3, <2>4
<1>11. ASSUME NEW w \in Wire, NEW n \in Nat
       PROVE  Somewhere(w, n)' <=> Somewhere(w, n)
  <2>1. (\E k \in 1..Len(mailbox') : mailbox'[k].wire = w /\ mailbox'[k].line = n)
        <=> \/ \E k \in 1..Len(mailbox) :
                   mailbox[k].wire = w /\ mailbox[k].line = n
            \/ w = v /\ n = x
    BY <1>7, <1>8
  <2>2. (\E i \in 1..Len(wire[w]) : wire[w][i] = n)
        <=> \/ \E i \in 1..Len(wire'[w]) : wire'[w][i] = n
            \/ w = v /\ n = x
    <3>1. CASE w # v
      BY <1>6, <3>1
    <3>2. CASE w = v
      <4>1. ~\E i \in 1..Len(wire'[v]) : wire'[v][i] = n
        BY <1>6
      <4>2. (\E i \in 1..Len(wire[v]) : wire[v][i] = n) <=> n = x
        BY <1>5
      <4> QED
        BY <3>2, <4>1, <4>2
    <3> QED
      BY <3>1, <3>2
  <2> QED
    BY <1>2, <2>1, <2>2 DEF Somewhere
<1>12. \A p \in 1..Producers : AllThere(p)'
  BY <1>2, <1>11, MovingKeepsAll
<1>13. AllOut'
  BY <1>1, <1>2 DEF ConInv, AllOut
<1> QED
  BY <1>9, <1>10, <1>12, <1>13 DEF ConInv

\* The driver prints the line that has waited longest.
LEMMA PrintKeeps ==
    ASSUME ConInv, PrintLine
    PROVE  ConInv'
<1> DEFINE m == Head(mailbox)
           v == m.wire
           x == m.line
<1>1. /\ mailbox # <<>> /\ mailbox' = Tail(mailbox)
      /\ printed' = [printed EXCEPT ![v] = Append(@, x)]
      /\ held' = held /\ said' = said /\ wire' = wire /\ conAt' = conAt
  BY DEF PrintLine
<1>2. ConTypeOK /\ mailbox \in Seq(Lines)
  BY DEF ConInv, ConTypeOK
<1>3. /\ Len(mailbox) \in Nat \ {0} /\ m = mailbox[1] /\ m \in Lines
      /\ mailbox' \in Seq(Lines) /\ Len(mailbox') = Len(mailbox) - 1
      /\ \A k \in 1..Len(mailbox') : mailbox'[k] = mailbox[k + 1]
  BY <1>1, <1>2
<1>4. v \in Wire /\ x \in Nat
  BY <1>3 DEF Lines
<1>5. printed[v] \in Seq(Nat) /\ InOrder(v) /\ Len(printed[v]) \in Nat
  BY <1>2, <1>4 DEF ConInv, ConTypeOK
<1>6. mailbox[1].wire = v /\ mailbox[1].line = x
  BY <1>3
<1> HIDE DEF m, v, x
<1>7. /\ printed'[v] = Append(printed[v], x)
      /\ \A w \in Wire : w # v => printed'[w] = printed[w]
      /\ printed' \in [Wire -> Seq(Nat)]
  BY <1>1, <1>2, <1>4, <1>5 DEF ConTypeOK
<1>8. /\ Len(printed'[v]) = Len(printed[v]) + 1
      /\ \A i \in 1..Len(printed[v]) : printed'[v][i] = printed[v][i]
      /\ printed'[v][Len(printed[v]) + 1] = x
  BY <1>4, <1>5, <1>7
<1>9. ConTypeOK'
  BY <1>1, <1>2, <1>3, <1>7 DEF ConTypeOK
<1>10. ASSUME NEW w \in Wire PROVE InOrder(w)'
  <2>1. InOrder(w)
    BY DEF ConInv
  <2>2. \A k \in 1..Len(mailbox') :
           k + 1 \in 1..Len(mailbox) /\ mailbox'[k] = mailbox[k + 1]
    BY <1>3
  <2>3. CASE w # v
    <3>1. printed'[w] = printed[w] /\ wire'[w] = wire[w]
      BY <1>1, <1>7, <2>3
    <3>2. \A k \in 1..Len(mailbox') : mailbox'[k].wire = w =>
             /\ \A i \in 1..Len(printed[w]) : printed[w][i] < mailbox'[k].line
             /\ \A n \in 1..Len(wire[w]) : mailbox'[k].line < wire[w][n]
      BY <2>1, <2>2 DEF InOrder
    <3>3. \A k, l \in 1..Len(mailbox') :
             k < l /\ mailbox'[k].wire = w /\ mailbox'[l].wire = w
               => mailbox'[k].line < mailbox'[l].line
      <4> TAKE k, l \in 1..Len(mailbox')
      <4> HAVE k < l /\ mailbox'[k].wire = w /\ mailbox'[l].wire = w
      <4>1. /\ k + 1 \in 1..Len(mailbox) /\ mailbox'[k] = mailbox[k + 1]
            /\ l + 1 \in 1..Len(mailbox) /\ mailbox'[l] = mailbox[l + 1]
            /\ k + 1 < l + 1
        BY <2>2
      <4> QED
        BY <2>1, <4>1 DEF InOrder
    <3>4. /\ \A i, j \in 1..Len(printed[w]) :
                i < j => printed[w][i] < printed[w][j]
          /\ \A i \in 1..Len(printed[w]) : \A n \in 1..Len(wire[w]) :
                printed[w][i] < wire[w][n]
          /\ wire[w] = <<>> \/ \E n \in Nat : wire[w] = <<n>>
      BY <2>1 DEF InOrder
    <3> QED
      BY <3>1, <3>2, <3>3, <3>4 DEF InOrder
  <2>4. CASE w = v
    <3>1. \A i \in 1..Len(printed'[v]) :
             \/ i \in 1..Len(printed[v]) /\ printed'[v][i] = printed[v][i]
             \/ i = Len(printed[v]) + 1 /\ printed'[v][i] = x
      BY <1>5, <1>8
    <3>2. 1 \in 1..Len(mailbox)
      BY <1>3
    <3>3. \A i \in 1..Len(printed[v]) : printed[v][i] < x
      BY <1>5, <1>6, <3>2 DEF InOrder
    <3>4. \A i, j \in 1..Len(printed'[v]) :
             i < j => printed'[v][i] < printed'[v][j]
      <4> TAKE i, j \in 1..Len(printed'[v])
      <4> HAVE i < j
      <4>1. i \in 1..Len(printed[v]) /\ printed'[v][i] = printed[v][i]
        BY <1>5, <3>1, <1>8
      <4>2. CASE j \in 1..Len(printed[v]) /\ printed'[v][j] = printed[v][j]
        BY <1>5, <4>1, <4>2 DEF InOrder
      <4>3. CASE j = Len(printed[v]) + 1 /\ printed'[v][j] = x
        BY <3>3, <4>1, <4>3
      <4> QED
        BY <3>1, <4>2, <4>3
    <3>5. \A i \in 1..Len(printed'[v]) : \A k \in 1..Len(mailbox') :
             mailbox'[k].wire = v => printed'[v][i] < mailbox'[k].line
      <4> TAKE i \in 1..Len(printed'[v])
      <4> TAKE k \in 1..Len(mailbox')
      <4>1. k + 1 \in 1..Len(mailbox) /\ 1 < k + 1 /\ mailbox'[k] = mailbox[k + 1]
        BY <2>2
      <4>2. CASE i \in 1..Len(printed[v]) /\ printed'[v][i] = printed[v][i]
        BY <1>5, <4>1, <4>2 DEF InOrder
      <4>3. CASE i = Len(printed[v]) + 1 /\ printed'[v][i] = x
        BY <1>5, <1>6, <3>2, <4>1, <4>3 DEF InOrder
      <4> QED
        BY <3>1, <4>2, <4>3
    <3>6. \A i \in 1..Len(printed'[v]) : \A n \in 1..Len(wire[v]) :
             printed'[v][i] < wire[v][n]
      BY <1>5, <1>6, <3>1, <3>2 DEF InOrder
    <3>7. \A k, l \in 1..Len(mailbox') :
             k < l /\ mailbox'[k].wire = v /\ mailbox'[l].wire = v
               => mailbox'[k].line < mailbox'[l].line
      <4> TAKE k, l \in 1..Len(mailbox')
      <4> HAVE k < l /\ mailbox'[k].wire = v /\ mailbox'[l].wire = v
      <4>1. /\ k + 1 \in 1..Len(mailbox) /\ mailbox'[k] = mailbox[k + 1]
            /\ l + 1 \in 1..Len(mailbox) /\ mailbox'[l] = mailbox[l + 1]
            /\ k + 1 < l + 1
        BY <2>2
      <4> QED
        BY <1>5, <4>1 DEF InOrder
    <3>8. \A k \in 1..Len(mailbox') : \A n \in 1..Len(wire[v]) :
             mailbox'[k].wire = v => mailbox'[k].line < wire[v][n]
      <4> TAKE k \in 1..Len(mailbox')
      <4> TAKE n \in 1..Len(wire[v])
      <4> HAVE mailbox'[k].wire = v
      <4>1. k + 1 \in 1..Len(mailbox) /\ mailbox'[k] = mailbox[k + 1]
        BY <2>2
      <4> QED
        BY <1>5, <4>1 DEF InOrder
    <3>9. wire[v] = <<>> \/ \E n \in Nat : wire[v] = <<n>>
      BY <1>5 DEF InOrder
    <3> QED
      BY <1>1, <2>4, <3>4, <3>5, <3>6, <3>7, <3>8, <3>9 DEF InOrder
  <2> QED
    BY <2>3, <2>4
<1>11. ASSUME NEW w \in Wire, NEW n \in Nat
       PROVE  Somewhere(w, n)' <=> Somewhere(w, n)
  <2>1. (\E k \in 1..Len(mailbox) : mailbox[k].wire = w /\ mailbox[k].line = n)
        <=> \/ \E k \in 1..Len(mailbox') :
                   mailbox'[k].wire = w /\ mailbox'[k].line = n
            \/ w = v /\ n = x
    <3>1. \A k \in 1..Len(mailbox) :
             k = 1 \/ (k - 1 \in 1..Len(mailbox') /\ mailbox'[k - 1] = mailbox[k])
      BY <1>3
    <3>2. \A k \in 1..Len(mailbox') :
             k + 1 \in 1..Len(mailbox) /\ mailbox'[k] = mailbox[k + 1]
      BY <1>3
    <3>3. 1 \in 1..Len(mailbox)
      BY <1>3
    <3> QED
      BY <1>6, <3>1, <3>2, <3>3
  <2>2. (\E i \in 1..Len(printed'[w]) : printed'[w][i] = n)
        <=> \/ \E i \in 1..Len(printed[w]) : printed[w][i] = n
            \/ w = v /\ n = x
    <3>1. CASE w # v
      BY <1>7, <3>1
    <3>2. CASE w = v
      <4>1. \A i \in 1..Len(printed'[v]) :
               \/ i \in 1..Len(printed[v]) /\ printed'[v][i] = printed[v][i]
               \/ i = Len(printed[v]) + 1 /\ printed'[v][i] = x
        BY <1>5, <1>8
      <4>2. Len(printed[v]) + 1 \in 1..Len(printed'[v])
            /\ 1..Len(printed[v]) \subseteq 1..Len(printed'[v])
        BY <1>5, <1>8
      <4>3. (\E i \in 1..Len(printed'[v]) : printed'[v][i] = n)
            <=> (\E i \in 1..Len(printed[v]) : printed[v][i] = n) \/ n = x
        BY <1>8, <4>1, <4>2
      <4> QED
        BY <3>2, <4>3
    <3> QED
      BY <3>1, <3>2
  <2> QED
    BY <1>1, <2>1, <2>2 DEF Somewhere
<1>12. \A p \in 1..Producers : AllThere(p)'
  BY <1>1, <1>11, MovingKeepsAll
<1>13. AllOut'
  BY <1>1 DEF ConInv, AllOut
<1> QED
  BY <1>9, <1>10, <1>12, <1>13 DEF ConInv

\* Producers that leave, and a driver that does, move no line.
LEMMA LinesStay ==
    ASSUME ConInv, UNCHANGED <<said, wire, mailbox, printed>>,
           held' \subseteq held, AllOut'
    PROVE  ConInv'
<1>1. ConTypeOK'
  BY DEF ConInv, ConTypeOK
<1>2. \A w \in Wire : InOrder(w)'
  BY DEF ConInv, InOrder
<1>3. \A w \in Wire : \A n \in Nat : Somewhere(w, n)' <=> Somewhere(w, n)
  BY DEF Somewhere
<1>4. \A p \in 1..Producers : AllThere(p)'
  BY <1>3, MovingKeepsAll
<1> QED
  BY <1>1, <1>2, <1>4 DEF ConInv

LEMMA ConStepInv == ConInv /\ [ConsoleNext]_consoleVars => ConInv'
<1> SUFFICES ASSUME ConInv, [ConsoleNext]_consoleVars PROVE ConInv'
  OBVIOUS
<1>1. CASE UNCHANGED consoleVars
  <2>1. UNCHANGED <<said, wire, mailbox, printed>> /\ held' = held /\ AllOut'
    BY <1>1 DEF consoleVars, ConInv, AllOut
  <2> QED
    BY <2>1, LinesStay
<1>2. CASE \E p \in 1..Producers : ConsoleDrop(p)
  <2>1. /\ UNCHANGED <<said, wire, mailbox, printed>>
        /\ held' \subseteq held /\ AllOut'
    BY <1>2 DEF ConsoleDrop, ConInv, AllOut
  <2> QED
    BY <2>1, LinesStay
<1>3. CASE \E p \in 1..Producers : \E stream \in {"out", "err"} : Say(p, stream)
  BY <1>3, SayKeeps
<1>4. CASE ConsoleFanIn
  BY <1>4, FanInKeeps
<1>5. CASE PrintLine
  BY <1>5, PrintKeeps
<1>6. CASE ConsoleExit
  <2>1. /\ UNCHANGED <<said, wire, mailbox, printed>> /\ held' = held /\ AllOut'
    BY <1>6 DEF ConsoleExit, ConInv, AllOut
  <2> QED
    BY <2>1, LinesStay
<1> QED
  BY <1>1, <1>2, <1>3, <1>4, <1>5, <1>6 DEF ConsoleNext, ConsoleDriver

LEMMA ConInvFaithful == ConInv => ConsoleFaithful
<1> SUFFICES ASSUME ConInv PROVE ConsoleFaithful
  OBVIOUS
<1>1. \A w \in Wire : printed[w] \in Seq(Nat) /\ DOMAIN printed[w] = 1..Len(printed[w])
  <2>1. \A w \in Wire : printed[w] \in Seq(Nat)
    BY DEF ConInv, ConTypeOK
  <2> QED
    BY <2>1
<1>2. \A w \in Wire : \A i, j \in DOMAIN printed[w] :
         i < j => printed[w][i] < printed[w][j]
  BY <1>1 DEF ConInv, InOrder
<1>3. ASSUME conAt = "exit", NEW p \in 1..Producers
      PROVE  {printed[<<p, "out">>][i] : i \in DOMAIN printed[<<p, "out">>]}
             \cup {printed[<<p, "err">>][i] : i \in DOMAIN printed[<<p, "err">>]}
               = 1..said[p]
  <2>1. <<p, "out">> \in Wire /\ <<p, "err">> \in Wire /\ AllThere(p)
    BY DEF ConInv, Wire
  <2>2. mailbox = <<>> /\ \A w \in Wire : wire[w] = <<>>
    BY <1>3 DEF ConInv, AllOut
  <2>3. \A w \in Wire : \A n \in Nat :
           Somewhere(w, n) <=> \E i \in 1..Len(printed[w]) : printed[w][i] = n
    BY <2>2 DEF Somewhere
  <2>4. \A n \in Nat :
           n \in 1..said[p]
             <=> \/ \E i \in DOMAIN printed[<<p, "out">>] : printed[<<p, "out">>][i] = n
                 \/ \E i \in DOMAIN printed[<<p, "err">>] : printed[<<p, "err">>][i] = n
    BY <1>1, <2>1, <2>3 DEF AllThere
  <2>5. said[p] \in Nat
    BY DEF ConInv, ConTypeOK
  <2>6. \A w \in Wire : \A i \in DOMAIN printed[w] : printed[w][i] \in Nat
    BY <1>1
  <2> QED
    BY <2>1, <2>4, <2>5, <2>6
<1> QED
  BY <1>2, <1>3 DEF ConsoleFaithful, Range

\* For any number of producers, room in the mailbox and choice of the fan-in
\* thread: each stream comes out in the order it was said, no line twice, and
\* when the driver has gone nothing that was said is missing (console.rs and
\* mailbox.rs).
THEOREM LinesComeOut == ConsoleSpec => []ConsoleFaithful
<1>1. ConsoleInit => ConInv
  BY ConInitInv
<1>2. ConInv /\ [ConsoleNext]_consoleVars => ConInv'
  BY ConStepInv
<1>3. ConInv => ConsoleFaithful
  BY ConInvFaithful
<1> QED
  BY <1>1, <1>2, <1>3, PTL DEF ConsoleSpec

-----------------------------------------------------------------------------
(* The rows the database has told of *)

\* Counting up on some of the places of a function adds as many to its sum.
LEMMA SumCounts ==
    ASSUME NEW S, IsFiniteSet(S), NEW T \in SUBSET S, NEW f, NEW g,
           \A i \in S : f[i] \in Int /\ g[i] = f[i] + (IF i \in T THEN 1 ELSE 0)
    PROVE  SumFunctionOnSet(g, S) = SumFunctionOnSet(f, S) + Cardinality(T)
<1> DEFINE P == {U \in SUBSET S : SumFunctionOnSet(g, U)
                   = SumFunctionOnSet(f, U) + Cardinality(U \cap T)}
<1>1. {} \in P
  <2>1. {} \cap T = {}
    OBVIOUS
  <2>2. Cardinality({}) = 0 /\ 0 = 0 + 0
    BY FS_EmptySet
  <2> QED
    BY <2>1, <2>2, SumEmpty
<1>2. ASSUME NEW U \in SUBSET S, NEW x \in S \ U, U \in P
      PROVE  U \cup {x} \in P
  <2>1. IsFiniteSet(U) /\ IsFiniteSet(U \cap T) /\ x \notin U
    BY FS_Subset
  <2>2. Cardinality(U \cap T) \in Nat
    BY <2>1, FS_CardinalityType
  <2>3. SumFunctionOnSet(f, U) \in Int
    BY <2>1, SumInts
  <2>4. \A i \in U \cup {x} : f[i] \in Int /\ g[i] \in Int
    OBVIOUS
  <2>5. SumFunctionOnSet(f, U \cup {x}) = SumFunctionOnSet(f, U) + f[x]
    BY <2>1, <2>4, SumAdds
  <2>6. SumFunctionOnSet(g, U \cup {x}) = SumFunctionOnSet(g, U) + g[x]
    BY <2>1, <2>4, SumAdds
  <2>7. SumFunctionOnSet(g, U) = SumFunctionOnSet(f, U) + Cardinality(U \cap T)
    BY <1>2
  <2>8. Cardinality((U \cup {x}) \cap T)
          = Cardinality(U \cap T) + (IF x \in T THEN 1 ELSE 0)
    <3>1. CASE x \in T
      <4>1. (U \cup {x}) \cap T = (U \cap T) \cup {x} /\ x \notin U \cap T
        BY <2>1, <3>1
      <4> QED
        BY <2>1, <3>1, <4>1, FS_AddElement
    <3>2. CASE x \notin T
      <4>1. (U \cup {x}) \cap T = U \cap T
        BY <3>2
      <4> QED
        BY <2>2, <3>2, <4>1
    <3> QED
      BY <3>1, <3>2
  <2>9. f[x] \in Int /\ g[x] = f[x] + (IF x \in T THEN 1 ELSE 0)
    OBVIOUS
  <2>10. U \cup {x} \in SUBSET S
    OBVIOUS
  <2>11. SumFunctionOnSet(g, U \cup {x})
           = SumFunctionOnSet(f, U \cup {x}) + Cardinality((U \cup {x}) \cap T)
    BY <2>2, <2>3, <2>5, <2>6, <2>7, <2>8, <2>9
  <2> QED
    BY <2>10, <2>11
<1>3. S \in P
  <2> HIDE DEF P
  <2> QED
    BY <1>1, <1>2, FiniteInduction
<1>4. S \cap T = T
  OBVIOUS
<1> QED
  BY <1>3, <1>4

\* What the emit closure was told, and what it is yet to be told, is every row
\* of the table.
DbTold ==
    /\ dbEmitted \in [rows : Nat, times : Nat]
    /\ dbEmitted.rows + db.rows = SumFunction([c \in DbIds |-> Len(dbTable[c])])
    /\ db.at = "exit" => db.rows = 0

\* Nothing is in the table and nothing has been told.
LEMMA DbToldInit == DbInit => DbTold
<1> SUFFICES ASSUME DbInit PROVE DbTold
  OBVIOUS
<1> DEFINE f == [c \in DbIds |-> Len(dbTable[c])]
<1>1. IsFiniteSet(DbIds)
  BY DbAssumption, FS_Interval DEF DbIds
<1>2. \A c \in DbIds : f[c] = 0
  BY DEF DbInit, DbNone
<1>3. DOMAIN f = DbIds
  OBVIOUS
<1> HIDE DEF f
<1> DEFINE P == {U \in SUBSET DbIds : SumFunctionOnSet(f, U) = 0}
<1>4. {} \in P
  BY SumEmpty
<1>5. ASSUME NEW U \in SUBSET DbIds, NEW x \in DbIds \ U, U \in P
      PROVE  U \cup {x} \in P
  <2>1. IsFiniteSet(U) /\ x \notin U /\ \A i \in U \cup {x} : f[i] \in Int
    BY <1>1, <1>2, FS_Subset
  <2>2. SumFunctionOnSet(f, U \cup {x}) = SumFunctionOnSet(f, U) + f[x]
    BY <2>1, SumAdds
  <2> QED
    BY <1>2, <1>5, <2>2
<1>6. DbIds \in P
  <2> HIDE DEF P
  <2> QED
    BY <1>1, <1>4, <1>5, FiniteInduction
<1>7. SumFunction(f) = 0
  BY <1>3, <1>6 DEF SumFunction
<1> QED
  BY <1>7 DEF f, DbInit, DbTold

\* Every step keeps the count.
LEMMA DbToldStep ==
    ASSUME DbInv, DbTold, [DbNext]_dbVars
    PROVE  DbTold'
<1>1. DbTypeOK /\ DriverOK /\ \A c \in DbIds : Client(c)
  BY DEF DbInv
<1>2. CASE UNCHANGED <<dbTable, db, dbEmitted>>
  BY <1>2 DEF DbTold
<1>3. CASE DbPass
  <2> DEFINE f == [c \in DbIds |-> Len(dbTable[c])]
             g == [c \in DbIds |-> Len(dbTable'[c])]
             rows == db.rows + Cardinality(DbAsking)
  <2>1. db.at = "select" /\ dbTable' = [c \in DbIds |-> dbTable[c] \o dbReq[c]]
    BY <1>3 DEF DbPass, Committed
  <2>2. IsFiniteSet(DbIds) /\ DbAsking \in SUBSET DbIds
    BY DbAssumption, FS_Interval DEF DbIds, DbAsking
  <2>3. ASSUME NEW c \in DbIds
        PROVE  f[c] \in Int /\ g[c] = f[c] + (IF c \in DbAsking THEN 1 ELSE 0)
    <3>1. dbTable[c] \in Seq(Nat) /\ dbReq[c] \in Seq(Nat)
      BY <1>1 DEF DbTypeOK
    <3>2. Len(dbTable'[c]) = Len(dbTable[c]) + Len(dbReq[c])
      BY <2>1, <3>1
    <3>3. dbReq[c] = <<>> \/ dbReq[c] = <<dbSent[c]>>
      BY <1>1, <2>1 DEF Client, InFlight, AtRest
    <3>4. Len(dbReq[c]) = IF c \in DbAsking THEN 1 ELSE 0
      <4>1. c \in DbAsking <=> dbReq[c] # <<>>
        BY DEF DbAsking
      <4>2. \A n : Len(<<n>>) = 1 /\ <<n>> # <<>>
        OBVIOUS
      <4>3. Len(<<>>) = 0
        OBVIOUS
      <4> QED
        BY <3>3, <4>1, <4>2, <4>3
    <3>5. f[c] = Len(dbTable[c]) /\ g[c] = Len(dbTable'[c]) /\ f[c] \in Int
      BY <3>1
    <3> HIDE DEF f, g
    <3> QED
      BY <3>2, <3>4, <3>5
  <2>4. DOMAIN f = DbIds /\ DOMAIN g = DbIds
    OBVIOUS
  <2> HIDE DEF f, g
  <2>5. SumFunction(g) = SumFunction(f) + Cardinality(DbAsking)
    <3>1. SumFunctionOnSet(g, DbIds)
            = SumFunctionOnSet(f, DbIds) + Cardinality(DbAsking)
      BY <2>2, <2>3, SumCounts
    <3> QED
      BY <2>4, <3>1 DEF SumFunction
  <2>6. /\ dbEmitted.rows + db.rows = SumFunction(f)
        /\ dbEmitted.rows \in Nat /\ dbEmitted.times \in Nat /\ db.rows \in Nat
        /\ dbEmitted \in [rows : Nat, times : Nat]
    BY <1>1 DEF DbTold, DbTypeOK, f
  <2>7. Cardinality(DbAsking) \in Nat
    BY DbAsksFinite
  <2>8. rows \in Nat /\ dbEmitted.rows + rows = SumFunction(g)
    BY <2>5, <2>6, <2>7
  <2> HIDE DEF rows
  <2>9. db'.at = "ack"
    BY <1>1, <1>3 DEF DbPass, DbTypeOK
  <2>10. CASE /\ db' = [db EXCEPT !.at = "ack", !.flags = DbAsking,
                                  !.closed = @ \cup DbLeaving, !.rows = rows]
              /\ dbEmitted' = dbEmitted
    <3>1. db'.rows = rows
      BY <1>1, <2>10 DEF DbTypeOK
    <3> QED
      BY <2>6, <2>8, <2>9, <2>10, <3>1 DEF DbTold, g
  <2>11. CASE /\ db' = [db EXCEPT !.at = "ack", !.flags = DbAsking,
                                  !.closed = @ \cup DbLeaving, !.rows = 0]
              /\ dbEmitted' = DbEmission(rows)
    <3>1. db'.rows = 0
      BY <1>1, <2>11 DEF DbTypeOK
    <3>2. dbEmitted'.rows = dbEmitted.rows + rows
          /\ dbEmitted' \in [rows : Nat, times : Nat]
      BY <2>6, <2>8, <2>11 DEF DbEmission
    <3>3. dbEmitted'.rows + 0 = dbEmitted.rows + rows
      BY <2>6, <2>8, <3>2
    <3> QED
      BY <2>8, <2>9, <3>1, <3>2, <3>3 DEF DbTold, g
  <2> QED
    BY <1>3, <2>10, <2>11 DEF DbPass, rows
<1>4. CASE DbPanic
  <2>1. db' = [db EXCEPT !.at = "dead"] /\ dbTable' = dbTable /\ dbEmitted' = dbEmitted
    BY <1>4 DEF DbPanic
  <2>2. db'.at = "dead" /\ db'.rows = db.rows
    BY <1>1, <2>1 DEF DbTypeOK
  <2> QED
    BY <2>1, <2>2 DEF DbTold
<1>5. CASE DbAcknowledge
  <2>1. /\ db' = [db EXCEPT !.at = "select", !.flags = {}]
        /\ dbTable' = dbTable /\ dbEmitted' = dbEmitted
    BY <1>5 DEF DbAcknowledge
  <2>2. db'.at = "select" /\ db'.rows = db.rows
    BY <1>1, <2>1 DEF DbTypeOK
  <2> QED
    BY <2>1, <2>2 DEF DbTold
<1>6. CASE DbExit
  <2>1. /\ db' = [db EXCEPT !.at = "exit", !.rows = 0] /\ dbTable' = dbTable
        /\ dbEmitted' = IF db.rows > 0 THEN DbEmission(db.rows) ELSE dbEmitted
    BY <1>6 DEF DbExit
  <2>2. db'.at = "exit" /\ db'.rows = 0 /\ db.rows \in Nat
    BY <1>1, <2>1 DEF DbTypeOK
  <2>3. /\ dbEmitted' \in [rows : Nat, times : Nat]
        /\ dbEmitted'.rows + 0 = dbEmitted.rows + db.rows
    <3>1. dbEmitted.rows \in Nat /\ dbEmitted.times \in Nat
      BY DEF DbTold
    <3>2. CASE db.rows > 0
      BY <2>1, <2>2, <3>1, <3>2 DEF DbEmission
    <3>3. CASE ~(db.rows > 0)
      BY <2>1, <2>2, <3>1, <3>3 DEF DbTold
    <3> QED
      BY <3>2, <3>3
  <2> QED
    BY <2>1, <2>2, <2>3 DEF DbTold
<1>7. ASSUME NEW c \in DbIds, DbSend(c) \/ DbReturn(c) \/ DbDrop(c)
      PROVE  UNCHANGED <<dbTable, db, dbEmitted>>
  BY <1>7 DEF DbSend, DbReturn, DbDrop
<1>8. CASE UNCHANGED dbVars
  BY <1>2, <1>8 DEF dbVars
<1> QED
  BY <1>2, <1>3, <1>4, <1>5, <1>6, <1>7, <1>8 DEF DbNext, DbDriver

-----------------------------------------------------------------------------
(* The library as a whole *)

\* Whatever an entity has in L1 or is about to install is true, and encode has
\* never returned anything else.
EntityTypes ==
    /\ at \in [Entity -> {"input", "got", "set", "acked", "flushed", "gone"}]
    /\ round \in [Entity -> Nat]
    /\ l1 \in [Entity -> Seq(Own)]
    /\ toSet \in [Entity -> Seq(Own)]
    /\ ~astray

\* Between two inputs or at work on one of them.
AtWork ==
    \A e \in Entity :
        /\ round[e] <= Len(Inputs[e])
        /\ at[e] = "got" => round[e] > 0

StdInv == /\ EntityTypes /\ AtWork
          /\ CacheInv(Own) /\ DbInv /\ DbTold /\ ConInv

\* The entities are clients of all three programs.
LEMMA Handles ==
    /\ Entity = CacheIds /\ Entity \subseteq DbIds /\ CacheTx \in DbIds
    /\ Entity \subseteq 1..Producers /\ MainHandle \in 1..Producers
    /\ CacheClients \in Nat
BY StdlibAssumption, CacheAssumption
DEF StdlibAssumption, CacheAssumption, Entity, CacheIds, DbIds, CacheTx, MainHandle

\* What is true is stored and answered truly.
LEMMA OwnEntries ==
    /\ Own \in SUBSET [key : Keys, val : Values]
    /\ Answers(Own) \subseteq TrueAnswer(Miss)
    /\ Keys = Node \ Leaf
<1>1. Keys = Node \ Leaf /\ Values = Vector
  BY StdlibAssumption DEF StdlibAssumption, Vector
<1>2. Own \in SUBSET [key : Keys, val : Values]
  BY <1>1, OwnIs DEF Entry
<1>3. ASSUME NEW p \in Answers(Own) PROVE p \in TrueAnswer(Miss)
  <2>1. /\ p \in Keys \X (Values \cup {Miss})
        /\ p[2] = Miss \/ [key |-> p[1], val |-> p[2]] \in Own
    BY <1>3 DEF Answers
  <2>2. p[2] # Miss => p[2] = p[1]
    BY <2>1, OwnIs
  <2> QED
    BY <1>1, <2>1, <2>2 DEF TrueAnswer
<1> QED
  BY <1>1, <1>2, <1>3

\* Composing from a true map.
LEMMA ComputeKeeps ==
    ASSUME EntityTypes, NEW e \in Entity, NEW n \in Node, NEW map \in Seq(Own),
           Compute(e, n, map)
    PROVE  /\ l1' \in [Entity -> Seq(Own)] /\ toSet' \in [Entity -> Seq(Own)]
           /\ ~astray'
           /\ \E next \in {"flushed", "set"} : at' = [at EXCEPT ![e] = next]
           /\ [DbNext]_dbVars
<1> DEFINE result == Computed(map, n)
<1>1. result.vector = n /\ result.computed \in Seq(Own) /\ result.l1 \in Seq(Own)
  BY ComputedTrue
<1>2. /\ l1' = [l1 EXCEPT ![e] = result.l1]
      /\ toSet' = [toSet EXCEPT ![e] = result.computed]
      /\ astray' = (astray \/ result.vector # n)
      /\ IF result.computed = <<>>
         THEN DbSend(e) /\ at' = [at EXCEPT ![e] = "flushed"]
         ELSE UNCHANGED dbVars /\ at' = [at EXCEPT ![e] = "set"]
  BY DEF Compute
<1> HIDE DEF result
<1>3. l1' \in [Entity -> Seq(Own)] /\ toSet' \in [Entity -> Seq(Own)]
  BY <1>1, <1>2 DEF EntityTypes
<1>4. ~astray'
  BY <1>1, <1>2 DEF EntityTypes
<1>5. e \in DbIds
  BY Handles
<1> QED
  BY <1>2, <1>3, <1>4, <1>5 DEF DbNext

\* An input arrives.
LEMMA BeginKeeps ==
    ASSUME EntityTypes, AtWork, NEW e \in Entity, Begin(e)
    PROVE  /\ EntityTypes' /\ AtWork'
           /\ [CacheNext(Own)]_cacheVars /\ [DbNext]_dbVars /\ UNCHANGED consoleVars
<1> DEFINE n == Inputs[e][round[e] + 1]
           walk == Misses(l1[e], n)
<1>1. /\ at[e] = "input" /\ round[e] < Len(Inputs[e])
      /\ round' = [round EXCEPT ![e] = @ + 1] /\ UNCHANGED consoleVars
      /\ IF walk.keys = <<>>
         THEN Compute(e, n, walk.l1) /\ UNCHANGED cacheVars
         ELSE /\ BatchGet(e, walk.keys)
              /\ l1' = [l1 EXCEPT ![e] = walk.l1]
              /\ at' = [at EXCEPT ![e] = "got"]
              /\ UNCHANGED <<toSet, astray, dbVars>>
  BY DEF Begin
<1>2. /\ Inputs[e] \in Seq(Node \ Leaf) /\ Len(Inputs[e]) \in Nat
      /\ round[e] \in Nat
  BY StdlibAssumption DEF StdlibAssumption, EntityTypes
<1>3. n \in Node
  <2>1. round[e] + 1 \in 1..Len(Inputs[e])
    BY <1>1, <1>2
  <2> QED
    BY <1>2, <2>1
<1>4. l1[e] \in Seq(Own)
  BY DEF EntityTypes
<1> HIDE DEF n
<1>5. walk.l1 \in Seq(Own) /\ walk.keys \in Seq(Keys)
  BY <1>3, <1>4, MissesTrue, OwnEntries
<1> HIDE DEF walk
<1>6. /\ round' \in [Entity -> Nat] /\ round'[e] = round[e] + 1
      /\ \A d \in Entity : d # e => round'[d] = round[d]
  BY <1>1, <1>2 DEF EntityTypes
<1>7. round'[e] <= Len(Inputs[e]) /\ round'[e] > 0
  BY <1>1, <1>2, <1>6
<1>8. \A d \in Entity : round'[d] <= Len(Inputs[d])
  BY <1>6, <1>7 DEF AtWork
<1>9. CASE walk.keys = <<>>
  <2>1. Compute(e, n, walk.l1) /\ UNCHANGED cacheVars
    BY <1>1, <1>9
  <2>2. /\ l1' \in [Entity -> Seq(Own)] /\ toSet' \in [Entity -> Seq(Own)]
        /\ ~astray' /\ [DbNext]_dbVars
        /\ \E next \in {"flushed", "set"} : at' = [at EXCEPT ![e] = next]
    BY <1>3, <1>5, <2>1, ComputeKeeps
  <2>3. /\ at' \in [Entity -> {"input", "got", "set", "acked", "flushed", "gone"}]
        /\ at'[e] # "got" /\ \A d \in Entity : d # e => at'[d] = at[d]
    BY <2>2 DEF EntityTypes
  <2>4. AtWork'
    BY <1>6, <1>8, <2>3 DEF AtWork
  <2> QED
    BY <1>1, <1>6, <2>1, <2>2, <2>3, <2>4 DEF EntityTypes
<1>10. CASE walk.keys # <<>>
  <2>1. /\ BatchGet(e, walk.keys)
        /\ l1' = [l1 EXCEPT ![e] = walk.l1]
        /\ at' = [at EXCEPT ![e] = "got"]
        /\ UNCHANGED <<toSet, astray, dbVars>>
    BY <1>1, <1>10
  <2>2. l1' \in [Entity -> Seq(Own)]
    BY <1>5, <2>1 DEF EntityTypes
  <2>3. /\ at' \in [Entity -> {"input", "got", "set", "acked", "flushed", "gone"}]
        /\ \A d \in Entity : d # e => at'[d] = at[d]
    BY <2>1 DEF EntityTypes
  <2>4. AtWork'
    BY <1>6, <1>7, <1>8, <2>3 DEF AtWork
  <2>5. CacheNext(Own)
    BY <1>5, <2>1, Handles DEF CacheNext
  <2> QED
    BY <1>1, <1>6, <2>1, <2>2, <2>3, <2>4, <2>5 DEF EntityTypes
<1> QED
  BY <1>9, <1>10

\* The cache has answered.
LEMMA GotKeeps ==
    ASSUME EntityTypes, AtWork, CacheInv(Own), NEW e \in Entity, Got(e)
    PROVE  /\ EntityTypes' /\ AtWork'
           /\ [CacheNext(Own)]_cacheVars /\ [DbNext]_dbVars /\ UNCHANGED consoleVars
<1> DEFINE answer == Head(caResp[e])
           map == Populate(l1[e], answer, Miss)
           n == Thought(e)
<1>1. /\ at[e] = "got" /\ CacheReturn(e) /\ Compute(e, n, map)
      /\ round' = round /\ UNCHANGED consoleVars
  BY DEF Got
<1>2. e \in CacheIds /\ caResp[e] # <<>>
  BY <1>1, Handles DEF CacheReturn
<1>3. caResp[e] \in Seq(Seq(Answers(Own)))
  BY <1>2 DEF CacheInv, CacheTypes
<1>4. answer \in Seq(Answers(Own))
  BY <1>2, <1>3
<1>5. answer \in Seq(TrueAnswer(Miss))
  BY <1>4, OwnEntries
<1>6. l1[e] \in Seq(Own)
  BY DEF EntityTypes
<1> HIDE DEF answer
<1>7. map \in Seq(Own)
  BY <1>5, <1>6, PopulateTrue
<1>8. n \in Node
  <2>1. Inputs[e] \in Seq(Node \ Leaf) /\ round[e] \in 1..Len(Inputs[e])
    BY <1>1, StdlibAssumption DEF StdlibAssumption, EntityTypes, AtWork
  <2> QED
    BY <2>1 DEF Thought
<1> HIDE DEF map, n
<1>9. /\ l1' \in [Entity -> Seq(Own)] /\ toSet' \in [Entity -> Seq(Own)]
      /\ ~astray' /\ [DbNext]_dbVars
      /\ \E next \in {"flushed", "set"} : at' = [at EXCEPT ![e] = next]
  BY <1>1, <1>7, <1>8, ComputeKeeps
<1>10. /\ at' \in [Entity -> {"input", "got", "set", "acked", "flushed", "gone"}]
       /\ at'[e] # "got" /\ \A d \in Entity : d # e => at'[d] = at[d]
  BY <1>9 DEF EntityTypes
<1>11. AtWork'
  BY <1>1, <1>10 DEF AtWork
<1>12. CacheNext(Own)
  BY <1>1, <1>2 DEF CacheNext
<1> QED
  BY <1>1, <1>9, <1>10, <1>11, <1>12 DEF EntityTypes

\* The rest of the round, and the end.
LEMMA InstallKeeps ==
    ASSUME EntityTypes, AtWork, NEW e \in Entity,
           Install(e) \/ FlushMetrics(e) \/ Flushed(e) \/ Finish(e)
    PROVE  /\ EntityTypes' /\ AtWork'
           /\ [CacheNext(Own)]_cacheVars /\ [DbNext]_dbVars
           /\ [ConsoleNext]_consoleVars
<1>0. e \in CacheIds /\ e \in DbIds /\ e \in 1..Producers
  BY Handles
<1>1. /\ astray' = astray /\ round' = round /\ l1' = l1
      /\ \E next \in {"acked", "flushed", "input", "gone"} :
            at' = [at EXCEPT ![e] = next]
      /\ toSet' = toSet \/ toSet' = [toSet EXCEPT ![e] = <<>>]
  BY DEF Install, FlushMetrics, Flushed, Finish
<1>2. /\ at' \in [Entity -> {"input", "got", "set", "acked", "flushed", "gone"}]
      /\ at'[e] # "got" /\ \A d \in Entity : d # e => at'[d] = at[d]
  BY <1>1 DEF EntityTypes
<1>3. toSet' \in [Entity -> Seq(Own)]
  <2>1. toSet \in [Entity -> Seq(Own)] /\ <<>> \in Seq(Own)
    BY DEF EntityTypes
  <2> QED
    BY <1>1, <2>1
<1>4. EntityTypes' /\ AtWork'
  BY <1>1, <1>2, <1>3 DEF EntityTypes, AtWork
<1>5. [CacheNext(Own)]_cacheVars
  <2>1. toSet[e] \in Seq(Own)
    BY DEF EntityTypes
  <2>2. CASE Install(e)
    BY <1>0, <2>1, <2>2 DEF Install, CacheNext
  <2>3. CASE FlushMetrics(e)
    BY <1>0, <2>3 DEF FlushMetrics, CacheNext
  <2>4. CASE Flushed(e)
    BY <2>4 DEF Flushed
  <2>5. CASE Finish(e)
    BY <1>0, <2>5 DEF Finish, CacheNext
  <2> QED
    BY <2>2, <2>3, <2>4, <2>5
<1>6. [DbNext]_dbVars
  BY <1>0 DEF Install, FlushMetrics, Flushed, Finish, DbNext
<1>7. [ConsoleNext]_consoleVars
  BY <1>0 DEF Install, FlushMetrics, Flushed, Finish, ConsoleNext
<1> QED
  BY <1>4, <1>5, <1>6, <1>7

\* The drivers and main leave the entities alone and step as the programs do.
LEMMA DriversKeep ==
    ASSUME CacheThread \/ DbThread \/ MailboxThread \/ ConsoleThread \/ Main
    PROVE  /\ UNCHANGED entityVars
           /\ [CacheNext(Own)]_cacheVars /\ [DbNext]_dbVars
           /\ [ConsoleNext]_consoleVars
<1>0. CacheTx \in DbIds /\ MainHandle \in 1..Producers
  BY Handles
<1>1. CASE CacheLocal
  BY <1>1 DEF CacheLocal, CacheNext
<1>2. CASE Emit
  BY <1>0, <1>2 DEF Emit, CacheNext, DbNext
<1>3. CASE EmitReturns
  BY <1>0, <1>3 DEF EmitReturns, DbNext
<1>4. CASE AfterEmit
  BY <1>0, <1>4 DEF AfterEmit, CacheNext, DbNext
<1>5. CASE DbThread
  BY <1>5 DEF DbThread, DbNext
<1>6. CASE MailboxThread
  BY <1>6 DEF MailboxThread, ConsoleNext
<1>7. CASE ConsoleThread
  BY <1>7 DEF ConsoleThread, ConsoleNext
<1>8. CASE Main
  BY <1>0, <1>8 DEF Main, ConsoleNext
<1> QED
  BY <1>1, <1>2, <1>3, <1>4, <1>5, <1>6, <1>7, <1>8 DEF CacheThread

\* The library starts within the invariant.
LEMMA StdInitInv == Init => StdInv
<1> SUFFICES ASSUME Init PROVE StdInv
  OBVIOUS
<1>1. CacheInv(Own)
  BY OwnEntries, CacheInitInv DEF Init
<1>2. DbInv /\ DbTold /\ ConInv
  BY DbInitInv, DbToldInit, ConInitInv DEF Init
<1>3. EntityTypes
  <2>1. <<>> \in Seq(Own)
    OBVIOUS
  <2> QED
    BY <2>1 DEF Init, EntityTypes
<1>4. AtWork
  <2>1. \A e \in Entity : Len(Inputs[e]) \in Nat
    BY StdlibAssumption DEF StdlibAssumption
  <2> QED
    BY <2>1 DEF Init, AtWork
<1> QED
  BY <1>1, <1>2, <1>3, <1>4 DEF StdInv

\* Every step of the library is a step of each program, or none.
LEMMA StdSteps ==
    ASSUME StdInv, [Next]_vars
    PROVE  /\ EntityTypes' /\ AtWork'
           /\ [CacheNext(Own)]_cacheVars /\ [DbNext]_dbVars
           /\ [ConsoleNext]_consoleVars
<1>1. EntityTypes /\ AtWork /\ CacheInv(Own) /\ DbInv /\ DbTold /\ ConInv
  BY DEF StdInv
<1>2. ASSUME NEW e \in Entity, Begin(e)
      PROVE  /\ EntityTypes' /\ AtWork'
             /\ [CacheNext(Own)]_cacheVars /\ [DbNext]_dbVars
             /\ [ConsoleNext]_consoleVars
  BY <1>1, <1>2, BeginKeeps
<1>3. ASSUME NEW e \in Entity, Got(e)
      PROVE  /\ EntityTypes' /\ AtWork'
             /\ [CacheNext(Own)]_cacheVars /\ [DbNext]_dbVars
             /\ [ConsoleNext]_consoleVars
  BY <1>1, <1>3, GotKeeps
<1>4. ASSUME NEW e \in Entity,
             Install(e) \/ FlushMetrics(e) \/ Flushed(e) \/ Finish(e)
      PROVE  /\ EntityTypes' /\ AtWork'
             /\ [CacheNext(Own)]_cacheVars /\ [DbNext]_dbVars
             /\ [ConsoleNext]_consoleVars
  BY <1>1, <1>4, InstallKeeps
<1>5. ASSUME UNCHANGED entityVars PROVE EntityTypes' /\ AtWork'
  BY <1>1, <1>5 DEF entityVars, EntityTypes, AtWork
<1>6. CASE CacheThread \/ DbThread \/ MailboxThread \/ ConsoleThread \/ Main
  BY <1>5, <1>6, DriversKeep
<1>7. CASE UNCHANGED vars
  BY <1>5, <1>7 DEF vars
<1> QED
  BY <1>2, <1>3, <1>4, <1>6, <1>7 DEF Next, EntityStep, Done

\* Every step of the library keeps it.
LEMMA StdStepInv == StdInv /\ [Next]_vars => StdInv'
<1> SUFFICES ASSUME StdInv, [Next]_vars PROVE StdInv'
  OBVIOUS
<1>1. EntityTypes /\ AtWork /\ CacheInv(Own) /\ DbInv /\ DbTold /\ ConInv
  BY DEF StdInv
<1>2. /\ EntityTypes' /\ AtWork'
      /\ [CacheNext(Own)]_cacheVars /\ [DbNext]_dbVars
      /\ [ConsoleNext]_consoleVars
  BY StdSteps
<1>3. CacheInv(Own)'
  BY <1>1, <1>2, OwnEntries, CacheStepKeeps
<1>4. DbInv' /\ DbTold'
  BY <1>1, <1>2, DbStepInv, DbToldStep
<1>5. ConInv'
  BY <1>1, <1>2, ConStepInv
<1> QED
  BY <1>2, <1>3, <1>4, <1>5 DEF StdInv

\* Whatever the entities encode, whatever the tiers have room for or lose, and
\* in every interleaving of the entities with the cache's driver: the vector that
\* encode returns is the thought's own (encode.rs over cache.rs).
THEOREM EncodingIsTrue == Spec => []EncodesTrue
<1>1. StdInv => EncodesTrue
  BY DEF StdInv, EntityTypes, EncodesTrue
<1> QED
  BY <1>1, StdInitInv, StdStepInv, PTL DEF Spec

\* For every capacity and any number of clients: a key whose put was acknowledged
\* to anybody before a get began is missed by it only if an eviction was counted
\* (cache.rs, the driver's two loops).
THEOREM WorkIsShared == Spec => []AnswersShared
<1>1. StdInv => AnswersShared
  BY DEF StdInv, CacheInv
<1> QED
  BY <1>1, StdInitInv, StdStepInv, PTL DEF Spec

\* What the cache's and the database's emit closures were told, and what is still
\* counted, is everything that was done; a driver that has left its loop has
\* told all of it (cache.rs and database.rs, the rate gate and the loops' ends).
THEOREM NothingUntold == Spec => []TelemetryWhole
<1>1. StdInv => TelemetryWhole
  <2>1. Counted /\ DbTold => TelemetryWhole
    BY DEF Counted, DbTold, TelemetryWhole, CacheTelemetryWhole
  <2> QED
    BY <2>1 DEF StdInv, CacheInv
<1> QED
  BY <1>1, StdInitInv, StdStepInv, PTL DEF Spec

\* Put together, the database and the console see no call and no step that they
\* were not written for: the library is an implementation of each of the two
\* beside clients that may call anything (the handles of database.rs and
\* console.rs as the threads of wat-vm.rs use them).
THEOREM ProgramsAreKept == Spec => DbSpec /\ ConsoleSpec
<1>1. Init => DbInit /\ ConsoleInit
  BY DEF Init
<1>2. StdInv /\ [Next]_vars => [DbNext]_dbVars /\ [ConsoleNext]_consoleVars
  BY StdSteps
<1> QED
  BY <1>1, <1>2, StdInitInv, StdStepInv, PTL DEF Spec, DbSpec, ConsoleSpec

\* So the database keeps its promise to the entities and to the cache's closure,
\* whatever the rest of the library does.
THEOREM StdlibCommits == Spec => []ConfirmedIsCommitted
BY ProgramsAreKept, CommitsCorrect, PTL

\* And the console its own to the entities and main.
THEOREM StdlibPrints == Spec => []ConsoleFaithful
BY ProgramsAreKept, LinesComeOut, PTL

=============================================================================
