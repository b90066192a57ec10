------------------------ MODULE IndicatorBank_proofs ------------------------
(***************************************************************************)
(* Proofs, for every set of candles, every period and every capacity, about  *)
(* the specification of module IndicatorBank.                               *)
(***************************************************************************)
EXTENDS IndicatorBank, SequenceTheorems, SumLemmas

-----------------------------------------------------------------------------
(* Arithmetic *)

LEMMA DivNat == \A a \in Nat : \A b \in Nat \ {0} : a \div b \in Nat
OBVIOUS

LEMMA MulNat == \A a, b \in Nat : a * b \in Nat
OBVIOUS

LEMMA DivBelow ==
    ASSUME NEW a \in Int, NEW b \in Nat \ {0}, NEW w \in Int, a <= b * w
    PROVE  a \div b <= w
OBVIOUS

LEMMA MulMono ==
    ASSUME NEW a \in Int, NEW b \in Int, NEW c \in Nat, a <= b
    PROVE  c * a <= c * b
OBVIOUS

\* A finite set of integers has a greatest member, which is its Max, and a
\* least, its Min.
LEMMA MaxIs ==
    ASSUME NEW S \in SUBSET Int, IsFiniteSet(S), S # {}
    PROVE  Max(S) \in S /\ \A y \in S : y <= Max(S)
<1> DEFINE P == {T \in SUBSET S : T # {} => \E x \in T : \A y \in T : x >= y}
<1>1. {} \in P
  OBVIOUS
<1>2. \A T \in SUBSET S : \A x \in S \ T : T \in P => T \cup {x} \in P
  <2> SUFFICES ASSUME NEW T \in SUBSET S, NEW x \in S \ T, T \in P
               PROVE  T \cup {x} \in P
    OBVIOUS
  <2>1. x \in Int /\ T \subseteq Int
    OBVIOUS
  <2>2. CASE T = {}
    BY <2>1, <2>2
  <2>3. CASE T # {}
    <3>1. PICK m \in T : \A y \in T : m >= y
      BY <2>3
    <3>2. CASE x >= m
      <4>1. \A y \in T \cup {x} : x >= y
        BY <2>1, <3>1, <3>2
      <4> QED
        BY <4>1
    <3>3. CASE ~(x >= m)
      <4>1. \A y \in T \cup {x} : m >= y
        BY <2>1, <3>1, <3>3
      <4> QED
        BY <3>1, <4>1
    <3> QED
      BY <3>2, <3>3
  <2> QED
    BY <2>2, <2>3
<1>3. S \in P
  <2> HIDE DEF P
  <2> QED
    BY <1>1, <1>2, FiniteInduction
<1>4. \E x \in S : \A y \in S : x >= y
  BY <1>3
<1>5. Max(S) \in S /\ \A y \in S : Max(S) >= y
  BY <1>4 DEF Max
<1> QED
  BY <1>5

LEMMA MinIs ==
    ASSUME NEW S \in SUBSET Int, IsFiniteSet(S), S # {}
    PROVE  Min(S) \in S /\ \A y \in S : Min(S) <= y
<1> DEFINE P == {T \in SUBSET S : T # {} => \E x \in T : \A y \in T : x <= y}
<1>1. {} \in P
  OBVIOUS
<1>2. \A T \in SUBSET S : \A x \in S \ T : T \in P => T \cup {x} \in P
  <2> SUFFICES ASSUME NEW T \in SUBSET S, NEW x \in S \ T, T \in P
               PROVE  T \cup {x} \in P
    OBVIOUS
  <2>1. x \in Int /\ T \subseteq Int
    OBVIOUS
  <2>2. CASE T = {}
    BY <2>1, <2>2
  <2>3. CASE T # {}
    <3>1. PICK m \in T : \A y \in T : m <= y
      BY <2>3
    <3>2. CASE x <= m
      <4>1. \A y \in T \cup {x} : x <= y
        BY <2>1, <3>1, <3>2
      <4> QED
        BY <4>1
    <3>3. CASE ~(x <= m)
      <4>1. \A y \in T \cup {x} : m <= y
        BY <2>1, <3>1, <3>3
      <4> QED
        BY <3>1, <4>1
    <3> QED
      BY <3>2, <3>3
  <2> QED
    BY <2>2, <2>3
<1>3. S \in P
  <2> HIDE DEF P
  <2> QED
    BY <1>1, <1>2, FiniteInduction
<1>4. \E x \in S : \A y \in S : x <= y
  BY <1>3
<1> QED
  BY <1>4 DEF Min

-----------------------------------------------------------------------------
(* Windows *)

\* A window of integers that holds at most its capacity.
Window == {b \in [values : Seq(Int), capacity : Nat \ {0}] :
             Len(b.values) <= b.capacity}

\* A push joins its value at the end, and drops the oldest when the window
\* was full.
LEMMA PushIs ==
    ASSUME NEW buf \in Window, NEW x \in Int
    PROVE  /\ Push(buf, x) \in Window
           /\ Push(buf, x).capacity = buf.capacity
           /\ IF Len(buf.values) < buf.capacity
              THEN /\ Push(buf, x).values = Append(buf.values, x)
                   /\ Evicted(buf) = 0
              ELSE /\ Push(buf, x).values = Tail(Append(buf.values, x))
                   /\ buf.values # <<>>
                   /\ Evicted(buf) = buf.values[1]
<1> DEFINE v == buf.values
           c == buf.capacity
           n == Len(v)
           t == Append(v, x)
<1>1. v \in Seq(Int) /\ n \in Nat /\ c \in Nat \ {0} /\ n <= c
  BY DEF Window
<1>2. t \in Seq(Int) /\ Len(t) = n + 1 /\ t # <<>>
  BY <1>1, AppendProperties
<1> DEFINE w == IF Len(t) - c > 0 THEN SubSeq(t, (Len(t) - c) + 1, Len(t))
                                  ELSE t
<1>3. Push(buf, x) = [buf EXCEPT !.values = w]
  BY DEF Push
<1> HIDE DEF w
<1>4. Push(buf, x) = [values |-> w, capacity |-> c]
  BY <1>3 DEF Window
<1>5. CASE n < c
  <2>1. ~(Len(t) - c > 0)
    BY <1>1, <1>2, <1>5
  <2>2. w = t
    BY <2>1 DEF w
  <2>3. Len(t) <= c
    BY <1>1, <1>2, <1>5
  <2>4. Evicted(buf) = 0
    BY <1>1, <1>5 DEF Evicted, Full
  <2> QED
    BY <1>1, <1>2, <1>4, <1>5, <2>2, <2>3, <2>4 DEF Window
<1>6. CASE ~(n < c)
  <2>1. n = c /\ Len(t) - c = 1 /\ (Len(t) - c) + 1 = 2
    BY <1>1, <1>2, <1>6
  <2>2. w = SubSeq(t, 2, Len(t))
    <3>1. Len(t) - c > 0 /\ (Len(t) - c) + 1 = 2
      BY <2>1
    <3> QED
      BY <3>1, Zenon DEF w
  <2>3. SubSeq(t, 2, Len(t)) = Tail(t) /\ Tail(t) \in Seq(Int)
        /\ Len(Tail(t)) = n
    <3>1. \A i \in 2..Len(t) : t[i] \in Int
      BY <1>2
    <3> DEFINE l == Len(t)
    <3>2. l \in Nat /\ l = n + 1
      BY <1>1, <1>2
    <3>3. /\ SubSeq(t, 2, l) \in Seq(Int)
          /\ Len(SubSeq(t, 2, l)) = n
          /\ \A i \in 1..n : SubSeq(t, 2, l)[i] = t[i + 1]
      BY <1>1, <1>2, <3>1, <3>2
    <3>4. /\ Tail(t) \in Seq(Int) /\ Len(Tail(t)) = n
          /\ \A i \in 1..n : Tail(t)[i] = t[i + 1]
      BY <1>1, <1>2, <3>2
    <3> DEFINE a == SubSeq(t, 2, l)
               b == Tail(t)
    <3>5. a \in Seq(Int) /\ b \in Seq(Int) /\ Len(a) = Len(b)
          /\ \A i \in 1..Len(a) : a[i] = b[i]
      BY <3>3, <3>4
    <3>6. a = b
      <4> HIDE DEF a, b
      <4> QED
        BY <3>5, SeqEqual
    <3> QED
      BY <3>4, <3>6
  <2>4. v # <<>> /\ Evicted(buf) = v[1]
    <3>1. n - 1 < n /\ n - (n - 1) = 1 /\ n > 0
      BY <1>1, <2>1
    <3>2. Full(buf)
      BY <1>1, <2>1 DEF Full
    <3>3. v # <<>>
      BY <3>1
    <3> QED
      BY <3>1, <3>2, <3>3 DEF Evicted, Get
  <2>5. w \in Seq(Int) /\ Len(w) <= c /\ w = Tail(t)
    BY <1>1, <2>1, <2>2, <2>3
  <2> HIDE DEF t
  <2>6. Push(buf, x) \in Window
    BY <1>1, <1>4, <2>5 DEF Window
  <2> QED
    BY <1>4, <1>6, <2>4, <2>5, <2>6 DEF t
<1> QED
  BY <1>5, <1>6

\* Peek and subtract: what the caller subtracts is what the push drops.
LEMMA PushSum ==
    ASSUME NEW buf \in Window, NEW x \in Int
    PROVE  SumOf(Push(buf, x).values) = (SumOf(buf.values) - Evicted(buf)) + x
<1> DEFINE v == buf.values
           t == Append(v, x)
<1>1. v \in Seq(Int) /\ t \in Seq(Int)
  BY DEF Window
<1>2. SumOf(t) = SumOf(v) + x /\ SumOf(v) \in Int
  BY <1>1, SeqSumAppends, SeqSumInts DEF SumOf
<1>3. CASE Len(v) < buf.capacity
  <2>1. Push(buf, x).values = t /\ Evicted(buf) = 0
    BY <1>3, PushIs
  <2> QED
    BY <1>2, <2>1
<1>4. CASE ~(Len(v) < buf.capacity)
  <2>1. Push(buf, x).values = Tail(t) /\ v # <<>> /\ Evicted(buf) = v[1]
    BY <1>4, PushIs
  <2>2. t # <<>> /\ t[1] = v[1] /\ v[1] \in Int
    BY <1>1, <2>1, AppendProperties
  <2>3. SumOf(Tail(t)) = SumOf(t) - t[1]
    <3> HIDE DEF t
    <3> QED
      BY <1>1, <2>2, SeqSumTail DEF SumOf
  <2> QED
    BY <1>2, <2>1, <2>2, <2>3
<1> QED
  BY <1>3, <1>4

\* A window of the last values of what was fed stays one when both get the
\* next value.
LEMMA PushLast ==
    ASSUME NEW buf \in Window, NEW x \in Int, NEW fed \in Seq(Int),
           buf.values = LastOf(fed, buf.capacity)
    PROVE  Push(buf, x).values = LastOf(Append(fed, x), buf.capacity)
<1> DEFINE v == buf.values
           c == buf.capacity
           n == Len(fed)
           more == Append(fed, x)
           m == Positive(n - c)
           k == Positive((n + 1) - c)
<1>1. /\ v \in Seq(Int) /\ c \in Nat \ {0} /\ n \in Nat
      /\ more \in Seq(Int) /\ Len(more) = n + 1
      /\ \A i \in 1..n : more[i] = fed[i]
      /\ more[n + 1] = x
  BY AppendProperties DEF Window
<1>2. m \in Nat /\ k \in Nat /\ m <= n /\ k <= n
  BY <1>1 DEF Positive
<1>3. /\ v = SubSeq(fed, m + 1, n)
      /\ LastOf(more, c) = SubSeq(more, k + 1, n + 1)
  BY <1>1 DEF LastOf
<1> HIDE DEF m, k, n, more
<1>4. Len(v) = n - m /\ \A i \in 1..(n - m) : v[i] = fed[i + m]
  <2>1. fed \in Seq(Int) /\ n = Len(fed)
    BY DEF n
  <2> QED
    BY <1>2, <1>3, <2>1
<1>5. /\ LastOf(more, c) \in Seq(Int) /\ Len(LastOf(more, c)) = (n + 1) - k
      /\ \A i \in 1..((n + 1) - k) : LastOf(more, c)[i] = more[i + k]
  BY <1>1, <1>2, <1>3
<1> DEFINE p == Push(buf, x).values
<1>6. p \in Seq(Int)
  BY PushIs DEF Window
<1>7. CASE Len(v) < c
  <2>1. p = Append(v, x)
    BY <1>7, PushIs
  <2>2. m = 0 /\ k = 0
    BY <1>1, <1>2, <1>4, <1>7 DEF m, k, Positive
  <2>3. Len(p) = n + 1 /\ \A i \in 1..(n + 1) : p[i] = IF i = n + 1 THEN x ELSE v[i]
    <3>1. Len(v) = n
      BY <1>1, <1>4, <2>2
    <3> QED
      BY <1>1, <2>1, <3>1, AppendProperties
  <2> HIDE DEF p
  <2>4. \A i \in 1..(n + 1) : p[i] = more[i + k]
    <3> TAKE i \in 1..(n + 1)
    <3>1. i + k = i
      BY <1>1, <2>2
    <3>2. CASE i = n + 1
      BY <1>1, <2>3, <3>1, <3>2
    <3>3. CASE i # n + 1
      <4>1. i \in 1..n /\ i \in 1..(n - m) /\ i + m = i
        BY <1>1, <2>2, <3>3
      <4> QED
        BY <1>1, <1>4, <2>3, <3>1, <3>3, <4>1
    <3> QED
      BY <3>2, <3>3
  <2>5. (n + 1) - k = n + 1
    BY <1>1, <2>2
  <2>6. p = LastOf(more, c)
    <3> DEFINE q == LastOf(more, c)
    <3>1. q \in Seq(Int) /\ Len(q) = Len(p) /\ \A i \in 1..Len(p) : p[i] = q[i]
      BY <1>5, <2>3, <2>4, <2>5
    <3> HIDE DEF q
    <3>2. p = q
      BY <1>6, <3>1, SeqEqual
    <3> QED
      BY <3>2 DEF q
  <2> QED
    BY <2>6 DEF p, more
<1>8. CASE ~(Len(v) < c)
  <2>1. p = Tail(Append(v, x))
    BY <1>8, PushIs
  <2>2. Len(v) <= c
    BY DEF Window
  <2>3. Len(v) = c /\ k = m + 1 /\ (n + 1) - k = n - m /\ n - m > 0
    <3>1. Len(v) = c /\ n - m = c
      BY <1>1, <1>2, <1>4, <1>8, <2>2
    <3>2. n >= c
      BY <1>1, <1>2, <3>1
    <3>3. m = n - c /\ k = (n + 1) - c
      BY <1>1, <3>2 DEF m, k, Positive
    <3>4. c \in Int /\ c > 0 /\ n \in Int
      BY <1>1
    <3> HIDE DEF c
    <3>5. k = m + 1
      BY <3>3, <3>4
    <3>6. (n + 1) - k = n - m
      BY <3>3, <3>4
    <3> QED
      BY <3>1, <3>4, <3>5, <3>6
  <2>4. Len(p) = n - m
        /\ \A i \in 1..(n - m) : p[i] = IF i = n - m THEN x ELSE v[i + 1]
    <3> DEFINE l == n - m
               t == Append(v, x)
    <3>1. Len(v) = l /\ l \in Nat
      BY <1>1, <1>2, <1>4
    <3> HIDE DEF l
    <3>2. /\ t \in Seq(Int) /\ Len(t) = l + 1 /\ t[l + 1] = x
          /\ \A i \in 1..l : t[i] = v[i]
      <4>1. /\ t \in Seq(Int) /\ Len(t) = Len(v) + 1 /\ t[Len(v) + 1] = x
            /\ \A i \in 1..Len(v) : t[i] = v[i]
        BY <1>1, AppendProperties
      <4> HIDE DEF t, v
      <4> QED
        BY <3>1, <4>1
    <3> HIDE DEF t
    <3>3. /\ Len(Tail(t)) = l /\ \A i \in 1..l : Tail(t)[i] = t[i + 1]
      BY <3>1, <3>2
    <3>4. \A i \in 1..l : Tail(t)[i] = IF i = l THEN x ELSE v[i + 1]
      <4> TAKE i \in 1..l
      <4>1. i # l => i + 1 \in 1..l
        BY <3>1
      <4> QED
        BY <3>2, <3>3, <4>1
    <3> QED
      BY <2>1, <3>3, <3>4 DEF l, t
  <2> HIDE DEF p
  <2>5. \A i \in 1..(n - m) : p[i] = more[i + k]
    <3> TAKE i \in 1..(n - m)
    <3>1. CASE i = n - m
      <4>1. i + k = n + 1
        BY <1>1, <1>2, <2>3, <3>1
      <4> QED
        BY <1>1, <2>4, <3>1, <4>1
    <3>2. CASE i # n - m
      <4>1. i + 1 \in 1..(n - m) /\ (i + 1) + m = i + k /\ i + k \in 1..n
        BY <1>1, <1>2, <2>3, <3>2
      <4> QED
        BY <1>1, <1>4, <2>4, <3>2, <4>1
    <3> QED
      BY <3>1, <3>2
  <2>6. p = LastOf(more, c)
    <3> DEFINE q == LastOf(more, c)
    <3>1. q \in Seq(Int) /\ Len(q) = Len(p) /\ \A i \in 1..Len(p) : p[i] = q[i]
      BY <1>5, <2>3, <2>4, <2>5
    <3> HIDE DEF q
    <3>2. p = q
      BY <1>6, <3>1, SeqEqual
    <3> QED
      BY <3>2 DEF q
  <2> QED
    BY <2>6 DEF p, more
<1> QED
  BY <1>7, <1>8

\* A window with its running sum, of the last values of what was fed.
Rolls(buf, sum, fed, capacity) ==
    /\ buf \in Window /\ buf.capacity = capacity /\ sum \in Int
    /\ IsRolling(buf, sum, fed)

LEMMA RollsOn ==
    ASSUME NEW buf, NEW sum, NEW fed \in Seq(Int), NEW capacity, NEW x \in Int,
           Rolls(buf, sum, fed, capacity)
    PROVE  Rolls(Push(buf, x), (sum - Evicted(buf)) + x, Append(fed, x), capacity)
<1>1. /\ buf \in Window /\ buf.capacity = capacity /\ sum \in Int
      /\ buf.values = LastOf(fed, capacity) /\ sum = SumOf(buf.values)
  BY DEF Rolls, IsRolling
<1>2. Push(buf, x) \in Window /\ Push(buf, x).capacity = capacity
  BY <1>1, PushIs
<1>3. Push(buf, x).values = LastOf(Append(fed, x), capacity)
  BY <1>1, PushLast
<1>4. SumOf(Push(buf, x).values) = (sum - Evicted(buf)) + x
  BY <1>1, PushSum
<1>5. SumOf(Push(buf, x).values) \in Int
  BY <1>2, SeqSumInts DEF SumOf, Window
<1> QED
  BY <1>2, <1>3, <1>4, <1>5 DEF Rolls, IsRolling

\* An empty window is the last of nothing.
LEMMA RollsEmpty ==
    ASSUME NEW capacity \in Nat \ {0}
    PROVE  Rolls(RingBuffer(capacity), 0, <<>>, capacity)
<1>1. RingBuffer(capacity) = [values |-> <<>>, capacity |-> capacity]
  BY DEF RingBuffer
<1>2. Len(<<>>) = 0 /\ <<>> \in Seq(Int) /\ DOMAIN <<>> = {}
  OBVIOUS
<1>3. LastOf(<<>>, capacity) = <<>>
  <2>1. Positive(0 - capacity) = 0
    BY DEF Positive
  <2>2. SubSeq(<<>>, 0 + 1, 0) = <<>>
    OBVIOUS
  <2> QED
    BY <1>2, <2>1, <2>2 DEF LastOf
<1>4. SumOf(<<>>) = 0
  BY <1>2, SumEmpty DEF SumOf, SumFunction
<1>5. RingBuffer(capacity) \in Window
  BY <1>1, <1>2 DEF Window
<1> QED
  BY <1>1, <1>3, <1>4, <1>5 DEF Rolls, IsRolling

\* What stands where after a push.
LEMMA PushPoints ==
    ASSUME NEW buf \in Window, NEW x \in Int
    PROVE  LET n == Len(buf.values)
               drop == IF n < buf.capacity THEN 0 ELSE 1
               p == Push(buf, x).values
           IN  /\ p \in Seq(Int) /\ Len(p) = (n + 1) - drop
               /\ DOMAIN p = 1..Len(p)
               /\ \A i \in 1..Len(p) :
                     p[i] = IF i + drop <= n THEN buf.values[i + drop] ELSE x
<1> DEFINE v == buf.values
           n == Len(v)
           t == Append(v, x)
           p == Push(buf, x).values
<1>1. v \in Seq(Int) /\ n \in Nat
  BY DEF Window
<1>2. /\ t \in Seq(Int) /\ Len(t) = n + 1 /\ t[n + 1] = x
      /\ \A i \in 1..n : t[i] = v[i]
  BY <1>1, AppendProperties
<1>3. p \in Seq(Int) /\ DOMAIN p = 1..Len(p)
  <2>1. p \in Seq(Int)
    BY PushIs DEF Window
  <2> HIDE DEF p
  <2> QED
    BY <2>1
<1>4. CASE n < buf.capacity
  <2>1. p = t
    BY <1>4, PushIs
  <2> HIDE DEF p, t, n
  <2>2. \A i \in 1..(n + 1) : p[i] = IF i + 0 <= n THEN v[i + 0] ELSE x
    <3> TAKE i \in 1..(n + 1)
    <3>1. i + 0 = i /\ (i <= n => i \in 1..n) /\ (~(i <= n) => i = n + 1)
      BY <1>1
    <3> QED
      BY <1>2, <2>1, <3>1
  <2>3. Len(p) = (n + 1) - 0 /\ (n + 1) - 0 = n + 1
    BY <1>1, <1>2, <2>1
  <2> QED
    BY <1>3, <1>4, <2>2, <2>3 DEF p, n
<1>5. CASE ~(n < buf.capacity)
  <2>1. p = Tail(t)
    BY <1>5, PushIs
  <2> HIDE DEF p, t, n
  <2>2. Len(p) = n /\ \A i \in 1..n : p[i] = t[i + 1]
    BY <1>1, <1>2, <2>1
  <2>3. \A i \in 1..n : p[i] = IF i + 1 <= n THEN v[i + 1] ELSE x
    <3> TAKE i \in 1..n
    <3>1. (i + 1 <= n => i + 1 \in 1..n) /\ (~(i + 1 <= n) => i + 1 = n + 1)
      BY <1>1
    <3> QED
      BY <1>2, <2>2, <3>1
  <2>4. (n + 1) - 1 = n
    BY <1>1
  <2> QED
    BY <1>3, <1>5, <2>2, <2>3, <2>4 DEF p, n
<1> QED
  BY <1>4, <1>5

LEMMA SquareType == \A x \in Int : Square(x) \in Int
BY DEF Square

\* The squares of a window are a window that is pushed the squares.
Squares(v) == [i \in DOMAIN v |-> Square(v[i])]

LEMMA SquaresRoll ==
    ASSUME NEW buf \in Window, NEW x \in Int
    PROVE  SumOf(Squares(Push(buf, x).values))
             = (SumOf(Squares(buf.values)) - Square(Evicted(buf))) + Square(x)
<1> DEFINE v == buf.values
           n == Len(v)
           drop == IF n < buf.capacity THEN 0 ELSE 1
           p == Push(buf, x).values
           sq == [values |-> Squares(v), capacity |-> buf.capacity]
           w == Squares(v)
           y == Square(x)
           q == Push(sq, y).values
<1>1. /\ v \in Seq(Int) /\ n \in Nat /\ buf.capacity \in Nat \ {0}
      /\ n <= buf.capacity /\ DOMAIN v = 1..n /\ \A i \in 1..n : v[i] \in Int
  BY DEF Window
<1>2. /\ w \in Seq(Int) /\ Len(w) = n /\ \A i \in 1..n : w[i] = Square(v[i])
  <2>1. w = [i \in 1..n |-> Square(v[i])]
    BY <1>1 DEF Squares
  <2>2. \A i \in 1..n : Square(v[i]) \in Int
    BY <1>1, SquareType
  <2> HIDE DEF w, n
  <2> QED
    BY <1>1, <2>1, <2>2
<1>3. sq \in Window /\ sq.values = w /\ sq.capacity = buf.capacity
  BY <1>1, <1>2 DEF Window
<1>4. y \in Int
  BY SquareType
<1>5. /\ p \in Seq(Int) /\ Len(p) = (n + 1) - drop /\ DOMAIN p = 1..Len(p)
      /\ \A i \in 1..Len(p) : p[i] = IF i + drop <= n THEN v[i + drop] ELSE x
  BY PushPoints
<1>6. /\ q \in Seq(Int) /\ Len(q) = (n + 1) - drop /\ DOMAIN q = 1..Len(q)
      /\ \A i \in 1..Len(q) : q[i] = IF i + drop <= n THEN w[i + drop] ELSE y
  <2> HIDE DEF sq, w, y
  <2> DEFINE l == Len(sq.values)
             d == IF l < sq.capacity THEN 0 ELSE 1
  <2>1. /\ q \in Seq(Int) /\ Len(q) = (l + 1) - d /\ DOMAIN q = 1..Len(q)
        /\ \A i \in 1..Len(q) : q[i] = IF i + d <= l THEN sq.values[i + d] ELSE y
    BY <1>3, <1>4, PushPoints
  <2>2. l = n /\ d = drop
    BY <1>2, <1>3
  <2> HIDE DEF l, d, n, drop, q
  <2> QED
    BY <1>3, <2>1, <2>2
<1>7. drop \in {0, 1}
  OBVIOUS
<1> HIDE DEF p, q, w, n, drop
<1>8. Squares(p) = q
  <2>1. Squares(p) = [i \in 1..Len(p) |-> Square(p[i])]
    BY <1>5 DEF Squares
  <2>2. q = [i \in 1..Len(p) |-> q[i]]
    BY <1>5, <1>6
  <2>3. ASSUME NEW i \in 1..Len(p) PROVE Square(p[i]) = q[i]
    <3>1. i \in 1..Len(q) /\ i \in Nat /\ i >= 1
      BY <1>5, <1>6
    <3>2. CASE i + drop <= n
      <4>1. i + drop \in 1..n
        BY <1>1, <1>7, <3>1, <3>2
      <4>2. p[i] = v[i + drop] /\ q[i] = w[i + drop]
        BY <1>5, <1>6, <3>1, <3>2
      <4> QED
        BY <1>2, <4>1, <4>2
    <3>3. CASE ~(i + drop <= n)
      BY <1>5, <1>6, <3>1, <3>3
    <3> QED
      BY <3>2, <3>3
  <2> QED
    BY <2>1, <2>2, <2>3
<1>9. SumOf(q) = (SumOf(w) - Evicted(sq)) + y
  BY <1>3, <1>4, PushSum DEF q
<1>10. Evicted(sq) = Square(Evicted(buf))
  <2>1. CASE n < buf.capacity
    <3>1. Evicted(sq) = 0 /\ Evicted(buf) = 0
      BY <1>2, <1>3, <1>4, <2>1, PushIs DEF n
    <3> QED
      BY <3>1 DEF Square
  <2>2. CASE ~(n < buf.capacity)
    <3>1. Evicted(sq) = w[1] /\ Evicted(buf) = v[1]
      <4>1. Len(sq.values) = n /\ sq.capacity = buf.capacity
        BY <1>2, <1>3
      <4>2. Evicted(sq) = sq.values[1]
        <5> HIDE DEF sq
        <5> QED
          BY <1>3, <1>4, <2>2, <4>1, PushIs
      <4>3. Evicted(buf) = v[1]
        BY <2>2, PushIs DEF n
      <4> QED
        BY <1>3, <4>2, <4>3
    <3>2. 1 \in 1..n
      BY <1>1, <2>2
    <3> QED
      BY <1>2, <3>1, <3>2
  <2> QED
    BY <2>1, <2>2
<1> QED
  BY <1>8, <1>9, <1>10 DEF p, w

-----------------------------------------------------------------------------
(* What the candles feed *)

LEMMA CandleType ==
    ASSUME NEW k \in Candle
    PROVE  /\ k.high \in Nat /\ k.low \in Nat /\ k.volume \in Nat
           /\ k.close \in Price /\ k.close \in Nat
           /\ k.low <= k.close /\ k.close <= k.high
           /\ TypicalPrice(k) \in Nat /\ FlowOf(k) \in Nat
<1>1. /\ k.high \in Nat /\ k.low \in Nat /\ k.volume \in Nat
      /\ k.close \in Price /\ k.low <= k.close /\ k.close <= k.high
  BY BankAssumption DEF BankAssumption
<1>2. k.close \in Nat
  BY <1>1, PhaseAssumption DEF PhaseAssumption
<1>3. TypicalPrice(k) \in Nat
  BY <1>1, <1>2 DEF TypicalPrice
<1>4. FlowOf(k) \in Nat
  BY <1>1, <1>3 DEF FlowOf
<1> QED
  BY <1>1, <1>2, <1>3, <1>4

\* What a function makes of a candle more.
LEMMA MapAppends ==
    ASSUME NEW s \in Seq(Candle), NEW k \in Candle,
           NEW f, \A c \in Candle : f[c] \in Int
    PROVE  LET t == Append(s, k)
               old == [i \in DOMAIN s |-> f[s[i]]]
           IN  old \in Seq(Int) /\ [i \in DOMAIN t |-> f[t[i]]] = Append(old, f[k])
<1> DEFINE n == Len(s)
           t == Append(s, k)
           old == [i \in DOMAIN s |-> f[s[i]]]
           new == [i \in DOMAIN t |-> f[t[i]]]
           more == Append(old, f[k])
<1>1. n \in Nat /\ DOMAIN s = 1..n /\ \A i \in 1..n : s[i] \in Candle
  OBVIOUS
<1>2. /\ DOMAIN t = 1..(n + 1) /\ t[n + 1] = k
      /\ \A i \in 1..n : t[i] = s[i]
  BY <1>1, AppendProperties
<1> HIDE DEF t, n
<1>3. old \in Seq(Int) /\ Len(old) = n /\ \A i \in 1..n : old[i] = f[s[i]]
  <2>1. old = [i \in 1..n |-> f[s[i]]]
    BY <1>1
  <2>2. \A i \in 1..n : f[s[i]] \in Int
    BY <1>1
  <2> HIDE DEF old
  <2> QED
    BY <1>1, <2>1, <2>2
<1> HIDE DEF old
<1>4. /\ more \in Seq(Int) /\ Len(more) = n + 1 /\ more[n + 1] = f[k]
      /\ \A i \in 1..n : more[i] = old[i]
  BY <1>3, AppendProperties
<1>5. \A i \in 1..(n + 1) : f[t[i]] = more[i]
  <2> TAKE i \in 1..(n + 1)
  <2>1. CASE i = n + 1
    BY <1>2, <1>4, <2>1
  <2>2. CASE i # n + 1
    <3>1. i \in 1..n
      BY <1>1, <2>2
    <3> QED
      BY <1>2, <1>3, <1>4, <3>1
  <2> QED
    BY <2>1, <2>2
<1>6. more = [i \in 1..(n + 1) |-> more[i]]
  <2> HIDE DEF more
  <2> QED
    BY <1>4
<1>7. new = more
  <2>1. new = [i \in 1..(n + 1) |-> f[t[i]]]
    BY <1>2
  <2> HIDE DEF more
  <2> QED
    BY <1>5, <1>6, <2>1
<1> QED
  BY <1>3, <1>7 DEF old, t

LEMMA FedGrows ==
    ASSUME candles \in Seq(Candle), NEW k \in Candle, candles' = Append(candles, k)
    PROVE  /\ Fed(CloseOf) \in Seq(Int)
           /\ Fed(CloseOf)' = Append(Fed(CloseOf), k.close)
           /\ Fed(TypicalPrice) \in Seq(Int)
           /\ Fed(TypicalPrice)' = Append(Fed(TypicalPrice), TypicalPrice(k))
           /\ Fed(VolumeOf) \in Seq(Int)
           /\ Fed(VolumeOf)' = Append(Fed(VolumeOf), k.volume)
           /\ Fed(FlowOf) \in Seq(Int)
           /\ Fed(FlowOf)' = Append(Fed(FlowOf), FlowOf(k))
<1> DEFINE s == candles
           t == Append(candles, k)
<1>1. /\ s \in Seq(Candle) /\ \A i \in DOMAIN s : s[i] \in Candle
      /\ \A i \in DOMAIN t : t[i] \in Candle
  <2>1. t \in Seq(Candle)
    OBVIOUS
  <2> HIDE DEF t
  <2> QED
    BY <2>1
<1>2. /\ Fed(CloseOf) \in Seq(Int)
      /\ Fed(CloseOf)' = Append(Fed(CloseOf), k.close)
  <2> DEFINE f == [c \in Candle |-> c.close]
  <2>1. \A c \in Candle : f[c] \in Int /\ f[c] = c.close
    BY CandleType
  <2>2. Fed(CloseOf) = [i \in DOMAIN s |-> f[s[i]]]
    BY <1>1, <2>1 DEF Fed, CloseOf
  <2>3. Fed(CloseOf)' = [i \in DOMAIN t |-> f[t[i]]]
    BY <1>1, <2>1 DEF Fed, CloseOf
  <2> HIDE DEF f
  <2> QED
    BY <1>1, <2>1, <2>2, <2>3, MapAppends
<1>3. /\ Fed(TypicalPrice) \in Seq(Int)
      /\ Fed(TypicalPrice)' = Append(Fed(TypicalPrice), TypicalPrice(k))
  <2> DEFINE f == [c \in Candle |-> TypicalPrice(c)]
  <2>1. \A c \in Candle : f[c] \in Int /\ f[c] = TypicalPrice(c)
    BY CandleType
  <2>2. Fed(TypicalPrice) = [i \in DOMAIN s |-> f[s[i]]]
    BY <1>1, <2>1 DEF Fed
  <2>3. Fed(TypicalPrice)' = [i \in DOMAIN t |-> f[t[i]]]
    BY <1>1, <2>1 DEF Fed
  <2>4. f[k] = TypicalPrice(k)
    BY <2>1
  <2> HIDE DEF f
  <2>5. /\ [i \in DOMAIN s |-> f[s[i]]] \in Seq(Int)
        /\ [i \in DOMAIN t |-> f[t[i]]] = Append([i \in DOMAIN s |-> f[s[i]]], f[k])
    BY <1>1, <2>1, MapAppends
  <2> QED
    BY <2>2, <2>3, <2>4, <2>5, Zenon
<1>4. /\ Fed(VolumeOf) \in Seq(Int)
      /\ Fed(VolumeOf)' = Append(Fed(VolumeOf), k.volume)
  <2> DEFINE f == [c \in Candle |-> c.volume]
  <2>1. \A c \in Candle : f[c] \in Int /\ f[c] = c.volume
    BY CandleType
  <2>2. Fed(VolumeOf) = [i \in DOMAIN s |-> f[s[i]]]
    BY <1>1, <2>1 DEF Fed, VolumeOf
  <2>3. Fed(VolumeOf)' = [i \in DOMAIN t |-> f[t[i]]]
    BY <1>1, <2>1 DEF Fed, VolumeOf
  <2> HIDE DEF f
  <2> QED
    BY <1>1, <2>1, <2>2, <2>3, MapAppends
<1>5. /\ Fed(FlowOf) \in Seq(Int)
      /\ Fed(FlowOf)' = Append(Fed(FlowOf), FlowOf(k))
  <2> DEFINE f == [c \in Candle |-> FlowOf(c)]
  <2>1. \A c \in Candle : f[c] \in Int /\ f[c] = FlowOf(c)
    BY CandleType
  <2>2. Fed(FlowOf) = [i \in DOMAIN s |-> f[s[i]]]
    BY <1>1, <2>1 DEF Fed
  <2>3. Fed(FlowOf)' = [i \in DOMAIN t |-> f[t[i]]]
    BY <1>1, <2>1 DEF Fed
  <2>4. f[k] = FlowOf(k)
    BY <2>1
  <2> HIDE DEF f
  <2>5. /\ [i \in DOMAIN s |-> f[s[i]]] \in Seq(Int)
        /\ [i \in DOMAIN t |-> f[t[i]]] = Append([i \in DOMAIN s |-> f[s[i]]], f[k])
    BY <1>1, <2>1, MapAppends
  <2> QED
    BY <2>2, <2>3, <2>4, <2>5, Zenon
<1> QED
  BY <1>2, <1>3, <1>4, <1>5

LEMMA FedNothing ==
    ASSUME candles = <<>>
    PROVE  /\ Fed(CloseOf) = <<>> /\ Fed(TypicalPrice) = <<>>
           /\ Fed(VolumeOf) = <<>> /\ Fed(FlowOf) = <<>>
<1>1. DOMAIN candles = {} /\ DOMAIN <<>> = {}
  OBVIOUS
<1>2. \A f : f = [i \in {} |-> f[i]] => f = <<>>
  OBVIOUS
<1> QED
  BY <1>1, <1>2 DEF Fed

-----------------------------------------------------------------------------
(* The money flow windows *)

Flows(pos, neg) == [i \in DOMAIN pos |-> pos[i] + neg[i]]

\* Two windows of one capacity and length, pushed together, add up to the
\* window of the sums.
LEMMA FlowsRoll ==
    ASSUME NEW pos \in Window, NEW neg \in Window, NEW a \in Int, NEW b \in Int,
           NEW fed \in Seq(Int), pos.capacity = neg.capacity,
           Len(pos.values) = Len(neg.values),
           Flows(pos.values, neg.values) = LastOf(fed, pos.capacity)
    PROVE  /\ Flows(Push(pos, a).values, Push(neg, b).values)
                = LastOf(Append(fed, a + b), pos.capacity)
           /\ Len(Push(pos, a).values) = Len(Push(neg, b).values)
<1> DEFINE v == pos.values
           w == neg.values
           c == pos.capacity
           n == Len(v)
           drop == IF n < c THEN 0 ELSE 1
           f == Flows(v, w)
           both == [values |-> f, capacity |-> c]
           x == a + b
           p == Push(pos, a).values
           r == Push(neg, b).values
           q == Push(both, x).values
<1>1. /\ v \in Seq(Int) /\ w \in Seq(Int) /\ n \in Nat /\ c \in Nat \ {0}
      /\ n <= c /\ DOMAIN v = 1..n /\ Len(w) = n
      /\ \A i \in 1..n : v[i] \in Int /\ w[i] \in Int
  BY DEF Window
<1>2. f \in Seq(Int) /\ Len(f) = n /\ \A i \in 1..n : f[i] = v[i] + w[i]
  <2>1. f = [i \in 1..n |-> v[i] + w[i]]
    BY <1>1 DEF Flows
  <2>2. \A i \in 1..n : v[i] + w[i] \in Int
    BY <1>1
  <2> HIDE DEF f, n, v, w
  <2> QED
    BY <1>1, <2>1, <2>2
<1>3. /\ both \in Window /\ both.values = f /\ both.capacity = c /\ x \in Int
      /\ both.values = LastOf(fed, both.capacity)
  BY <1>1, <1>2 DEF Window
<1>4. /\ p \in Seq(Int) /\ Len(p) = (n + 1) - drop /\ DOMAIN p = 1..Len(p)
      /\ \A i \in 1..Len(p) : p[i] = IF i + drop <= n THEN v[i + drop] ELSE a
  BY PushPoints
<1>5. /\ r \in Seq(Int) /\ Len(r) = (n + 1) - drop
      /\ \A i \in 1..Len(r) : r[i] = IF i + drop <= n THEN w[i + drop] ELSE b
  <2> DEFINE l == Len(neg.values)
             d == IF l < neg.capacity THEN 0 ELSE 1
  <2>1. /\ r \in Seq(Int) /\ Len(r) = (l + 1) - d
        /\ \A i \in 1..Len(r) : r[i] = IF i + d <= l THEN w[i + d] ELSE b
    BY PushPoints
  <2>2. l = n /\ d = drop
    BY <1>1
  <2> HIDE DEF l, d, n, drop, r, w
  <2> QED
    BY <2>1, <2>2
<1>6. /\ q \in Seq(Int) /\ Len(q) = (n + 1) - drop /\ DOMAIN q = 1..Len(q)
      /\ \A i \in 1..Len(q) : q[i] = IF i + drop <= n THEN f[i + drop] ELSE x
  <2> HIDE DEF both, f, x
  <2> DEFINE l == Len(both.values)
             d == IF l < both.capacity THEN 0 ELSE 1
  <2>1. /\ q \in Seq(Int) /\ Len(q) = (l + 1) - d /\ DOMAIN q = 1..Len(q)
        /\ \A i \in 1..Len(q) : q[i] = IF i + d <= l THEN both.values[i + d] ELSE x
    BY <1>3, PushPoints
  <2>2. l = n /\ d = drop
    BY <1>2, <1>3
  <2> HIDE DEF l, d, n, drop, q
  <2> QED
    BY <1>3, <2>1, <2>2
<1>7. q = LastOf(Append(fed, x), c)
  <2> HIDE DEF both, f, x
  <2> QED
    BY <1>3, PushLast
<1>8. drop \in {0, 1}
  OBVIOUS
<1> HIDE DEF p, q, r, f, v, w, n, drop
<1>9. Flows(p, r) = q
  <2>1. Flows(p, r) = [i \in 1..Len(p) |-> p[i] + r[i]]
    BY <1>4 DEF Flows
  <2>2. q = [i \in 1..Len(p) |-> q[i]]
    BY <1>4, <1>6
  <2>3. ASSUME NEW i \in 1..Len(p) PROVE p[i] + r[i] = q[i]
    <3>1. i \in 1..Len(q) /\ i \in 1..Len(r) /\ i \in Nat /\ i >= 1
      BY <1>4, <1>5, <1>6
    <3>2. CASE i + drop <= n
      <4>1. i + drop \in 1..n
        BY <1>1, <1>8, <3>1, <3>2
      <4>2. p[i] = v[i + drop] /\ r[i] = w[i + drop] /\ q[i] = f[i + drop]
        BY <1>4, <1>5, <1>6, <3>1, <3>2
      <4> QED
        BY <1>2, <4>1, <4>2
    <3>3. CASE ~(i + drop <= n)
      BY <1>4, <1>5, <1>6, <3>1, <3>3
    <3> QED
      BY <3>2, <3>3
  <2> QED
    BY <2>1, <2>2, <2>3
<1> QED
  BY <1>4, <1>5, <1>7, <1>9 DEF p, r

\* Between them the two windows hold each flow but the first candle's once.
MfiTrue(mfi, fed, capacity) ==
    /\ mfi.pos \in Window /\ mfi.neg \in Window
    /\ mfi.pos.capacity = capacity /\ mfi.neg.capacity = capacity
    /\ Len(mfi.pos.values) = Len(mfi.neg.values)
    /\ \A i \in 1..Len(mfi.pos.values) :
          /\ mfi.pos.values[i] \in Nat /\ mfi.neg.values[i] \in Nat
          /\ 0 \in {mfi.pos.values[i], mfi.neg.values[i]}
    /\ mfi.started <=> fed # <<>>
    /\ fed = <<>> => mfi.pos.values = <<>> /\ mfi.neg.values = <<>>
    /\ fed # <<>> =>
          Flows(mfi.pos.values, mfi.neg.values) = LastOf(Tail(fed), capacity)

LEMMA LastOfNothing ==
    ASSUME NEW capacity \in Nat
    PROVE  LastOf(<<>>, capacity) = <<>>
<1>1. Len(<<>>) = 0 /\ Positive(0 - capacity) = 0
  BY DEF Positive
<1>2. SubSeq(<<>>, 0 + 1, 0) = <<>>
  OBVIOUS
<1> QED
  BY <1>1, <1>2 DEF LastOf

LEMMA TailAppends ==
    ASSUME NEW s \in Seq(Int), s # <<>>, NEW x \in Int
    PROVE  /\ Tail(s) \in Seq(Int) /\ Append(s, x) # <<>>
           /\ Tail(Append(s, x)) = Append(Tail(s), x)
<1> DEFINE t == Append(s, x)
           a == Tail(t)
           b == Append(Tail(s), x)
           n == Len(s)
<1>1. n \in Nat /\ n > 0
  OBVIOUS
<1>2. /\ t \in Seq(Int) /\ Len(t) = n + 1 /\ t[n + 1] = x
      /\ \A i \in 1..n : t[i] = s[i]
  BY AppendProperties
<1> DEFINE u == Tail(s)
<1>3. u \in Seq(Int) /\ Len(u) = n - 1 /\ \A i \in 1..(n - 1) : u[i] = s[i + 1]
  BY <1>1
<1> HIDE DEF t, u, n
<1>4. a \in Seq(Int) /\ Len(a) = n /\ \A i \in 1..n : a[i] = t[i + 1]
  BY <1>1, <1>2
<1>5. /\ b \in Seq(Int) /\ Len(b) = n /\ b[n] = x
      /\ \A i \in 1..(n - 1) : b[i] = u[i]
  <2>1. Append(u, x) \in Seq(Int) /\ Len(Append(u, x)) = (n - 1) + 1
        /\ Append(u, x)[(n - 1) + 1] = x
        /\ \A i \in 1..(n - 1) : Append(u, x)[i] = u[i]
    BY <1>3, AppendProperties
  <2>2. (n - 1) + 1 = n /\ b = Append(u, x)
    BY <1>1 DEF u
  <2> QED
    BY <2>1, <2>2
<1> HIDE DEF a, b
<1>6. \A i \in 1..n : a[i] = b[i]
  <2> TAKE i \in 1..n
  <2>1. CASE i = n
    BY <1>1, <1>2, <1>4, <1>5, <2>1
  <2>2. CASE i # n
    <3>1. i \in 1..(n - 1) /\ i + 1 \in 1..n
      BY <1>1, <2>2
    <3> QED
      BY <1>2, <1>3, <1>4, <1>5, <3>1
  <2> QED
    BY <2>1, <2>2
<1>7. a = b
  BY <1>4, <1>5, <1>6, SeqEqual
<1>8. t # <<>>
  BY <1>1, <1>2
<1> QED
  BY <1>3, <1>7, <1>8 DEF a, b, t, u

\* Every candle but the first adds its flow on one side and a zero on the
\* other.
LEMMA MfiStep ==
    ASSUME NEW mfi, NEW fed \in Seq(Int), NEW capacity \in Nat \ {0},
           NEW k \in Candle, MfiTrue(mfi, fed, capacity)
    PROVE  MfiTrue(MfiUpdate(mfi, k), Append(fed, FlowOf(k)), capacity)
<1> DEFINE x == FlowOf(k)
           next == MfiUpdate(mfi, k)
           more == Append(fed, x)
<1>1. x \in Nat /\ TypicalPrice(k) * k.volume = x
  BY CandleType DEF FlowOf
<1>0. PICK pos \in Window, neg \in Window : pos = mfi.pos /\ neg = mfi.neg
  BY DEF MfiTrue
<1>2. /\ pos \in Window /\ neg \in Window /\ pos.capacity = capacity
      /\ neg.capacity = capacity /\ Len(pos.values) = Len(neg.values)
      /\ \A i \in 1..Len(pos.values) :
            /\ pos.values[i] \in Nat /\ neg.values[i] \in Nat
            /\ 0 \in {pos.values[i], neg.values[i]}
      /\ mfi.started <=> fed # <<>>
      /\ fed = <<>> => pos.values = <<>> /\ neg.values = <<>>
      /\ fed # <<>> => Flows(pos.values, neg.values) = LastOf(Tail(fed), capacity)
  BY <1>0 DEF MfiTrue
<1>6. /\ pos.capacity = capacity /\ neg.capacity = capacity
      /\ Len(pos.values) = Len(neg.values) /\ pos.capacity = neg.capacity
  BY <1>2
<1>3. next.started = TRUE
  BY DEF MfiUpdate
<1> HIDE DEF x
<1>4. CASE mfi.started
  <2>1. fed # <<>>
    BY <1>2, <1>4
  <2>2. PICK a \in Nat, b \in Nat :
          /\ a + b = x /\ 0 \in {a, b}
          /\ next.pos = Push(pos, a) /\ next.neg = Push(neg, b)
    <3>1. CASE TypicalPrice(k) > mfi.prevTp
      <4>1. next.pos = Push(pos, x) /\ next.neg = Push(neg, 0)
        BY <1>0, <1>1, <1>4, <3>1 DEF MfiUpdate
      <4> QED
        BY <1>1, <4>1
    <3>2. CASE ~(TypicalPrice(k) > mfi.prevTp)
      <4>1. next.pos = Push(pos, 0) /\ next.neg = Push(neg, x)
        BY <1>0, <1>1, <1>4, <3>2 DEF MfiUpdate
      <4> QED
        BY <1>1, <4>1
    <3> QED
      BY <3>1, <3>2
  <2>0. a \in Int /\ b \in Int
    OBVIOUS
  <2>3. /\ Tail(fed) \in Seq(Int) /\ more # <<>> /\ Tail(more) = Append(Tail(fed), x)
    <3>1. x \in Int
      BY <1>1
    <3> QED
      BY <2>1, <3>1, TailAppends
  <2> DEFINE p == Push(pos, a)
             r == Push(neg, b)
  <2>4. /\ Flows(p.values, r.values) = LastOf(Append(Tail(fed), a + b), capacity)
        /\ Len(p.values) = Len(r.values)
    <3>1. Flows(pos.values, neg.values) = LastOf(Tail(fed), pos.capacity)
      BY <1>2, <1>6, <2>1
    <3>2. /\ Flows(p.values, r.values) = LastOf(Append(Tail(fed), a + b), pos.capacity)
          /\ Len(p.values) = Len(r.values)
      BY <1>6, <2>0, <2>3, <3>1, FlowsRoll
    <3> QED
      BY <1>6, <3>2
  <2>5. p \in Window /\ r \in Window /\ p.capacity = capacity /\ r.capacity = capacity
    BY <1>6, <2>0, PushIs
  <2>6. \A i \in 1..Len(p.values) :
           /\ p.values[i] \in Nat /\ r.values[i] \in Nat
           /\ 0 \in {p.values[i], r.values[i]}
    <3> DEFINE n == Len(pos.values)
               drop == IF n < capacity THEN 0 ELSE 1
               pv == p.values
               rv == r.values
    <3>1. /\ Len(pv) = (n + 1) - drop
          /\ \A i \in 1..Len(pv) :
                pv[i] = IF i + drop <= n THEN pos.values[i + drop] ELSE a
      BY <1>6, <2>0, PushPoints
    <3>2. /\ Len(rv) = (n + 1) - drop
          /\ \A i \in 1..Len(rv) :
                rv[i] = IF i + drop <= n THEN neg.values[i + drop] ELSE b
      BY <1>6, <2>0, PushPoints
    <3>3. n \in Nat /\ drop \in {0, 1}
      BY <1>2 DEF Window
    <3> HIDE DEF n, drop, pv, rv
    <3>4. ASSUME NEW i \in 1..Len(pv)
          PROVE  /\ pv[i] \in Nat /\ rv[i] \in Nat
                 /\ 0 \in {pv[i], rv[i]}
      <4>1. i \in 1..Len(rv) /\ i \in Nat /\ i >= 1
        BY <3>1, <3>2
      <4>2. CASE i + drop <= n
        <5>1. i + drop \in 1..Len(pos.values)
          BY <3>3, <4>1, <4>2 DEF n
        <5> QED
          BY <1>2, <3>1, <3>2, <4>1, <4>2, <5>1
      <4>3. CASE ~(i + drop <= n)
        BY <2>2, <3>1, <3>2, <4>1, <4>3
      <4> QED
        BY <4>2, <4>3
    <3> QED
      BY <3>4 DEF pv, rv
  <2>7. Flows(p.values, r.values) = LastOf(Tail(more), capacity)
    BY <2>2, <2>3, <2>4
  <2> HIDE DEF p, r, more, next
  <2>8. next.pos = p /\ next.neg = r
    BY <2>2 DEF p, r
  <2>9. MfiTrue(next, more, capacity)
    BY <1>3, <2>3, <2>4, <2>5, <2>6, <2>7, <2>8 DEF MfiTrue
  <2> QED
    BY <2>9 DEF next, more, x
<1>5. CASE ~mfi.started
  <2>1. fed = <<>> /\ pos.values = <<>> /\ neg.values = <<>>
    BY <1>2, <1>5
  <2>2. next.pos = pos /\ next.neg = neg
    BY <1>0, <1>5 DEF MfiUpdate
  <2>3. more # <<>> /\ Tail(more) = <<>>
    BY <2>1
  <2>4. Flows(pos.values, neg.values) = LastOf(Tail(more), capacity)
    <3>1. LastOf(Tail(more), capacity) = <<>>
      BY <2>3, LastOfNothing
    <3>2. Flows(<<>>, <<>>) = <<>>
      BY DEF Flows
    <3> QED
      BY <2>1, <3>1, <3>2
  <2> HIDE DEF next, more
  <2>5. MfiTrue(next, more, capacity)
    BY <1>2, <1>3, <2>2, <2>3, <2>4 DEF MfiTrue
  <2> QED
    BY <2>5 DEF next, more, x
<1> QED
  BY <1>4, <1>5

-----------------------------------------------------------------------------
(* Averages *)

Smoother == [period : Nat \ {0}, value : Nat, count : Nat, accum : Nat]

\* A smoother that has only seen values from 0 to top.
AveragesBelow(w, top) ==
    /\ w \in Smoother
    /\ w.count <= w.period => w.accum <= w.count * top
    /\ w.count < w.period => w.value = 0
    /\ w.value <= top

LEMMA BelowByFields ==
    ASSUME NEW w, NEW top \in Nat, NEW period \in Nat \ {0}, NEW value \in Nat,
           NEW seen \in Nat, NEW accum \in Nat,
           w = [period |-> period, count |-> seen, accum |-> accum,
                value |-> value],
           seen <= period => accum <= seen * top,
           seen < period => value = 0,
           value <= top
    PROVE  AveragesBelow(w, top)
<1>1. w \in Smoother
  BY DEF Smoother
<1>2. w.period = period /\ w.count = seen /\ w.accum = accum /\ w.value = value
  OBVIOUS
<1>3. /\ w.count <= w.period => w.accum <= w.count * top
      /\ w.count < w.period => w.value = 0
      /\ w.value <= top
  BY <1>2
<1> QED
  BY <1>1, <1>3 DEF AveragesBelow

\* Wilder's recurrence keeps its average among the values it is fed.
LEMMA WilderBelow ==
    ASSUME NEW w, NEW top \in Nat, NEW x \in Nat, x <= top, AveragesBelow(w, top)
    PROVE  AveragesBelow(WilderUpdate(w, x), top)
<1> DEFINE next == WilderUpdate(w, x)
<1>1. PICK period \in Nat \ {0}, value \in Nat, seen \in Nat, accum \in Nat :
        /\ period = w.period /\ value = w.value
        /\ seen = w.count /\ accum = w.accum
  BY DEF AveragesBelow, Smoother
<1>2. /\ seen <= period => accum <= seen * top
      /\ seen < period => value = 0
      /\ value <= top
  BY <1>1 DEF AveragesBelow
<1> DEFINE n == seen + 1
           blend == (x + value * (period - 1)) \div period
<1>3. /\ next.period = period /\ next.count = n
      /\ next.accum = IF n <= period THEN accum + x ELSE accum
      /\ next.value = IF n > period THEN blend
                      ELSE IF n = period THEN (accum + x) \div period ELSE value
      /\ next = [period |-> period, count |-> n,
                 accum |-> next.accum, value |-> next.value]
  BY <1>1 DEF WilderUpdate, Advance
<1>0. n \in Nat
  OBVIOUS
<1> SUFFICES AveragesBelow(next, top)
  OBVIOUS
<1> HIDE DEF next, n
<1>4. CASE n > period
  <2>1. blend \in Nat /\ blend <= top
    <3> DEFINE y == value * (period - 1)
    <3>1. period - 1 \in Nat
      OBVIOUS
    <3>2. y \in Nat /\ x + y \in Nat
      BY <3>1, MulNat
    <3>3. (period - 1) * value <= (period - 1) * top
      BY <1>2, <3>1, MulMono
    <3>4. x + y <= period * top
      BY <1>2, <3>3
    <3> HIDE DEF y
    <3>5. (x + y) \div period <= top /\ (x + y) \div period \in Nat
      BY <3>2, <3>4, DivBelow, DivNat
    <3> QED
      BY <3>5 DEF y
  <2> HIDE DEF blend
  <2>2. ~(n <= period) /\ ~(n < period)
    BY <1>0, <1>4
  <2>3. next = [period |-> period, count |-> n, accum |-> accum, value |-> blend]
    BY <1>3, <1>4, <2>2
  <2> QED
    BY <1>0, <2>1, <2>2, <2>3, BelowByFields
<1>5. CASE n <= period
  <2>1. next.accum = accum + x
    BY <1>3, <1>5
  <2>2. accum + x <= n * top
    <3>1. accum <= seen * top
      BY <1>2, <1>5 DEF n
    <3>2. n * top = seen * top + top
      BY DEF n
    <3>3. seen * top \in Nat
      BY MulNat
    <3> QED
      BY <3>1, <3>2, <3>3
  <2>3. CASE n = period
    <3>1. next.value = (accum + x) \div period
      BY <1>3, <2>3
    <3>2. accum + x <= period * top /\ accum + x \in Nat
      BY <2>2, <2>3
    <3> DEFINE a == accum + x
    <3> HIDE DEF a
    <3>3. a \div period <= top /\ a \div period \in Nat
      BY <3>2, DivBelow, DivNat DEF a
    <3>4. next = [period |-> period, count |-> n, accum |-> a,
                  value |-> a \div period]
      BY <1>3, <2>1, <3>1 DEF a
    <3>5. ~(n < period) /\ a <= n * top /\ a \in Nat
      BY <1>0, <2>2, <2>3 DEF a
    <3> QED
      BY <1>0, <3>3, <3>4, <3>5, BelowByFields
  <2>4. CASE n # period
    <3>1. next.value = value /\ value = 0
      BY <1>2, <1>3, <1>5, <2>4 DEF n
    <3> DEFINE a == accum + x
    <3>2. next = [period |-> period, count |-> n, accum |-> a, value |-> value]
      BY <1>3, <2>1, <3>1
    <3>3. a \in Nat /\ a <= n * top /\ value <= top
      BY <1>2, <2>2
    <3> HIDE DEF a
    <3> QED
      BY <1>0, <3>1, <3>2, <3>3, BelowByFields
  <2> QED
    BY <2>3, <2>4
<1> QED
  BY <1>0, <1>4, <1>5

LEMMA BelowHigher ==
    ASSUME NEW w, NEW top \in Nat, NEW higher \in Nat, top <= higher,
           AveragesBelow(w, top)
    PROVE  AveragesBelow(w, higher)
<1>1. w.count \in Nat /\ w.accum \in Nat /\ w.value \in Nat
  BY DEF AveragesBelow, Smoother
<1>2. w.count * top <= w.count * higher
  BY <1>1, MulMono
<1>3. w.count * top \in Nat /\ w.count * higher \in Nat
  BY <1>1, MulNat
<1> QED
  BY <1>1, <1>2, <1>3 DEF AveragesBelow

LEMMA FreshBelow ==
    ASSUME NEW period \in Nat \ {0}, NEW top \in Nat
    PROVE  AveragesBelow(FreshSmoother(period), top)
BY DEF FreshSmoother, AveragesBelow, Smoother

-----------------------------------------------------------------------------
(* The average true range *)

LEMMA ThreeFinite == \A a, b, c : IsFiniteSet({a, b, c})
<1> TAKE a, b, c
<1>1. IsFiniteSet({a}) /\ IsFiniteSet({b}) /\ IsFiniteSet({c})
  BY FS_Singleton
<1>2. IsFiniteSet({a} \cup {b})
  BY <1>1, FS_Union
<1>3. IsFiniteSet(({a} \cup {b}) \cup {c})
  BY <1>1, <1>2, FS_Union
<1>4. {a, b, c} = ({a} \cup {b}) \cup {c}
  OBVIOUS
<1> QED
  BY <1>3, <1>4

LEMMA TrueRangeIs ==
    ASSUME NEW k \in Candle, NEW c \in Nat
    PROVE  /\ TrueRange(k, c) \in Nat
           /\ k.high - k.low <= TrueRange(k, c)
           /\ k.high - c <= TrueRange(k, c) /\ c - k.low <= TrueRange(k, c)
<1> DEFINE S == {k.high - k.low, Abs(k.high - c), Abs(k.low - c)}
<1>1. k.high \in Nat /\ k.low \in Nat /\ k.low <= k.high
  BY CandleType
<1>2. /\ k.high - k.low \in Nat /\ Abs(k.high - c) \in Nat
      /\ Abs(k.low - c) \in Nat
      /\ k.high - c <= Abs(k.high - c) /\ c - k.low <= Abs(k.low - c)
  BY <1>1 DEF Abs
<1>3. S \in SUBSET Int /\ S # {} /\ S \subseteq Nat
  BY <1>2
<1>4. IsFiniteSet(S)
  BY ThreeFinite
<1>5. TrueRange(k, c) = Max(S)
  BY DEF TrueRange
<1>6. k.high - k.low \in S /\ Abs(k.high - c) \in S /\ Abs(k.low - c) \in S
  OBVIOUS
<1> HIDE DEF S
<1>7. Max(S) \in S /\ \A y \in S : y <= Max(S)
  BY <1>3, <1>4, MaxIs
<1>8. Max(S) \in Nat
  BY <1>3, <1>7
<1> QED
  BY <1>1, <1>2, <1>5, <1>6, <1>7, <1>8

\* The true ranges of a sequence of candles, and the widest of them.
RangeAt(s, i) ==
    IF i = 1 THEN s[1].high - s[1].low ELSE TrueRange(s[i], s[i - 1].close)

Ranges(s) == {RangeAt(s, i) : i \in DOMAIN s}

Widest(s) == IF s = <<>> THEN 0 ELSE Max(Ranges(s))

LEMMA RangesAre ==
    ASSUME NEW s \in Seq(Candle)
    PROVE  Ranges(s) \in SUBSET Int /\ Ranges(s) \subseteq Nat /\ IsFiniteSet(Ranges(s))
<1>1. DOMAIN s = 1..Len(s) /\ Len(s) \in Nat /\ \A i \in 1..Len(s) : s[i] \in Candle
  OBVIOUS
<1>2. \A i \in 1..Len(s) : RangeAt(s, i) \in Nat
  <2> TAKE i \in 1..Len(s)
  <2>1. CASE i = 1
    <3>1. s[1] \in Candle
      BY <1>1, <2>1
    <3>2. s[1].high \in Nat /\ s[1].low \in Nat /\ s[1].low <= s[1].high
      BY <3>1, CandleType
    <3> QED
      BY <2>1, <3>2 DEF RangeAt
  <2>2. CASE i # 1
    <3>1. i - 1 \in 1..Len(s)
      BY <1>1, <2>2
    <3>2. s[i] \in Candle /\ s[i - 1] \in Candle
      BY <1>1, <3>1
    <3>3. s[i - 1].close \in Nat
      BY <3>2, CandleType
    <3>4. TrueRange(s[i], s[i - 1].close) \in Nat
      BY <3>2, <3>3, TrueRangeIs
    <3> QED
      BY <2>2, <3>4 DEF RangeAt
  <2> QED
    BY <2>1, <2>2
<1>3. IsFiniteSet(1..Len(s))
  BY <1>1, FS_Interval
<1> DEFINE f == [i \in 1..Len(s) |-> RangeAt(s, i)]
           T == {RangeAt(s, i) : i \in 1..Len(s)}
<1>4. IsFiniteSet(T)
  <2>1. f \in Surjection(1..Len(s), T)
    BY DEF Surjection
  <2> HIDE DEF f, T
  <2> QED
    BY <1>3, <2>1, FS_Surjection
<1> QED
  BY <1>1, <1>2, <1>4 DEF Ranges

\* A candle more only widens the widest range, to at least its own.
LEMMA WidestGrows ==
    ASSUME NEW s \in Seq(Candle), NEW k \in Candle
    PROVE  LET t == Append(s, k)
               own == IF s = <<>> THEN k.high - k.low
                                  ELSE TrueRange(k, s[Len(s)].close)
           IN  /\ Widest(s) \in Nat /\ Widest(t) \in Nat
               /\ Widest(s) <= Widest(t)
               /\ own \in Nat /\ own <= Widest(t)
<1> DEFINE t == Append(s, k)
           n == Len(s)
           own == IF s = <<>> THEN k.high - k.low
                              ELSE TrueRange(k, s[Len(s)].close)
<1>1. /\ n \in Nat /\ DOMAIN s = 1..n /\ t \in Seq(Candle) /\ t # <<>>
      /\ DOMAIN t = 1..(n + 1) /\ t[n + 1] = k /\ \A i \in 1..n : t[i] = s[i]
      /\ s = <<>> <=> n = 0
  BY AppendProperties
<1> HIDE DEF t
<1>2. \A i \in 1..n : RangeAt(t, i) = RangeAt(s, i)
  <2> TAKE i \in 1..n
  <2>1. CASE i = 1
    BY <1>1, <2>1 DEF RangeAt
  <2>2. CASE i # 1
    <3>1. i - 1 \in 1..n
      BY <1>1, <2>2
    <3>2. t[i] = s[i] /\ t[i - 1] = s[i - 1]
      BY <1>1, <3>1
    <3> QED
      BY <2>2, <3>2 DEF RangeAt
  <2> QED
    BY <2>1, <2>2
<1>3. RangeAt(t, n + 1) = own
  <2>1. CASE n = 0
    BY <1>1, <2>1 DEF RangeAt
  <2>2. CASE n # 0
    <3>1. n \in 1..n /\ (n + 1) - 1 = n /\ n + 1 # 1
      BY <1>1, <2>2
    <3>2. t[n] = s[n]
      BY <1>1, <3>1
    <3> QED
      BY <1>1, <2>2, <3>1, <3>2 DEF RangeAt
  <2> QED
    BY <2>1, <2>2
<1> HIDE DEF own, n
<1>4. Ranges(s) \subseteq Ranges(t) /\ own \in Ranges(t)
  <2>1. n + 1 \in DOMAIN t
    BY <1>1
  <2>2. own \in Ranges(t)
    BY <1>3, <2>1 DEF Ranges
  <2>3. ASSUME NEW i \in DOMAIN s PROVE RangeAt(s, i) \in Ranges(t)
    <3>1. i \in 1..n /\ i \in DOMAIN t
      BY <1>1
    <3> QED
      BY <1>2, <3>1 DEF Ranges
  <2> QED
    BY <2>2, <2>3 DEF Ranges
<1>5. /\ Ranges(s) \in SUBSET Int /\ Ranges(s) \subseteq Nat /\ IsFiniteSet(Ranges(s))
      /\ Ranges(t) \in SUBSET Int /\ Ranges(t) \subseteq Nat /\ IsFiniteSet(Ranges(t))
  BY <1>1, RangesAre
<1>6. Max(Ranges(t)) \in Ranges(t) /\ \A y \in Ranges(t) : y <= Max(Ranges(t))
  BY <1>4, <1>5, MaxIs
<1>7. Widest(t) = Max(Ranges(t)) /\ Widest(t) \in Nat
  BY <1>1, <1>5, <1>6 DEF Widest
<1>8. Widest(s) \in Nat /\ Widest(s) <= Widest(t)
  <2>1. CASE s = <<>>
    BY <1>7, <2>1 DEF Widest
  <2>2. CASE s # <<>>
    <3>1. 1 \in DOMAIN s
      BY <1>1, <2>2
    <3>2. Ranges(s) # {}
      BY <3>1 DEF Ranges
    <3>3. Max(Ranges(s)) \in Ranges(s)
      BY <1>5, <3>2, MaxIs
    <3>4. Widest(s) = Max(Ranges(s))
      BY <2>2 DEF Widest
    <3> QED
      BY <1>4, <1>5, <1>6, <1>7, <3>3, <3>4
  <2> QED
    BY <2>1, <2>2
<1>9. own \in Nat /\ own <= Widest(t)
  BY <1>4, <1>5, <1>6, <1>7
<1> QED
  BY <1>7, <1>8, <1>9 DEF t, own

\* The average true range of the candles s: it has their last close, and its
\* average is of nothing wider than their widest range.
AtrTrue(atr, s) ==
    /\ atr.started \in BOOLEAN
    /\ atr.started <=> s # <<>>
    /\ s # <<>> => atr.prevClose = s[Len(s)].close
    /\ AveragesBelow(atr.wilder, Widest(s))

LEMMA AtrStep ==
    ASSUME NEW atr, NEW s \in Seq(Candle), NEW k \in Candle, AtrTrue(atr, s)
    PROVE  AtrTrue(AtrUpdate(atr, k), Append(s, k))
<1> DEFINE t == Append(s, k)
           next == AtrUpdate(atr, k)
           own == IF s = <<>> THEN k.high - k.low
                              ELSE TrueRange(k, s[Len(s)].close)
<1>1. /\ Widest(s) \in Nat /\ Widest(t) \in Nat /\ Widest(s) <= Widest(t)
      /\ own \in Nat /\ own <= Widest(t)
  BY WidestGrows
<1>2. /\ atr.started \in BOOLEAN /\ atr.started <=> s # <<>>
      /\ s # <<>> => atr.prevClose = s[Len(s)].close
      /\ AveragesBelow(atr.wilder, Widest(s))
  BY DEF AtrTrue
<1>3. t # <<>> /\ t[Len(t)] = k
  BY AppendProperties
<1>4. next.wilder = WilderUpdate(atr.wilder, own)
      /\ next.prevClose = k.close /\ next.started = TRUE
  BY <1>2 DEF AtrUpdate
<1> SUFFICES AtrTrue(next, t)
  OBVIOUS
<1> HIDE DEF own, t, next
<1>5. AveragesBelow(atr.wilder, Widest(t))
  BY <1>1, <1>2, BelowHigher
<1>6. AveragesBelow(WilderUpdate(atr.wilder, own), Widest(t))
  BY <1>1, <1>5, WilderBelow
<1> QED
  BY <1>3, <1>4, <1>6 DEF AtrTrue

-----------------------------------------------------------------------------
(* The bank *)

SumsTrue ==
    /\ \A p \in SmaPeriods :
          Rolls(bank.sma[p].buffer, bank.sma[p].sum, Fed(CloseOf), p)
    /\ LET sma == bank.bollinger.sma
           dev == bank.bollinger.stddev
       IN  /\ Rolls(sma.buffer, sma.sum, Fed(CloseOf), Period["bollinger"])
           /\ Rolls(dev.buffer, dev.sum, Fed(CloseOf), Period["bollinger"])
           /\ dev.sumSq = SumOf(Squares(dev.buffer.values))
    /\ Rolls(bank.cci.sma.buffer, bank.cci.sma.sum, Fed(TypicalPrice),
             Period["cci"])
    /\ Rolls(bank.volumeSma.buffer, bank.volumeSma.sum, Fed(VolumeOf),
             Period["volume"])
    /\ Rolls(bank.chopBuf, bank.chopAtrSum, atrs, Period["chop"])

\* Every running sum, the money flows and the average true range are those of
\* the candles ticked.
BankInv ==
    /\ candles \in Seq(Candle) /\ atrs \in Seq(Int)
    /\ SumsTrue
    /\ MfiTrue(bank.mfi, Fed(FlowOf), Period["mfi"])
    /\ AtrTrue(bank.atr, candles)

LEMMA PeriodType == \A i \in Indicator : Period[i] \in Nat \ {0}
BY BankAssumption DEF BankAssumption

LEMMA SmaPeriodType == \A p \in SmaPeriods : p \in Nat \ {0}
BY BankAssumption DEF BankAssumption

LEMMA BankInvInit == BankInit => BankInv
<1> SUFFICES ASSUME BankInit PROVE BankInv
  OBVIOUS
<1>1. candles = <<>> /\ atrs = <<>> /\ bank = FreshBank
  BY DEF BankInit
<1>2. /\ Fed(CloseOf) = <<>> /\ Fed(TypicalPrice) = <<>>
      /\ Fed(VolumeOf) = <<>> /\ Fed(FlowOf) = <<>>
  BY <1>1, FedNothing
<1>3. /\ {"bollinger", "cci", "mfi", "volume", "chop", "atr"} \subseteq Indicator
  BY DEF Indicator
<1>4. /\ Period["bollinger"] \in Nat \ {0} /\ Period["cci"] \in Nat \ {0}
      /\ Period["mfi"] \in Nat \ {0} /\ Period["volume"] \in Nat \ {0}
      /\ Period["chop"] \in Nat \ {0} /\ Period["atr"] \in Nat \ {0}
  BY <1>3, PeriodType
<1>5. \A c \in Nat \ {0} :
         /\ Rolls(RingBuffer(c), 0, <<>>, c)
         /\ Rolls(FreshSma(c).buffer, FreshSma(c).sum, <<>>, c)
  BY RollsEmpty DEF FreshSma
<1>6. SumsTrue
  <2>1. \A p \in SmaPeriods :
           Rolls(bank.sma[p].buffer, bank.sma[p].sum, Fed(CloseOf), p)
    <3> TAKE p \in SmaPeriods
    <3>1. bank.sma[p] = FreshSma(p) /\ p \in Nat \ {0}
      BY <1>1, SmaPeriodType DEF FreshBank
    <3> QED
      BY <1>2, <1>5, <3>1
  <2>2. /\ Rolls(bank.bollinger.sma.buffer, bank.bollinger.sma.sum,
                 Fed(CloseOf), Period["bollinger"])
    <3>1. bank.bollinger.sma = FreshSma(Period["bollinger"])
      BY <1>1 DEF FreshBank, FreshBollinger
    <3> QED
      BY <1>2, <1>4, <1>5, <3>1
  <2>3. /\ Rolls(bank.bollinger.stddev.buffer, bank.bollinger.stddev.sum,
                 Fed(CloseOf), Period["bollinger"])
        /\ bank.bollinger.stddev.sumSq
             = SumOf(Squares(bank.bollinger.stddev.buffer.values))
    <3>1. /\ bank.bollinger.stddev.buffer = RingBuffer(Period["bollinger"])
          /\ bank.bollinger.stddev.sum = 0 /\ bank.bollinger.stddev.sumSq = 0
      BY <1>1 DEF FreshBank, FreshBollinger, FreshStddev
    <3>2. bank.bollinger.stddev.buffer.values = <<>>
      BY <3>1 DEF RingBuffer
    <3>3. Squares(<<>>) = <<>>
      BY DEF Squares
    <3>4. SumOf(<<>>) = 0
      BY SumEmpty DEF SumOf, SumFunction
    <3> QED
      BY <1>2, <1>4, <1>5, <3>1, <3>2, <3>3, <3>4
  <2>4. Rolls(bank.cci.sma.buffer, bank.cci.sma.sum, Fed(TypicalPrice), Period["cci"])
    <3>1. bank.cci.sma = FreshSma(Period["cci"])
      BY <1>1 DEF FreshBank, FreshCci
    <3> QED
      BY <1>2, <1>4, <1>5, <3>1
  <2>5. Rolls(bank.volumeSma.buffer, bank.volumeSma.sum, Fed(VolumeOf),
              Period["volume"])
    <3>1. bank.volumeSma = FreshSma(Period["volume"])
      BY <1>1 DEF FreshBank
    <3> QED
      BY <1>2, <1>4, <1>5, <3>1
  <2>6. Rolls(bank.chopBuf, bank.chopAtrSum, atrs, Period["chop"])
    <3>1. bank.chopBuf = RingBuffer(Period["chop"]) /\ bank.chopAtrSum = 0
      BY <1>1 DEF FreshBank
    <3> QED
      BY <1>1, <1>4, <1>5, <3>1
  <2> QED
    BY <2>1, <2>2, <2>3, <2>4, <2>5, <2>6 DEF SumsTrue
<1>7. MfiTrue(bank.mfi, Fed(FlowOf), Period["mfi"])
  <2> DEFINE c == Period["mfi"]
             buf == RingBuffer(c)
  <2>1. bank.mfi.pos = buf /\ bank.mfi.neg = buf /\ bank.mfi.started = FALSE
    BY <1>1 DEF FreshBank, FreshMfi
  <2>2. buf \in Window /\ buf.capacity = c /\ buf.values = <<>>
    <3>1. Rolls(buf, 0, <<>>, c) /\ buf.values = <<>>
      BY <1>4, <1>5 DEF RingBuffer
    <3> QED
      BY <3>1 DEF Rolls
  <2> HIDE DEF buf, c
  <2> QED
    BY <1>2, <2>1, <2>2 DEF MfiTrue, c
<1>8. AtrTrue(bank.atr, candles)
  <2>1. /\ bank.atr.wilder = FreshSmoother(Period["atr"])
        /\ bank.atr.started = FALSE
    BY <1>1 DEF FreshBank, FreshAtr
  <2>2. Widest(candles) = 0
    BY <1>1 DEF Widest
  <2>3. AveragesBelow(bank.atr.wilder, Widest(candles))
    BY <1>4, <2>1, <2>2, FreshBelow
  <2> QED
    BY <1>1, <2>1, <2>3 DEF AtrTrue
<1> QED
  BY <1>1, <1>6, <1>7, <1>8 DEF BankInv

LEMMA SmaRolls ==
    ASSUME NEW sma, NEW fed \in Seq(Int), NEW capacity, NEW x \in Int,
           Rolls(sma.buffer, sma.sum, fed, capacity)
    PROVE  Rolls(SmaUpdate(sma, x).buffer, SmaUpdate(sma, x).sum,
                 Append(fed, x), capacity)
<1>1. /\ SmaUpdate(sma, x).buffer = Push(sma.buffer, x)
      /\ SmaUpdate(sma, x).sum = (sma.sum - Evicted(sma.buffer)) + x
  BY DEF SmaUpdate
<1>2. Rolls(Push(sma.buffer, x), (sma.sum - Evicted(sma.buffer)) + x,
            Append(fed, x), capacity)
  BY RollsOn
<1> QED
  BY <1>1, <1>2

LEMMA StddevRolls ==
    ASSUME NEW dev, NEW fed \in Seq(Int), NEW capacity, NEW x \in Int,
           Rolls(dev.buffer, dev.sum, fed, capacity),
           dev.sumSq = SumOf(Squares(dev.buffer.values))
    PROVE  LET next == StddevUpdate(dev, x)
           IN  /\ Rolls(next.buffer, next.sum, Append(fed, x), capacity)
               /\ next.sumSq = SumOf(Squares(next.buffer.values))
<1> DEFINE next == StddevUpdate(dev, x)
           old == Evicted(dev.buffer)
<1>1. /\ next.buffer = Push(dev.buffer, x)
      /\ next.sum = (dev.sum - old) + x
      /\ next.sumSq = (dev.sumSq - old * old) + x * x
  BY DEF StddevUpdate
<1>2. Rolls(Push(dev.buffer, x), (dev.sum - old) + x, Append(fed, x), capacity)
  BY RollsOn
<1>3. SumOf(Squares(Push(dev.buffer, x).values))
        = (dev.sumSq - Square(old)) + Square(x)
  <2>1. dev.buffer \in Window
    BY DEF Rolls
  <2> QED
    BY <2>1, SquaresRoll
<1>4. Square(old) = old * old /\ Square(x) = x * x
  BY DEF Square
<1> HIDE DEF next, old
<1>5. next.sumSq = SumOf(Squares(next.buffer.values))
  BY <1>1, <1>3, <1>4
<1>6. Rolls(next.buffer, next.sum, Append(fed, x), capacity)
  BY <1>1, <1>2
<1> QED
  BY <1>5, <1>6 DEF next

LEMMA BankStep ==
    ASSUME BankInv, NEW k \in Candle, bank' = NextBank(k),
           candles' = Append(candles, k),
           atrs' = IF Ready(bank'.atr.wilder)
                   THEN Append(atrs, bank'.atr.wilder.value) ELSE atrs
    PROVE  BankInv'
<1>1. /\ candles \in Seq(Candle) /\ atrs \in Seq(Int)
      /\ SumsTrue
      /\ MfiTrue(bank.mfi, Fed(FlowOf), Period["mfi"])
      /\ AtrTrue(bank.atr, candles)
  BY DEF BankInv
<1>2. /\ Fed(CloseOf) \in Seq(Int)
      /\ Fed(CloseOf)' = Append(Fed(CloseOf), k.close)
      /\ Fed(TypicalPrice) \in Seq(Int)
      /\ Fed(TypicalPrice)' = Append(Fed(TypicalPrice), TypicalPrice(k))
      /\ Fed(VolumeOf) \in Seq(Int)
      /\ Fed(VolumeOf)' = Append(Fed(VolumeOf), k.volume)
      /\ Fed(FlowOf) \in Seq(Int)
      /\ Fed(FlowOf)' = Append(Fed(FlowOf), FlowOf(k))
  BY <1>1, FedGrows
<1>3. k.close \in Int /\ k.volume \in Int /\ TypicalPrice(k) \in Int
  BY CandleType
<1>4. /\ bank'.sma = [p \in SmaPeriods |-> SmaUpdate(bank.sma[p], k.close)]
      /\ bank'.bollinger = BollingerUpdate(bank.bollinger, k.close)
      /\ bank'.cci = CciUpdate(bank.cci, k)
      /\ bank'.volumeSma = SmaUpdate(bank.volumeSma, k.volume)
      /\ bank'.mfi = MfiUpdate(bank.mfi, k)
      /\ bank'.atr = AtrUpdate(bank.atr, k)
      /\ bank'.chopBuf = PushIfReady(bank.chopBuf, AtrUpdate(bank.atr, k))
      /\ bank'.chopAtrSum = ChopSum(AtrUpdate(bank.atr, k))
  BY DEF NextBank
<1>5. AtrTrue(bank.atr, candles)'
  <2>1. AtrTrue(AtrUpdate(bank.atr, k), Append(candles, k))
    BY <1>1, AtrStep
  <2> QED
    BY <1>4, <2>1
<1>6. candles' \in Seq(Candle)
  BY <1>1
<1>7. bank'.atr.wilder.value \in Nat
  <2>1. AtrTrue(bank'.atr, candles')
    BY <1>5
  <2> QED
    BY <2>1 DEF AtrTrue, AveragesBelow, Smoother
<1>8. atrs' \in Seq(Int)
  BY <1>1, <1>7
<1>9. MfiTrue(bank.mfi, Fed(FlowOf), Period["mfi"])'
  <2>1. Period["mfi"] \in Nat \ {0}
    BY PeriodType DEF Indicator
  <2>2. MfiTrue(MfiUpdate(bank.mfi, k), Append(Fed(FlowOf), FlowOf(k)), Period["mfi"])
    BY <1>1, <1>2, <2>1, MfiStep
  <2> QED
    BY <1>2, <1>4, <2>2
<1>10. SumsTrue'
  <2>1. ASSUME NEW p \in SmaPeriods
        PROVE  Rolls(bank'.sma[p].buffer, bank'.sma[p].sum, Fed(CloseOf)', p)
    <3>1. Rolls(bank.sma[p].buffer, bank.sma[p].sum, Fed(CloseOf), p)
      BY <1>1 DEF SumsTrue
    <3>2. bank'.sma[p] = SmaUpdate(bank.sma[p], k.close)
      BY <1>4
    <3> QED
      BY <1>2, <1>3, <3>1, <3>2, SmaRolls
  <2>2. Rolls(bank'.bollinger.sma.buffer, bank'.bollinger.sma.sum,
              Fed(CloseOf)', Period["bollinger"])
    <3>1. Rolls(bank.bollinger.sma.buffer, bank.bollinger.sma.sum,
                Fed(CloseOf), Period["bollinger"])
      BY <1>1 DEF SumsTrue
    <3>2. bank'.bollinger.sma = SmaUpdate(bank.bollinger.sma, k.close)
      BY <1>4 DEF BollingerUpdate
    <3> QED
      BY <1>2, <1>3, <3>1, <3>2, SmaRolls
  <2>3. /\ Rolls(bank'.bollinger.stddev.buffer, bank'.bollinger.stddev.sum,
                 Fed(CloseOf)', Period["bollinger"])
        /\ bank'.bollinger.stddev.sumSq
             = SumOf(Squares(bank'.bollinger.stddev.buffer.values))
    <3>1. /\ Rolls(bank.bollinger.stddev.buffer, bank.bollinger.stddev.sum,
                   Fed(CloseOf), Period["bollinger"])
          /\ bank.bollinger.stddev.sumSq
               = SumOf(Squares(bank.bollinger.stddev.buffer.values))
      BY <1>1 DEF SumsTrue
    <3>2. bank'.bollinger.stddev = StddevUpdate(bank.bollinger.stddev, k.close)
      BY <1>4 DEF BollingerUpdate
    <3>3. PICK dev, fed, x :
             dev = bank.bollinger.stddev /\ fed = Fed(CloseOf) /\ x = k.close
      OBVIOUS
    <3> DEFINE next == StddevUpdate(dev, x)
    <3>4. /\ fed \in Seq(Int) /\ x \in Int
          /\ Rolls(dev.buffer, dev.sum, fed, Period["bollinger"])
          /\ dev.sumSq = SumOf(Squares(dev.buffer.values))
      BY <1>2, <1>3, <3>1, <3>3, Zenon
    <3>5. /\ Rolls(next.buffer, next.sum, Append(fed, x), Period["bollinger"])
          /\ next.sumSq = SumOf(Squares(next.buffer.values))
      BY ONLY <3>4, StddevRolls
    <3> HIDE DEF next
    <3>6. bank'.bollinger.stddev = next /\ Fed(CloseOf)' = Append(fed, x)
      BY <1>2, <3>2, <3>3 DEF next
    <3> QED
      BY <3>5, <3>6
  <2>4. Rolls(bank'.cci.sma.buffer, bank'.cci.sma.sum, Fed(TypicalPrice)',
              Period["cci"])
    <3>1. Rolls(bank.cci.sma.buffer, bank.cci.sma.sum, Fed(TypicalPrice),
                Period["cci"])
      BY <1>1 DEF SumsTrue
    <3>2. bank'.cci.sma = SmaUpdate(bank.cci.sma, TypicalPrice(k))
      BY <1>4 DEF CciUpdate
    <3> QED
      BY <1>2, <1>3, <3>1, <3>2, SmaRolls
  <2>5. Rolls(bank'.volumeSma.buffer, bank'.volumeSma.sum, Fed(VolumeOf)',
              Period["volume"])
    <3>1. Rolls(bank.volumeSma.buffer, bank.volumeSma.sum, Fed(VolumeOf),
                Period["volume"])
      BY <1>1 DEF SumsTrue
    <3>2. bank'.volumeSma = SmaUpdate(bank.volumeSma, k.volume)
      BY <1>4
    <3>3. PICK fed, x : fed = Fed(VolumeOf) /\ x = k.volume
      OBVIOUS
    <3>4. fed \in Seq(Int) /\ x \in Int
      BY <1>2, <1>3, <3>3
    <3>5. Rolls(bank.volumeSma.buffer, bank.volumeSma.sum, fed, Period["volume"])
      BY <3>1, <3>3
    <3>6. Rolls(SmaUpdate(bank.volumeSma, x).buffer, SmaUpdate(bank.volumeSma, x).sum,
                Append(fed, x), Period["volume"])
      BY <3>4, <3>5, SmaRolls
    <3> QED
      BY <1>2, <3>2, <3>3, <3>6
  <2>6. Rolls(bank'.chopBuf, bank'.chopAtrSum, atrs', Period["chop"])
    <3>1. Rolls(bank.chopBuf, bank.chopAtrSum, atrs, Period["chop"])
      BY <1>1 DEF SumsTrue
    <3>2. CASE Ready(bank'.atr.wilder)
      <4> DEFINE x == bank'.atr.wilder.value
      <4>1. /\ bank'.chopBuf = Push(bank.chopBuf, x)
            /\ bank'.chopAtrSum = (bank.chopAtrSum - Evicted(bank.chopBuf)) + x
            /\ atrs' = Append(atrs, x)
        BY <1>4, <3>2 DEF PushIfReady, ChopSum
      <4>2. x \in Int
        BY <1>7
      <4> HIDE DEF x
      <4>3. PICK v \in Int : v = x
        BY <4>2
      <4>4. Rolls(Push(bank.chopBuf, v), (bank.chopAtrSum - Evicted(bank.chopBuf)) + v,
                  Append(atrs, v), Period["chop"])
        BY <1>1, <3>1, RollsOn
      <4> QED
        BY <4>1, <4>3, <4>4
    <3>3. CASE ~Ready(bank'.atr.wilder)
      <4>1. /\ bank'.chopBuf = bank.chopBuf /\ bank'.chopAtrSum = bank.chopAtrSum
            /\ atrs' = atrs
        BY <1>4, <3>3 DEF PushIfReady, ChopSum
      <4> QED
        BY <3>1, <4>1
    <3> QED
      BY <3>2, <3>3
  <2> QED
    BY <2>1, <2>2, <2>3, <2>4, <2>5, <2>6 DEF SumsTrue
<1> QED
  BY <1>5, <1>6, <1>8, <1>9, <1>10 DEF BankInv

LEMMA BankInvInductive == BankInv /\ [BankNext]_bankVars => BankInv'
<1> SUFFICES ASSUME BankInv, [BankNext]_bankVars PROVE BankInv'
  OBVIOUS
<1>1. CASE BankNext
  <2>1. PICK k \in Candle : Tick(k) /\ candles' = Append(candles, k)
    BY <1>1 DEF BankNext
  <2>2. /\ bank' = NextBank(k)
        /\ atrs' = IF Ready(bank'.atr.wilder)
                   THEN Append(atrs, bank'.atr.wilder.value) ELSE atrs
    BY <1>1, <2>1 DEF BankNext, Tick
  <2> QED
    BY <2>1, <2>2, BankStep
<1>2. CASE UNCHANGED bankVars
  <2>1. bank' = bank /\ candles' = candles /\ atrs' = atrs
    BY <1>2 DEF bankVars
  <2>2. /\ Fed(CloseOf)' = Fed(CloseOf) /\ Fed(TypicalPrice)' = Fed(TypicalPrice)
        /\ Fed(VolumeOf)' = Fed(VolumeOf) /\ Fed(FlowOf)' = Fed(FlowOf)
    BY <2>1 DEF Fed
  <2> QED
    BY <2>1, <2>2 DEF BankInv, SumsTrue
<1> QED
  BY <1>1, <1>2

LEMMA BankInvSafe == BankInv => RollingSumsTrue
<1> SUFFICES ASSUME BankInv PROVE RollingSumsTrue
  OBVIOUS
<1>1. SumsTrue /\ MfiTrue(bank.mfi, Fed(FlowOf), Period["mfi"])
  BY DEF BankInv
<1>2. /\ \A p \in SmaPeriods :
            IsRolling(bank.sma[p].buffer, bank.sma[p].sum, Fed(CloseOf))
      /\ IsRolling(bank.bollinger.sma.buffer, bank.bollinger.sma.sum, Fed(CloseOf))
      /\ IsRolling(bank.bollinger.stddev.buffer, bank.bollinger.stddev.sum,
                   Fed(CloseOf))
      /\ bank.bollinger.stddev.sumSq
           = SumOf([i \in DOMAIN bank.bollinger.stddev.buffer.values |->
                      Square(bank.bollinger.stddev.buffer.values[i])])
      /\ IsRolling(bank.cci.sma.buffer, bank.cci.sma.sum, Fed(TypicalPrice))
      /\ IsRolling(bank.volumeSma.buffer, bank.volumeSma.sum, Fed(VolumeOf))
      /\ IsRolling(bank.chopBuf, bank.chopAtrSum, atrs)
  BY <1>1 DEF SumsTrue, Rolls, Squares
<1>3. DOMAIN Fed(FlowOf) = DOMAIN candles /\ candles \in Seq(Candle)
  BY DEF Fed, BankInv
<1> DEFINE pos == bank.mfi.pos.values
           neg == bank.mfi.neg.values
<1>4. /\ pos \in Seq(Int) /\ neg \in Seq(Int) /\ Len(pos) = Len(neg)
      /\ DOMAIN pos = 1..Len(pos) /\ DOMAIN neg = 1..Len(pos)
      /\ \A i \in 1..Len(pos) : 0 \in {pos[i], neg[i]}
  BY <1>1 DEF MfiTrue, Window
<1>5. \A i \in DOMAIN pos \cup DOMAIN neg : 0 \in {pos[i], neg[i]}
  <2> HIDE DEF pos, neg
  <2> QED
    BY <1>4
<1>6. ASSUME candles # <<>>
      PROVE  [i \in DOMAIN pos |-> pos[i] + neg[i]] =
               LastOf(Tail(Fed(FlowOf)), Period["mfi"])
  <2>1. Fed(FlowOf) # <<>>
    <3>1. 1 \in DOMAIN candles
      BY <1>3, <1>6
    <3> QED
      BY <1>3, <3>1
  <2> QED
    BY <1>1, <2>1 DEF MfiTrue, Flows
<1> HIDE DEF pos, neg
<1> QED
  BY <1>2, <1>5, <1>6 DEF RollingSumsTrue, pos, neg

\* Every running sum is the sum of its window and every window the last of
\* its source, for whatever periods and however long the stream: the sums kept
\* by peek and subtract (SmaState, RollingStddev, the choppiness sum) never
\* drift from their buffers, and the money flow windows stay aligned.
THEOREM RollingSumsCorrect == BankSpec => []RollingSumsTrue
<1> QED
  BY BankInvInit, BankInvInductive, BankInvSafe, PTL DEF BankSpec

-----------------------------------------------------------------------------
(* The labeler under the smoothing of the bank *)

\* A step leaves the close within the smoothing of the extreme.
LEMMA StepSwing ==
    ASSUME extreme \in Nat, NEW close \in Nat, NEW smoothing \in Nat,
           Step(close, smoothing)
    PROVE  /\ extreme' \in Nat /\ lastClose' = close /\ candle' = candle + 1
           /\ Abs(lastClose' - extreme') <= smoothing
<1>1. CASE Seed(close, smoothing)
  <2>1. extreme' = close /\ lastClose' = close /\ candle' = candle + 1
    BY <1>1 DEF Seed, StartStats
  <2>2. Abs(close - close) = 0
    BY DEF Abs
  <2> QED
    BY <2>1, <2>2
<1>2. ASSUME Track(close, smoothing), lastClose' = close
      PROVE  /\ extreme' \in Nat /\ lastClose' = close /\ candle' = candle + 1
             /\ Abs(lastClose' - extreme') <= smoothing
  <2>1. extreme' = NewExtreme(close, smoothing) /\ candle' = candle + 1
    BY <1>2 DEF Track
  <2>2. CASE Switch(close, smoothing)
    <3>1. extreme' = close
      BY <2>1, <2>2 DEF NewExtreme
    <3>2. Abs(close - close) = 0
      BY DEF Abs
    <3> QED
      BY <1>2, <2>1, <3>1, <3>2
  <2>3. CASE ~Switch(close, smoothing)
    <3>1. extreme' = TrackExtreme(close)
      BY <2>1, <2>3 DEF NewExtreme
    <3>2. TrackExtreme(close) \in Nat
      BY DEF TrackExtreme
    <3>3. Swing(close) \in Int /\ Swing(close) <= smoothing
      BY <2>3, <3>2 DEF Switch, Swing
    <3>4. Swing(close) >= 0
      BY DEF Swing, TrackExtreme, Passes
    <3>5. Abs(close - TrackExtreme(close)) = Swing(close)
      BY <3>2, <3>4 DEF Swing, Abs
    <3> QED
      BY <1>2, <2>1, <3>1, <3>2, <3>3, <3>5
  <2> QED
    BY <2>2, <2>3
<1>3. CASE Extend(close, smoothing)
  BY <1>2, <1>3 DEF Extend
<1>4. CASE Boundary(close, smoothing)
  BY <1>2, <1>4 DEF Boundary, StartStats
<1> QED
  BY <1>1, <1>3, <1>4 DEF Step

\* As NoSwingMissed, for the candles ticked so far.
SwingBounded ==
    /\ candle = Len(candles) /\ extreme \in Nat
    /\ candles # <<>> =>
          Abs(lastClose - extreme) <=
            IF Ready(bank.atr.wilder) THEN 2 * Widest(candles) ELSE 0

LEMMA SwingInit == BankInit => SwingBounded
BY DEF BankInit, PhaseInit, SwingBounded

LEMMA SwingInductive ==
    BankInv /\ BankInv' /\ SwingBounded /\ [BankNext]_bankVars => SwingBounded'
<1> SUFFICES ASSUME BankInv, BankInv', SwingBounded, [BankNext]_bankVars
             PROVE  SwingBounded'
  OBVIOUS
<1>1. CASE BankNext
  <2>1. PICK k \in Candle : Tick(k) /\ candles' = Append(candles, k)
    BY <1>1 DEF BankNext
  <2>2. Step(k.close, Smoothed(bank'.atr)) /\ k.close \in Nat
    BY <2>1, CandleType DEF Tick
  <2>3. /\ candles \in Seq(Candle) /\ candles' \in Seq(Candle)
        /\ AtrTrue(bank'.atr, candles')
    BY DEF BankInv
  <2> DEFINE w == bank'.atr.wilder
  <2>4. /\ w \in Smoother /\ w.value \in Nat /\ w.value <= Widest(candles')
        /\ w.count < w.period => w.value = 0
        /\ w.count \in Nat /\ w.period \in Nat
    BY <2>3 DEF AtrTrue, AveragesBelow, Smoother
  <2>5. PICK smoothing \in Nat : smoothing = Smoothed(bank'.atr)
    BY <2>4 DEF Smoothed
  <2>6. /\ extreme' \in Nat /\ lastClose' = k.close /\ candle' = candle + 1
        /\ Abs(lastClose' - extreme') <= smoothing
    <3>1. extreme \in Nat /\ Step(k.close, smoothing)
      BY <2>2, <2>5 DEF SwingBounded
    <3> QED
      BY <2>2, <3>1, StepSwing
  <2>7. Widest(candles') \in Nat
    BY <2>1, <2>3, WidestGrows
  <2>8. smoothing <= IF Ready(w) THEN 2 * Widest(candles') ELSE 0
    BY <2>4, <2>5, <2>7 DEF Smoothed, Ready
  <2>9. candle' = Len(candles')
    BY <2>1, <2>3, <2>6 DEF SwingBounded
  <2>10. Abs(lastClose' - extreme') \in Int
    BY <2>2, <2>6 DEF Abs
  <2> HIDE DEF w
  <2>11. Abs(lastClose' - extreme') <= IF Ready(w) THEN 2 * Widest(candles') ELSE 0
    BY <2>6, <2>7, <2>8, <2>10
  <2> QED
    BY <2>6, <2>9, <2>11 DEF SwingBounded, w
<1>2. CASE UNCHANGED bankVars
  BY <1>2 DEF bankVars, phaseVars, trackerVars, statVars, SwingBounded
<1> QED
  BY <1>1, <1>2

LEMMA SwingSafe == BankInv /\ SwingBounded => NoSwingMissed
<1> SUFFICES ASSUME BankInv, SwingBounded, candle > 0
             PROVE  Abs(lastClose - extreme) <=
                      IF Ready(bank.atr.wilder) THEN 2 * WidestRange ELSE 0
  BY DEF NoSwingMissed
<1>1. candles # <<>>
  BY DEF SwingBounded
<1>2. \A i \in DOMAIN candles : RangeOf(i) = RangeAt(candles, i)
  BY DEF RangeOf, RangeAt
<1>3. WidestRange = Widest(candles)
  BY <1>1, <1>2, Zenon DEF WidestRange, Widest, Ranges
<1> QED
  BY <1>1, <1>3 DEF SwingBounded

\* The labeler, smoothed by twice the average true range, is never blind to a
\* swing wider than twice the widest true range seen, nor to any swing while
\* the average warms up: Wilder's recurrence, rounded down, stays among the
\* true ranges it is fed.
THEOREM NoSwingIsMissed == BankSpec => []NoSwingMissed
<1>1. BankSpec => []BankInv
  BY BankInvInit, BankInvInductive, PTL DEF BankSpec
<1> QED
  BY <1>1, SwingInit, SwingInductive, SwingSafe, PTL DEF BankSpec

-----------------------------------------------------------------------------
(* Percentages *)

LEMMA Percent ==
    ASSUME NEW a \in Nat, NEW b \in Nat \ {0}, a <= b
    PROVE  (100 * a) \div b \in 0..100
<1>1. 100 * a \in Nat /\ 100 * a <= b * 100
  OBVIOUS
<1> DEFINE c == 100 * a
<1> HIDE DEF c
<1>2. c \in Nat /\ c <= b * 100
  BY <1>1 DEF c
<1>3. c \div b \in Nat /\ c \div b <= 100
  BY <1>2, DivNat, DivBelow
<1> QED
  BY <1>3 DEF c

\* A sum of percentages, or of numbers from 0 to w.
LEMMA SumBetween ==
    ASSUME NEW w \in Nat, NEW s \in Seq(Int), \A i \in 1..Len(s) : s[i] \in 0..w
    PROVE  SumOf(s) \in Nat /\ SumOf(s) <= Len(s) * w
<1> DEFINE P == {n \in Nat : \A t \in Seq(Int) :
                    Len(t) = n /\ (\A i \in 1..n : t[i] \in 0..w)
                      => SumOf(t) \in Nat /\ SumOf(t) <= n * w}
<1>1. 0 \in P
  <2>1. ASSUME NEW t \in Seq(Int), Len(t) = 0
        PROVE  SumOf(t) = 0
    <3>1. t = <<>> /\ DOMAIN <<>> = {}
      BY <2>1
    <3> QED
      BY <3>1, SumEmpty DEF SumOf, SumFunction
  <2>2. 0 * w = 0
    OBVIOUS
  <2> QED
    BY <2>1, <2>2
<1>2. ASSUME NEW n \in Nat, n \in P PROVE n + 1 \in P
  <2> SUFFICES ASSUME NEW t \in Seq(Int), Len(t) = n + 1,
                      \A i \in 1..(n + 1) : t[i] \in 0..w
               PROVE  SumOf(t) \in Nat /\ SumOf(t) <= (n + 1) * w
    OBVIOUS
  <2> DEFINE u == SubSeq(t, 1, n)
             x == t[n + 1]
  <2>1. u \in Seq(Int) /\ Len(u) = n /\ \A i \in 1..n : u[i] = t[i]
    OBVIOUS
  <2>2. x \in Nat /\ x <= w /\ x \in Int
    OBVIOUS
  <2> HIDE DEF u, x
  <2>3. t = Append(u, x)
    <3> DEFINE a == Append(u, x)
    <3>1. a \in Seq(Int) /\ Len(a) = n + 1 /\ a[n + 1] = x
          /\ \A i \in 1..n : a[i] = u[i]
      BY <2>1, <2>2, AppendProperties
    <3>2. \A i \in 1..(n + 1) : t[i] = a[i]
      BY <2>1, <3>1 DEF x
    <3> HIDE DEF a
    <3>3. t = a
      BY <3>1, <3>2, SeqEqual
    <3> QED
      BY <3>3 DEF a
  <2>4. SumOf(u) \in Nat /\ SumOf(u) <= n * w
    BY <1>2, <2>1
  <2>5. SumOf(t) = SumOf(u) + x
    BY <2>1, <2>2, <2>3, SeqSumAppends DEF SumOf
  <2>6. (n + 1) * w = n * w + w /\ n * w \in Nat
    OBVIOUS
  <2> QED
    BY <2>2, <2>4, <2>5, <2>6
<1>3. \A n \in Nat : n \in P
  <2> HIDE DEF P
  <2> QED
    BY <1>1, <1>2, NumberInduction
<1>4. Len(s) \in Nat
  OBVIOUS
<1> QED
  BY <1>3, <1>4

\* The highest and the lowest of a window that is not empty.
LEMMA ExtremesAre ==
    ASSUME NEW buf \in Window, buf.values # <<>>
    PROVE  /\ Highest(buf) \in Int /\ Lowest(buf) \in Int
           /\ Highest(buf) = Max(Range(buf.values))
           /\ Lowest(buf) = Min(Range(buf.values))
           /\ Highest(buf) \in Range(buf.values)
           /\ Lowest(buf) \in Range(buf.values)
           /\ \A i \in 1..Len(buf.values) :
                 buf.values[i] <= Highest(buf) /\ Lowest(buf) <= buf.values[i]
<1> DEFINE v == buf.values
           S == Range(v)
<1>1. v \in Seq(Int) /\ v # <<>> /\ DOMAIN v = 1..Len(v) /\ Len(v) \in Nat
  BY DEF Window
<1>2. S = {v[i] : i \in 1..Len(v)}
  BY <1>1 DEF Range
<1>3. \A i \in 1..Len(v) : v[i] \in S /\ v[i] \in Int
  BY <1>1, <1>2
<1>4. IsFiniteSet(S)
  <2>1. IsFiniteSet(1..Len(v))
    BY <1>1, FS_Interval
  <2> DEFINE f == [i \in 1..Len(v) |-> v[i]]
  <2>2. f \in Surjection(1..Len(v), S)
    BY <1>2 DEF Surjection
  <2> HIDE DEF f, S
  <2> QED
    BY <2>1, <2>2, FS_Surjection
<1>5. S \in SUBSET Int /\ S # {}
  <2>1. 1 \in 1..Len(v)
    BY <1>1
  <2> QED
    BY <1>2, <1>3, <2>1
<1> HIDE DEF S
<1>6. /\ Max(S) \in S /\ \A y \in S : y <= Max(S)
      /\ Min(S) \in S /\ \A y \in S : Min(S) <= y
  BY <1>4, <1>5, MaxIs, MinIs
<1>7. Highest(buf) = Max(S) /\ Lowest(buf) = Min(S)
  BY DEF Highest, Lowest, S
<1> HIDE DEF v
<1>8. /\ Highest(buf) \in Int /\ Lowest(buf) \in Int
      /\ \A i \in 1..Len(v) : v[i] <= Highest(buf) /\ Lowest(buf) <= v[i]
  BY <1>3, <1>5, <1>6, <1>7
<1> QED
  BY <1>6, <1>7, <1>8 DEF v, S

\* After a push the value pushed is the last.
LEMMA PushNewest ==
    ASSUME NEW buf \in Window, NEW x \in Int
    PROVE  LET v == Push(buf, x).values
           IN  /\ Push(buf, x) \in Window /\ Push(buf, x).capacity = buf.capacity
               /\ v \in Seq(Int) /\ Len(v) \in Nat \ {0} /\ v # <<>>
               /\ v[Len(v)] = x
               /\ Len(v) = IF Len(buf.values) < buf.capacity
                           THEN Len(buf.values) + 1 ELSE Len(buf.values)
<1> DEFINE v == Push(buf, x).values
           n == Len(buf.values)
           drop == IF n < buf.capacity THEN 0 ELSE 1
<1>1. /\ v \in Seq(Int) /\ Len(v) = (n + 1) - drop
      /\ \A i \in 1..Len(v) : v[i] = IF i + drop <= n THEN buf.values[i + drop] ELSE x
  BY PushPoints
<1>2. Push(buf, x) \in Window /\ Push(buf, x).capacity = buf.capacity
  BY PushIs
<1>3. n \in Nat /\ buf.capacity \in Nat \ {0} /\ n <= buf.capacity
  BY DEF Window
<1> HIDE DEF v
<1>4. Len(v) \in Nat \ {0} /\ Len(v) \in 1..Len(v) /\ Len(v) + drop = n + 1
  BY <1>1, <1>3
<1>5. v[Len(v)] = x
  <2>1. ~(Len(v) + drop <= n)
    BY <1>3, <1>4
  <2> QED
    BY <1>1, <1>4, <2>1
<1>6. v # <<>>
  BY <1>4
<1>7. Len(v) = IF n < buf.capacity THEN n + 1 ELSE n
  BY <1>1, <1>3
<1> QED
  BY <1>1, <1>2, <1>4, <1>5, <1>6, <1>7 DEF v

-----------------------------------------------------------------------------
(* The stochastic *)

\* A close between the low and the high of the candle just pushed stands
\* somewhere in the range of the windows.
LEMMA InRange ==
    ASSUME NEW highs \in Window, NEW lows \in Window, NEW k \in Candle
    PROVE  LET top == Highest(Push(highs, k.high))
               bottom == Lowest(Push(lows, k.low))
           IN  /\ top \in Int /\ bottom \in Int
               /\ bottom <= k.close /\ k.close <= top
               /\ top - bottom \in Nat
<1> DEFINE h == Push(highs, k.high)
           l == Push(lows, k.low)
<1>1. /\ k.high \in Int /\ k.low \in Int /\ k.close \in Int
      /\ k.low <= k.close /\ k.close <= k.high
  BY CandleType
<1>2. /\ h \in Window /\ h.values # <<>> /\ h.values[Len(h.values)] = k.high
      /\ Len(h.values) \in Nat \ {0}
  BY <1>1, PushNewest
<1>3. /\ l \in Window /\ l.values # <<>> /\ l.values[Len(l.values)] = k.low
      /\ Len(l.values) \in Nat \ {0}
  BY <1>1, PushNewest
<1> HIDE DEF h, l
<1>4. Highest(h) \in Int /\ k.high <= Highest(h)
  <2>1. Len(h.values) \in 1..Len(h.values)
    BY <1>2
  <2> QED
    BY <1>2, <2>1, ExtremesAre
<1>5. Lowest(l) \in Int /\ Lowest(l) <= k.low
  <2>1. Len(l.values) \in 1..Len(l.values)
    BY <1>3
  <2> QED
    BY <1>3, <2>1, ExtremesAre
<1>6. Lowest(l) <= k.close /\ k.close <= Highest(h) /\ Highest(h) - Lowest(l) \in Nat
  BY <1>1, <1>4, <1>5
<1> QED
  BY <1>4, <1>5, <1>6 DEF h, l

LEMMA PercentKIs ==
    ASSUME NEW highs, NEW lows, NEW close \in Int,
           Highest(highs) \in Int, Lowest(lows) \in Int,
           Lowest(lows) <= close, close <= Highest(highs)
    PROVE  /\ PercentK(highs, lows, close) \in 0..100
           /\ RangePos(highs, lows, close) \in 0..100
<1> DEFINE range == Highest(highs) - Lowest(lows)
           up == close - Lowest(lows)
<1>1. range \in Nat /\ up \in Nat /\ up <= range
  OBVIOUS
<1> HIDE DEF range, up
<1>2. ASSUME range # 0 PROVE (100 * up) \div range \in 0..100
  BY <1>1, <1>2, Percent
<1>3. /\ PercentK(highs, lows, close) = IF range = 0 THEN 50 ELSE (100 * up) \div range
      /\ RangePos(highs, lows, close) = IF range = 0 THEN 50 ELSE (100 * up) \div range
  BY DEF PercentK, RangePos, range, up
<1> QED
  BY <1>2, <1>3

LEMMA MeanPercent ==
    ASSUME NEW a \in Nat, NEW n \in Nat \ {0}, a <= n * 100
    PROVE  a \div n \in 0..100
<1>1. a \div n \in Nat /\ a \div n <= 100
  BY DivNat, DivBelow
<1> QED
  BY <1>1

\* The windows of the stochastic: nothing is stored before they are full, and
\* what is stored are percentages.
StochTrue(stoch) ==
    /\ stoch.highs \in Window /\ stoch.lows \in Window /\ stoch.ks \in Window
    /\ Len(stoch.highs.values) < stoch.highs.capacity => stoch.ks.values = <<>>
    /\ \A i \in 1..Len(stoch.ks.values) : stoch.ks.values[i] \in 0..100

LEMMA StochStep ==
    ASSUME NEW stoch, NEW k \in Candle, StochTrue(stoch)
    PROVE  LET next == StochUpdate(stoch, k)
           IN  /\ StochTrue(next)
               /\ StochK(next) \in 0..100 /\ StochD(next) \in 0..100
               /\ StochK(next) = WilliamsR(next, k.close) + 100
<1> DEFINE next == StochUpdate(stoch, k)
           highs == Push(stoch.highs, k.high)
           lows == Push(stoch.lows, k.low)
           x == PercentK(highs, lows, k.close)
           range == Highest(highs) - Lowest(lows)
<1>1. /\ stoch.highs \in Window /\ stoch.lows \in Window /\ stoch.ks \in Window
      /\ Len(stoch.highs.values) < stoch.highs.capacity => stoch.ks.values = <<>>
      /\ \A i \in 1..Len(stoch.ks.values) : stoch.ks.values[i] \in 0..100
  BY DEF StochTrue
<1>2. k.high \in Int /\ k.low \in Int /\ k.close \in Int
  BY CandleType
<1>3. /\ highs \in Window /\ lows \in Window
      /\ highs.capacity = stoch.highs.capacity /\ highs.capacity \in Nat
      /\ Len(highs.values) \in Nat
      /\ Len(highs.values) = IF Len(stoch.highs.values) < stoch.highs.capacity
                             THEN Len(stoch.highs.values) + 1
                             ELSE Len(stoch.highs.values)
      /\ Len(stoch.highs.values) \in Nat
  <2>1. /\ highs \in Window /\ highs.capacity = stoch.highs.capacity
        /\ Len(highs.values) \in Nat
        /\ Len(highs.values) = IF Len(stoch.highs.values) < stoch.highs.capacity
                               THEN Len(stoch.highs.values) + 1
                               ELSE Len(stoch.highs.values)
    BY <1>1, <1>2, PushNewest
  <2>2. lows \in Window
    BY <1>1, <1>2, PushNewest
  <2> HIDE DEF highs, lows
  <2> QED
    BY <1>1, <2>1, <2>2 DEF Window
<1>4. /\ Highest(highs) \in Int /\ Lowest(lows) \in Int
      /\ Lowest(lows) <= k.close /\ k.close <= Highest(highs) /\ range \in Nat
  BY <1>1, InRange
<1>5. next = [highs |-> highs, lows |-> lows,
              ks |-> IF Full(highs) THEN Push(stoch.ks, x) ELSE stoch.ks]
  BY DEF StochUpdate
<1> HIDE DEF highs, lows, next
<1>6. x \in 0..100
  BY <1>2, <1>4, PercentKIs
<1>7. CASE ~Full(highs)
  <2>1. Len(highs.values) < highs.capacity
    BY <1>3, <1>7 DEF Full
  <2>2. stoch.ks.values = <<>>
    BY <1>1, <1>3, <2>1
  <2>3. next.ks = stoch.ks /\ next.highs = highs /\ next.lows = lows
    BY <1>5, <1>7
  <2>4. StochTrue(next)
    BY <1>1, <1>3, <2>2, <2>3 DEF StochTrue
  <2>5. StochK(next) = 50 /\ StochD(next) = 50 /\ WilliamsR(next, k.close) = -50
    BY <1>7, <2>2, <2>3 DEF StochK, StochD, WilliamsR
  <2> QED
    BY <2>4, <2>5 DEF next
<1>8. CASE Full(highs)
  <2> DEFINE ks == Push(stoch.ks, x)
             v == ks.values
             n == Len(stoch.ks.values)
             drop == IF n < stoch.ks.capacity THEN 0 ELSE 1
  <2>1. x \in Int
    BY <1>6
  <2> HIDE DEF x
  <2>2. /\ ks \in Window /\ v \in Seq(Int) /\ Len(v) \in Nat \ {0} /\ v # <<>>
        /\ v[Len(v)] = x
    BY <1>1, <2>1, PushNewest
  <2>3. \A i \in 1..Len(v) : v[i] \in 0..100
    <3>1. \A i \in 1..Len(v) :
             v[i] = IF i + drop <= n THEN stoch.ks.values[i + drop] ELSE x
      BY <1>1, <2>1, PushPoints
    <3>2. n \in Nat /\ drop \in {0, 1}
      BY <1>1 DEF Window
    <3> HIDE DEF v, n, drop
    <3> TAKE i \in 1..Len(v)
    <3>3. CASE i + drop <= n
      <4>1. i + drop \in 1..Len(stoch.ks.values)
        BY <2>2, <3>2, <3>3 DEF n
      <4> QED
        BY <1>1, <3>1, <3>3, <4>1
    <3>4. CASE ~(i + drop <= n)
      BY <1>6, <3>1, <3>4
    <3> QED
      BY <3>3, <3>4
  <2> HIDE DEF ks
  <2>4. next.ks = ks /\ next.highs = highs /\ next.lows = lows
    BY <1>5, <1>8 DEF ks
  <2>5. ~(Len(highs.values) < highs.capacity)
    BY <1>3, <1>8 DEF Full
  <2>6. StochTrue(next)
    BY <1>3, <2>2, <2>3, <2>4, <2>5 DEF StochTrue
  <2>7. StochK(next) = x
    <3>1. 0 < Len(v) /\ Len(v) - 0 = Len(v)
      BY <2>2
    <3> QED
      BY <2>2, <2>4, <3>1 DEF StochK, Get
  <2>8. StochD(next) \in 0..100
    <3>1. SumOf(v) \in Nat /\ SumOf(v) <= Len(v) * 100
      BY <2>2, <2>3, SumBetween
    <3>2. SumOf(v) \div Len(v) \in 0..100
      BY <2>2, <3>1, MeanPercent
    <3>3. StochD(next) = SumOf(v) \div Len(v)
      BY <2>2, <2>4 DEF StochD, Mean
    <3> QED
      BY <3>2, <3>3
  <2>9. x = WilliamsR(next, k.close) + 100
    <3>1. CASE range = 0
      BY <2>4, <3>1 DEF WilliamsR, PercentK, x
    <3>2. CASE range # 0
      <4> DEFINE a == Highest(highs)
                 b == Lowest(lows)
                 c == k.close
      <4>1. x = (100 * (c - b)) \div range
        BY <3>2 DEF PercentK, x
      <4>2. WilliamsR(next, c) = (-100 * (a - c)) \div range
        BY <1>8, <2>4, <3>2 DEF WilliamsR
      <4>3. a \in Int /\ b \in Int /\ c \in Int /\ range = a - b /\ range \in Nat \ {0}
        BY <1>2, <1>4, <3>2
      <4> HIDE DEF a, b, c, range
      <4>4. 100 * (c - b) = (-100 * (a - c)) + 100 * range
        BY <4>3
      <4> DEFINE y == -100 * (a - c)
      <4>5. y \in Int /\ 100 * (c - b) = y + 100 * range
        BY <4>3, <4>4
      <4> HIDE DEF y
      <4>6. (y + 100 * range) \div range = (y \div range) + 100
        BY <4>3, <4>5
      <4> QED
        BY <4>1, <4>2, <4>5, <4>6 DEF y, c
    <3> QED
      BY <3>1, <3>2
  <2> QED
    BY <1>6, <2>6, <2>7, <2>8, <2>9 DEF next
<1> QED
  BY <1>7, <1>8

-----------------------------------------------------------------------------
(* Relative strength and money flow *)

LEMMA WilderSmooths ==
    ASSUME NEW w \in Smoother, NEW x \in Nat
    PROVE  WilderUpdate(w, x) \in Smoother
<1>1. PICK period \in Nat \ {0}, value \in Nat, seen \in Nat, accum \in Nat :
        /\ period = w.period /\ value = w.value
        /\ seen = w.count /\ accum = w.accum
  BY DEF Smoother
<1> DEFINE next == WilderUpdate(w, x)
           n == seen + 1
           y == x + value * (period - 1)
           z == accum + x
<1>2. n \in Nat /\ y \in Nat /\ z \in Nat
  <2>1. period - 1 \in Nat
    OBVIOUS
  <2>2. value * (period - 1) \in Nat
    BY <2>1, MulNat
  <2> QED
    BY <2>2
<1>3. next = [period |-> period, count |-> n,
              accum |-> IF n <= period THEN z ELSE accum,
              value |-> IF n > period THEN y \div period
                        ELSE IF n = period THEN z \div period ELSE value]
  BY <1>1 DEF WilderUpdate, Advance
<1> HIDE DEF n, y, z, next
<1>4. y \div period \in Nat /\ z \div period \in Nat
  BY <1>2, DivNat
<1>5. next \in Smoother
  BY <1>2, <1>3, <1>4 DEF Smoother
<1> QED
  BY <1>5 DEF next

RsiTrue(rsi) ==
    /\ rsi.gain \in Smoother /\ rsi.loss \in Smoother /\ rsi.prevClose \in Int
    /\ rsi = [gain |-> rsi.gain, loss |-> rsi.loss,
              prevClose |-> rsi.prevClose, started |-> rsi.started]

LEMMA RsiStep ==
    ASSUME NEW rsi, NEW close \in Int, RsiTrue(rsi)
    PROVE  RsiTrue(RsiUpdate(rsi, close)) /\ RsiValue(RsiUpdate(rsi, close)) \in 0..100
<1> DEFINE next == RsiUpdate(rsi, close)
<1>1. RsiTrue(next)
  <2>1. CASE rsi.started
    <3> DEFINE up == Positive(close - rsi.prevClose)
               down == Positive(rsi.prevClose - close)
    <3>1. up \in Nat /\ down \in Nat
      BY DEF RsiTrue, Positive
    <3>2. next = [gain |-> WilderUpdate(rsi.gain, up), loss |-> WilderUpdate(rsi.loss, down),
                  prevClose |-> close, started |-> rsi.started]
      BY <2>1 DEF RsiUpdate, RsiTrue
    <3> HIDE DEF up, down, next
    <3>3. WilderUpdate(rsi.gain, up) \in Smoother /\ WilderUpdate(rsi.loss, down) \in Smoother
      BY <3>1, WilderSmooths DEF RsiTrue
    <3> QED
      BY <3>2, <3>3 DEF RsiTrue
  <2>2. CASE ~rsi.started
    <3>1. next = [gain |-> rsi.gain, loss |-> rsi.loss,
                  prevClose |-> close, started |-> TRUE]
      BY <2>2 DEF RsiUpdate, RsiTrue
    <3> HIDE DEF next
    <3> QED
      BY <3>1 DEF RsiTrue
  <2> QED
    BY <2>1, <2>2
<1> HIDE DEF next
<1>2. next.gain.value \in Nat /\ next.loss.value \in Nat
  BY <1>1 DEF RsiTrue, Smoother
<1>3. RsiValue(next) \in 0..100
  <2>1. CASE next.loss.value = 0
    BY <2>1 DEF RsiValue
  <2>2. CASE next.loss.value # 0
    <3> DEFINE a == next.gain.value
               b == next.gain.value + next.loss.value
    <3>1. a \in Nat /\ b \in Nat \ {0} /\ a <= b
      BY <1>2, <2>2
    <3>2. RsiValue(next) = (100 * a) \div b
      BY <2>2 DEF RsiValue
    <3> HIDE DEF a, b
    <3> QED
      BY <3>1, <3>2, Percent
  <2> QED
    BY <2>1, <2>2
<1> QED
  BY <1>1, <1>3 DEF next

LEMMA SumOfNats ==
    ASSUME NEW s \in Seq(Int), \A i \in 1..Len(s) : s[i] \in Nat
    PROVE  SumOf(s) \in Nat
<1>1. DOMAIN s = 1..Len(s) /\ Len(s) \in Nat
  OBVIOUS
<1>2. IsFiniteSet(1..Len(s))
  BY <1>1, FS_Interval
<1> QED
  BY <1>1, <1>2, SumNats DEF SumOf, SumFunction

LEMMA MfiIs ==
    ASSUME NEW mfi, NEW fed, NEW capacity, MfiTrue(mfi, fed, capacity)
    PROVE  MfiValue(mfi) \in 0..100
<1> DEFINE pos == SumOf(mfi.pos.values)
           neg == SumOf(mfi.neg.values)
<1>1. pos \in Nat /\ neg \in Nat
  <2>1. /\ mfi.pos.values \in Seq(Int) /\ mfi.neg.values \in Seq(Int)
        /\ Len(mfi.pos.values) = Len(mfi.neg.values)
        /\ \A i \in 1..Len(mfi.pos.values) :
              mfi.pos.values[i] \in Nat /\ mfi.neg.values[i] \in Nat
    BY DEF MfiTrue, Window
  <2> QED
    BY <2>1, SumOfNats
<1>2. MfiValue(mfi) = IF neg = 0 THEN 100 ELSE (100 * pos) \div (pos + neg)
  BY DEF MfiValue
<1> HIDE DEF pos, neg
<1>3. ASSUME neg # 0 PROVE (100 * pos) \div (pos + neg) \in 0..100
  <2> DEFINE b == pos + neg
  <2>1. b \in Nat \ {0} /\ pos <= b
    BY <1>1, <1>3
  <2> HIDE DEF b
  <2>2. (100 * pos) \div b \in 0..100
    BY <1>1, <2>1, Percent
  <2> QED
    BY <2>2 DEF b
<1> QED
  BY <1>2, <1>3

-----------------------------------------------------------------------------
(* Directional movement *)

LEMMA DivMono == \A a, b \in Int : \A c \in Nat \ {0} : a <= b => a \div c <= b \div c
OBVIOUS

LEMMA DivAdd ==
    \A a, b \in Int : \A c \in Nat \ {0} : (a \div c) + (b \div c) <= (a + b) \div c
OBVIOUS

\* The two movements, and the true range above them both: before the warm-up
\* ends in what is accumulated, afterwards in the averages.
DmiTrue(dmi) ==
    /\ dmi.plus \in Smoother /\ dmi.minus \in Smoother /\ dmi.tr \in Smoother
    /\ dmi.plus.period = dmi.tr.period /\ dmi.minus.period = dmi.tr.period
    /\ dmi.plus.count = dmi.tr.count /\ dmi.minus.count = dmi.tr.count
    /\ dmi.plus.accum + dmi.minus.accum <= dmi.tr.accum
    /\ dmi.plus.value + dmi.minus.value <= dmi.tr.value
    /\ AveragesBelow(dmi.adx, 100)
    /\ dmi.prev.high \in Nat /\ dmi.prev.low \in Nat /\ dmi.prev.close \in Nat
    /\ dmi.prev.low <= dmi.prev.close /\ dmi.prev.close <= dmi.prev.high
    /\ dmi = [plus |-> dmi.plus, minus |-> dmi.minus, tr |-> dmi.tr,
              adx |-> dmi.adx, prev |-> dmi.prev, started |-> dmi.started]

\* Two averages, rounded down apart, stay below a third that is fed more.
LEMMA SmoothersBelow ==
    ASSUME NEW p \in Smoother, NEW m \in Smoother, NEW t \in Smoother,
           p.period = t.period, m.period = t.period,
           p.count = t.count, m.count = t.count,
           p.accum + m.accum <= t.accum, p.value + m.value <= t.value,
           NEW x \in Nat, NEW y \in Nat, NEW z \in Nat, x + y <= z
    PROVE  LET pp == WilderUpdate(p, x)
               mm == WilderUpdate(m, y)
               tt == WilderUpdate(t, z)
           IN  /\ pp.period = tt.period /\ mm.period = tt.period
               /\ pp.count = tt.count /\ mm.count = tt.count
               /\ pp.accum + mm.accum <= tt.accum
               /\ pp.value + mm.value <= tt.value
<1>1. PICK period \in Nat \ {0}, seen \in Nat,
           pv \in Nat, pa \in Nat, mv \in Nat, ma \in Nat, tv \in Nat, ta \in Nat :
        /\ period = t.period /\ seen = t.count
        /\ pv = p.value /\ pa = p.accum /\ mv = m.value /\ ma = m.accum
        /\ tv = t.value /\ ta = t.accum
  BY DEF Smoother
<1>2. pa + ma <= ta /\ pv + mv <= tv /\ x + y <= z
  BY <1>1
<1> DEFINE n == seen + 1
           q == period - 1
           pb == x + pv * q
           mb == y + mv * q
           tb == z + tv * q
           ps == pa + x
           ms == ma + y
           ts == ta + z
           After(accum, sum, blend, value) ==
             [period |-> period, count |-> n,
              accum |-> IF n <= period THEN sum ELSE accum,
              value |-> IF n > period THEN blend \div period
                        ELSE IF n = period THEN sum \div period ELSE value]
<1>3. /\ WilderUpdate(p, x) = After(pa, ps, pb, pv)
      /\ WilderUpdate(m, y) = After(ma, ms, mb, mv)
      /\ WilderUpdate(t, z) = After(ta, ts, tb, tv)
  BY <1>1 DEF WilderUpdate, Advance
<1>4. q \in Nat
  OBVIOUS
<1>5. /\ pb \in Nat /\ mb \in Nat /\ tb \in Nat /\ ps \in Nat /\ ms \in Nat /\ ts \in Nat
  <2> HIDE DEF q
  <2>1. pv * q \in Nat /\ mv * q \in Nat /\ tv * q \in Nat
    BY <1>4, MulNat
  <2> QED
    BY <2>1
<1>6. ps + ms <= ts
  BY <1>2
<1>7. pb + mb <= tb
  <2> HIDE DEF q
  <2>1. q * (pv + mv) <= q * tv
    BY <1>2, <1>4, MulMono
  <2>2. q * (pv + mv) = pv * q + mv * q /\ q * tv = tv * q
    BY <1>4
  <2>3. pv * q \in Nat /\ mv * q \in Nat /\ tv * q \in Nat
    BY <1>4, MulNat
  <2> QED
    BY <1>2, <2>1, <2>2, <2>3
<1> HIDE DEF pb, mb, tb, ps, ms, ts, n, q
<1>8. \A a, b, c \in Nat : a + b <= c => (a \div period) + (b \div period) <= c \div period
  <2> TAKE a, b, c \in Nat
  <2>1. (a \div period) + (b \div period) <= (a + b) \div period
    BY DivAdd
  <2> HAVE a + b <= c
  <2>2. (a + b) \div period <= c \div period
    BY DivMono
  <2>3. /\ a \div period \in Nat /\ b \div period \in Nat /\ c \div period \in Nat
        /\ (a + b) \div period \in Nat
    BY DivNat
  <2> QED
    BY <2>1, <2>2, <2>3
<1>9. /\ (pb \div period) + (mb \div period) <= tb \div period
      /\ (ps \div period) + (ms \div period) <= ts \div period
  BY <1>5, <1>6, <1>7, <1>8
<1> DEFINE pp == After(pa, ps, pb, pv)
           mm == After(ma, ms, mb, mv)
           tt == After(ta, ts, tb, tv)
<1>10. /\ pp.period = tt.period /\ mm.period = tt.period
       /\ pp.count = tt.count /\ mm.count = tt.count
  OBVIOUS
<1>11. pp.accum + mm.accum <= tt.accum
  BY <1>2, <1>6
<1>12. pp.value + mm.value <= tt.value
  BY <1>2, <1>9
<1> HIDE DEF After
<1> QED
  BY <1>3, <1>10, <1>11, <1>12

LEMMA MovesAre ==
    ASSUME NEW k \in Candle, NEW above \in Nat, NEW below \in Nat, NEW close \in Nat,
           below <= close, close <= above
    PROVE  LET up == k.high - above
               down == below - k.low
           IN  /\ Directional(up, down) \in Nat /\ Directional(down, up) \in Nat
               /\ TrueRange(k, close) \in Nat
               /\ Directional(up, down) + Directional(down, up) <= TrueRange(k, close)
<1> DEFINE up == k.high - above
           down == below - k.low
           range == TrueRange(k, close)
<1>1. k.high \in Nat /\ k.low \in Nat
  BY CandleType
<1>2. range \in Nat /\ k.high - close <= range /\ close - k.low <= range
  BY TrueRangeIs
<1>3. up \in Int /\ down \in Int /\ up <= range /\ down <= range
  <2> HIDE DEF range
  <2> QED
    BY <1>1, <1>2
<1> HIDE DEF up, down, range
<1>4. /\ Directional(up, down) \in Nat /\ Directional(down, up) \in Nat
      /\ Directional(up, down) + Directional(down, up) <= range
  BY <1>2, <1>3 DEF Directional, Positive
<1> QED
  BY <1>2, <1>4 DEF up, down, range

LEMMA DxIs ==
    ASSUME NEW plus \in Smoother, NEW minus \in Smoother,
           plus.value + minus.value > 0
    PROVE  Dx(plus, minus) \in 0..100
<1> DEFINE a == Abs(plus.value - minus.value)
           b == plus.value + minus.value
<1>1. plus.value \in Nat /\ minus.value \in Nat
  BY DEF Smoother
<1>2. a \in Nat /\ b \in Nat \ {0} /\ a <= b
  BY <1>1 DEF Abs
<1>3. Dx(plus, minus) = (100 * a) \div b
  BY DEF Dx
<1> HIDE DEF a, b
<1> QED
  BY <1>2, <1>3, Percent

LEMMA DmiStep ==
    ASSUME NEW dmi, NEW k \in Candle, DmiTrue(dmi)
    PROVE  DmiTrue(DmiUpdate(dmi, k))
<1> DEFINE next == DmiUpdate(dmi, k)
           now == [high |-> k.high, low |-> k.low, close |-> k.close]
<1>1. /\ dmi.plus \in Smoother /\ dmi.minus \in Smoother /\ dmi.tr \in Smoother
      /\ dmi.plus.period = dmi.tr.period /\ dmi.minus.period = dmi.tr.period
      /\ dmi.plus.count = dmi.tr.count /\ dmi.minus.count = dmi.tr.count
      /\ dmi.plus.accum + dmi.minus.accum <= dmi.tr.accum
      /\ dmi.plus.value + dmi.minus.value <= dmi.tr.value
      /\ AveragesBelow(dmi.adx, 100)
      /\ dmi.prev.high \in Nat /\ dmi.prev.low \in Nat /\ dmi.prev.close \in Nat
      /\ dmi.prev.low <= dmi.prev.close /\ dmi.prev.close <= dmi.prev.high
  BY DEF DmiTrue
<1>2. dmi = [plus |-> dmi.plus, minus |-> dmi.minus, tr |-> dmi.tr,
             adx |-> dmi.adx, prev |-> dmi.prev, started |-> dmi.started]
  BY DEF DmiTrue
<1>3. /\ now.high \in Nat /\ now.low \in Nat /\ now.close \in Nat
      /\ now.low <= now.close /\ now.close <= now.high
  BY CandleType
<1> HIDE DEF now
<1>4. CASE dmi.started
  <2> DEFINE up == k.high - dmi.prev.high
             down == dmi.prev.low - k.low
             x == Directional(up, down)
             y == Directional(down, up)
             z == TrueRange(k, dmi.prev.close)
             plus == WilderUpdate(dmi.plus, x)
             minus == WilderUpdate(dmi.minus, y)
             tr == WilderUpdate(dmi.tr, z)
             adx == IF Ready(tr) /\ tr.value > 0 /\ plus.value + minus.value > 0
                    THEN WilderUpdate(dmi.adx, Dx(plus, minus)) ELSE dmi.adx
  <2>1. x \in Nat /\ y \in Nat /\ z \in Nat /\ x + y <= z
    BY <1>1, MovesAre
  <2>2. next = [plus |-> plus, minus |-> minus, tr |-> tr, adx |-> adx,
                prev |-> now, started |-> TRUE]
    BY <1>4 DEF DmiUpdate, now
  <2> HIDE DEF next, x, y, z
  <2>3. plus \in Smoother /\ minus \in Smoother /\ tr \in Smoother
    BY <1>1, <2>1, WilderSmooths
  <2>4. /\ plus.period = tr.period /\ minus.period = tr.period
        /\ plus.count = tr.count /\ minus.count = tr.count
        /\ plus.accum + minus.accum <= tr.accum
        /\ plus.value + minus.value <= tr.value
    BY <1>1, <2>1, SmoothersBelow
  <2> HIDE DEF plus, minus, tr
  <2>5. AveragesBelow(adx, 100)
    <3>1. CASE Ready(tr) /\ tr.value > 0 /\ plus.value + minus.value > 0
      <4>1. Dx(plus, minus) \in 0..100
        BY <2>3, <3>1, DxIs
      <4>2. Dx(plus, minus) \in Nat /\ Dx(plus, minus) <= 100
        BY <4>1
      <4>3. AveragesBelow(WilderUpdate(dmi.adx, Dx(plus, minus)), 100)
        BY <1>1, <4>2, WilderBelow
      <4> QED
        BY <3>1, <4>3
    <3>2. CASE ~(Ready(tr) /\ tr.value > 0 /\ plus.value + minus.value > 0)
      BY <1>1, <3>2
    <3> QED
      BY <3>1, <3>2
  <2> HIDE DEF adx
  <2>6. DmiTrue(next)
    BY <1>3, <2>2, <2>3, <2>4, <2>5 DEF DmiTrue
  <2> QED
    BY <2>6 DEF next
<1>5. CASE ~dmi.started
  <2>1. next = [plus |-> dmi.plus, minus |-> dmi.minus, tr |-> dmi.tr,
                adx |-> dmi.adx, prev |-> now, started |-> TRUE]
    BY <1>2, <1>5 DEF DmiUpdate, now
  <2> HIDE DEF next
  <2>2. DmiTrue(next)
    BY <1>1, <1>3, <2>1 DEF DmiTrue
  <2> QED
    BY <2>2 DEF next
<1> QED
  BY <1>4, <1>5

LEMMA DiBelow ==
    ASSUME NEW dmi, DmiTrue(dmi)
    PROVE  Di(dmi, dmi.plus) + Di(dmi, dmi.minus) <= 100
<1>1. PICK p \in Nat, m \in Nat, t \in Nat :
        p = dmi.plus.value /\ m = dmi.minus.value /\ t = dmi.tr.value
  BY DEF DmiTrue, Smoother
<1>2. p + m <= t
  BY <1>1 DEF DmiTrue
<1>3. CASE t = 0
  BY <1>1, <1>3 DEF Di
<1>4. CASE t # 0
  <2> DEFINE a == 100 * p
             b == 100 * m
  <2>1. a \in Nat /\ b \in Nat /\ a + b <= t * 100
    BY <1>2
  <2>2. Di(dmi, dmi.plus) = a \div t /\ Di(dmi, dmi.minus) = b \div t
    BY <1>1, <1>4 DEF Di
  <2> HIDE DEF a, b
  <2>3. (a \div t) + (b \div t) <= (a + b) \div t
    BY <1>4, <2>1, DivAdd
  <2>4. (a + b) \div t <= 100
    BY <1>4, <2>1, DivBelow
  <2>5. a \div t \in Nat /\ b \div t \in Nat /\ (a + b) \div t \in Nat
    BY <1>4, <2>1, DivNat
  <2> QED
    BY <2>2, <2>3, <2>4, <2>5
<1> QED
  BY <1>3, <1>4

-----------------------------------------------------------------------------
(* Rises and falls in a row *)

RunTrue(run) == run.prevClose \in Int /\ 0 \in {run.up, run.down}

LEMMA RunStep ==
    ASSUME NEW run, NEW close \in Int, RunTrue(run)
    PROVE  RunTrue(ConsecutiveUpdate(run, close))
<1> DEFINE rise == run.started /\ close > run.prevClose
           fall == run.started /\ close < run.prevClose
           next == ConsecutiveUpdate(run, close)
<1>1. ~(rise /\ fall)
  BY DEF RunTrue
<1>2. /\ next.up = IF rise THEN run.up + 1 ELSE IF fall THEN 0 ELSE run.up
      /\ next.down = IF fall THEN run.down + 1 ELSE IF rise THEN 0 ELSE run.down
      /\ next.prevClose = close
  BY DEF ConsecutiveUpdate
<1> HIDE DEF rise, fall, next
<1>3. 0 \in {next.up, next.down}
  <2>1. CASE rise
    BY <1>1, <1>2, <2>1
  <2>2. CASE fall
    BY <1>1, <1>2, <2>2
  <2>3. CASE ~rise /\ ~fall
    BY <1>2, <2>3 DEF RunTrue
  <2> QED
    BY <2>1, <2>2, <2>3
<1> QED
  BY <1>2, <1>3 DEF RunTrue, next

-----------------------------------------------------------------------------
(* Windows of closes, highs and lows *)

LEMMA AgreementIs ==
    ASSUME NEW prevClose \in Int, NEW close \in Int, NEW hour, NEW fourHours,
           TfChange(hour) \in Int, TfChange(fourHours) \in Int
    PROVE  TfAgreement(prevClose, close, hour, fourHours) \in -1..3
<1>1. \A x \in Int : Signum(x) \in {-1, 0, 1}
  BY DEF Signum
<1> DEFINE s5 == IF prevClose = 0 THEN 0 ELSE Signum(close - prevClose)
           s1 == Signum(TfChange(hour))
           s4 == Signum(TfChange(fourHours))
<1>2. s5 \in {-1, 0, 1} /\ s1 \in {-1, 0, 1} /\ s4 \in {-1, 0, 1}
  BY <1>1
<1>3. TfAgreement(prevClose, close, hour, fourHours) = s5 * s1 + s5 * s4 + s1 * s4
  BY DEF TfAgreement
<1> HIDE DEF s5, s1, s4
<1>4. s5 * s1 + s5 * s4 + s1 * s4 \in -1..3
  <2>1. CASE s5 = 0
    BY <1>2, <2>1
  <2>2. CASE s5 = 1
    BY <1>2, <2>2
  <2>3. CASE s5 = -1
    BY <1>2, <2>3
  <2> QED
    BY <1>2, <2>1, <2>2, <2>3
<1> QED
  BY <1>3, <1>4

\* The change over a window is within its range.
LEMMA TfIs ==
    ASSUME NEW buf \in Window, buf.values # <<>>
    PROVE  TfChange(buf) \in Int /\ TfBody(buf) \in 0..100
<1> DEFINE v == buf.values
           n == Len(v)
           top == Highest(buf)
           bottom == Lowest(buf)
<1>1. v \in Seq(Int) /\ n \in Nat \ {0} /\ \A i \in 1..n : v[i] \in Int
  BY DEF Window
<1>2. /\ top \in Int /\ bottom \in Int
      /\ \A i \in 1..n : v[i] <= top /\ bottom <= v[i]
  BY ExtremesAre
<1>3. TfChange(buf) = IF n < 2 THEN 0 ELSE v[n] - v[1]
  <2>1. 0 < n /\ n - 0 = n /\ n - 1 < n /\ n - (n - 1) = 1
    BY <1>1
  <2> QED
    BY <2>1 DEF TfChange, Get
<1>4. v[n] \in Int /\ v[1] \in Int
  BY <1>1
<1>5. TfChange(buf) \in Int
  BY <1>3, <1>4
<1>6. TfBody(buf) \in 0..100
  <2> DEFINE range == top - bottom
             a == Abs(TfChange(buf))
  <2>1. a \in Nat /\ range \in Int
    BY <1>2, <1>5 DEF Abs
  <2>2. CASE n < 2 \/ range = 0
    BY <2>2 DEF TfBody
  <2>3. CASE ~(n < 2 \/ range = 0)
    <3>1. 1 \in 1..n /\ n \in 1..n
      BY <1>1
    <3>2. v[n] <= top /\ bottom <= v[n] /\ v[1] <= top /\ bottom <= v[1]
      BY <1>2, <3>1
    <3>3. TfChange(buf) = v[n] - v[1]
      BY <1>3, <2>3
    <3> HIDE DEF v, top, bottom
    <3>4. a <= range /\ range \in Nat \ {0}
      BY <1>2, <1>4, <2>3, <3>2, <3>3 DEF Abs
    <3>5. TfBody(buf) = (100 * a) \div range
      BY <2>3 DEF TfBody, v, top, bottom
    <3> HIDE DEF a, range
    <3> QED
      BY <2>1, <3>4, <3>5, Percent
  <2> QED
    BY <2>2, <2>3
<1> QED
  BY <1>5, <1>6

-----------------------------------------------------------------------------
(* Efficiency and Aroon *)

\* Nobody gets further than he walks.
LEMMA WalkIs ==
    ASSUME NEW t \in Seq(Int), NEW n \in Nat, Len(t) = n + 1
    PROVE  LET walked == SumOf([i \in 1..n |-> Abs(t[i + 1] - t[i])])
           IN  walked \in Nat /\ Abs(t[n + 1] - t[1]) <= walked
<1> DEFINE f == [i \in 1..n |-> Abs(t[i + 1] - t[i])]
           S(k) == SumFunctionOnSet(f, 1..k)
           P == {k \in Nat : k <= n => /\ S(k) \in Nat
                                       /\ Abs(t[k + 1] - t[1]) <= S(k)}
<1>1. \A i \in 1..(n + 1) : t[i] \in Int
  OBVIOUS
<1>2. \A i \in 1..n : f[i] \in Nat /\ f[i] = Abs(t[i + 1] - t[i])
  <2> TAKE i \in 1..n
  <2>1. i \in 1..(n + 1) /\ i + 1 \in 1..(n + 1)
    OBVIOUS
  <2>2. t[i] \in Int /\ t[i + 1] \in Int
    BY <1>1, <2>1
  <2> QED
    BY <2>2 DEF Abs
<1> HIDE DEF f
<1>3. 0 \in P
  <2>1. 1..0 = {} /\ t[0 + 1] = t[1] /\ t[1] \in Int
    BY <1>1
  <2>2. Abs(t[1] - t[1]) = 0
    BY <2>1 DEF Abs
  <2>3. S(0) = 0
    BY <2>1, SumEmpty
  <2> QED
    BY <2>1, <2>2, <2>3
<1>4. ASSUME NEW k \in Nat, k \in P PROVE k + 1 \in P
  <2> SUFFICES ASSUME k + 1 <= n
               PROVE  /\ S(k + 1) \in Nat
                      /\ Abs(t[k + 2] - t[1]) <= S(k + 1)
    OBVIOUS
  <2>1. S(k) \in Nat /\ Abs(t[k + 1] - t[1]) <= S(k)
    BY <1>4
  <2>2. 1..(k + 1) = 1..k \cup {k + 1} /\ k + 1 \notin 1..k /\ k + 1 \in 1..n
    OBVIOUS
  <2>3. IsFiniteSet(1..k)
    BY FS_Interval
  <2>4. \A i \in 1..k \cup {k + 1} : f[i] \in Int
    BY <1>2, <2>2
  <2>5. S(k + 1) = S(k) + f[k + 1]
    <3>1. SumFunctionOnSet(f, 1..k \cup {k + 1})
            = SumFunctionOnSet(f, 1..k) + f[k + 1]
      BY <2>2, <2>3, <2>4, SumAdds
    <3> QED
      BY <2>2, <3>1
  <2>6. f[k + 1] \in Nat /\ f[k + 1] = Abs(t[k + 2] - t[k + 1])
    BY <1>2, <2>2
  <2>7. t[k + 1] \in Int /\ t[k + 2] \in Int /\ t[1] \in Int
    BY <1>1, <2>2
  <2> HIDE DEF S
  <2>8. Abs(t[k + 2] - t[1]) <= Abs(t[k + 2] - t[k + 1]) + Abs(t[k + 1] - t[1])
    BY <2>7 DEF Abs
  <2>9. Abs(t[k + 2] - t[1]) \in Nat /\ Abs(t[k + 1] - t[1]) \in Nat
    BY <2>7 DEF Abs
  <2> QED
    BY <2>1, <2>5, <2>6, <2>8, <2>9
<1>5. \A k \in Nat : k \in P
  <2> HIDE DEF P
  <2> QED
    BY <1>3, <1>4, NumberInduction
<1>6. S(n) \in Nat /\ Abs(t[n + 1] - t[1]) <= S(n)
  BY <1>5
<1>7. SumOf(f) = S(n)
  <2>1. DOMAIN f = 1..n
    BY DEF f
  <2> QED
    BY <2>1 DEF SumOf, SumFunction
<1> QED
  BY <1>6, <1>7 DEF f

LEMMA KamaIs ==
    ASSUME NEW v \in Seq(Int), v # <<>>
    PROVE  KamaEr(v) \in 0..100
<1> DEFINE n == Len(v) - 1
           walked == SumOf([i \in 1..n |-> Abs(v[i + 1] - v[i])])
           a == Abs(v[n + 1] - v[1])
<1>1. n \in Nat /\ Len(v) = n + 1 /\ v[n + 1] \in Int /\ v[1] \in Int
  OBVIOUS
<1>2. walked \in Nat /\ a <= walked
  <2> HIDE DEF n
  <2> QED
    BY <1>1, WalkIs
<1>3. a \in Nat
  BY <1>1 DEF Abs
<1>4. KamaEr(v) = IF Len(v) < 2 THEN 50 ELSE IF walked = 0 THEN 100
                  ELSE (100 * a) \div walked
  BY <1>1 DEF KamaEr
<1> HIDE DEF a, walked, n
<1>5. ASSUME walked # 0 PROVE (100 * a) \div walked \in 0..100
  BY <1>2, <1>3, <1>5, Percent
<1> QED
  BY <1>4, <1>5

\* How late: the last place of the window is 100 percent of it.
LEMMA LatenessIs ==
    ASSUME NEW v \in Seq(Int), NEW x, \E i \in DOMAIN v : v[i] = x
    PROVE  /\ Lateness(v, x) \in 0..100
           /\ Len(v) > 1 /\ v[Len(v)] = x => Lateness(v, x) = 100
<1> DEFINE n == Len(v)
           S == {i \in DOMAIN v : v[i] = x}
           T == {n - 1, 1}
<1>1. n \in Nat /\ DOMAIN v = 1..n /\ n >= 1
  OBVIOUS
<1> HIDE DEF n
<1>2. S \in SUBSET Int /\ S # {} /\ IsFiniteSet(S)
  <2>1. IsFiniteSet(1..n)
    BY <1>1, FS_Interval
  <2> QED
    BY <1>1, <2>1, FS_Subset
<1>3. T \in SUBSET Int /\ T # {} /\ IsFiniteSet(T)
  <2>1. IsFiniteSet({n - 1, 1, 1})
    BY ThreeFinite
  <2>2. T = {n - 1, 1, 1}
    OBVIOUS
  <2>3. IsFiniteSet(T)
    BY <2>1, <2>2
  <2>4. n - 1 \in Int
    BY <1>1
  <2>5. T \in SUBSET Int /\ T # {}
    BY <2>4
  <2> QED
    BY <2>3, <2>5
<1>4. /\ Max(S) \in S /\ \A y \in S : y <= Max(S)
      /\ Max(T) \in T /\ \A y \in T : y <= Max(T)
  <2> HIDE DEF S, T
  <2> QED
    BY <1>2, <1>3, MaxIs
<1> DEFINE m == Max(S)
           d == Max(T)
<1>5. /\ m \in 1..n /\ v[n] = x => m = n
  <2>1. v[n] = x => n \in S
    BY <1>1
  <2>2. m \in 1..n
    BY <1>1, <1>4
  <2>3. v[n] = x => n <= m
    BY <1>4, <2>1
  <2> HIDE DEF m
  <2>4. ASSUME v[n] = x PROVE m = n
    <3>1. n <= m
      BY <2>3, <2>4
    <3> QED
      BY <1>1, <2>2, <3>1
  <2> QED
    BY <2>2, <2>4
<1>6. d \in Nat \ {0} /\ n - 1 <= d /\ (n > 1 => d = n - 1)
  <2>1. n - 1 \in T /\ 1 \in T
    OBVIOUS
  <2>2. d \in T /\ n - 1 <= d /\ 1 <= d
    BY <1>4, <2>1
  <2>3. d = n - 1 \/ d = 1
    BY <2>2
  <2> HIDE DEF d, T
  <2> QED
    BY <1>1, <2>2, <2>3
<1>7. Lateness(v, x) = (100 * (m - 1)) \div d
  BY DEF Lateness, n
<1>0. m \in 1..n
  BY <1>1, <1>4
<1> HIDE DEF m, d, S, T, n
<1>8. (100 * (m - 1)) \div d \in 0..100
  <2> DEFINE a == m - 1
  <2>1. a \in Nat /\ a <= d
    BY <1>0, <1>1, <1>6
  <2> HIDE DEF a
  <2>2. (100 * a) \div d \in 0..100
    BY <1>6, <2>1, Percent
  <2> QED
    BY <2>2 DEF a
<1>9. ASSUME n > 1, v[n] = x PROVE (100 * (m - 1)) \div d = 100
  <2>1. m - 1 = d
    BY <1>0, <1>1, <1>5, <1>6, <1>9
  <2>2. (100 * d) \div d = 100
    BY <1>6
  <2> QED
    BY <2>1, <2>2
<1> QED
  BY <1>7, <1>8, <1>9 DEF n

LEMMA AroonIs ==
    ASSUME NEW buf \in Window, buf.values # <<>>
    PROVE  LET v == buf.values
               n == Len(v)
           IN  /\ AroonUp(v) \in 0..100 /\ AroonDown(v) \in 0..100
               /\ n > 1 /\ v[n] = Highest(buf) => AroonUp(v) = 100
               /\ n > 1 /\ v[n] = Lowest(buf) => AroonDown(v) = 100
<1> DEFINE v == buf.values
<1>1. v \in Seq(Int)
  BY DEF Window
<1>2. /\ Highest(buf) = Max(Range(v)) /\ Highest(buf) \in Range(v)
      /\ Lowest(buf) = Min(Range(v)) /\ Lowest(buf) \in Range(v)
  BY ExtremesAre
<1>3. /\ \E i \in DOMAIN v : v[i] = Highest(buf)
      /\ \E i \in DOMAIN v : v[i] = Lowest(buf)
  BY <1>2 DEF Range
<1>4. /\ AroonUp(v) = Lateness(v, Highest(buf))
      /\ AroonDown(v) = Lateness(v, Lowest(buf))
  BY <1>2 DEF AroonUp, AroonDown
<1>5. PICK top, bottom : top = Highest(buf) /\ bottom = Lowest(buf)
  OBVIOUS
<1> HIDE DEF v
<1>6. /\ Lateness(v, top) \in 0..100
      /\ Len(v) > 1 /\ v[Len(v)] = top => Lateness(v, top) = 100
  BY <1>1, <1>3, <1>5, LatenessIs
<1>7. /\ Lateness(v, bottom) \in 0..100
      /\ Len(v) > 1 /\ v[Len(v)] = bottom => Lateness(v, bottom) = 100
  BY <1>1, <1>3, <1>5, LatenessIs
<1> QED
  BY <1>4, <1>5, <1>6, <1>7 DEF v

-----------------------------------------------------------------------------
(* The candle a tick returns *)

\* Every window of closes, of highs and of lows has the capacity it stands
\* under, and highs and lows of one capacity are equally full.
WindowsAre ==
    /\ DOMAIN bank.closes = CloseWindows
    /\ DOMAIN bank.highs = RangeWindows /\ DOMAIN bank.lows = RangeWindows
    /\ \A w \in CloseWindows :
          bank.closes[w] \in Window /\ bank.closes[w].capacity = w
    /\ \A w \in RangeWindows :
          /\ bank.highs[w] \in Window /\ bank.highs[w].capacity = w
          /\ bank.lows[w] \in Window /\ bank.lows[w].capacity = w
          /\ Len(bank.highs[w].values) = Len(bank.lows[w].values)

\* What the read-outs rest on.
ReadInv ==
    /\ BankInv /\ SwingBounded
    /\ WindowsAre
    /\ StochTrue(bank.stoch) /\ RsiTrue(bank.rsi) /\ DmiTrue(bank.dmi)
    /\ RunTrue(bank.consecutive) /\ bank.prevClose \in Int

LEMMA RingBufferIs ==
    ASSUME NEW w \in Nat \ {0}
    PROVE  /\ RingBuffer(w) \in Window /\ RingBuffer(w).capacity = w
           /\ RingBuffer(w).values = <<>> /\ Len(RingBuffer(w).values) = 0
BY DEF RingBuffer, Window

LEMMA FreshSmootherIs ==
    ASSUME NEW p \in Nat \ {0}
    PROVE  FreshSmoother(p) \in Smoother /\ AveragesBelow(FreshSmoother(p), 100)
BY DEF FreshSmoother, Smoother, AveragesBelow

LEMMA ReadInvInit == BankInit => ReadInv
<1> SUFFICES ASSUME BankInit PROVE ReadInv
  OBVIOUS
<1>1. bank = FreshBank
  BY DEF BankInit
<1>2. /\ Period["stochK"] \in Nat \ {0} /\ Period["stochD"] \in Nat \ {0}
      /\ Period["rsi"] \in Nat \ {0} /\ Period["dmi"] \in Nat \ {0}
  BY PeriodType DEF Indicator
<1>3. \A w \in CloseWindows \cup RangeWindows : w \in Nat \ {0}
  BY BankAssumption DEF BankAssumption
<1>4. WindowsAre
  <2>1. /\ bank.closes = [w \in CloseWindows |-> RingBuffer(w)]
        /\ bank.highs = [w \in RangeWindows |-> RingBuffer(w)]
        /\ bank.lows = [w \in RangeWindows |-> RingBuffer(w)]
    BY <1>1 DEF FreshBank
  <2>2. \A w \in CloseWindows \cup RangeWindows :
           RingBuffer(w) \in Window /\ RingBuffer(w).capacity = w
    BY <1>3, RingBufferIs
  <2> QED
    BY <2>1, <2>2 DEF WindowsAre
<1>5. StochTrue(bank.stoch)
  <2>1. bank.stoch = FreshStoch(Period["stochK"], Period["stochD"])
    BY <1>1 DEF FreshBank
  <2>2. /\ bank.stoch.highs = RingBuffer(Period["stochK"])
        /\ bank.stoch.lows = RingBuffer(Period["stochK"])
        /\ bank.stoch.ks = RingBuffer(Period["stochD"])
    BY <2>1 DEF FreshStoch
  <2>3. /\ bank.stoch.highs \in Window /\ bank.stoch.lows \in Window
        /\ bank.stoch.ks \in Window /\ bank.stoch.ks.values = <<>>
    BY <1>2, <2>2, RingBufferIs
  <2>4. \A i \in 1..Len(bank.stoch.ks.values) : FALSE
    BY <2>3
  <2> QED
    BY <2>3, <2>4 DEF StochTrue
<1>6. RsiTrue(bank.rsi)
  <2>1. bank.rsi = FreshRsi(Period["rsi"])
    BY <1>1 DEF FreshBank
  <2>2. FreshSmoother(Period["rsi"]) \in Smoother
    BY <1>2, FreshSmootherIs
  <2> QED
    BY <2>1, <2>2 DEF FreshRsi, RsiTrue
<1>7. DmiTrue(bank.dmi)
  <2>1. bank.dmi = FreshDmi(Period["dmi"])
    BY <1>1 DEF FreshBank
  <2> DEFINE w == FreshSmoother(Period["dmi"])
  <2>2. w \in Smoother /\ AveragesBelow(w, 100)
    BY <1>2, FreshSmootherIs
  <2>3. w.value = 0 /\ w.accum = 0
    BY DEF FreshSmoother
  <2>4. bank.dmi = [plus |-> w, minus |-> w, tr |-> w, adx |-> w,
                    prev |-> [high |-> 0, low |-> 0, close |-> 0],
                    started |-> FALSE]
    BY <2>1 DEF FreshDmi
  <2> HIDE DEF w
  <2> QED
    BY <2>2, <2>3, <2>4 DEF DmiTrue
<1>8. RunTrue(bank.consecutive) /\ bank.prevClose \in Int
  BY <1>1 DEF FreshBank, FreshConsecutive, RunTrue
<1> QED
  BY <1>4, <1>5, <1>6, <1>7, <1>8, BankInvInit, SwingInit DEF ReadInv

\* Windows that one value is pushed on all of.
LEMMA PushAllIs ==
    ASSUME NEW windows, NEW S, NEW x \in Int, DOMAIN windows = S,
           \A w \in S : windows[w] \in Window /\ windows[w].capacity = w
    PROVE  /\ DOMAIN PushAll(windows, x) = S
           /\ \A w \in S :
                 LET next == PushAll(windows, x)[w]
                 IN  /\ next = Push(windows[w], x)
                     /\ next \in Window /\ next.capacity = w
                     /\ next.values # <<>>
                     /\ next.values[Len(next.values)] = x
                     /\ Len(next.values) = IF Len(windows[w].values) < w
                                           THEN Len(windows[w].values) + 1
                                           ELSE Len(windows[w].values)
<1>1. DOMAIN PushAll(windows, x) = S
  BY DEF PushAll
<1>2. ASSUME NEW w \in S
      PROVE  LET next == PushAll(windows, x)[w]
             IN  /\ next = Push(windows[w], x)
                 /\ next \in Window /\ next.capacity = w
                 /\ next.values # <<>>
                 /\ next.values[Len(next.values)] = x
                 /\ Len(next.values) = IF Len(windows[w].values) < w
                                       THEN Len(windows[w].values) + 1
                                       ELSE Len(windows[w].values)
  <2>1. PushAll(windows, x)[w] = Push(windows[w], x)
    BY DEF PushAll
  <2>2. windows[w] \in Window /\ windows[w].capacity = w
    OBVIOUS
  <2> QED
    BY <2>1, <2>2, PushNewest
<1> QED
  BY <1>1, <1>2

LEMMA WindowsStep ==
    ASSUME WindowsAre, NEW k \in Candle, bank' = NextBank(k)
    PROVE  WindowsAre'
<1>1. /\ bank'.closes = PushAll(bank.closes, k.close)
      /\ bank'.highs = PushAll(bank.highs, k.high)
      /\ bank'.lows = PushAll(bank.lows, k.low)
  BY DEF NextBank
<1>2. k.close \in Int /\ k.high \in Int /\ k.low \in Int
  BY CandleType
<1>3. /\ DOMAIN bank.closes = CloseWindows
      /\ DOMAIN bank.highs = RangeWindows /\ DOMAIN bank.lows = RangeWindows
      /\ \A w \in CloseWindows :
            bank.closes[w] \in Window /\ bank.closes[w].capacity = w
      /\ \A w \in RangeWindows :
            /\ bank.highs[w] \in Window /\ bank.highs[w].capacity = w
            /\ bank.lows[w] \in Window /\ bank.lows[w].capacity = w
            /\ Len(bank.highs[w].values) = Len(bank.lows[w].values)
  BY DEF WindowsAre
<1>4. /\ DOMAIN bank'.closes = CloseWindows
      /\ \A w \in CloseWindows :
            bank'.closes[w] \in Window /\ bank'.closes[w].capacity = w
  BY <1>1, <1>2, <1>3, PushAllIs
<1>5. /\ DOMAIN bank'.highs = RangeWindows
      /\ \A w \in RangeWindows :
            /\ bank'.highs[w] \in Window /\ bank'.highs[w].capacity = w
            /\ Len(bank'.highs[w].values) = IF Len(bank.highs[w].values) < w
                                           THEN Len(bank.highs[w].values) + 1
                                           ELSE Len(bank.highs[w].values)
  BY <1>1, <1>2, <1>3, PushAllIs
<1>6. /\ DOMAIN bank'.lows = RangeWindows
      /\ \A w \in RangeWindows :
            /\ bank'.lows[w] \in Window /\ bank'.lows[w].capacity = w
            /\ Len(bank'.lows[w].values) = IF Len(bank.lows[w].values) < w
                                           THEN Len(bank.lows[w].values) + 1
                                           ELSE Len(bank.lows[w].values)
  BY <1>1, <1>2, <1>3, PushAllIs
<1> QED
  BY <1>3, <1>4, <1>5, <1>6 DEF WindowsAre

LEMMA ReadInvStep ==
    ASSUME ReadInv, BankInv', SwingBounded', NEW k \in Candle, bank' = NextBank(k)
    PROVE  ReadInv'
<1>1. /\ WindowsAre
      /\ StochTrue(bank.stoch) /\ RsiTrue(bank.rsi) /\ DmiTrue(bank.dmi)
      /\ RunTrue(bank.consecutive) /\ k.close \in Int
  BY CandleType DEF ReadInv
<1>2. /\ bank'.stoch = StochUpdate(bank.stoch, k)
      /\ bank'.rsi = RsiUpdate(bank.rsi, k.close)
      /\ bank'.dmi = DmiUpdate(bank.dmi, k)
      /\ bank'.consecutive = ConsecutiveUpdate(bank.consecutive, k.close)
      /\ bank'.prevClose = k.close
  BY DEF NextBank
<1>3. StochTrue(bank'.stoch)
  BY <1>1, <1>2, StochStep
<1>4. RsiTrue(bank'.rsi)
  BY <1>1, <1>2, RsiStep
<1>5. DmiTrue(bank'.dmi)
  BY <1>1, <1>2, DmiStep
<1>6. RunTrue(bank'.consecutive)
  BY <1>1, <1>2, RunStep
<1>7. WindowsAre'
  BY <1>1, WindowsStep
<1> QED
  BY <1>1, <1>2, <1>3, <1>4, <1>5, <1>6, <1>7 DEF ReadInv

\* The read-outs over the windows of closes, highs and lows.
LEMMA WindowReadOuts ==
    ASSUME WindowsAre, bank.prevClose \in Int, NEW k \in Candle,
           bank' = NextBank(k), reading' = Reading(bank', k)
    PROVE  LET w == Period["aroon"]
           IN  /\ reading'.kamaEr \in 0..100
               /\ reading'.hourBody \in 0..100 /\ reading'.fourHoursBody \in 0..100
               /\ reading'.agreement \in -1..3
               /\ reading'.aroonUp \in 0..100 /\ reading'.aroonDown \in 0..100
               /\ Full(bank'.highs[w]) /\ w > 1 =>
                    /\ k.high = Highest(bank'.highs[w]) => reading'.aroonUp = 100
                    /\ k.low = Lowest(bank'.lows[w]) => reading'.aroonDown = 100
               /\ \A r \in RangeWindows : reading'.rangePos[r] \in 0..100
<1> DEFINE w == Period["aroon"]
           kama == bank'.closes[Period["kama"]]
           hour == bank'.closes[Period["hour"]]
           fourHours == bank'.closes[Period["fourHours"]]
           highs == bank'.highs[w]
           lows == bank'.lows[w]
<1>1. /\ bank'.closes = PushAll(bank.closes, k.close)
      /\ bank'.highs = PushAll(bank.highs, k.high)
      /\ bank'.lows = PushAll(bank.lows, k.low)
  BY DEF NextBank
<1>2. k.close \in Int /\ k.high \in Int /\ k.low \in Int
  BY CandleType
<1>3. /\ DOMAIN bank.closes = CloseWindows
      /\ DOMAIN bank.highs = RangeWindows /\ DOMAIN bank.lows = RangeWindows
      /\ \A c \in CloseWindows :
            bank.closes[c] \in Window /\ bank.closes[c].capacity = c
      /\ \A r \in RangeWindows :
            /\ bank.highs[r] \in Window /\ bank.highs[r].capacity = r
            /\ bank.lows[r] \in Window /\ bank.lows[r].capacity = r
            /\ Len(bank.highs[r].values) = Len(bank.lows[r].values)
  BY DEF WindowsAre
<1>4. \A c \in CloseWindows : bank'.closes[c] \in Window /\ bank'.closes[c].values # <<>>
  BY <1>1, <1>2, <1>3, PushAllIs
<1>5. \A r \in RangeWindows :
         /\ bank'.highs[r] = Push(bank.highs[r], k.high)
         /\ bank'.highs[r] \in Window /\ bank'.highs[r].capacity = r
         /\ bank'.highs[r].values # <<>>
         /\ bank'.highs[r].values[Len(bank'.highs[r].values)] = k.high
         /\ Len(bank'.highs[r].values) = IF Len(bank.highs[r].values) < r
                                         THEN Len(bank.highs[r].values) + 1
                                         ELSE Len(bank.highs[r].values)
  BY <1>1, <1>2, <1>3, PushAllIs
<1>6. \A r \in RangeWindows :
         /\ bank'.lows[r] = Push(bank.lows[r], k.low)
         /\ bank'.lows[r] \in Window /\ bank'.lows[r].capacity = r
         /\ bank'.lows[r].values # <<>>
         /\ bank'.lows[r].values[Len(bank'.lows[r].values)] = k.low
         /\ Len(bank'.lows[r].values) = IF Len(bank.lows[r].values) < r
                                        THEN Len(bank.lows[r].values) + 1
                                        ELSE Len(bank.lows[r].values)
  BY <1>1, <1>2, <1>3, PushAllIs
<1>7. /\ Period["kama"] \in CloseWindows /\ Period["hour"] \in CloseWindows
      /\ Period["fourHours"] \in CloseWindows /\ w \in RangeWindows
      /\ w \in Nat \ {0}
  BY BankAssumption DEF BankAssumption
<1>8. /\ kama \in Window /\ kama.values # <<>>
      /\ hour \in Window /\ hour.values # <<>>
      /\ fourHours \in Window /\ fourHours.values # <<>>
  BY <1>4, <1>7
<1>9. /\ highs \in Window /\ highs.capacity = w /\ highs.values # <<>>
      /\ highs.values[Len(highs.values)] = k.high
      /\ lows \in Window /\ lows.capacity = w /\ lows.values # <<>>
      /\ lows.values[Len(lows.values)] = k.low
      /\ Len(highs.values) = Len(lows.values)
  <2> HIDE DEF w
  <2>1. /\ highs \in Window /\ highs.capacity = w /\ highs.values # <<>>
        /\ highs.values[Len(highs.values)] = k.high
        /\ Len(highs.values) = IF Len(bank.highs[w].values) < w
                               THEN Len(bank.highs[w].values) + 1
                               ELSE Len(bank.highs[w].values)
    BY <1>5, <1>7
  <2>2. /\ lows \in Window /\ lows.capacity = w /\ lows.values # <<>>
        /\ lows.values[Len(lows.values)] = k.low
        /\ Len(lows.values) = IF Len(bank.lows[w].values) < w
                              THEN Len(bank.lows[w].values) + 1
                              ELSE Len(bank.lows[w].values)
    BY <1>6, <1>7
  <2>3. Len(bank.highs[w].values) = Len(bank.lows[w].values)
    BY <1>3, <1>7
  <2> HIDE DEF highs, lows
  <2>4. Len(highs.values) = Len(lows.values)
    BY <2>1, <2>2, <2>3
  <2> QED
    BY <2>1, <2>2, <2>4
<1>10. /\ reading'.kamaEr = OnceFull(kama, KamaEr(kama.values))
       /\ reading'.aroonUp = OnceFull(highs, AroonUp(highs.values))
       /\ reading'.aroonDown = OnceFull(lows, AroonDown(lows.values))
       /\ reading'.hourBody = TfBody(hour)
       /\ reading'.fourHoursBody = TfBody(fourHours)
       /\ reading'.agreement = TfAgreement(bank.prevClose, k.close, hour, fourHours)
       /\ reading'.rangePos = [r \in RangeWindows |->
                                 RangePos(bank'.highs[r], bank'.lows[r], k.close)]
  BY DEF Reading
<1> HIDE DEF w, kama, hour, fourHours, highs, lows
<1>11. reading'.kamaEr \in 0..100
  <2>1. kama.values \in Seq(Int)
    BY <1>8 DEF Window
  <2>2. KamaEr(kama.values) \in 0..100
    BY <1>8, <2>1, KamaIs
  <2> QED
    BY <1>10, <2>2 DEF OnceFull
<1>12. /\ TfChange(hour) \in Int /\ TfBody(hour) \in 0..100
       /\ TfChange(fourHours) \in Int /\ TfBody(fourHours) \in 0..100
  BY <1>8, TfIs
<1>13. reading'.agreement \in -1..3
  BY <1>2, <1>10, <1>12, AgreementIs
<1>14. /\ AroonUp(highs.values) \in 0..100
       /\ Len(highs.values) > 1 /\ highs.values[Len(highs.values)] = Highest(highs)
            => AroonUp(highs.values) = 100
  BY <1>9, AroonIs
<1>15. /\ AroonDown(lows.values) \in 0..100
       /\ Len(lows.values) > 1 /\ lows.values[Len(lows.values)] = Lowest(lows)
            => AroonDown(lows.values) = 100
  BY <1>9, AroonIs
<1>16. reading'.aroonUp \in 0..100 /\ reading'.aroonDown \in 0..100
  BY <1>10, <1>14, <1>15 DEF OnceFull
<1>17. ASSUME Full(highs), w > 1
       PROVE  /\ k.high = Highest(highs) => reading'.aroonUp = 100
              /\ k.low = Lowest(lows) => reading'.aroonDown = 100
  <2>1. Len(highs.values) \in Nat /\ Len(highs.values) >= w
    BY <1>9, <1>17 DEF Full, Window
  <2>2. Full(lows) /\ Len(highs.values) > 1 /\ Len(lows.values) > 1
    BY <1>7, <1>9, <1>17, <2>1 DEF Full
  <2> QED
    BY <1>9, <1>10, <1>14, <1>15, <1>17, <2>2 DEF OnceFull
<1>18. \A r \in RangeWindows : reading'.rangePos[r] \in 0..100
  <2> TAKE r \in RangeWindows
  <2> DEFINE h == bank'.highs[r]
             l == bank'.lows[r]
  <2>1. /\ bank.highs[r] \in Window /\ bank.lows[r] \in Window
        /\ h = Push(bank.highs[r], k.high) /\ l = Push(bank.lows[r], k.low)
    BY <1>3, <1>5, <1>6
  <2>2. /\ Highest(h) \in Int /\ Lowest(l) \in Int
        /\ Lowest(l) <= k.close /\ k.close <= Highest(h)
    BY <2>1, InRange
  <2>3. reading'.rangePos[r] = RangePos(h, l, k.close)
    BY <1>10
  <2> HIDE DEF h, l
  <2>4. RangePos(h, l, k.close) \in 0..100
    BY <1>2, <2>2, PercentKIs
  <2> QED
    BY <2>3, <2>4
<1> QED
  BY <1>11, <1>12, <1>13, <1>10, <1>16, <1>17, <1>18
  DEF w, highs, lows

LEMMA BelowHundred ==
    ASSUME NEW w, AveragesBelow(w, 100)
    PROVE  w.value \in 0..100
<1>1. w.value \in Nat /\ w.value <= 100
  BY DEF AveragesBelow, Smoother
<1> QED
  BY <1>1

\* A tick returns a candle in range, whatever stood in the reading before.
LEMMA TickReads ==
    ASSUME ReadInv, ReadInv', NEW k \in Candle, Tick(k),
           candles' = Append(candles, k)
    PROVE  ReadOutsInRange'
<1>1. bank' = NextBank(k) /\ reading' = Reading(bank', k)
  BY DEF Tick
<1>2. /\ WindowsAre /\ bank.prevClose \in Int
      /\ StochTrue(bank.stoch) /\ RsiTrue(bank.rsi) /\ k.close \in Int
  BY CandleType DEF ReadInv
<1>3. /\ MfiTrue(bank'.mfi, Fed(FlowOf)', Period["mfi"])
      /\ DmiTrue(bank'.dmi) /\ RunTrue(bank'.consecutive)
      /\ candle' = Len(candles')
  BY DEF ReadInv, BankInv, SwingBounded
<1>4. /\ bank'.stoch = StochUpdate(bank.stoch, k)
      /\ bank'.rsi = RsiUpdate(bank.rsi, k.close)
  BY <1>1 DEF NextBank
<1>5. candles'[candle'] = k
  BY <1>3 DEF ReadInv, BankInv
<1>6. /\ reading'.stochK = StochK(bank'.stoch) /\ reading'.stochD = StochD(bank'.stoch)
      /\ reading'.williams = WilliamsR(bank'.stoch, k.close)
      /\ reading'.rsi = RsiValue(bank'.rsi) /\ reading'.mfi = MfiValue(bank'.mfi)
      /\ reading'.plusDi = Di(bank'.dmi, bank'.dmi.plus)
      /\ reading'.minusDi = Di(bank'.dmi, bank'.dmi.minus)
      /\ reading'.adx = bank'.dmi.adx.value
      /\ reading'.up = bank'.consecutive.up /\ reading'.down = bank'.consecutive.down
  BY <1>1 DEF Reading
<1>7. /\ reading'.stochK \in 0..100 /\ reading'.stochD \in 0..100
      /\ reading'.stochK = reading'.williams + 100
  BY <1>2, <1>4, <1>6, StochStep
<1>8. reading'.rsi \in 0..100
  BY <1>2, <1>4, <1>6, RsiStep
<1>9. reading'.mfi \in 0..100
  BY <1>3, <1>6, MfiIs
<1>10. /\ bank'.dmi.plus.value + bank'.dmi.minus.value <= bank'.dmi.tr.value
       /\ reading'.adx \in 0..100
  <2> DEFINE dmi == bank'.dmi
             average == dmi.adx
  <2>1. /\ dmi.plus.value + dmi.minus.value <= dmi.tr.value
        /\ AveragesBelow(average, 100)
    BY <1>3 DEF DmiTrue
  <2> HIDE DEF average
  <2>2. average.value \in 0..100
    BY <2>1, BelowHundred
  <2> QED
    BY <1>6, <2>1, <2>2 DEF average
<1>11. reading'.plusDi + reading'.minusDi <= 100
  BY <1>3, <1>6, DiBelow
<1>12. 0 \in {reading'.up, reading'.down}
  BY <1>3, <1>6 DEF RunTrue
<1> DEFINE w == Period["aroon"]
<1>13. /\ reading'.kamaEr \in 0..100
       /\ reading'.hourBody \in 0..100 /\ reading'.fourHoursBody \in 0..100
       /\ reading'.agreement \in -1..3
       /\ reading'.aroonUp \in 0..100 /\ reading'.aroonDown \in 0..100
       /\ Full(bank'.highs[w]) /\ w > 1 =>
            /\ k.high = Highest(bank'.highs[w]) => reading'.aroonUp = 100
            /\ k.low = Lowest(bank'.lows[w]) => reading'.aroonDown = 100
       /\ \A r \in RangeWindows : reading'.rangePos[r] \in 0..100
  BY <1>1, <1>2, WindowReadOuts
<1> QED
  BY <1>5, <1>7, <1>8, <1>9, <1>10, <1>11, <1>12, <1>13 DEF ReadOutsInRange

LEMMA ReadInductive ==
    ReadInv /\ ReadOutsInRange /\ [BankNext]_bankVars
      => ReadInv' /\ ReadOutsInRange'
<1> SUFFICES ASSUME ReadInv, ReadOutsInRange, [BankNext]_bankVars
             PROVE  ReadInv' /\ ReadOutsInRange'
  OBVIOUS
<1>1. BankInv' /\ SwingBounded'
  BY BankInvInductive, SwingInductive DEF ReadInv
<1>2. CASE BankNext
  <2>1. PICK k \in Candle : Tick(k) /\ candles' = Append(candles, k)
    BY <1>2 DEF BankNext
  <2>2. ReadInv'
    BY <1>1, <2>1, ReadInvStep DEF Tick
  <2> QED
    BY <2>1, <2>2, TickReads
<1>3. CASE UNCHANGED bankVars
  <2>1. bank' = bank /\ candles' = candles /\ reading' = reading /\ candle' = candle
    BY <1>3 DEF bankVars, phaseVars, trackerVars
  <2> QED
    BY <1>1, <2>1 DEF ReadInv, ReadOutsInRange, WindowsAre
<1> QED
  BY <1>2, <1>3

\* Whatever the periods and however long the stream, the fields a tick returns
\* are in their documented ranges and agree with one another, from the first
\* candle on: nothing is read from a window before it holds a value, the two
\* movements never outgrow the true range they are divided by, and averages
\* rounded down stay among what they average.
THEOREM ReadOutsCorrect == BankSpec => []ReadOutsInRange
<1>1. BankInit => ReadOutsInRange
  BY DEF BankInit, PhaseInit, ReadOutsInRange
<1> QED
  BY <1>1, ReadInvInit, ReadInductive, PTL DEF BankSpec

=============================================================================
