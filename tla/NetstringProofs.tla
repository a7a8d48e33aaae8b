---------------------------- MODULE NetstringProofs ---------------------------
(***************************************************************************)
(* The netstring parser, for every alphabet, every limit and every way of  *)
(* cutting a stream into chunks: what is buffered is bounded, what is      *)
(* returned is what the stream contains, and to_string is undone.          *)
(*                                                                         *)
(* Contents, Value and Decimal are recursive functions.  That they satisfy *)
(* the equations that define them is proved here, not assumed: Recursion   *)
(* is the recursion theorem for an argument whose rank decreases, and each *)
(* induction on a length is an argument about a least counterexample.      *)
(***************************************************************************)
EXTENDS Netstring, SequenceTheorems, WellFoundedInduction, TLAPS

-----------------------------------------------------------------------------
(* Induction and recursion                                                  *)

\* A set of numbers that is not empty has a least element.
LEMMA Least ==
    ASSUME NEW T \in SUBSET Nat, T # {}
    PROVE  \E n \in T : \A m \in T : n <= m
<1> DEFINE R == OpToRel(<, Nat)
<1>1. IsWellFoundedOn(R, Nat)
  BY NatLessThanWellFounded
<1>2. \A x, y \in Nat : x < y => <<x, y>> \in R
  BY DEF OpToRel
<1> HIDE DEF R
<1>3. PICK n \in T : \A m \in T : ~(<<m, n>> \in R)
  BY <1>1, WFMin, Zenon
<1>4. ASSUME NEW m \in T PROVE n <= m
  <2>1. ~(m < n)
    BY <1>2, <1>3, Zenon
  <2> QED
    BY <2>1
<1> QED
  BY <1>4

\* The data of a recursion over S with values in V: W holds the arguments whose
\* value is step of the value at next, an argument of smaller rank.
Ranked(S, V, W, rank, next, step, base) ==
    /\ V # {} /\ W \in SUBSET S
    /\ rank \in [S -> Nat] /\ next \in [W -> S]
    /\ \A x \in W : rank[next[x]] < rank[x]
    /\ step \in [W \X V -> V] /\ base \in [S -> V]

\* f is the function these data define.
Defined(f, S, V, W, next, step, base) ==
    /\ f \in [S -> V]
    /\ \A x \in S : f[x] = IF x \in W THEN step[<<x, f[next[x]]>>] ELSE base[x]

\* The recursion theorem: such a function exists.
LEMMA Recursion ==
    \A S, V, W, rank, next, step, base :
        Ranked(S, V, W, rank, next, step, base) => \E f : Defined(f, S, V, W, next, step, base)
<1> SUFFICES ASSUME NEW S, NEW V, NEW W, NEW rank, NEW next, NEW step, NEW base,
                    Ranked(S, V, W, rank, next, step, base)
             PROVE  \E f : Defined(f, S, V, W, next, step, base)
  OBVIOUS
<1>0. /\ V # {} /\ W \in SUBSET S
      /\ rank \in [S -> Nat] /\ next \in [W -> S]
      /\ \A x \in W : rank[next[x]] < rank[x]
      /\ step \in [W \X V -> V] /\ base \in [S -> V]
  BY DEF Ranked
<1> PICK v0 \in V : TRUE
  BY <1>0
<1> DEFINE One(f, x) == IF x \in W THEN step[<<x, f[next[x]]>>] ELSE base[x]
           Sol(f, n) == f \in [S -> V] /\ \A x \in S : rank[x] <= n => f[x] = One(f, x)
<1>1. \A f \in [S -> V], x \in S : One(f, x) \in V
  BY <1>0
<1>2. \A x \in S : rank[x] \in Nat
  BY <1>0
<1>3. \A x \in W : x \in S /\ next[x] \in S /\ rank[next[x]] < rank[x]
  BY <1>0
<1>4. ASSUME NEW m \in Nat, m = 0 \/ \E g : Sol(g, m - 1) PROVE \E h : Sol(h, m)
  <2>1. PICK g \in [S -> V] : m = 0 \/ Sol(g, m - 1)
    <3>1. [x \in S |-> v0] \in [S -> V]
      OBVIOUS
    <3> QED BY <1>4, <3>1
  <2> DEFINE h == [x \in S |-> One(g, x)]
  <2>2. h \in [S -> V]
    BY <1>1
  <2>3. ASSUME NEW x \in S, rank[x] <= m PROVE h[x] = One(h, x)
    <3>1. CASE x \in W
      <4>1. rank[next[x]] < rank[x] /\ next[x] \in S
        BY <3>1, <1>3
      <4>2. m # 0 /\ rank[next[x]] <= m - 1
        BY <4>1, <2>3, <1>2
      <4>3. g[next[x]] = One(g, next[x])
        BY <4>1, <4>2, <2>1
      <4>4. h[next[x]] = g[next[x]]
        BY <4>1, <4>3
      <4> QED BY <3>1, <4>4
    <3>2. CASE x \notin W
      BY <3>2
    <3> QED BY <3>1, <3>2
  <2> HIDE DEF h
  <2> QED BY <2>2, <2>3
<1>5. ASSUME NEW n \in Nat PROVE \E f : Sol(f, n)
  <2> DEFINE T == {k \in Nat : ~\E f : Sol(f, k)}
  <2>1. SUFFICES ASSUME T # {} PROVE FALSE
    <3> HIDE DEF Sol
    <3> QED OBVIOUS
  <2>2. PICK m \in T : \A k \in T : m <= k
    <3> HIDE DEF T
    <3>0. T \in SUBSET Nat
      BY DEF T
    <3> QED BY <2>1, <3>0, Least
  <2>3. m \in Nat /\ ~\E f : Sol(f, m)
    OBVIOUS
  <2>4. m # 0 => m - 1 \in Nat /\ ~(m <= m - 1)
    BY <2>3
  <2>5. m # 0 => \E f : Sol(f, m - 1)
    <3> HIDE DEF Sol
    <3> QED BY <2>2, <2>4
  <2> HIDE DEF Sol, T
  <2> QED BY <1>4, <2>3, <2>5
<1>6. ASSUME NEW n \in Nat, NEW f, NEW g, Sol(f, n), Sol(g, n), NEW x \in S, rank[x] <= n
      PROVE  f[x] = g[x]
  <2> DEFINE B == {y \in S : rank[y] <= n /\ f[y] # g[y]}
             T == {k \in Nat : \E y \in B : rank[y] = k}
  <2>1. SUFFICES ASSUME x \in B PROVE FALSE
    BY <1>6
  <2>2. T # {}
    BY <2>1, <1>2
  <2>3. PICK m \in T : \A k \in T : m <= k
    <3> HIDE DEF T
    <3>0. T \in SUBSET Nat
      BY DEF T
    <3> QED BY <2>2, <3>0, Least
  <2>4. PICK y \in B : rank[y] = m
    OBVIOUS
  <2>5. f[y] = One(f, y) /\ g[y] = One(g, y) /\ f[y] # g[y]
    BY <1>6, <2>4
  <2>6. y \in W
    BY <2>5
  <2>7. next[y] \in S /\ rank[next[y]] < m /\ rank[next[y]] \in Nat
    BY <2>6, <2>4, <1>2, <1>3
  <2>8. next[y] \notin B
    BY <2>3, <2>7
  <2>9. m \in Nat /\ m <= n
    BY <2>4
  <2>10. rank[next[y]] <= n
    BY <2>7, <2>9
  <2>11. f[next[y]] = g[next[y]]
    BY <2>7, <2>8, <2>10
  <2> QED BY <2>5, <2>6, <2>11
<1>7. ASSUME NEW m \in Nat, NEW n \in Nat, NEW f, Sol(f, n), m <= n PROVE Sol(f, m)
  <2>1. \A x \in S : rank[x] <= m => rank[x] <= n
    BY <1>2, <1>7
  <2> QED BY <1>7, <2>1
<1> DEFINE F == [x \in S |-> (CHOOSE f : Sol(f, rank[x]))[x]]
<1>8. \A x \in S : Sol(CHOOSE f : Sol(f, rank[x]), rank[x])
  <2> HIDE DEF Sol
  <2> QED BY <1>2, <1>5
<1>9. F \in [S -> V]
  <2>1. ASSUME NEW x \in S PROVE (CHOOSE f : Sol(f, rank[x]))[x] \in V
    <3> DEFINE a == CHOOSE f : Sol(f, rank[x])
    <3>1. Sol(a, rank[x])
      BY <1>8
    <3> HIDE DEF a
    <3>2. a[x] \in V
      BY <3>1
    <3> QED BY <3>2 DEF a
  <2> HIDE DEF Sol
  <2> QED BY <2>1
<1>10. ASSUME NEW x \in S PROVE F[x] = One(F, x)
  <2> DEFINE a == CHOOSE f : Sol(f, rank[x])
             b == CHOOSE f : Sol(f, rank[next[x]])
  <2>1. Sol(a, rank[x])
    BY <1>8
  <2> HIDE DEF a
  <2>2. a[x] = One(a, x)
    BY <2>1, <1>2
  <2>3. F[x] = a[x]
    BY DEF a
  <2>4. CASE x \in W
    <3>1. next[x] \in S /\ rank[next[x]] < rank[x] /\ rank[next[x]] \in Nat /\ rank[x] \in Nat
      BY <2>4, <1>2, <1>3
    <3>2. Sol(b, rank[next[x]])
      BY <3>1, <1>8
    <3>3. F[next[x]] = b[next[x]]
      BY <3>1
    <3> HIDE DEF b, F, Sol
    <3>4. Sol(a, rank[next[x]])
      BY <3>1, <2>1, <1>7
    <3>5. a[next[x]] = b[next[x]]
      BY <3>1, <3>2, <3>4, <1>6
    <3> QED BY <2>2, <2>3, <2>4, <3>3, <3>5
  <2>5. CASE x \notin W
    BY <2>2, <2>3, <2>5
  <2> QED BY <2>4, <2>5
<1> HIDE DEF F
<1> QED BY <1>9, <1>10 DEF Defined

-----------------------------------------------------------------------------
(* The numbers and the contents of a stream                                 *)

\* The beginning of a sequence and the rest of it.
LEMMA UptoProperties ==
    ASSUME NEW S, NEW s \in Seq(S), NEW n \in 0 .. Len(s)
    PROVE  /\ Upto(s, n) \in Seq(S) /\ Len(Upto(s, n)) = n
           /\ \A k \in 1 .. n : Upto(s, n)[k] = s[k]
           /\ After(s, n) \in Seq(S) /\ Len(After(s, n)) = Len(s) - n
           /\ \A k \in 1 .. Len(s) - n : After(s, n)[k] = s[n + k]
<1>1. Len(s) \in Nat /\ n \in Int /\ Len(s) \in Int /\ n + 1 \in Int /\ 1 \in Int
  BY LenProperties
<1>2. \A k \in 1 .. n : s[k] \in S
  BY <1>1
<1>3. \A k \in n + 1 .. Len(s) : s[k] \in S
  BY <1>1
<1>4. /\ SubSeq(s, 1, n) \in Seq(S)
      /\ Len(SubSeq(s, 1, n)) = IF 1 <= n THEN n - 1 + 1 ELSE 0
      /\ \A k \in 1 .. n - 1 + 1 : SubSeq(s, 1, n)[k] = s[1 + k - 1]
  BY <1>1, <1>2, SubSeqProperties
<1>5. /\ SubSeq(s, n + 1, Len(s)) \in Seq(S)
      /\ Len(SubSeq(s, n + 1, Len(s))) = IF n + 1 <= Len(s) THEN Len(s) - (n + 1) + 1 ELSE 0
      /\ \A k \in 1 .. Len(s) - (n + 1) + 1 : SubSeq(s, n + 1, Len(s))[k] = s[n + 1 + k - 1]
  BY <1>1, <1>3, SubSeqProperties
<1> QED BY <1>1, <1>4, <1>5 DEF Upto, After

\* The digit a character denotes.
LEMMA DigitType ==
    ASSUME NEW c, IsDigit(c)
    PROVE  Digit(c) \in 0 .. 9
BY DEF Digit, IsDigit, Digits

\* The numerals are the sequences of digits.
LEMMA NumeralDigits ==
    /\ \A s : s \in Numeral => \A k \in 1 .. Len(s) : IsDigit(s[k])
    /\ \A S : \A s \in Seq(S) : (\A k \in 1 .. Len(s) : IsDigit(s[k])) => s \in Numeral
<1> DEFINE D == {Digits[d] : d \in DOMAIN Digits}
<1>1. \A c : c \in D <=> IsDigit(c)
  BY DEF IsDigit
<1> HIDE DEF D
<1>2. ASSUME NEW s \in Seq(D), NEW k \in 1 .. Len(s) PROVE IsDigit(s[k])
  BY <1>1
<1>3. ASSUME NEW S, NEW s \in Seq(S), \A k \in 1 .. Len(s) : IsDigit(s[k]) PROVE s \in Seq(D)
  <2>1. \A k \in 1 .. Len(s) : s[k] \in D
    BY <1>1, <1>3
  <2>2. Len(s) \in Nat /\ s = [k \in 1 .. Len(s) |-> s[k]]
    BY <1>3
  <2> QED BY <2>1, <2>2
<1> QED BY <1>2, <1>3 DEF Numeral, D

\* Value satisfies its recursive definition, and its values are numbers.
LEMMA ValueUnfolds ==
    /\ Value \in [Numeral -> Nat]
    /\ \A s \in Numeral :
         Value[s] = IF s = <<>> THEN 0 ELSE 10 * Value[Upto(s, Len(s) - 1)] + Digit(s[Len(s)])
<1> DEFINE S == Numeral
           W == {s \in S : s # <<>>}
           rank == [s \in S |-> Len(s)]
           next == [s \in W |-> Upto(s, Len(s) - 1)]
           step == [p \in W \X Nat |-> 10 * p[2] + Digit(p[1][Len(p[1])])]
           base == [s \in S |-> 0]
           Eq(f) == f = [s \in S |-> IF s = <<>> THEN 0
                                     ELSE 10 * f[Upto(s, Len(s) - 1)] + Digit(s[Len(s)])]
<1>1. ASSUME NEW s \in W
      PROVE  /\ Len(s) - 1 \in 0 .. Len(s) /\ Len(s) \in 1 .. Len(s)
             /\ Upto(s, Len(s) - 1) \in S /\ Len(Upto(s, Len(s) - 1)) = Len(s) - 1
             /\ Digit(s[Len(s)]) \in Nat
  <2>1. Len(s) \in Nat \ {0}
    BY EmptySeq DEF Numeral
  <2>2. Len(s) - 1 \in 0 .. Len(s) /\ Len(s) \in 1 .. Len(s)
    BY <2>1
  <2>3. Upto(s, Len(s) - 1) \in S /\ Len(Upto(s, Len(s) - 1)) = Len(s) - 1
    BY <2>2, UptoProperties DEF Numeral
  <2>4. IsDigit(s[Len(s)])
    BY <2>2, NumeralDigits
  <2>5. Digit(s[Len(s)]) \in Nat
    BY <2>4, DigitType
  <2> QED BY <2>2, <2>3, <2>5
<1>2. rank \in [S -> Nat] /\ W \in SUBSET S
  BY DEF Numeral
<1>3. next \in [W -> S] /\ \A s \in W : rank[next[s]] < rank[s]
  BY <1>1
<1>4. step \in [W \X Nat -> Nat]
  BY <1>1
<1>5. base \in [S -> Nat]
  OBVIOUS
<1>6. PICK f : Defined(f, S, Nat, W, next, step, base)
  <2>1. Ranked(S, Nat, W, rank, next, step, base)
    BY <1>2, <1>3, <1>4, <1>5 DEF Ranked
  <2> HIDE DEF S, W, rank, next, step, base
  <2> QED BY <2>1, Recursion, Zenon
<1>6a. f \in [S -> Nat] /\ \A s \in S : f[s] = IF s \in W THEN step[<<s, f[next[s]]>>] ELSE base[s]
  BY <1>6, Zenon DEF Defined
<1>7. ASSUME NEW s \in S
      PROVE  f[s] = IF s = <<>> THEN 0 ELSE 10 * f[Upto(s, Len(s) - 1)] + Digit(s[Len(s)])
  <2>1. CASE s \in W
    <3>1. f[next[s]] \in Nat /\ next[s] = Upto(s, Len(s) - 1)
      BY <1>1, <1>6a, <2>1
    <3>2. f[s] = step[<<s, f[next[s]]>>]
      BY <1>6a, <2>1
    <3> HIDE DEF next
    <3>3. <<s, f[next[s]]>> \in W \X Nat
      BY <2>1, <3>1
    <3>4. step[<<s, f[next[s]]>>] = 10 * f[next[s]] + Digit(s[Len(s)])
      BY <3>3
    <3> QED BY <2>1, <3>1, <3>2, <3>4
  <2>2. CASE s \notin W
    BY <1>6a, <2>2
  <2> QED BY <2>1, <2>2
<1>8. Eq(f)
  BY <1>6a, <1>7
<1>9. Value = CHOOSE g : Eq(g)
  BY DEF Value
<1>10. Eq(Value)
  <2> HIDE DEF Eq
  <2> QED BY <1>8, <1>9
<1>11. \A s \in Numeral :
         Value[s] = IF s = <<>> THEN 0 ELSE 10 * Value[Upto(s, Len(s) - 1)] + Digit(s[Len(s)])
  BY <1>10
<1> DEFINE T == {n \in Nat : \E s \in Numeral : Len(s) = n /\ Value[s] \notin Nat}
<1>12. ASSUME NEW s \in Numeral PROVE Value[s] \in Nat
  <2>0. Len(s) \in Nat
    BY DEF Numeral
  <2>1. SUFFICES ASSUME T # {} PROVE FALSE
    BY <2>0
  <2>2. PICK m \in T : \A k \in T : m <= k
    <3> HIDE DEF T
    <3>1. T \in SUBSET Nat
      BY DEF T
    <3> QED BY <2>1, <3>1, Least
  <2>3. PICK t \in Numeral : Len(t) = m /\ Value[t] \notin Nat
    OBVIOUS
  <2>4. t # <<>>
    BY <1>11, <2>3
  <2> DEFINE u == Upto(t, Len(t) - 1)
  <2>4a. Upto(t, Len(t) - 1) \in S /\ Len(Upto(t, Len(t) - 1)) = Len(t) - 1 /\ Digit(t[Len(t)]) \in Nat
         /\ Len(t) \in 1 .. Len(t)
    BY <1>1, <2>4
  <2>5. u \in Numeral /\ Len(u) = m - 1 /\ m \in Nat /\ m - 1 \in Nat /\ Digit(t[Len(t)]) \in Nat
    BY <2>3, <2>4a
  <2> HIDE DEF u
  <2>6. Value[u] \in Nat
    <3>1. ~(m <= m - 1)
      BY <2>5
    <3>2. m - 1 \notin T
      BY <2>2, <3>1
    <3> QED BY <2>5, <3>2
  <2>7. Value[t] = 10 * Value[u] + Digit(t[Len(t)])
    BY <1>11, <2>4 DEF u
  <2> QED BY <2>3, <2>5, <2>6, <2>7
<1>13. Value = [s \in Numeral |-> Value[s]]
  BY <1>10
<1> QED BY <1>11, <1>12, <1>13

\* Leading finds where the digits a stream begins with end.
LEMMA LeadingExists ==
    ASSUME NEW S, NEW s \in Seq(S)
    PROVE  /\ Leading(s) \in 0 .. Len(s)
           /\ \A k \in 1 .. Leading(s) : IsDigit(s[k])
           /\ Leading(s) < Len(s) => ~IsDigit(s[Leading(s) + 1])
<1> DEFINE T == {n \in 0 .. Len(s) : n < Len(s) => ~IsDigit(s[n + 1])}
<1>1. Len(s) \in Nat
  OBVIOUS
<1>2. PICK n \in T : \A m \in T : n <= m
  <2>1. Len(s) \in T /\ T \in SUBSET Nat
    BY <1>1
  <2> HIDE DEF T
  <2> QED BY <2>1, Least
<1>3. ASSUME NEW k \in 1 .. n PROVE IsDigit(s[k])
  <2>1. n \in Nat /\ n <= Len(s) /\ k - 1 \in 0 .. Len(s) /\ k - 1 < Len(s) /\ k - 1 + 1 = k /\ ~(n <= k - 1)
    BY <1>1, <1>3
  <2>2. k - 1 \notin T
    BY <1>2, <2>1
  <2> QED BY <2>1, <2>2
<1>4. n \in 0 .. Len(s) /\ (n < Len(s) => ~IsDigit(s[n + 1]))
  OBVIOUS
<1> DEFINE P(m) == /\ \A k \in 1 .. m : IsDigit(s[k])
                   /\ m < Len(s) => ~IsDigit(s[m + 1])
<1>5. n \in 0 .. Len(s) /\ P(n)
  BY <1>3, <1>4
<1>6. Leading(s) = CHOOSE m \in 0 .. Len(s) : P(m)
  BY DEF Leading
<1>7. Leading(s) \in 0 .. Len(s) /\ P(Leading(s))
  <2> HIDE DEF P
  <2> QED BY <1>5, <1>6, Zenon
<1> QED BY <1>7

\* There is only one such place.
LEMMA LeadingIs ==
    ASSUME NEW S, NEW s \in Seq(S), NEW n \in 0 .. Len(s),
           \A k \in 1 .. n : IsDigit(s[k]), n < Len(s) => ~IsDigit(s[n + 1])
    PROVE  Leading(s) = n
<1> DEFINE m == Leading(s)
<1>1. /\ m \in 0 .. Len(s) /\ \A k \in 1 .. m : IsDigit(s[k])
      /\ m < Len(s) => ~IsDigit(s[m + 1])
  BY LeadingExists
<1> HIDE DEF m
<1>2. Len(s) \in Nat
  OBVIOUS
<1>3. ~(m < n)
  <2> SUFFICES ASSUME m < n PROVE FALSE
    OBVIOUS
  <2>1. m + 1 \in 1 .. n /\ m < Len(s)
    BY <1>1, <1>2
  <2> QED BY <1>1, <2>1
<1>4. ~(n < m)
  <2> SUFFICES ASSUME n < m PROVE FALSE
    OBVIOUS
  <2>1. n + 1 \in 1 .. m /\ n < Len(s)
    BY <1>1, <1>2
  <2> QED BY <1>1, <2>1
<1>5. m = n
  BY <1>1, <1>3, <1>4
<1> QED BY <1>5 DEF m

\* What a whole netstring leaves of a stream is shorter than the stream.
LEMMA WholeType ==
    ASSUME NEW s \in Seq(Chars), BeginsWhole(s)
    PROVE  First(s) \in Seq(Seq(Chars)) /\ Others(s) \in Seq(Chars) /\ Len(Others(s)) < Len(s)
<1> DEFINE n == Leading(s)
           v == Number(s)
<1>1. n \in 1 .. Len(s) - 1 /\ v \in Nat /\ Len(s) \in Nat
  <2>1. n \in 1 .. Len(s) - 1 /\ v \in 0 .. MaxULong
    BY Zenon DEF BeginsWhole, HasLength
  <2> HIDE DEF n, v
  <2> QED BY <2>1, NetstringAssumption
<1>2. v # 0 => n + v + 2 <= Len(s)
  BY Zenon DEF BeginsWhole, Comma
<1> HIDE DEF n, v
<1>3. CASE v = 0
  <2>1. First(s) = <<>> /\ Others(s) = After(s, n + 1)
    BY <1>3 DEF First, Others, n, v
  <2>2. n + 1 \in 0 .. Len(s)
    BY <1>1
  <2>3. Others(s) \in Seq(Chars) /\ Len(Others(s)) = Len(s) - (n + 1)
    BY <2>1, <2>2, UptoProperties
  <2> QED BY <1>1, <2>1, <2>3
<1>4. CASE v # 0
  <2>1. First(s) = <<SubSeq(s, n + 2, (n + v + 2) - 1)>> /\ Others(s) = After(s, n + v + 2)
    BY <1>4 DEF First, Others, Comma, n, v
  <2>2. n + v + 2 \in 0 .. Len(s)
    BY <1>1, <1>2, <1>4
  <2>3. Others(s) \in Seq(Chars) /\ Len(Others(s)) = Len(s) - (n + v + 2)
    BY <2>1, <2>2, UptoProperties
  <2>4. n + 2 \in Int /\ (n + v + 2) - 1 \in Int /\ \A k \in n + 2 .. (n + v + 2) - 1 : s[k] \in Chars
    BY <1>1, <2>2
  <2>5. SubSeq(s, n + 2, (n + v + 2) - 1) \in Seq(Chars)
    BY <2>4, SubSeqProperties
  <2> QED BY <1>1, <2>1, <2>3, <2>5
<1> QED BY <1>3, <1>4

\* Contents satisfies its recursive definition, and yields bodies and a verdict.
LEMMA ContentsUnfolds ==
    \A s \in Seq(Chars) :
        /\ Contents[s] \in [bodies : Seq(Seq(Chars)), good : BOOLEAN]
        /\ Contents[s] = IF BeginsWhole(s)
                         THEN [bodies |-> First(s) \o Contents[Others(s)].bodies,
                               good |-> Contents[Others(s)].good]
                         ELSE [bodies |-> <<>>, good |-> ~Malformed(s)]
<1> DEFINE S == Seq(Chars)
           V == [bodies : Seq(Seq(Chars)), good : BOOLEAN]
           W == {s \in S : BeginsWhole(s)}
           rank == [s \in S |-> Len(s)]
           next == [s \in W |-> Others(s)]
           step == [p \in W \X V |-> [bodies |-> First(p[1]) \o p[2].bodies, good |-> p[2].good]]
           base == [s \in S |-> [bodies |-> <<>>, good |-> ~Malformed(s)]]
           Body(f, s) == IF BeginsWhole(s)
                         THEN [bodies |-> First(s) \o f[Others(s)].bodies,
                               good |-> f[Others(s)].good]
                         ELSE [bodies |-> <<>>, good |-> ~Malformed(s)]
           Eq(f) == f = [s \in S |-> Body(f, s)]
<1>1. \A s \in W : First(s) \in Seq(Seq(Chars)) /\ Others(s) \in S /\ Len(Others(s)) < Len(s)
  BY WholeType
<1>2. rank \in [S -> Nat] /\ W \in SUBSET S
  OBVIOUS
<1>3. next \in [W -> S] /\ \A s \in W : rank[next[s]] < rank[s]
  BY <1>1
<1>4. step \in [W \X V -> V]
  <2>1. ASSUME NEW p \in W \X V
        PROVE  [bodies |-> First(p[1]) \o p[2].bodies, good |-> p[2].good] \in V
    <3>1. First(p[1]) \in Seq(Seq(Chars)) /\ p[2] \in V
      <4> HIDE DEF V, W
      <4> QED BY <1>1
    <3>2. p[2].bodies \in Seq(Seq(Chars)) /\ p[2].good \in BOOLEAN
      BY <3>1
    <3>3. First(p[1]) \o p[2].bodies \in Seq(Seq(Chars))
      BY <3>1, <3>2, ConcatProperties
    <3> QED BY <3>2, <3>3
  <2> HIDE DEF V, W
  <2> QED BY <2>1
<1>5. base \in [S -> V]
  OBVIOUS
<1>6. PICK f : Defined(f, S, V, W, next, step, base)
  <2>0. V # {}
    <3>1. [bodies |-> <<>>, good |-> TRUE] \in V
      OBVIOUS
    <3> QED BY <3>1, Zenon
  <2> HIDE DEF V
  <2>1. Ranked(S, V, W, rank, next, step, base)
    BY <1>2, <1>3, <1>4, <1>5, <2>0 DEF Ranked
  <2> HIDE DEF S, W, rank, next, step, base
  <2> QED BY <2>1, Recursion, Zenon
<1>7. f \in [S -> V] /\ \A s \in S : f[s] = IF s \in W THEN step[<<s, f[next[s]]>>] ELSE base[s]
  BY <1>6, Zenon DEF Defined
<1>8. ASSUME NEW s \in S PROVE f[s] = Body(f, s)
  <2>1. CASE s \in W
    <3>1. next[s] \in S /\ next[s] = Others(s)
      BY <1>1, <2>1
    <3>2. f[s] = step[<<s, f[next[s]]>>]
      BY <1>7, <2>1
    <3> HIDE DEF next
    <3>3. <<s, f[next[s]]>> \in W \X V
      <4> HIDE DEF V
      <4> QED BY <1>7, <2>1, <3>1
    <3>4. step[<<s, f[next[s]]>>] = [bodies |-> First(s) \o f[next[s]].bodies, good |-> f[next[s]].good]
      <4> HIDE DEF V, W
      <4> QED BY <3>3
    <3> QED BY <2>1, <3>1, <3>2, <3>4, Zenon
  <2>2. CASE s \notin W
    <3>1. f[s] = base[s]
      BY <1>7, <2>2
    <3>2. ~BeginsWhole(s)
      BY <2>2
    <3> QED BY <3>1, <3>2
  <2> QED BY <2>1, <2>2
<1>9. Eq(f)
  <2> HIDE DEF V, W, next, step, base, Body
  <2> QED BY <1>7, <1>8
<1>10. Contents = CHOOSE g : Eq(g)
  BY DEF Contents
<1>11. Eq(Contents)
  <2> HIDE DEF Eq
  <2> QED BY <1>9, <1>10
<1>12. \A s \in S : Contents[s] = Body(Contents, s)
  <2> HIDE DEF Body
  <2> QED BY <1>11
<1> DEFINE T == {n \in Nat : \E s \in S : Len(s) = n /\ Contents[s] \notin V}
<1>13. ASSUME NEW s \in S PROVE Contents[s] \in V
  <2>0. Len(s) \in Nat
    OBVIOUS
  <2>1. SUFFICES ASSUME T # {} PROVE FALSE
    <3> HIDE DEF V
    <3> QED BY <2>0
  <2>2. PICK m \in T : \A k \in T : m <= k
    <3> HIDE DEF T
    <3>1. T \in SUBSET Nat
      BY DEF T
    <3> QED BY <2>1, <3>1, Least
  <2>3. PICK t \in S : Len(t) = m /\ Contents[t] \notin V
    OBVIOUS
  <2>4. CASE BeginsWhole(t)
    <3> DEFINE u == Others(t)
    <3>1. First(t) \in Seq(Seq(Chars)) /\ u \in S /\ Len(u) < m /\ m \in Nat /\ Len(u) \in Nat
      BY <2>3, <2>4, WholeType
    <3>2. Len(u) \notin T
      BY <2>2, <3>1
    <3>3. Contents[u] \in V
      <4> HIDE DEF V, u
      <4> QED BY <3>1, <3>2
    <3>4. Contents[t] = [bodies |-> First(t) \o Contents[u].bodies, good |-> Contents[u].good]
      BY <1>12, <2>4
    <3> HIDE DEF u
    <3>5. Contents[u].bodies \in Seq(Seq(Chars)) /\ Contents[u].good \in BOOLEAN
      BY <3>3
    <3>6. First(t) \o Contents[u].bodies \in Seq(Seq(Chars))
      BY <3>1, <3>5, ConcatProperties
    <3> QED BY <2>3, <3>4, <3>5, <3>6
  <2>5. CASE ~BeginsWhole(t)
    <3>1. Contents[t] = [bodies |-> <<>>, good |-> ~Malformed(t)]
      BY <1>12, <2>5
    <3> QED BY <2>3, <3>1
  <2> QED BY <2>4, <2>5
<1> QED BY <1>12, <1>13, Zenon

-----------------------------------------------------------------------------
\* Nothing but digits.
AllDigits(s) == \A k \in 1 .. Len(s) : IsDigit(s[k])

\* The two separators of a netstring are no digits.
LEMMA Separators == ~IsDigit(":") /\ ~IsDigit(",")
<1>1. DOMAIN Digits = 1 .. 10
  BY DEF Digits
<1>2. ASSUME NEW d \in 1 .. 10 PROVE Digits[d] # ":" /\ Digits[d] # ","
  <2>1. \/ d = 1 \/ d = 2 \/ d = 3 \/ d = 4 \/ d = 5 \/ d = 6 \/ d = 7 \/ d = 8 \/ d = 9 \/ d = 10
    OBVIOUS
  <2>2. /\ Digits[1] = "0" /\ Digits[2] = "1" /\ Digits[3] = "2" /\ Digits[4] = "3" /\ Digits[5] = "4"
        /\ Digits[6] = "5" /\ Digits[7] = "6" /\ Digits[8] = "7" /\ Digits[9] = "8" /\ Digits[10] = "9"
    BY DEF Digits
  <2> QED BY <2>1, <2>2
<1> QED BY <1>1, <1>2 DEF IsDigit

\* A stream cut after the digits it begins with: a character that is no digit, and the rest.
Split(s, d, c, r) ==
    /\ d \in Seq(Chars) /\ AllDigits(d) /\ c \in Chars /\ ~IsDigit(c) /\ r \in Seq(Chars)
    /\ s = d \o (<<c>> \o r)

\* Such a cut determines where the leading digits end and what follows them.
LEMMA Shape ==
    ASSUME NEW s, NEW d, NEW c, NEW r, Split(s, d, c, r)
    PROVE  /\ s \in Seq(Chars) /\ Len(s) = Len(d) + 1 + Len(r)
           /\ Leading(s) = Len(d) /\ Upto(s, Len(d)) = d
           /\ s[Len(d) + 1] = c
           /\ \A k \in 1 .. Len(r) : s[Len(d) + 1 + k] = r[k]
<1>0. /\ d \in Seq(Chars) /\ AllDigits(d) /\ c \in Chars /\ ~IsDigit(c) /\ r \in Seq(Chars)
      /\ s = d \o (<<c>> \o r)
  BY DEF Split
<1> USE <1>0
<1>1. <<c>> \in Seq(Chars) /\ Len(<<c>>) = 1 /\ <<c>>[1] = c /\ Len(d) \in Nat /\ Len(r) \in Nat
  OBVIOUS
<1> DEFINE q == <<c>> \o r
<1>2. q \in Seq(Chars) /\ Len(q) = 1 + Len(r) /\ q[1] = c /\ \A k \in 1 .. Len(r) : q[1 + k] = r[k]
  BY <1>1, ConcatProperties
<1> HIDE DEF q
<1>3. s = d \o q
  BY DEF q
<1>4. /\ s \in Seq(Chars) /\ Len(s) = Len(d) + Len(q)
      /\ \A k \in 1 .. Len(d) + Len(q) : s[k] = IF k <= Len(d) THEN d[k] ELSE q[k - Len(d)]
  BY <1>2, <1>3, ConcatProperties
<1>5. Len(s) = Len(d) + 1 + Len(r) /\ \A k \in 1 .. Len(d) : s[k] = d[k]
  BY <1>1, <1>2, <1>4
<1>6. s[Len(d) + 1] = c /\ \A k \in 1 .. Len(r) : s[Len(d) + 1 + k] = r[k]
  <2>1. Len(d) + 1 \in 1 .. Len(d) + Len(q) /\ ~(Len(d) + 1 <= Len(d)) /\ Len(d) + 1 - Len(d) = 1
    BY <1>1, <1>2
  <2>2. ASSUME NEW k \in 1 .. Len(r) PROVE s[Len(d) + 1 + k] = r[k]
    <3>1. Len(d) + 1 + k \in 1 .. Len(d) + Len(q) /\ ~(Len(d) + 1 + k <= Len(d))
          /\ Len(d) + 1 + k - Len(d) = 1 + k
      BY <1>1, <1>2
    <3> QED BY <1>2, <1>4, <3>1
  <2> QED BY <1>2, <1>4, <2>1, <2>2
<1>7. Len(d) \in 0 .. Len(s)
  BY <1>1, <1>5
<1>8. Leading(s) = Len(d)
  <2>1. \A k \in 1 .. Len(d) : IsDigit(s[k])
    BY <1>5 DEF AllDigits
  <2> QED BY <1>4, <1>6, <1>7, <2>1, LeadingIs
<1>9. Upto(s, Len(d)) = d
  <2>1. Upto(s, Len(d)) \in Seq(Chars) /\ Len(Upto(s, Len(d))) = Len(d)
        /\ \A k \in 1 .. Len(d) : Upto(s, Len(d))[k] = s[k]
    BY <1>4, <1>7, UptoProperties
  <2>2. \A k \in 1 .. Len(Upto(s, Len(d))) : Upto(s, Len(d))[k] = d[k]
    BY <1>5, <2>1
  <2> QED BY <2>1, <2>2, SeqEqual
<1> QED BY <1>4, <1>5, <1>6, <1>8, <1>9

\* A stream of digits only is one length that has not ended.
LEMMA OnlyDigits ==
    ASSUME NEW s \in Seq(Chars), AllDigits(s)
    PROVE  Contents[s] = [bodies |-> <<>>, good |-> TRUE]
<1>1. Len(s) \in Nat /\ Len(s) \in 0 .. Len(s)
  OBVIOUS
<1>2. Leading(s) = Len(s)
  BY <1>1, LeadingIs DEF AllDigits
<1>3. ~HasLength(s)
  <2>1. ~(Len(s) \in 1 .. Len(s) - 1)
    BY <1>1
  <2> QED BY <1>2, <2>1, Zenon DEF HasLength
<1>4. ~(Leading(s) < Len(s))
  BY <1>1, <1>2
<1>5. ~Malformed(s) /\ ~BeginsWhole(s)
  BY <1>3, <1>4, Zenon DEF Malformed, BeginsWhole
<1>6. Contents[s] = [bodies |-> <<>>, good |-> ~Malformed(s)]
  BY <1>5, ContentsUnfolds, Zenon
<1>7. (~Malformed(s)) = TRUE
  BY <1>5, Zenon
<1> QED BY <1>6, <1>7, Zenon

\* What from_stream accepts as a length.
Admitted(d) ==
    d # <<>> /\ Value[d] \in 0 .. MaxULong /\ Value[d] <= MaxSize

\* A numeral and a character, by what from_stream does with them.
LEMMA LengthOf ==
    ASSUME NEW s, NEW d, NEW c, NEW r, Split(s, d, c, r)
    PROVE  /\ Number(s) = Value[d] /\ Leading(s) < Len(s)
           /\ HasLength(s) <=> c = ":" /\ Admitted(d)
<1>1. /\ Leading(s) = Len(d) /\ Upto(s, Len(d)) = d /\ s[Len(d) + 1] = c
      /\ Len(s) = Len(d) + 1 + Len(r)
  BY Shape
<1>2. Number(s) = Value[d]
  BY <1>1, Zenon DEF Number
<1>3. Len(d) \in Nat /\ Len(r) \in Nat /\ (d # <<>> <=> Len(d) # 0)
  BY EmptySeq DEF Split
<1>4. Leading(s) < Len(s) /\ (Leading(s) \in 1 .. Len(s) - 1 <=> d # <<>>)
  BY <1>1, <1>3
<1>5. HasLength(s) <=> c = ":" /\ Admitted(d)
  BY <1>1, <1>2, <1>4, Zenon DEF HasLength, Admitted
<1> QED BY <1>2, <1>4, <1>5

\* Where no length begins, nothing that follows helps.
LEMMA BadLength ==
    ASSUME NEW s, NEW d, NEW c, NEW r, Split(s, d, c, r), c # ":" \/ ~Admitted(d)
    PROVE  Contents[s] = [bodies |-> <<>>, good |-> FALSE]
<1>1. s \in Seq(Chars)
  BY Shape
<1>2. Leading(s) < Len(s) /\ ~HasLength(s)
  BY LengthOf
<1>3. ~BeginsWhole(s) /\ Malformed(s)
  BY <1>2, Zenon DEF BeginsWhole, Malformed
<1>4. Contents[s] = [bodies |-> <<>>, good |-> ~Malformed(s)]
  BY <1>1, <1>3, ContentsUnfolds, Zenon
<1>5. (~Malformed(s)) = FALSE
  BY <1>3, Zenon
<1> QED BY <1>4, <1>5, Zenon

\* A length of zero is skipped with its colon.
LEMMA ZeroLength ==
    ASSUME NEW s, NEW d, NEW r, Split(s, d, ":", r), Admitted(d), Value[d] = 0
    PROVE  Contents[s] = Contents[r]
<1>0. d \in Seq(Chars) /\ r \in Seq(Chars)
  BY DEF Split
<1> USE <1>0
<1>1. /\ s \in Seq(Chars) /\ Len(s) = Len(d) + 1 + Len(r) /\ Leading(s) = Len(d)
      /\ \A k \in 1 .. Len(r) : s[Len(d) + 1 + k] = r[k]
  BY Shape
<1>2. Number(s) = 0 /\ HasLength(s)
  BY LengthOf
<1>3. BeginsWhole(s) /\ First(s) = <<>> /\ Others(s) = After(s, Len(d) + 1)
  BY <1>1, <1>2, Zenon DEF BeginsWhole, First, Others
<1>4. Len(d) \in Nat /\ Len(r) \in Nat /\ Len(d) + 1 \in 0 .. Len(s)
  BY <1>1
<1>5. After(s, Len(d) + 1) = r
  <2> DEFINE a == After(s, Len(d) + 1)
  <2>1. /\ a \in Seq(Chars) /\ Len(a) = Len(s) - (Len(d) + 1)
        /\ \A k \in 1 .. Len(s) - (Len(d) + 1) : a[k] = s[Len(d) + 1 + k]
    BY <1>1, <1>4, UptoProperties, ZenonT(60)
  <2> HIDE DEF a
  <2>2. Len(a) = Len(r)
    BY <1>1, <1>4, <2>1
  <2>3. \A k \in 1 .. Len(a) : a[k] = r[k]
    BY <1>1, <2>1, <2>2
  <2>4. a = r
    BY <2>1, <2>2, <2>3, SeqEqual
  <2> QED BY <2>4 DEF a
<1>6. Contents[s] = [bodies |-> <<>> \o Contents[r].bodies, good |-> Contents[r].good]
  BY <1>1, <1>3, <1>5, ContentsUnfolds, Zenon
<1>7. Contents[r] \in [bodies : Seq(Seq(Chars)), good : BOOLEAN]
  BY ContentsUnfolds, Zenon
<1>8. <<>> \o Contents[r].bodies = Contents[r].bodies
  BY <1>7, ConcatEmptySeq
<1>9. Contents[r] = [bodies |-> Contents[r].bodies, good |-> Contents[r].good]
  BY <1>7
<1> QED BY <1>6, <1>8, <1>9, Zenon

\* Where the comma of a body is looked for.
LEMMA CommaAt ==
    ASSUME NEW s, NEW d, NEW r, Split(s, d, ":", r), Admitted(d), Value[d] # 0
    PROVE  /\ s \in Seq(Chars) /\ r \in Seq(Chars) /\ HasLength(s) /\ Value[d] \in Nat \ {0}
           /\ Number(s) = Value[d] /\ Number(s) # 0
           /\ Comma(s) <= Len(s) <=> Value[d] < Len(r)
           /\ Value[d] < Len(r) => s[Comma(s)] = r[Value[d] + 1]
           /\ ~(Leading(s) < Len(s) /\ ~HasLength(s))
<1>0. d \in Seq(Chars) /\ r \in Seq(Chars) /\ Len(d) \in Nat /\ Len(r) \in Nat
  BY DEF Split
<1>1. /\ s \in Seq(Chars) /\ Len(s) = Len(d) + 1 + Len(r) /\ Leading(s) = Len(d)
      /\ \A k \in 1 .. Len(r) : s[Len(d) + 1 + k] = r[k]
  BY Shape
<1>2. Number(s) = Value[d] /\ HasLength(s)
  BY LengthOf
<1> DEFINE v == Value[d]
<1>3. v \in Nat /\ v # 0
  <2>1. v \in 0 .. MaxULong
    BY Zenon DEF Admitted
  <2> QED BY <2>1, NetstringAssumption
<1>4. Comma(s) = Len(d) + v + 2
  BY <1>1, <1>2, Zenon DEF Comma
<1> HIDE DEF v
<1>5. Comma(s) <= Len(s) <=> v < Len(r)
  BY <1>0, <1>1, <1>3, <1>4
<1>6. v < Len(r) => s[Comma(s)] = r[v + 1]
  <2>1. v < Len(r) => v + 1 \in 1 .. Len(r) /\ Comma(s) = Len(d) + 1 + (v + 1)
    BY <1>0, <1>3, <1>4
  <2> QED BY <1>1, <2>1
<1> QED BY <1>0, <1>1, <1>2, <1>3, <1>5, <1>6, Zenon DEF v

\* A body that has not ended.
LEMMA ShortBody ==
    ASSUME NEW s, NEW d, NEW r, Split(s, d, ":", r), Admitted(d), Value[d] # 0,
           Len(r) <= Value[d]
    PROVE  Contents[s] = [bodies |-> <<>>, good |-> TRUE]
<1>1. /\ s \in Seq(Chars) /\ r \in Seq(Chars) /\ Value[d] \in Nat \ {0} /\ Number(s) # 0
      /\ Comma(s) <= Len(s) <=> Value[d] < Len(r)
      /\ ~(Leading(s) < Len(s) /\ ~HasLength(s))
  BY CommaAt
<1>2. ~(Value[d] < Len(r))
  <2>1. Len(r) \in Nat
    BY <1>1
  <2> QED BY <1>1, <2>1
<1>3. ~BeginsWhole(s) /\ ~Malformed(s)
  BY <1>1, <1>2, Zenon DEF BeginsWhole, Malformed
<1>4. Contents[s] = [bodies |-> <<>>, good |-> ~Malformed(s)]
  BY <1>1, <1>3, ContentsUnfolds, Zenon
<1>5. (~Malformed(s)) = TRUE
  BY <1>3, Zenon
<1> QED BY <1>4, <1>5, Zenon

\* A body that does not end with a comma.
LEMMA BadSeparator ==
    ASSUME NEW s, NEW d, NEW r, Split(s, d, ":", r), Admitted(d), Value[d] # 0,
           Value[d] < Len(r), r[Value[d] + 1] # ","
    PROVE  Contents[s] = [bodies |-> <<>>, good |-> FALSE]
<1>1. /\ s \in Seq(Chars) /\ Number(s) # 0 /\ HasLength(s)
      /\ Comma(s) <= Len(s) /\ s[Comma(s)] # ","
  BY CommaAt
<1>3. ~BeginsWhole(s) /\ Malformed(s)
  BY <1>1, Zenon DEF BeginsWhole, Malformed
<1>4. Contents[s] = [bodies |-> <<>>, good |-> ~Malformed(s)]
  BY <1>1, <1>3, ContentsUnfolds, Zenon
<1>5. (~Malformed(s)) = FALSE
  BY <1>3, Zenon
<1> QED BY <1>4, <1>5, Zenon

\* The rest of a stream holds the whole body and the comma after it.
Ends(d, r) == Value[d] < Len(r) /\ r[Value[d] + 1] = ","

\* A stream contains the body that r begins with, and what is behind its comma.
ReadsBody(s, d, r) ==
    Contents[s] = [bodies |-> <<Upto(r, Value[d])>> \o Contents[After(r, Value[d] + 1)].bodies,
                   good |-> Contents[After(r, Value[d] + 1)].good]

\* A whole netstring, and what follows it.
LEMMA WholeBodyOf ==
    ASSUME NEW s, NEW d, NEW r, Split(s, d, ":", r), Admitted(d), Value[d] # 0,
           Ends(d, r)
    PROVE  ReadsBody(s, d, r)
<1>0. /\ s \in Seq(Chars) /\ r \in Seq(Chars) /\ Number(s) # 0 /\ HasLength(s) /\ Number(s) = Value[d]
      /\ Value[d] \in Nat \ {0} /\ Comma(s) <= Len(s) /\ s[Comma(s)] = ","
  <2>1. Value[d] < Len(r) /\ r[Value[d] + 1] = ","
    BY Zenon DEF Ends
  <2> QED BY <2>1, CommaAt
<1>1. /\ Len(s) = Len(d) + 1 + Len(r) /\ Leading(s) = Len(d)
      /\ \A k \in 1 .. Len(r) : s[Len(d) + 1 + k] = r[k]
  BY Shape
<1> DEFINE v == Value[d]
           b == SubSeq(s, Len(d) + 2, (Len(d) + v + 2) - 1)
           a == After(s, Len(d) + v + 2)
<1>2. BeginsWhole(s) /\ First(s) = <<b>> /\ Others(s) = a
  BY <1>0, <1>1, Zenon DEF BeginsWhole, First, Others, Comma
<1>3. /\ Len(d) \in Nat /\ Len(r) \in Nat /\ v \in Nat \ {0} /\ v < Len(r) /\ Len(s) \in Nat
      /\ s \in Seq(Chars) /\ r \in Seq(Chars)
  <2>1. v < Len(r) /\ d \in Seq(Chars)
    BY Zenon DEF Ends, Split
  <2>2. s \in Seq(Chars) /\ r \in Seq(Chars) /\ v \in Nat \ {0}
    BY <1>0, Zenon
  <2> HIDE DEF v
  <2>3. Len(d) \in Nat /\ Len(s) \in Nat /\ Len(r) \in Nat
    BY <2>1, <2>2
  <2> QED BY <2>1, <2>2, <2>3, Zenon
<1> HIDE DEF v
<1>4. b = Upto(r, v)
  <2>1. Len(d) + 2 \in Int /\ (Len(d) + v + 2) - 1 \in Int /\ v \in 0 .. Len(r)
        /\ \A k \in Len(d) + 2 .. (Len(d) + v + 2) - 1 : k \in 1 .. Len(s)
    BY <1>1, <1>3
  <2>2. \A k \in Len(d) + 2 .. (Len(d) + v + 2) - 1 : s[k] \in Chars
    BY <1>3, <2>1
  <2>3. /\ b \in Seq(Chars)
        /\ Len(b) = IF Len(d) + 2 <= (Len(d) + v + 2) - 1 THEN ((Len(d) + v + 2) - 1) - (Len(d) + 2) + 1 ELSE 0
        /\ \A k \in 1 .. ((Len(d) + v + 2) - 1) - (Len(d) + 2) + 1 : b[k] = s[Len(d) + 2 + k - 1]
    BY <2>1, <2>2, SubSeqProperties
  <2>4. /\ Upto(r, v) \in Seq(Chars) /\ Len(Upto(r, v)) = v /\ \A k \in 1 .. v : Upto(r, v)[k] = r[k]
    BY <1>3, <2>1, UptoProperties
  <2> HIDE DEF b
  <2>5. Len(b) = v /\ \A k \in 1 .. v : b[k] = s[Len(d) + 1 + k]
    <3>1. ((Len(d) + v + 2) - 1) - (Len(d) + 2) + 1 = v /\ Len(d) + 2 <= (Len(d) + v + 2) - 1
      BY <1>3
    <3>2. \A k \in 1 .. v : Len(d) + 2 + k - 1 = Len(d) + 1 + k
      BY <1>3
    <3> QED BY <2>3, <3>1, <3>2
  <2>6. \A k \in 1 .. v : b[k] = Upto(r, v)[k]
    <3>1. \A k \in 1 .. v : k \in 1 .. Len(r)
      BY <1>3
    <3> QED BY <1>1, <2>4, <2>5, <3>1
  <2> QED BY <2>3, <2>4, <2>5, <2>6, SeqEqual
<1>5. a = After(r, v + 1)
  <2>1. Len(d) + v + 2 \in 0 .. Len(s) /\ v + 1 \in 0 .. Len(r)
    BY <1>1, <1>3
  <2>2. /\ a \in Seq(Chars) /\ Len(a) = Len(s) - (Len(d) + v + 2)
        /\ \A k \in 1 .. Len(s) - (Len(d) + v + 2) : a[k] = s[Len(d) + v + 2 + k]
    BY <1>3, <2>1, UptoProperties
  <2> DEFINE e == After(r, v + 1)
  <2>3. /\ e \in Seq(Chars) /\ Len(e) = Len(r) - (v + 1)
        /\ \A k \in 1 .. Len(r) - (v + 1) : e[k] = r[v + 1 + k]
    BY <1>3, <2>1, UptoProperties
  <2> HIDE DEF a, e
  <2>4. Len(a) = Len(e)
    BY <1>1, <1>3, <2>2, <2>3
  <2>5. ASSUME NEW k \in 1 .. Len(a) PROVE a[k] = e[k]
    <3>1. /\ k \in 1 .. Len(s) - (Len(d) + v + 2) /\ k \in 1 .. Len(r) - (v + 1)
      BY <2>2, <2>3, <2>4
    <3>2. v + 1 + k \in 1 .. Len(r) /\ Len(d) + v + 2 + k = Len(d) + 1 + (v + 1 + k)
      BY <1>3, <3>1
    <3> QED BY <1>1, <2>2, <2>3, <3>1, <3>2
  <2>6. a = e
    BY <2>2, <2>3, <2>4, <2>5, SeqEqual
  <2> QED BY <2>6 DEF e
<1> HIDE DEF a, b
<1>6. Contents[s] = [bodies |-> <<b>> \o Contents[a].bodies, good |-> Contents[a].good]
  BY <1>0, <1>2, ContentsUnfolds, Zenon
<1> QED BY <1>4, <1>5, <1>6, Zenon DEF v, ReadsBody

-----------------------------------------------------------------------------
\* p is made of whole netstrings with the bodies D: whatever follows p is read as
\* if it were the whole stream.
Parsed(p, D) ==
    /\ p \in Seq(Chars) /\ D \in Seq(Seq(Chars))
    /\ \A t \in Seq(Chars) :
          Contents[p \o t] = [bodies |-> D \o Contents[t].bodies, good |-> Contents[t].good]

\* The empty stream is made of no netstrings.
LEMMA ParsedNothing == Parsed(<<>>, <<>>)
<1>1. ASSUME NEW t \in Seq(Chars)
      PROVE  Contents[<<>> \o t] = [bodies |-> <<>> \o Contents[t].bodies, good |-> Contents[t].good]
  <2>1. Contents[t] \in [bodies : Seq(Seq(Chars)), good : BOOLEAN]
    BY ContentsUnfolds, Zenon
  <2>2. <<>> \o Contents[t].bodies = Contents[t].bodies
    BY <2>1, ConcatEmptySeq
  <2>3. <<>> \o t = t
    BY ConcatEmptySeq
  <2>4. Contents[t] = [bodies |-> Contents[t].bodies, good |-> Contents[t].good]
    BY <2>1
  <2> QED BY <2>2, <2>3, <2>4, Zenon
<1>2. <<>> \in Seq(Chars) /\ <<>> \in Seq(Seq(Chars))
  OBVIOUS
<1> QED BY <1>1, <1>2, Zenon DEF Parsed

\* Whole netstrings after whole netstrings.
LEMMA ParsedMore ==
    ASSUME NEW p, NEW q, NEW D, NEW x, Parsed(p, D), Parsed(q, x)
    PROVE  Parsed(p \o q, D \o x)
<1>1. /\ p \in Seq(Chars) /\ q \in Seq(Chars) /\ D \in Seq(Seq(Chars)) /\ x \in Seq(Seq(Chars))
      /\ \A t \in Seq(Chars) :
            Contents[p \o t] = [bodies |-> D \o Contents[t].bodies, good |-> Contents[t].good]
      /\ \A t \in Seq(Chars) :
            Contents[q \o t] = [bodies |-> x \o Contents[t].bodies, good |-> Contents[t].good]
  BY Zenon DEF Parsed
<1>2. p \o q \in Seq(Chars) /\ D \o x \in Seq(Seq(Chars))
  BY <1>1, ConcatProperties
<1>3. ASSUME NEW t \in Seq(Chars)
      PROVE  Contents[(p \o q) \o t] = [bodies |-> (D \o x) \o Contents[t].bodies, good |-> Contents[t].good]
  <2>1. q \o t \in Seq(Chars) /\ (p \o q) \o t = p \o (q \o t)
    BY <1>1, ConcatProperties, ConcatAssociative, SMTT(30)
  <2>2. Contents[t] \in [bodies : Seq(Seq(Chars)), good : BOOLEAN]
    BY ContentsUnfolds, Zenon
  <2>3. Contents[t].bodies \in Seq(Seq(Chars))
    BY <2>2
  <2>4. (D \o x) \o Contents[t].bodies = D \o (x \o Contents[t].bodies)
    <3> DEFINE e == Contents[t].bodies
    <3>1. e \in Seq(Seq(Chars)) /\ D \in Seq(Seq(Chars)) /\ x \in Seq(Seq(Chars))
      BY <1>1, <2>3, Zenon
    <3> HIDE DEF e
    <3>2. (D \o x) \o e = D \o (x \o e)
      BY <3>1, ConcatAssociative, SMTT(30)
    <3> QED BY <3>2 DEF e
  <2>5. Contents[q \o t] = [bodies |-> x \o Contents[t].bodies, good |-> Contents[t].good]
    BY <1>1, Zenon
  <2>6. Contents[q \o t].bodies = x \o Contents[t].bodies /\ Contents[q \o t].good = Contents[t].good
    BY <2>5
  <2>7. Contents[p \o (q \o t)] = [bodies |-> D \o Contents[q \o t].bodies, good |-> Contents[q \o t].good]
    BY <1>1, <2>1, Zenon
  <2> QED BY <2>1, <2>4, <2>6, <2>7, Zenon
<1> QED BY <1>2, <1>3, Zenon DEF Parsed

\* What a stream contains that ends with something that is not whole.
LEMMA ParsedThen ==
    ASSUME NEW p, NEW D, Parsed(p, D), NEW t \in Seq(Chars), NEW g \in BOOLEAN,
           Contents[t] = [bodies |-> <<>>, good |-> g]
    PROVE  Contents[p \o t] = [bodies |-> D, good |-> g]
<1>1. D \in Seq(Seq(Chars))
      /\ Contents[p \o t] = [bodies |-> D \o Contents[t].bodies, good |-> Contents[t].good]
  BY Zenon DEF Parsed
<1>2. Contents[t].bodies = <<>> /\ Contents[t].good = g
  <2>1. [bodies |-> <<>>, good |-> g].bodies = <<>> /\ [bodies |-> <<>>, good |-> g].good = g
    BY Zenon
  <2> QED BY <2>1, Zenon
<1>3. D \o <<>> = D
  BY <1>1, ConcatEmptySeq
<1> QED BY <1>1, <1>2, <1>3, Zenon

\* A length of zero and its colon add no body.
LEMMA ParsedZero ==
    ASSUME NEW d \in Seq(Chars), AllDigits(d), ":" \in Chars, Admitted(d), Value[d] = 0
    PROVE  Parsed(d \o <<":">>, <<>>)
<1>1. <<":">> \in Seq(Chars)
  OBVIOUS
<1>2. d \o <<":">> \in Seq(Chars) /\ <<>> \in Seq(Seq(Chars))
  BY <1>1, ConcatProperties
<1>3. ASSUME NEW t \in Seq(Chars)
      PROVE  Contents[(d \o <<":">>) \o t] = [bodies |-> <<>> \o Contents[t].bodies, good |-> Contents[t].good]
  <2>1. (d \o <<":">>) \o t = d \o (<<":">> \o t)
    BY <1>1, ConcatAssociative
  <2>2. Split(d \o (<<":">> \o t), d, ":", t)
    BY Separators, Zenon DEF Split
  <2>3. Contents[d \o (<<":">> \o t)] = Contents[t]
    BY <2>2, ZeroLength
  <2>4. Contents[<<>> \o t] = [bodies |-> <<>> \o Contents[t].bodies, good |-> Contents[t].good]
    BY ParsedNothing, Zenon DEF Parsed
  <2>5. <<>> \o t = t
    BY ConcatEmptySeq
  <2> QED BY <2>1, <2>3, <2>4, <2>5, Zenon
<1> QED BY <1>2, <1>3, Zenon DEF Parsed

\* Concatenation is associative: an equation the provers are shown only when needed.
Associates(s, t, u) == (s \o t) \o u = s \o (t \o u)

\* Streams associate.
LEMMA Association == \A s, t, u \in Seq(Chars) : Associates(s, t, u)
BY ConcatAssociative DEF Associates

\* A body, its separator and what follows.
Laid(r, w, c, t) ==
    /\ r \in Seq(Chars) /\ Len(r) = Len(w) + 1 + Len(t)
    /\ r[Len(w) + 1] = c
    /\ Upto(r, Len(w)) = w /\ After(r, Len(w) + 1) = t

\* That is how a body, a separator and a rest are laid out.
LEMMA BodyThen ==
    \A w \in Seq(Chars), c \in Chars, t \in Seq(Chars) : Laid((w \o <<c>>) \o t, w, c, t)
<1> SUFFICES ASSUME NEW w \in Seq(Chars), NEW c \in Chars, NEW t \in Seq(Chars)
             PROVE  Laid((w \o <<c>>) \o t, w, c, t)
  OBVIOUS
<1> DEFINE r == (w \o <<c>>) \o t
<1>1. <<c>> \in Seq(Chars) /\ Len(<<c>>) = 1 /\ <<c>>[1] = c
  OBVIOUS
<1>2. w \o <<c>> \in Seq(Chars)
  BY <1>1, ConcatProperties
<1>3. /\ r \in Seq(Chars) /\ Len(r) = Len(w \o <<c>>) + Len(t)
      /\ \A k \in 1 .. Len(w \o <<c>>) + Len(t) :
           r[k] = IF k <= Len(w \o <<c>>) THEN (w \o <<c>>)[k] ELSE t[k - Len(w \o <<c>>)]
  BY <1>2, ConcatProperties
<1>4. /\ Len(w \o <<c>>) = Len(w) + 1
      /\ \A k \in 1 .. Len(w) + 1 : (w \o <<c>>)[k] = IF k <= Len(w) THEN w[k] ELSE <<c>>[k - Len(w)]
  BY <1>1, ConcatProperties
<1>5. Len(w) \in Nat /\ Len(t) \in Nat
  OBVIOUS
<1> HIDE DEF r
<1>6. Len(r) = Len(w) + 1 + Len(t) /\ \A k \in 1 .. Len(w) : r[k] = w[k]
  BY <1>3, <1>4, <1>5
<1>7. r[Len(w) + 1] = c
  <2>1. (w \o <<c>>)[Len(w) + 1] = c
    BY <1>4, <1>5
  <2>2. Len(w) + 1 \in 1 .. Len(w \o <<c>>) + Len(t) /\ Len(w) + 1 <= Len(w \o <<c>>)
    BY <1>4, <1>5
  <2> QED BY <1>3, <2>1, <2>2
<1>8. \A k \in 1 .. Len(t) : r[Len(w) + 1 + k] = t[k]
  <2>1. ASSUME NEW k \in 1 .. Len(t) PROVE r[Len(w) + 1 + k] = t[k]
    <3>1. /\ Len(w) + 1 + k \in 1 .. Len(w \o <<c>>) + Len(t) /\ ~(Len(w) + 1 + k <= Len(w \o <<c>>))
          /\ Len(w) + 1 + k - Len(w \o <<c>>) = k
      BY <1>4, <1>5
    <3> QED BY <1>3, <3>1
  <2> QED BY <2>1
<1>9. Upto(r, Len(w)) = w /\ After(r, Len(w) + 1) = t
  <2>1. Len(w) \in 0 .. Len(r) /\ Len(w) + 1 \in 0 .. Len(r)
    BY <1>5, <1>6
  <2> DEFINE u == Upto(r, Len(w))
             a == After(r, Len(w) + 1)
  <2>2. u \in Seq(Chars) /\ Len(u) = Len(w) /\ \A k \in 1 .. Len(w) : u[k] = r[k]
    BY <1>3, <2>1, UptoProperties
  <2>3. a \in Seq(Chars) /\ Len(a) = Len(r) - (Len(w) + 1)
        /\ \A k \in 1 .. Len(r) - (Len(w) + 1) : a[k] = r[Len(w) + 1 + k]
    BY <1>3, <2>1, UptoProperties
  <2> HIDE DEF u, a
  <2>4. u = w
    <3>1. \A k \in 1 .. Len(u) : u[k] = w[k]
      BY <1>6, <2>2
    <3> QED BY <2>2, <3>1, SeqEqual
  <2>5. a = t
    <3>1. Len(r) - (Len(w) + 1) = Len(t)
      BY <1>5, <1>6
    <3>2. Len(a) = Len(t) /\ \A k \in 1 .. Len(a) : a[k] = t[k]
      BY <1>8, <2>3, <3>1
    <3> QED BY <2>3, <3>2, SeqEqual
  <2> QED BY <2>4, <2>5 DEF u, a
<1> QED BY <1>3, <1>6, <1>7, <1>9, Zenon DEF r, Laid

\* The number a numeral denotes is the length of a body.
Measures(d, w) == w # <<>> /\ Len(w) = Value[d]

\* The two separators, as streams.
Colon == <<":">>
Sign == <<",">>
HaveSeparators == ":" \in Chars /\ "," \in Chars

\* The separators are streams when the alphabet has them.
LEMMA SeparatorType == HaveSeparators => Colon \in Seq(Chars) /\ Sign \in Seq(Chars)
<1>1. \A S : \A c \in S : <<c>> \in Seq(S)
  OBVIOUS
<1> QED BY <1>1, Zenon DEF HaveSeparators, Colon, Sign

\* A length, a colon, a body of that length and a comma are one whole netstring.
LEMMA ParsedBody ==
    ASSUME NEW d \in Seq(Chars), AllDigits(d), HaveSeparators, Admitted(d),
           NEW w \in Seq(Chars), Measures(d, w)
    PROVE  Parsed(d \o (Colon \o (w \o Sign)), <<w>>)
<1>1. Colon \in Seq(Chars) /\ Sign \in Seq(Chars) /\ <<w>> \in Seq(Seq(Chars))
  <2>1. <<w>> \in Seq(Seq(Chars))
    OBVIOUS
  <2> QED BY <2>1, SeparatorType, Zenon
<1>2. w \o Sign \in Seq(Chars)
  BY <1>1, ConcatProperties
<1>3. Colon \o (w \o Sign) \in Seq(Chars)
  BY <1>1, <1>2, ConcatProperties
<1>4. d \o (Colon \o (w \o Sign)) \in Seq(Chars)
  BY <1>3, ConcatProperties
<1>5. ASSUME NEW t \in Seq(Chars)
      PROVE  Contents[(d \o (Colon \o (w \o Sign))) \o t]
               = [bodies |-> <<w>> \o Contents[t].bodies, good |-> Contents[t].good]
  <2> DEFINE r == (w \o Sign) \o t
  <2>1. (d \o (Colon \o (w \o Sign))) \o t = d \o ((Colon \o (w \o Sign)) \o t)
    <3>1. Associates(d, Colon \o (w \o Sign), t)
      BY <1>3, Association, Zenon
    <3> QED BY <3>1, Zenon DEF Associates
  <2>2. (Colon \o (w \o Sign)) \o t = Colon \o r
    <3> DEFINE z == w \o Sign
    <3>1. z \in Seq(Chars) /\ Colon \in Seq(Chars)
      BY <1>1, <1>2, Zenon
    <3> HIDE DEF z
    <3>2. Associates(Colon, z, t)
      BY <3>1, Association, Zenon
    <3> QED BY <3>2, Zenon DEF z, Associates
  <2>3. /\ r \in Seq(Chars) /\ Len(r) = Len(w) + 1 + Len(t) /\ r[Len(w) + 1] = ","
        /\ Upto(r, Len(w)) = w /\ After(r, Len(w) + 1) = t
    <3>1. Laid(r, w, ",", t)
      BY BodyThen, Zenon DEF HaveSeparators, Sign
    <3> HIDE DEF r
    <3> QED BY <3>1, Zenon DEF Laid
  <2> HIDE DEF r
  <2>3a. r \in Seq(Chars) /\ Len(r) = Len(w) + 1 + Len(t)
    BY <2>3, Zenon
  <2>4. Len(w) < Len(r) /\ Len(w) # 0
    <3>1. w # <<>>
      BY Zenon DEF Measures
    <3> QED BY <2>3a, <3>1, EmptySeq
  <2>5. Ends(d, r) /\ Value[d] # 0
    BY <2>3, <2>4, Zenon DEF Ends, Measures
  <2>6. Split(d \o (Colon \o r), d, ":", r)
    BY <2>3, Separators, Zenon DEF Split, HaveSeparators, Colon
  <2>7. ReadsBody(d \o (Colon \o r), d, r)
    BY <2>5, <2>6, WholeBodyOf, Zenon
  <2> QED BY <2>1, <2>2, <2>3, <2>7, Zenon DEF Measures, ReadsBody
<1> QED BY <1>1, <1>4, <1>5, Zenon DEF Parsed

\* While a body is looked for nothing of the chunk has been stepped over, so
\* start[remaining] is the character after the body.
AtStart == body_length # 0 /\ pc = "scan" => i = 0

\* The inductive invariant.
IInv == TypeOK /\ AtStart /\ BufferBounded

\* A sequence minus its first n elements.
LEMMA AfterType ==
    ASSUME NEW S, NEW s \in Seq(S), NEW n \in Nat, n <= Len(s)
    PROVE  /\ After(s, n) \in Seq(S)
           /\ Upto(s, n) \in Seq(S)
           /\ Len(After(s, n)) = Len(s) - n
BY DEF After, Upto

\* The inductive invariant holds initially.
LEMMA InitIInv == Init => IInv
BY NetstringAssumption DEF Init, IInv, TypeOK, AtStart, BufferBounded, Failed

\* A chunk of the alphabet is a sequence over it.
LEMMA ChunkType ==
    ASSUME NEW c \in Chunks
    PROVE  c \in Seq(Chars)
<1>1. PICK n \in 1 .. MaxChunk : c \in [1 .. n -> Chars]
    BY DEF Chunks
<1>2. n \in Nat
    BY NetstringAssumption
<1> QED BY <1>1, <1>2

\* Every branch of the loop, and the start of a call, keeps it.
LEMMA NextIInv == IInv /\ [Next]_vars => IInv'
<1> SUFFICES ASSUME IInv, [Next]_vars PROVE IInv'
    OBVIOUS
<1> USE NetstringAssumption
<1>1. ASSUME NEW c \in Chunks, Receive(c) PROVE IInv'
    <2>1. c \in Seq(Chars)
        BY ChunkType
    <2>2. TypeOK'
        BY <1>1, <2>1 DEF Receive, IInv, TypeOK
    <2> QED BY <1>1, <2>2 DEF Receive, IInv, AtStart, BufferBounded, Failed
<1>2. CASE NextDigit
    <2>1. i < Len(chunk) /\ i' = i + 1 /\ body_length = 0
        BY <1>2 DEF NextDigit, InLength
    <2>2. TypeOK'
        BY <1>2, <2>1 DEF NextDigit, IInv, TypeOK
    <2> QED BY <1>2, <2>1, <2>2 DEF NextDigit, IInv, AtStart, BufferBounded, Failed
<1>3. CASE EndOfLength
    <2>1. i \in 0 .. Len(chunk) /\ i < Len(chunk) /\ chunk \in Seq(Chars) /\ body \in Seq(Chars)
          /\ Len(chunk) \in Nat
        BY <1>3 DEF EndOfLength, InLength, IInv, TypeOK
    <2>2. LengthDigits \in Seq(Chars)
        BY <2>1, AfterType DEF LengthDigits
    <2>3. i + 1 \in Nat /\ i + 1 <= Len(chunk)
        BY <2>1
    <2>4. After(chunk, i + 1) \in Seq(Chars)
        BY <2>1, <2>3, AfterType
    <2>5. body_length = 0 /\ pc = "scan"
        BY <1>3 DEF EndOfLength, InLength
    <2>6. UNCHANGED <<requests, delivered, consumed>>
        BY <1>3 DEF EndOfLength
    <2>7. CASE pc' = "BAD_LENGTH" /\ body' = LengthDigits /\ UNCHANGED <<body_length, chunk, i>>
        BY <2>1, <2>2, <2>5, <2>6, <2>7 DEF IInv, TypeOK, AtStart, BufferBounded, Failed
    <2>8. CASE /\ Value[LengthDigits] \in 0 .. MaxULong /\ body_length' = Value[LengthDigits]
               /\ pc' = "TOO_LONG" /\ body' = LengthDigits /\ UNCHANGED <<chunk, i>>
        BY <2>1, <2>2, <2>6, <2>8 DEF IInv, TypeOK, AtStart, BufferBounded, Failed
    <2>9. CASE /\ Value[LengthDigits] \in 0 .. MaxULong /\ body_length' = Value[LengthDigits]
               /\ ~TooLong(body_length') /\ body' = <<>> /\ chunk' = After(chunk, i + 1)
               /\ i' = 0 /\ UNCHANGED pc
        <3>1. body_length' <= MaxSize
            BY <2>9 DEF TooLong
        <3>2. TypeOK'
            BY <2>4, <2>6, <2>9 DEF IInv, TypeOK
        <3> QED BY <2>9, <3>1, <3>2 DEF IInv, AtStart, BufferBounded, TypeOK
    <2> QED BY <1>3, <2>7, <2>8, <2>9 DEF EndOfLength
<1>4. CASE NoLength
    BY <1>4 DEF NoLength, InLength, IInv, TypeOK, AtStart, BufferBounded, Failed
<1>5. CASE EndOfBody
    <2>0. /\ InBody /\ Remaining < Len(chunk)
          /\ requests' = Append(requests, WholeBody)
          /\ chunk' = After(chunk, Remaining + 1) /\ i' = 0
          /\ body' = <<>> /\ body_length' = 0 /\ UNCHANGED <<pc, delivered, consumed>>
        BY <1>5, Zenon DEF EndOfBody, LengthAfterBody
    <2>1. /\ body \in Seq(Chars) /\ chunk \in Seq(Chars) /\ body_length \in Nat
          /\ body_length # 0 /\ pc = "scan" /\ Len(body) \in Nat /\ Len(chunk) \in Nat
        BY <2>0 DEF InBody, IInv, TypeOK
    <2>2. Len(body) <= body_length
        BY <2>1 DEF IInv, BufferBounded, Failed
    <2>3. Remaining \in Nat /\ Remaining < Len(chunk)
        <3>1. Remaining \in Nat
            BY <2>1, <2>2 DEF Remaining
        <3> QED BY <2>0, <3>1
    <2>4. Remaining + 1 \in Nat /\ Remaining + 1 <= Len(chunk) /\ Remaining <= Len(chunk)
        BY <2>1, <2>3
    <2>5. After(chunk, Remaining + 1) \in Seq(Chars)
        BY <2>1, <2>4, AfterType
    <2>6. WholeBody \in Seq(Chars)
        BY <2>1, <2>3, <2>4, AfterType DEF WholeBody
    <2>7. chunk' \in Seq(Chars) /\ requests' \in Seq(Seq(Chars))
        BY <2>0, <2>5, <2>6 DEF IInv, TypeOK
    <2>8. TypeOK'
        BY <2>0, <2>7 DEF IInv, TypeOK
    <2> QED BY <2>0, <2>8 DEF IInv, AtStart, BufferBounded
<1>6. CASE NoSeparator
    BY <1>6 DEF NoSeparator, IInv, TypeOK, AtStart, BufferBounded, Failed
<1>7. CASE Return
    <2>1. /\ body \in Seq(Chars) /\ chunk \in Seq(Chars) /\ body_length \in Nat
          /\ Len(body) \in Nat /\ Len(chunk) \in Nat /\ pc = "scan" /\ i \in Nat
        BY <1>7 DEF Return, IInv, TypeOK
    <2>2. TypeOK'
        BY <1>7, <2>1 DEF Return, IInv, TypeOK
    <2>3. ASSUME body_length # 0 PROVE Len(body \o chunk) <= body_length /\ body_length <= MaxSize
        <3>1. i = 0 /\ Len(body) <= body_length /\ body_length <= MaxSize
            BY <2>1, <2>3 DEF IInv, AtStart, BufferBounded, Failed
        <3>2. Len(chunk) = 0 \/ Remaining >= Len(chunk)
            BY <1>7, <2>1, <3>1 DEF Return, NeedsMore
        <3>3. Len(body \o chunk) = Len(body) + Len(chunk)
            BY <2>1
        <3> QED BY <2>1, <3>1, <3>2, <3>3 DEF Remaining
    <2> QED BY <1>7, <2>1, <2>2, <2>3 DEF Return, IInv, AtStart, BufferBounded
<1>8. CASE UNCHANGED vars
    BY <1>8 DEF vars, IInv, TypeOK, AtStart, BufferBounded, Failed
<1> QED BY <1>1, <1>2, <1>3, <1>4, <1>5, <1>6, <1>7, <1>8 DEF Next, Loop

\* The inductive invariant is an invariant of the parser.
THEOREM Invariance == Spec => []IInv
BY InitIInv, NextIInv, PTL DEF Spec

\* Type correctness of the entity and of the locals of from_stream.
THEOREM TypeCorrect == Spec => []TypeOK
<1>1. IInv => TypeOK
    BY DEF IInv
<1> QED BY <1>1, Invariance, PTL

\* body_length - body.size() never wraps and at most max_size of a body is kept,
\* for every alphabet, limit and chunking.
THEOREM BufferIsBounded == Spec => []BufferBounded
<1>1. IInv => BufferBounded
    BY DEF IInv
<1> QED BY <1>1, Invariance, PTL


-----------------------------------------------------------------------------
\* Where a sequence is cut at its element n + 1.
LEMMA CutAt ==
    \A s \in Seq(Chars), n \in Nat : n < Len(s) =>
        /\ s = Upto(s, n) \o (<<s[n + 1]>> \o After(s, n + 1)) /\ s[n + 1] \in Chars
        /\ Upto(s, n) \in Seq(Chars) /\ Len(Upto(s, n)) = n /\ After(s, n + 1) \in Seq(Chars)
        /\ <<s[n + 1]>> \in Seq(Chars)
<1> SUFFICES ASSUME NEW s \in Seq(Chars), NEW n \in Nat, n < Len(s)
             PROVE /\ s = Upto(s, n) \o (<<s[n + 1]>> \o After(s, n + 1)) /\ s[n + 1] \in Chars
                   /\ Upto(s, n) \in Seq(Chars) /\ Len(Upto(s, n)) = n
                   /\ After(s, n + 1) \in Seq(Chars) /\ <<s[n + 1]>> \in Seq(Chars)
  OBVIOUS
<1>1. Len(s) \in Nat /\ n \in 0 .. Len(s) /\ n + 1 \in 1 .. Len(s) /\ n + 1 \in 0 .. Len(s)
  OBVIOUS
<1> DEFINE u == Upto(s, n)
           a == After(s, n + 1)
           c == s[n + 1]
<1>2. u \in Seq(Chars) /\ Len(u) = n /\ \A k \in 1 .. n : u[k] = s[k]
  BY <1>1, UptoProperties
<1>3. a \in Seq(Chars) /\ Len(a) = Len(s) - (n + 1) /\ \A k \in 1 .. Len(s) - (n + 1) : a[k] = s[n + 1 + k]
  BY <1>1, UptoProperties
<1>4. c \in Chars
  BY <1>1
<1> HIDE DEF u, a, c
<1>5. <<c>> \in Seq(Chars) /\ Len(<<c>>) = 1 /\ <<c>>[1] = c
  BY <1>4
<1> DEFINE q == <<c>> \o a
<1>6. q \in Seq(Chars) /\ Len(q) = 1 + Len(a)
      /\ \A k \in 1 .. 1 + Len(a) : q[k] = IF k <= 1 THEN <<c>>[k] ELSE a[k - 1]
  BY <1>3, <1>5, ConcatProperties
<1> HIDE DEF q
<1>7. u \o q \in Seq(Chars) /\ Len(u \o q) = n + Len(q)
      /\ \A k \in 1 .. n + Len(q) : (u \o q)[k] = IF k <= n THEN u[k] ELSE q[k - n]
  BY <1>2, <1>6, ConcatProperties
<1>8. Len(u \o q) = Len(s)
  BY <1>1, <1>3, <1>6, <1>7
<1>9. ASSUME NEW k \in 1 .. Len(s) PROVE s[k] = (u \o q)[k]
  <2>1. n + Len(q) = Len(s) /\ Len(a) = Len(s) - (n + 1) /\ k \in 1 .. n + Len(q)
    BY <1>1, <1>3, <1>6
  <2>2. CASE k <= n
    BY <1>2, <1>7, <2>1, <2>2
  <2>3. CASE k = n + 1
    <3>1. k - n = 1 /\ 1 \in 1 .. 1 + Len(a) /\ ~(k <= n)
      BY <2>1, <2>3
    <3>2. q[k - n] = c
      BY <1>5, <1>6, <3>1
    <3> QED BY <1>7, <2>1, <2>3, <3>1, <3>2 DEF c
  <2>4. CASE k > n + 1
    <3>1. k - n \in 1 .. 1 + Len(a) /\ ~(k - n <= 1) /\ ~(k <= n)
          /\ k - n - 1 \in 1 .. Len(s) - (n + 1) /\ n + 1 + (k - n - 1) = k
      BY <1>1, <2>1, <2>4
    <3>2. q[k - n] = a[k - n - 1]
      BY <1>6, <3>1
    <3>3. a[k - n - 1] = s[k]
      BY <1>3, <3>1
    <3> QED BY <1>7, <2>1, <3>1, <3>2, <3>3
  <2>5. k <= n \/ k = n + 1 \/ k > n + 1
    BY <1>1
  <2> QED BY <2>2, <2>3, <2>4, <2>5, Zenon
<1>10. s = u \o q
  BY <1>7, <1>8, <1>9, SeqEqual
<1> QED BY <1>2, <1>3, <1>4, <1>5, <1>10, Zenon DEF u, a, c, q

\* The stream so far is whole netstrings, p, whose bodies are delivered or about to
\* be, and what the entity and the chunk still hold: the digits of a length, or a
\* length d that was read and the beginning of its body.
Standing(p, d) ==
    /\ Parsed(p, delivered \o requests) /\ d \in Seq(Chars)
    /\ \/ /\ body_length = 0 /\ AllDigits(LengthDigits)
          /\ consumed = p \o (body \o chunk)
       \/ /\ body_length # 0 /\ AllDigits(d) /\ Admitted(d) /\ Value[d] = body_length
          /\ ":" \in Chars /\ consumed = p \o (d \o (Colon \o (body \o chunk)))

\* The stream is malformed after the bodies parsed so far.
Refused == Contents[consumed] = [bodies |-> delivered \o requests, good |-> FALSE]

\* Everything consumed is accounted for: it was parsed, is still held by the
\* entity and the chunk, or is why from_stream threw.
Accounted ==
    /\ pc = "rest" => chunk = <<>> /\ i = 0 /\ requests = <<>>
    /\ ~Failed => \E p, d : Standing(p, d)
    /\ Failed => Refused

\* The beginning of length zero.
LEMMA UptoNone == \A s : Upto(s, 0) = <<>>
BY SubSeqEmpty DEF Upto

\* Nothing is a sequence of digits.
LEMMA NoDigits == AllDigits(<<>>)
BY DEF AllDigits

\* A new entity accounts for the empty stream.
LEMMA InitAccounted == Init => Accounted
<1> SUFFICES ASSUME Init PROVE Accounted
  OBVIOUS
<1>1. /\ pc = "rest" /\ chunk = <<>> /\ i = 0 /\ requests = <<>> /\ body = <<>> /\ body_length = 0
      /\ delivered = <<>> /\ consumed = <<>>
  BY DEF Init
<1>2. <<>> \o <<>> = <<>> /\ <<>> \in Seq(Chars)
  OBVIOUS
<1>3. LengthDigits = <<>>
  BY <1>1, <1>2, UptoNone, Zenon DEF LengthDigits
<1>4. Standing(<<>>, <<>>)
  BY <1>1, <1>2, <1>3, NoDigits, ParsedNothing, Zenon DEF Standing
<1>5. ~Failed
  BY <1>1 DEF Failed
<1> QED BY <1>1, <1>4, <1>5, Zenon DEF Accounted

\* The chunk of a new call is accounted for by being what is still to scan.
LEMMA AccountedByReceive ==
    ASSUME IInv, Accounted, NEW c \in Chunks, Receive(c)
    PROVE  Accounted'
<1>1. /\ pc = "rest" /\ pc' = "scan" /\ chunk' = c /\ i' = 0 /\ requests' = <<>>
      /\ consumed' = consumed \o c /\ body' = body /\ body_length' = body_length
      /\ delivered' = delivered
  BY DEF Receive
<1>2. c \in Seq(Chars) /\ body \in Seq(Chars)
  BY ChunkType DEF IInv, TypeOK
<1>3. ~Failed /\ ~Failed' /\ pc' # "rest"
  BY <1>1 DEF Failed
<1>4. chunk = <<>> /\ i = 0 /\ requests = <<>>
  BY <1>1, Zenon DEF Accounted
<1>5. PICK p, d : Standing(p, d)
  BY <1>3, Zenon DEF Accounted
<1>6. p \in Seq(Chars) /\ d \in Seq(Chars)
  BY <1>5, Zenon DEF Standing, Parsed
<1>7. body \o <<>> = body /\ body \o c \in Seq(Chars)
  BY <1>2, ConcatEmptySeq, ConcatProperties
<1>8. LengthDigits = body /\ LengthDigits' = body
  BY <1>1, <1>4, <1>7, UptoNone, Zenon DEF LengthDigits
<1>9. Parsed(p, delivered' \o requests')
  BY <1>1, <1>4, <1>5, Zenon DEF Standing
<1>10. Standing(p, d)'
  <2>1. CASE body_length = 0
    <3>1. AllDigits(LengthDigits) /\ consumed = p \o body
      BY <1>4, <1>5, <1>7, <2>1, Zenon DEF Standing
    <3>2. Associates(p, body, c)
      BY <1>2, <1>6, Association, Zenon
    <3> QED BY <1>1, <1>6, <1>8, <1>9, <2>1, <3>1, <3>2, Zenon DEF Standing, Associates
  <2>2. CASE body_length # 0
    <3>1. /\ AllDigits(d) /\ Admitted(d) /\ Value[d] = body_length /\ ":" \in Chars
          /\ consumed = p \o (d \o (Colon \o body))
      BY <1>4, <1>5, <1>7, <2>2, Zenon DEF Standing
    <3>2. Colon \in Seq(Chars)
      BY <3>1 DEF Colon
    <3>3. Colon \o body \in Seq(Chars)
      BY <1>2, <3>2, ConcatProperties
    <3>4. d \o (Colon \o body) \in Seq(Chars)
      BY <1>6, <3>3, ConcatProperties
    <3>5. Associates(p, d \o (Colon \o body), c)
      BY <1>2, <1>6, <3>4, Association, Zenon
    <3>6. Associates(d, Colon \o body, c)
      BY <1>2, <1>6, <3>3, Association, Zenon
    <3>7. Associates(Colon, body, c)
      BY <1>2, <3>2, Association, Zenon
    <3>8. consumed' = p \o (d \o (Colon \o (body' \o chunk')))
      BY <1>1, <3>1, <3>5, <3>6, <3>7, Zenon DEF Associates
    <3> QED BY <1>1, <1>6, <1>9, <2>2, <3>1, <3>8, Zenon DEF Standing
  <2> QED BY <2>1, <2>2
<1> QED BY <1>3, <1>10, Zenon DEF Accounted

\* One more digit of a length.
LEMMA AccountedByDigit ==
    ASSUME IInv, Accounted, NextDigit
    PROVE  Accounted'
<1>1. /\ pc = "scan" /\ i < Len(chunk) /\ body_length = 0 /\ IsDigit(chunk[i + 1]) /\ i' = i + 1
      /\ pc' = pc /\ body' = body /\ body_length' = body_length /\ chunk' = chunk
      /\ requests' = requests /\ delivered' = delivered /\ consumed' = consumed
  BY DEF NextDigit, InLength
<1>2. body \in Seq(Chars) /\ chunk \in Seq(Chars) /\ i \in 0 .. Len(chunk)
  BY DEF IInv, TypeOK
<1>3. ~Failed /\ ~Failed' /\ pc' # "rest"
  BY <1>1 DEF Failed
<1>4. PICK p, d : Standing(p, d)
  BY <1>3, Zenon DEF Accounted
<1>5. AllDigits(LengthDigits) /\ consumed = p \o (body \o chunk)
  BY <1>1, <1>4, Zenon DEF Standing
<1>6. AllDigits(LengthDigits')
  <2> DEFINE u == Upto(chunk, i)
             z == Upto(chunk, i + 1)
  <2>1. i + 1 \in 0 .. Len(chunk) /\ Len(chunk) \in Nat /\ i \in Nat /\ Len(body) \in Nat
    BY <1>1, <1>2
  <2>2. u \in Seq(Chars) /\ Len(u) = i /\ \A k \in 1 .. i : u[k] = chunk[k]
    BY <1>2, UptoProperties
  <2>3. z \in Seq(Chars) /\ Len(z) = i + 1 /\ \A k \in 1 .. i + 1 : z[k] = chunk[k]
    BY <1>2, <2>1, UptoProperties
  <2>4. LengthDigits = body \o u /\ LengthDigits' = body \o z
    BY <1>1, Zenon DEF LengthDigits
  <2> HIDE DEF u, z
  <2>5. Len(body \o u) = Len(body) + i
        /\ \A k \in 1 .. Len(body) + i : (body \o u)[k] = IF k <= Len(body) THEN body[k] ELSE u[k - Len(body)]
    BY <1>2, <2>2, ConcatProperties
  <2>6. Len(body \o z) = Len(body) + (i + 1)
        /\ \A k \in 1 .. Len(body) + (i + 1) : (body \o z)[k] = IF k <= Len(body) THEN body[k] ELSE z[k - Len(body)]
    <3>1. Len(body \o z) = Len(body) + Len(z)
          /\ \A k \in 1 .. Len(body) + Len(z) : (body \o z)[k] = IF k <= Len(body) THEN body[k] ELSE z[k - Len(body)]
      BY <1>2, <2>3, ConcatProperties
    <3>2. Len(z) = i + 1
      BY <2>3
    <3> QED BY <3>1, <3>2, Zenon
  <2>7. \A k \in 1 .. Len(body) + i : IsDigit((body \o u)[k])
    BY <1>5, <2>4, <2>5 DEF AllDigits
  <2>8. ASSUME NEW k \in 1 .. Len(body) + (i + 1) PROVE IsDigit((body \o z)[k])
    <3>1. CASE k <= Len(body)
      <4>1. k \in 1 .. Len(body) + i
        BY <2>1, <3>1
      <4> QED BY <2>5, <2>6, <2>7, <3>1, <4>1
    <3>2. CASE k > Len(body) /\ k <= Len(body) + i
      <4>1. k \in 1 .. Len(body) + i /\ ~(k <= Len(body)) /\ k - Len(body) \in 1 .. i /\ k - Len(body) \in 1 .. i + 1
        BY <2>1, <3>2
      <4>2. (body \o z)[k] = (body \o u)[k]
        BY <2>2, <2>3, <2>5, <2>6, <4>1
      <4> QED BY <2>7, <4>1, <4>2
    <3>3. CASE k = Len(body) + (i + 1)
      <4>1. ~(k <= Len(body)) /\ k - Len(body) = i + 1 /\ i + 1 \in 1 .. i + 1
        BY <2>1, <3>3
      <4>2. (body \o z)[k] = chunk[i + 1]
        BY <2>3, <2>6, <4>1
      <4> QED BY <1>1, <4>2
    <3>4. k <= Len(body) \/ (k > Len(body) /\ k <= Len(body) + i) \/ k = Len(body) + (i + 1)
      BY <2>1
    <3> QED BY <3>1, <3>2, <3>3, <3>4, Zenon
  <2> QED BY <2>4, <2>6, <2>8 DEF AllDigits
<1>7. Standing(p, d)'
  BY <1>1, <1>4, <1>5, <1>6, Zenon DEF Standing
<1> QED BY <1>3, <1>7, Zenon DEF Accounted

\* The stream splits at the character after the digits of a length.
LEMMA LengthSplits ==
    ASSUME IInv, InLength, NEW p, NEW d, Standing(p, d), ~IsDigit(chunk[i + 1])
    PROVE  /\ Parsed(p, delivered \o requests) /\ consumed = p \o (body \o chunk)
           /\ Split(body \o chunk, LengthDigits, chunk[i + 1], After(chunk, i + 1))
           /\ body \o chunk \in Seq(Chars) /\ i + 1 <= Len(chunk) /\ i \in Nat
<1>1. pc = "scan" /\ i < Len(chunk) /\ body_length = 0
  BY DEF InLength
<1>2. body \in Seq(Chars) /\ chunk \in Seq(Chars) /\ i \in 0 .. Len(chunk) /\ i \in Nat /\ i + 1 <= Len(chunk)
  <2>1. body \in Seq(Chars) /\ chunk \in Seq(Chars) /\ i \in 0 .. Len(chunk)
    BY DEF IInv, TypeOK
  <2> QED BY <1>1, <2>1
<1>3. AllDigits(LengthDigits) /\ consumed = p \o (body \o chunk) /\ Parsed(p, delivered \o requests)
  BY <1>1, Zenon DEF Standing
<1> DEFINE u == Upto(chunk, i)
           c == chunk[i + 1]
           a == After(chunk, i + 1)
<1>4. /\ chunk = u \o (<<c>> \o a) /\ c \in Chars /\ u \in Seq(Chars) /\ a \in Seq(Chars)
      /\ <<c>> \in Seq(Chars)
  BY <1>1, <1>2, CutAt
<1>5. LengthDigits = body \o u
  BY Zenon DEF LengthDigits
<1> HIDE DEF u, c, a
<1>6. <<c>> \o a \in Seq(Chars) /\ body \o u \in Seq(Chars) /\ body \o chunk \in Seq(Chars)
  BY <1>2, <1>4, ConcatProperties
<1>7. body \o (u \o (<<c>> \o a)) = (body \o u) \o (<<c>> \o a)
  <2> DEFINE z == <<c>> \o a
  <2>1. z \in Seq(Chars)
    BY <1>6, Zenon
  <2> HIDE DEF z
  <2>2. Associates(body, u, z)
    BY <1>2, <1>4, <2>1, Association, Zenon
  <2> QED BY <2>2, Zenon DEF z, Associates
<1>8. Split(body \o chunk, LengthDigits, c, a)
  <2>1. ~IsDigit(c)
    BY DEF c
  <2> QED BY <1>3, <1>4, <1>5, <1>6, <1>7, <2>1, Zenon DEF Split
<1> QED BY <1>2, <1>3, <1>6, <1>8, Zenon DEF c, a

\* A throw that leaves what was parsed and what the stream is as they were.
LEMMA Throws ==
    ASSUME NEW p, NEW t \in Seq(Chars), Parsed(p, delivered \o requests), consumed = p \o t,
           Contents[t] = [bodies |-> <<>>, good |-> FALSE],
           UNCHANGED <<requests, delivered, consumed>>, pc' \notin {"rest", "scan"}
    PROVE  Accounted'
<1>1. Contents[p \o t] = [bodies |-> delivered \o requests, good |-> FALSE]
  BY ParsedThen, Zenon
<1>2. requests' = requests /\ delivered' = delivered /\ consumed' = consumed
  OBVIOUS
<1>3. Refused'
  BY <1>1, <1>2, Zenon DEF Refused
<1>4. Failed' /\ pc' # "rest"
  BY DEF Failed
<1> QED BY <1>3, <1>4, Zenon DEF Accounted

\* The colon after a length: it throws, skips a zero, or begins a body.
LEMMA AccountedByLength ==
    ASSUME IInv, Accounted, EndOfLength
    PROVE  Accounted'
<1>1. InLength /\ pc = "scan" /\ body_length = 0 /\ chunk[i + 1] = ":"
  BY DEF EndOfLength, InLength
<1>2. ~Failed
  BY <1>1 DEF Failed
<1>3. PICK p, d : Standing(p, d)
  BY <1>2, Zenon DEF Accounted
<1> PICK L : L = LengthDigits
  OBVIOUS
<1> PICK a : a = After(chunk, i + 1)
  OBVIOUS
<1>4. /\ Parsed(p, delivered \o requests) /\ consumed = p \o (body \o chunk)
      /\ Split(body \o chunk, L, ":", a) /\ body \o chunk \in Seq(Chars)
  BY <1>1, <1>3, LengthSplits, Separators
<1>5. requests' = requests /\ delivered' = delivered /\ consumed' = consumed
  BY DEF EndOfLength
<1>6. /\ L \in Seq(Chars) /\ AllDigits(L) /\ ":" \in Chars /\ a \in Seq(Chars)
      /\ body \o chunk = L \o (<<":">> \o a)
  BY <1>4, Zenon DEF Split
<1>7. CASE ~Admitted(L)
  <2>1. Contents[body \o chunk] = [bodies |-> <<>>, good |-> FALSE]
    BY <1>4, <1>7, BadLength, Zenon DEF Split
  <2>2. pc' \notin {"rest", "scan"}
    <3> DEFINE V == Value[L]
    <3>1. ~(L # <<>> /\ V \in 0 .. MaxULong /\ V <= MaxSize)
      BY <1>7, Zenon DEF Admitted
    <3>2. \/ (L = <<>> \/ V \notin 0 .. MaxULong) /\ pc' = "BAD_LENGTH"
          \/ L # <<>> /\ V \in 0 .. MaxULong /\ body_length' = V /\ TooLong(body_length') /\ pc' = "TOO_LONG"
          \/ L # <<>> /\ V \in 0 .. MaxULong /\ body_length' = V /\ ~TooLong(body_length')
      BY Zenon DEF EndOfLength
    <3> HIDE DEF V
    <3>3. V \in 0 .. MaxULong => (V <= MaxSize <=> ~(V > MaxSize))
      BY NetstringAssumption
    <3>4. pc' = "BAD_LENGTH" \/ pc' = "TOO_LONG"
      BY <3>1, <3>2, <3>3, Zenon DEF TooLong
    <3> QED BY <3>4
  <2> QED BY <1>4, <1>5, <2>1, <2>2, Throws
<1>8. CASE Admitted(L)
  <2>1. /\ body_length' = Value[L] /\ body' = <<>> /\ chunk' = a /\ i' = 0 /\ pc' = pc
    <3> DEFINE V == Value[L]
    <3>1. L # <<>> /\ V \in 0 .. MaxULong /\ V <= MaxSize
      BY <1>8, Zenon DEF Admitted
    <3>2. \/ (L = <<>> \/ V \notin 0 .. MaxULong)
          \/ body_length' = V /\ TooLong(body_length')
          \/ body_length' = V /\ body' = <<>> /\ chunk' = a /\ i' = 0 /\ pc' = pc
      BY Zenon DEF EndOfLength
    <3> HIDE DEF V
    <3>3. ~(V > MaxSize)
      BY <3>1, NetstringAssumption
    <3> QED BY <3>1, <3>2, <3>3, Zenon DEF TooLong, V
  <2>2. ~Failed' /\ pc' # "rest"
    BY <1>1, <2>1 DEF Failed
  <2>3. <<>> \o a = a
    BY <1>6, ConcatEmptySeq
  <2>4. CASE Value[L] = 0
    <3> PICK q : q = L \o <<":">>
      OBVIOUS
    <3>1. Parsed(q, <<>>)
      BY <1>6, <1>8, <2>4, ParsedZero
    <3>2. (delivered \o requests) \o <<>> = delivered \o requests
      <4>1. delivered \o requests \in Seq(Seq(Chars))
        BY <1>4, Zenon DEF Parsed
      <4> QED BY <4>1, ConcatEmptySeq
    <3>3. Parsed(p \o q, delivered \o requests)
      BY <1>4, <3>1, <3>2, ParsedMore, Zenon
    <3>4. p \in Seq(Chars) /\ q \in Seq(Chars) /\ <<":">> \in Seq(Chars)
      <4>1. p \in Seq(Chars) /\ q \in Seq(Chars)
        BY <1>4, <3>1, Zenon DEF Parsed
      <4>2. <<":">> \in Seq(Chars)
        BY <1>6
      <4> QED BY <4>1, <4>2
    <3>5. Associates(L, <<":">>, a)
      BY <1>6, <3>4, Association, Zenon
    <3>6. Associates(p, q, a)
      BY <1>6, <3>4, Association, Zenon
    <3>7. LengthDigits' = <<>>
      <4>1. <<>> \o <<>> = <<>>
        OBVIOUS
      <4> QED BY <2>1, <4>1, UptoNone, Zenon DEF LengthDigits
    <3>8. Standing(p \o q, L)'
      <4>1. consumed' = (p \o q) \o (body' \o chunk')
        BY <1>4, <1>5, <1>6, <2>1, <2>3, <3>5, <3>6, Zenon DEF Associates
      <4> QED BY <1>5, <1>6, <2>1, <2>4, <3>3, <3>7, <4>1, NoDigits, Zenon DEF Standing
    <3> QED BY <2>2, <3>8, Zenon DEF Accounted
  <2>5. CASE Value[L] # 0
    <3>1. Standing(p, L)'
      BY <1>4, <1>5, <1>6, <1>8, <2>1, <2>3, <2>5, Zenon DEF Standing, Colon
    <3> QED BY <2>2, <3>1, Zenon DEF Accounted
  <2> QED BY <2>4, <2>5
<1> QED BY <1>7, <1>8

\* Neither a digit nor a colon: whatever follows, the stream is malformed.
LEMMA AccountedByNoLength ==
    ASSUME IInv, Accounted, NoLength
    PROVE  Accounted'
<1>1. InLength /\ pc = "scan" /\ ~IsDigit(chunk[i + 1]) /\ chunk[i + 1] # ":"
  BY DEF NoLength, InLength
<1>2. ~Failed
  BY <1>1 DEF Failed
<1>3. PICK p, d : Standing(p, d)
  BY <1>2, Zenon DEF Accounted
<1>4. /\ Parsed(p, delivered \o requests) /\ consumed = p \o (body \o chunk)
      /\ Split(body \o chunk, LengthDigits, chunk[i + 1], After(chunk, i + 1))
      /\ body \o chunk \in Seq(Chars)
  BY <1>1, <1>3, LengthSplits
<1>5. Contents[body \o chunk] = [bodies |-> <<>>, good |-> FALSE]
  BY <1>1, <1>4, BadLength
<1>6. UNCHANGED <<requests, delivered, consumed>> /\ pc' \notin {"rest", "scan"}
  BY DEF NoLength
<1> QED BY <1>4, <1>5, <1>6, Throws

\* A body is looked for: what the stream is made of, and where its comma belongs.
LEMMA BodySplits ==
    ASSUME IInv, InBody, NEW p, NEW d, Standing(p, d)
    PROVE  /\ Parsed(p, delivered \o requests) /\ consumed = p \o (d \o (Colon \o (body \o chunk)))
           /\ Split(d \o (Colon \o (body \o chunk)), d, ":", body \o chunk)
           /\ Admitted(d) /\ Value[d] = body_length /\ body_length # 0
           /\ body_length = Len(body) + Remaining /\ Remaining \in Nat
           /\ body \in Seq(Chars) /\ chunk \in Seq(Chars) /\ body \o chunk \in Seq(Chars)
           /\ Colon \in Seq(Chars) /\ d \in Seq(Chars) /\ AllDigits(d) /\ ":" \in Chars
<1>1. pc = "scan" /\ body_length # 0
  BY DEF InBody
<1>2. body \in Seq(Chars) /\ chunk \in Seq(Chars) /\ body_length \in Nat
  BY DEF IInv, TypeOK
<1>3. Len(body) <= body_length /\ Len(body) \in Nat
  <2>1. ~Failed
    BY <1>1 DEF Failed
  <2> QED BY <1>1, <1>2, <2>1 DEF IInv, BufferBounded
<1>4. body_length = Len(body) + Remaining /\ Remaining \in Nat
  BY <1>2, <1>3 DEF Remaining
<1>5. /\ Parsed(p, delivered \o requests) /\ consumed = p \o (d \o (Colon \o (body \o chunk)))
      /\ Admitted(d) /\ Value[d] = body_length /\ d \in Seq(Chars) /\ AllDigits(d) /\ ":" \in Chars
  BY <1>1, Zenon DEF Standing
<1>6. body \o chunk \in Seq(Chars)
  BY <1>2, ConcatProperties
<1>7. Split(d \o (Colon \o (body \o chunk)), d, ":", body \o chunk)
  BY <1>5, <1>6, Separators, Zenon DEF Split, Colon
<1>8. Colon \in Seq(Chars)
  <2>1. ":" \in Chars
    BY <1>5, Zenon
  <2> QED BY <2>1 DEF Colon
<1> QED BY <1>1, <1>2, <1>4, <1>5, <1>6, <1>7, <1>8, Zenon

\* Where an item of the second part of a sequence is found in the whole.
Lies(b, c, n) == Len(b) + n < Len(b \o c) /\ (b \o c)[Len(b) + n + 1] = c[n + 1]

\* It is found there.
LEMMA Beyond ==
    \A b, c \in Seq(Chars), n \in Nat : n < Len(c) => Lies(b, c, n)
<1> TAKE b, c \in Seq(Chars), n \in Nat
<1>1. n < Len(c) => Len(b) + n < Len(b \o c) /\ (b \o c)[Len(b) + n + 1] = c[n + 1]
  <2> HAVE n < Len(c)
  <2>1. Len(b) \in Nat /\ Len(c) \in Nat
    OBVIOUS
  <2>2. Len(b \o c) = Len(b) + Len(c)
        /\ \A k \in 1 .. Len(b) + Len(c) : (b \o c)[k] = IF k <= Len(b) THEN b[k] ELSE c[k - Len(b)]
    BY ConcatProperties
  <2>3. /\ Len(b) + n + 1 \in 1 .. Len(b) + Len(c) /\ ~(Len(b) + n + 1 <= Len(b))
        /\ Len(b) + n + 1 - Len(b) = n + 1 /\ Len(b) + n < Len(b) + Len(c)
    BY <2>1
  <2> QED BY <2>2, <2>3
<1> QED BY <1>1, Zenon DEF Lies

\* No comma after a body: whatever follows, the stream is malformed.
LEMMA AccountedByNoSeparator ==
    ASSUME IInv, Accounted, NoSeparator
    PROVE  Accounted'
<1>1. InBody /\ pc = "scan" /\ Remaining < Len(chunk) /\ chunk[Remaining + 1] # ","
  BY DEF NoSeparator, InBody
<1>2. ~Failed
  BY <1>1 DEF Failed
<1>3. PICK p, d : Standing(p, d)
  BY <1>2, Zenon DEF Accounted
<1> PICK r : r = body \o chunk
  OBVIOUS
<1>4. /\ Parsed(p, delivered \o requests) /\ consumed = p \o (d \o (Colon \o r))
      /\ Split(d \o (Colon \o r), d, ":", r)
      /\ Admitted(d) /\ Value[d] = body_length /\ body_length # 0
      /\ body_length = Len(body) + Remaining /\ Remaining \in Nat
      /\ body \in Seq(Chars) /\ chunk \in Seq(Chars)
  BY <1>1, <1>3, BodySplits, Zenon
<1>5. body_length < Len(r) /\ r[body_length + 1] # ","
  <2> DEFINE n == Remaining
  <2>0. body_length = Len(body) + n /\ n \in Nat /\ n < Len(chunk) /\ body \in Seq(Chars) /\ chunk \in Seq(Chars)
    BY <1>1, <1>4, Zenon
  <2> HIDE DEF n
  <2>1. body_length < Len(r) /\ r[body_length + 1] = chunk[n + 1]
    <3>1. Lies(body, chunk, n)
      BY <2>0, Beyond, Zenon
    <3> QED BY <2>0, <3>1, Zenon DEF Lies
  <2>2. chunk[n + 1] # ","
    BY <1>1, Zenon DEF n
  <2> QED BY <2>1, <2>2, Zenon
<1>6. Contents[d \o (Colon \o r)] = [bodies |-> <<>>, good |-> FALSE]
  BY <1>4, <1>5, BadSeparator, Zenon
<1>7. d \o (Colon \o r) \in Seq(Chars)
  BY <1>4, Shape
<1>8. UNCHANGED <<requests, delivered, consumed>> /\ pc' \notin {"rest", "scan"}
  BY DEF NoSeparator
<1> QED BY <1>4, <1>6, <1>7, <1>8, Throws

\* A list of bodies that grows by one, behind what was delivered before.
AppendsOne(e, r, w) == e \o Append(r, w) = (e \o r) \o <<w>>

\* That is what appending it does.
LEMMA OneMore ==
    \A e, r \in Seq(Seq(Chars)), w \in Seq(Chars) : AppendsOne(e, r, w)
<1> TAKE e, r \in Seq(Seq(Chars)), w \in Seq(Chars)
<1> DEFINE S == Seq(Chars)
<1>0. e \in Seq(S) /\ r \in Seq(S) /\ w \in S
  OBVIOUS
<1> HIDE DEF S
<1>1. <<w>> \in Seq(S) /\ Append(r, w) = r \o <<w>>
  BY <1>0, AppendIsConcat
<1>2. (e \o r) \o <<w>> = e \o (r \o <<w>>)
  BY <1>0, <1>1, ConcatAssociative
<1> QED BY <1>1, <1>2, Zenon DEF AppendsOne

\* A body that ended is a whole netstring more, whichever chunks it came in.
LEMMA AccountedByBody ==
    ASSUME IInv, Accounted, EndOfBody
    PROVE  Accounted'
<1>1. /\ InBody /\ pc = "scan" /\ Remaining < Len(chunk) /\ chunk[Remaining + 1] = ","
      /\ requests' = Append(requests, WholeBody) /\ chunk' = After(chunk, Remaining + 1) /\ i' = 0
      /\ body' = <<>> /\ body_length' = 0 /\ pc' = pc /\ delivered' = delivered /\ consumed' = consumed
  BY DEF EndOfBody, InBody, LengthAfterBody
<1>2. ~Failed /\ ~Failed' /\ pc' # "rest"
  BY <1>1 DEF Failed
<1>3. PICK p, d : Standing(p, d)
  BY <1>2, Zenon DEF Accounted
<1> PICK u : u = Upto(chunk, Remaining)
  OBVIOUS
<1> PICK a : a = After(chunk, Remaining + 1)
  OBVIOUS
<1> PICK w : w = body \o u
  OBVIOUS
<1> PICK q : q = d \o (Colon \o (w \o Sign))
  OBVIOUS
<1>4. /\ Parsed(p, delivered \o requests) /\ consumed = p \o (d \o (Colon \o (body \o chunk)))
      /\ Admitted(d) /\ Value[d] = body_length /\ body_length # 0
      /\ body_length = Len(body) + Remaining /\ Remaining \in Nat
      /\ body \in Seq(Chars) /\ chunk \in Seq(Chars) /\ Colon \in Seq(Chars)
      /\ d \in Seq(Chars) /\ AllDigits(d) /\ ":" \in Chars
  BY <1>1, <1>3, BodySplits, Zenon
<1>5. /\ chunk = u \o (Sign \o a) /\ u \in Seq(Chars) /\ Len(u) = Remaining /\ a \in Seq(Chars)
      /\ Sign \in Seq(Chars) /\ "," \in Chars
  <2> DEFINE n == Remaining
  <2>1. n \in Nat /\ n < Len(chunk) /\ chunk \in Seq(Chars)
    BY <1>1, <1>4, Zenon
  <2> HIDE DEF n
  <2>2. /\ chunk = Upto(chunk, n) \o (<<chunk[n + 1]>> \o After(chunk, n + 1)) /\ chunk[n + 1] \in Chars
        /\ Upto(chunk, n) \in Seq(Chars) /\ Len(Upto(chunk, n)) = n /\ After(chunk, n + 1) \in Seq(Chars)
        /\ <<chunk[n + 1]>> \in Seq(Chars)
    BY <2>1, CutAt, Zenon
  <2> QED BY <1>1, <2>2, Zenon DEF n, Sign
<1>6. w \in Seq(Chars) /\ Measures(d, w)
  <2>0. body_length = Len(body) + Remaining /\ body_length # 0 /\ body \in Seq(Chars)
        /\ u \in Seq(Chars) /\ Len(u) = Remaining
    BY <1>4, <1>5, Zenon
  <2>1. w \in Seq(Chars) /\ Len(w) = Len(body) + Len(u)
    BY <2>0, ConcatProperties
  <2>2. Len(w) = body_length
    BY <2>0, <2>1, Zenon
  <2>3. w # <<>>
    <3>1. Len(<<>>) = 0
      OBVIOUS
    <3> QED BY <2>0, <2>2, <3>1, Zenon
  <2> QED BY <1>4, <2>1, <2>2, <2>3, Zenon DEF Measures
<1>7. Parsed(q, <<w>>)
  BY <1>4, <1>5, <1>6, ParsedBody, Zenon DEF HaveSeparators
<1>8. Parsed(p \o q, delivered' \o requests')
  <2>1. delivered \in Seq(Seq(Chars)) /\ requests \in Seq(Seq(Chars))
    BY DEF IInv, TypeOK
  <2>2. AppendsOne(delivered, requests, w)
    BY <1>6, <2>1, OneMore, Zenon
  <2>4. WholeBody = w
    BY Zenon DEF WholeBody
  <2>5. delivered' \o requests' = (delivered \o requests) \o <<w>>
    BY <1>1, <2>2, <2>4, Zenon DEF AppendsOne
  <2>6. Parsed(p \o q, (delivered \o requests) \o <<w>>)
    BY <1>4, <1>7, ParsedMore
  <2> QED BY <2>5, <2>6, Zenon
<1>9. consumed = (p \o q) \o a
  <2>1. p \in Seq(Chars) /\ q \in Seq(Chars)
    BY <1>4, <1>7, Zenon DEF Parsed
  <2>2. Sign \o a \in Seq(Chars) /\ w \o Sign \in Seq(Chars)
    BY <1>5, <1>6, ConcatProperties
  <2>3. Colon \o (w \o Sign) \in Seq(Chars)
    BY <1>4, <2>2, ConcatProperties
  <2>4. Associates(body, u, Sign \o a)
    BY <1>4, <1>5, <2>2, Association, Zenon
  <2>5. Associates(w, Sign, a)
    BY <1>5, <1>6, Association, Zenon
  <2>6. Associates(Colon, w \o Sign, a)
    BY <1>4, <1>5, <2>2, Association, Zenon
  <2>7. Associates(d, Colon \o (w \o Sign), a)
    BY <1>4, <1>5, <2>3, Association, Zenon
  <2>8. Associates(p, q, a)
    BY <1>5, <2>1, Association, Zenon
  <2>9. body \o chunk = (w \o Sign) \o a
    BY <1>5, <2>4, <2>5, Zenon DEF Associates
  <2>10. Colon \o (body \o chunk) = (Colon \o (w \o Sign)) \o a
    BY <2>6, <2>9, Zenon DEF Associates
  <2>11. d \o (Colon \o (body \o chunk)) = q \o a
    BY <2>7, <2>10, Zenon DEF Associates
  <2> QED BY <1>4, <2>8, <2>11, Zenon DEF Associates
<1>10. <<>> \o a = a
  BY <1>5, ConcatEmptySeq
<1>11. LengthDigits' = <<>>
  <2>1. <<>> \o <<>> = <<>>
    OBVIOUS
  <2> QED BY <1>1, <2>1, UptoNone, Zenon DEF LengthDigits
<1>12. Standing(p \o q, d)'
  BY <1>1, <1>4, <1>8, <1>9, <1>10, <1>11, NoDigits, Zenon DEF Standing
<1> QED BY <1>2, <1>12, Zenon DEF Accounted

\* What is left of a chunk when the call returns is kept in the buffer.
LEMMA AccountedByReturn ==
    ASSUME IInv, Accounted, Return
    PROVE  Accounted'
<1>1. /\ pc = "scan" /\ (i >= Len(chunk) \/ NeedsMore)
      /\ body' = body \o chunk /\ delivered' = delivered \o requests
      /\ pc' = "rest" /\ chunk' = <<>> /\ i' = 0 /\ requests' = <<>>
      /\ body_length' = body_length /\ consumed' = consumed
  BY DEF Return
<1>2. ~Failed /\ ~Failed'
  BY <1>1 DEF Failed
<1>3. PICK p, d : Standing(p, d)
  BY <1>2, Zenon DEF Accounted
<1>4. body \in Seq(Chars) /\ chunk \in Seq(Chars) /\ i \in 0 .. Len(chunk)
      /\ delivered \in Seq(Seq(Chars)) /\ requests \in Seq(Seq(Chars))
  BY DEF IInv, TypeOK
<1>5. body \o chunk \in Seq(Chars) /\ delivered \o requests \in Seq(Seq(Chars))
  BY <1>4, ConcatProperties
<1>6. (body \o chunk) \o <<>> = body \o chunk /\ (delivered \o requests) \o <<>> = delivered \o requests
  BY <1>5, ConcatEmptySeq
<1>7. Parsed(p, delivered' \o requests') /\ d \in Seq(Chars)
  BY <1>1, <1>3, <1>6, Zenon DEF Standing
<1>8. LengthDigits' = body \o chunk
  BY <1>1, <1>6, UptoNone, Zenon DEF LengthDigits
<1>9. Standing(p, d)'
  <2>1. CASE body_length = 0
    <3>1. i = Len(chunk)
      <4>1. ~NeedsMore
        BY <2>1 DEF NeedsMore, InBody
      <4> QED BY <1>1, <1>4, <4>1
    <3>2. LengthDigits = body \o chunk
      <4>1. Upto(chunk, i) = chunk
        BY <1>4, <3>1, SubSeqFull DEF Upto
      <4> QED BY <4>1, Zenon DEF LengthDigits
    <3>3. AllDigits(LengthDigits) /\ consumed = p \o (body \o chunk)
      BY <1>3, <2>1, Zenon DEF Standing
    <3> QED BY <1>1, <1>6, <1>7, <1>8, <2>1, <3>2, <3>3, Zenon DEF Standing
  <2>2. CASE body_length # 0
    <3>1. /\ AllDigits(d) /\ Admitted(d) /\ Value[d] = body_length /\ ":" \in Chars
          /\ consumed = p \o (d \o (Colon \o (body \o chunk)))
      BY <1>3, <2>2, Zenon DEF Standing
    <3> QED BY <1>1, <1>6, <1>7, <2>2, <3>1, Zenon DEF Standing
  <2> QED BY <2>1, <2>2
<1> QED BY <1>1, <1>2, <1>9, Zenon DEF Accounted

\* Every step keeps the account.
LEMMA NextAccounted == IInv /\ Accounted /\ [Next]_vars => Accounted'
<1> SUFFICES ASSUME IInv, Accounted, [Next]_vars PROVE Accounted'
  OBVIOUS
<1>1. CASE UNCHANGED vars
  <2>1. /\ pc' = pc /\ body' = body /\ body_length' = body_length /\ chunk' = chunk /\ i' = i
        /\ requests' = requests /\ delivered' = delivered /\ consumed' = consumed
    BY <1>1 DEF vars
  <2>2. Failed' = Failed /\ LengthDigits' = LengthDigits
    BY <2>1, Zenon DEF Failed, LengthDigits
  <2>3. ASSUME NEW p, NEW d, Standing(p, d) PROVE Standing(p, d)'
    BY <2>1, <2>2, <2>3, Zenon DEF Standing
  <2>4. Refused => Refused'
    BY <2>1, Zenon DEF Refused
  <2> QED BY <2>1, <2>2, <2>3, <2>4, Zenon DEF Accounted
<1> QED
  BY <1>1, AccountedByReceive, AccountedByDigit, AccountedByLength, AccountedByNoLength, AccountedByBody,
     AccountedByNoSeparator, AccountedByReturn, Zenon DEF Next, Loop

\* The account says what was returned, and why a call threw.
LEMMA AccountedChunks == IInv /\ Accounted => ChunksDoNotMatter
<1> SUFFICES ASSUME IInv, Accounted PROVE ChunksDoNotMatter
  OBVIOUS
<1>0. delivered \in Seq(Seq(Chars)) /\ requests \in Seq(Seq(Chars)) /\ body \in Seq(Chars)
  BY DEF IInv, TypeOK
<1>1. ASSUME pc = "rest" PROVE Contents[consumed] = [bodies |-> delivered, good |-> TRUE]
  <2>1. ~Failed /\ chunk = <<>> /\ i = 0 /\ requests = <<>>
    <3>1. ~Failed
      BY <1>1 DEF Failed
    <3> QED BY <1>1, <3>1, Zenon DEF Accounted
  <2>2. PICK p, d : Standing(p, d)
    BY <2>1, Zenon DEF Accounted
  <2>3. delivered \o <<>> = delivered /\ body \o <<>> = body
    BY <1>0, ConcatEmptySeq
  <2>4. Parsed(p, delivered)
    BY <2>1, <2>2, <2>3, Zenon DEF Standing
  <2>5. CASE body_length = 0
    <3>1. AllDigits(LengthDigits) /\ consumed = p \o body /\ LengthDigits = body
      BY <2>1, <2>2, <2>3, <2>5, UptoNone, Zenon DEF Standing, LengthDigits
    <3>2. Contents[body] = [bodies |-> <<>>, good |-> TRUE]
      BY <1>0, <3>1, OnlyDigits
    <3> QED BY <1>0, <2>4, <3>1, <3>2, ParsedThen, Zenon
  <2>6. CASE body_length # 0
    <3>1. /\ AllDigits(d) /\ Admitted(d) /\ Value[d] = body_length /\ ":" \in Chars /\ d \in Seq(Chars)
          /\ consumed = p \o (d \o (Colon \o body))
      BY <2>1, <2>2, <2>3, <2>6, Zenon DEF Standing
    <3>2. Len(body) <= body_length
      BY <2>1, <2>6 DEF IInv, BufferBounded
    <3>3. Split(d \o (Colon \o body), d, ":", body)
      BY <1>0, <3>1, Separators, Zenon DEF Split, Colon
    <3>4. Contents[d \o (Colon \o body)] = [bodies |-> <<>>, good |-> TRUE]
      BY <2>6, <3>1, <3>2, <3>3, ShortBody, Zenon
    <3>5. d \o (Colon \o body) \in Seq(Chars)
      BY <3>3, Shape
    <3> QED BY <2>4, <3>1, <3>4, <3>5, ParsedThen, Zenon
  <2> QED BY <2>5, <2>6
<1>2. ASSUME Failed
      PROVE  ~Contents[consumed].good /\ IsPrefixOf(delivered, Contents[consumed].bodies)
  <2>1. Contents[consumed] = [bodies |-> delivered \o requests, good |-> FALSE]
    BY <1>2, Zenon DEF Accounted, Refused
  <2>2. Contents[consumed].good = FALSE /\ Contents[consumed].bodies = delivered \o requests
    BY <2>1
  <2>3. /\ delivered \o requests \in Seq(Seq(Chars)) /\ Len(delivered \o requests) = Len(delivered) + Len(requests)
        /\ \A k \in 1 .. Len(delivered) + Len(requests) :
              (delivered \o requests)[k] = IF k <= Len(delivered) THEN delivered[k] ELSE requests[k - Len(delivered)]
    BY <1>0, ConcatProperties
  <2> DEFINE z == delivered \o requests
             n == Len(delivered)
  <2>4. n \in Nat /\ Len(requests) \in Nat /\ n <= Len(z) /\ n \in 0 .. Len(z)
    <3>1. Len(delivered) \in Nat /\ Len(requests) \in Nat
      BY <1>0
    <3> QED BY <2>3, <3>1
  <2>5. Upto(z, n) \in Seq(Seq(Chars)) /\ Len(Upto(z, n)) = n /\ \A k \in 1 .. n : Upto(z, n)[k] = z[k]
    BY <2>3, <2>4, UptoProperties
  <2>6. \A k \in 1 .. n : z[k] = delivered[k]
    BY <2>3, <2>4
  <2>7. Upto(z, n) = delivered
    <3>1. \A k \in 1 .. Len(Upto(z, n)) : Upto(z, n)[k] = delivered[k]
      BY <2>5, <2>6
    <3> QED BY <1>0, <2>5, <3>1, SeqEqual
  <2> QED BY <2>2, <2>4, <2>7, Zenon DEF IsPrefixOf
<1> QED BY <1>1, <1>2, Zenon DEF ChunksDoNotMatter

\* However the stream is cut into chunks, the requests from_stream has returned
\* are those the stream contains, and it throws only on a malformed stream.
THEOREM Chunking == Spec => []ChunksDoNotMatter
<1>1. Init => IInv /\ Accounted
  BY InitIInv, InitAccounted
<1>2. (IInv /\ Accounted) /\ [Next]_vars => (IInv /\ Accounted)'
  BY NextIInv, NextAccounted
<1>3. IInv /\ Accounted => ChunksDoNotMatter
  BY AccountedChunks
<1> QED BY <1>1, <1>2, <1>3, PTL DEF Spec

-----------------------------------------------------------------------------
(* What is written is read again                                            *)

\* A number below ten is denoted by its digit.
LEMMA DigitOf ==
    \A d \in 1 .. 10 : IsDigit(Digits[d]) /\ Digit(Digits[d]) = d - 1
<1>1. DOMAIN Digits = 1 .. 10
  BY DEF Digits
<1>2. /\ Digits[1] = "0" /\ Digits[2] = "1" /\ Digits[3] = "2" /\ Digits[4] = "3" /\ Digits[5] = "4"
      /\ Digits[6] = "5" /\ Digits[7] = "6" /\ Digits[8] = "7" /\ Digits[9] = "8" /\ Digits[10] = "9"
  BY DEF Digits
<1>3. ASSUME NEW d \in 1 .. 10, NEW e \in 1 .. 10, Digits[d] = Digits[e] PROVE d = e
  <2>1. /\ \/ d = 1 \/ d = 2 \/ d = 3 \/ d = 4 \/ d = 5 \/ d = 6 \/ d = 7 \/ d = 8 \/ d = 9 \/ d = 10
        /\ \/ e = 1 \/ e = 2 \/ e = 3 \/ e = 4 \/ e = 5 \/ e = 6 \/ e = 7 \/ e = 8 \/ e = 9 \/ e = 10
    OBVIOUS
  <2> QED BY <1>2, <1>3, <2>1
<1>4. ASSUME NEW d \in 1 .. 10 PROVE IsDigit(Digits[d]) /\ Digit(Digits[d]) = d - 1
  <2>1. IsDigit(Digits[d])
    BY <1>1 DEF IsDigit
  <2> DEFINE c == CHOOSE e \in DOMAIN Digits : Digits[e] = Digits[d]
  <2>2. c \in 1 .. 10 /\ Digits[c] = Digits[d]
    BY <1>1, Zenon
  <2>3. c = d
    BY <1>3, <2>2, Zenon
  <2> QED BY <2>1, <2>3 DEF Digit
<1> QED BY <1>4

\* The number before the last digit of a number, and that digit.
LEMMA Tens ==
    \A n \in Nat : /\ n \div 10 \in Nat /\ n % 10 \in 0 .. 9 /\ n = 10 * (n \div 10) + (n % 10)
                   /\ n < 10 \/ n \div 10 < n
OBVIOUS

\* A numeral with one more digit.
Extended(s, c, v) ==
    /\ Append(s, c) \in Numeral /\ Append(s, c) # <<>>
    /\ Value[Append(s, c)] = 10 * Value[s] + v

\* Its number is ten times the old one and the digit.
LEMMA ValueAppends == \A s \in Numeral, v \in 0 .. 9 : Extended(s, Digits[v + 1], v)
<1> SUFFICES ASSUME NEW s \in Numeral, NEW v \in 0 .. 9 PROVE Extended(s, Digits[v + 1], v)
  OBVIOUS
<1>0. PICK d \in 1 .. 10 : d = v + 1 /\ v = d - 1
  OBVIOUS
<1> PICK a : a = Append(s, Digits[d])
  OBVIOUS
<1> DEFINE D == {Digits[e] : e \in DOMAIN Digits}
<1>1. Digits[d] \in D /\ s \in Seq(D)
  <2>1. DOMAIN Digits = 1 .. 10
    BY DEF Digits
  <2> QED BY <2>1 DEF Numeral
<1> PICK c : c = Digits[d]
  OBVIOUS
<1> HIDE DEF D
<1>2. /\ a \in Seq(D) /\ Len(a) = Len(s) + 1 /\ a[Len(s) + 1] = c
      /\ \A k \in 1 .. Len(s) : a[k] = s[k]
  BY <1>1, AppendProperties
<1>3. Len(s) \in Nat
  BY <1>1
<1>4. a # <<>>
  <2>1. Len(<<>>) = 0
    OBVIOUS
  <2> QED BY <1>2, <1>3, <2>1
<1>5. Len(a) - 1 = Len(s) /\ Len(s) \in 0 .. Len(a)
  BY <1>2, <1>3
<1>6. Upto(a, Len(s)) = s
  <2>1. /\ Upto(a, Len(s)) \in Seq(D) /\ Len(Upto(a, Len(s))) = Len(s)
        /\ \A k \in 1 .. Len(s) : Upto(a, Len(s))[k] = a[k]
    BY <1>2, <1>5, UptoProperties
  <2>2. \A k \in 1 .. Len(Upto(a, Len(s))) : Upto(a, Len(s))[k] = s[k]
    BY <1>2, <2>1
  <2> QED BY <1>1, <2>1, <2>2, SeqEqual
<1>7. a \in Numeral
  BY <1>2, Zenon DEF D, Numeral
<1>8. Value[a] = 10 * Value[Upto(a, Len(a) - 1)] + Digit(a[Len(a)])
  BY <1>4, <1>7, ValueUnfolds, Zenon
<1>9. Digit(c) = v
  BY <1>0, DigitOf, Zenon
<1>10. a[Len(a)] = c
  BY <1>2
<1> QED BY <1>0, <1>4, <1>5, <1>6, <1>7, <1>8, <1>9, <1>10, Zenon DEF Extended

\* What the definition of Decimal makes of a number.
LEMMA DecimalUnfolds ==
    \A n \in Nat : Decimal[n] = IF n < 10 THEN <<Digits[n + 1]>>
                                ELSE Append(Decimal[n \div 10], Digits[(n % 10) + 1])
<1> DEFINE W == {n \in Nat : ~(n < 10)}
           rank == [n \in Nat |-> n]
           next == [n \in W |-> n \div 10]
           step == [p \in W \X Numeral |-> Append(p[2], Digits[(p[1] % 10) + 1])]
           base == [n \in Nat |-> IF n < 10 THEN <<Digits[n + 1]>> ELSE <<>>]
           Body(f, n) == IF n < 10 THEN <<Digits[n + 1]>> ELSE Append(f[n \div 10], Digits[(n % 10) + 1])
           Eq(f) == f = [n \in Nat |-> Body(f, n)]
<1>1. \A n \in W : n \in Nat /\ n \div 10 \in Nat /\ n \div 10 < n /\ n % 10 \in 0 .. 9
  BY Tens
<1>2. rank \in [Nat -> Nat] /\ W \in SUBSET Nat
  OBVIOUS
<1>3. next \in [W -> Nat] /\ \A n \in W : rank[next[n]] < rank[n]
  BY <1>1
<1>4. step \in [W \X Numeral -> Numeral]
  <2>1. \A p \in W \X Numeral : Append(p[2], Digits[(p[1] % 10) + 1]) \in Numeral
    <3> SUFFICES ASSUME NEW p \in W \X Numeral
                 PROVE  Append(p[2], Digits[(p[1] % 10) + 1]) \in Numeral
      OBVIOUS
    <3>1. p[1] \in W /\ p[2] \in Numeral
      <4> HIDE DEF W
      <4> QED OBVIOUS
    <3>2. p[1] % 10 \in 0 .. 9
      <4> HIDE DEF W
      <4> QED BY <1>1, <3>1
    <3> QED BY <3>1, <3>2, ValueAppends, Zenon DEF Extended
  <2> HIDE DEF W
  <2> QED BY <2>1
<1>5. base \in [Nat -> Numeral]
  <2>1. ASSUME NEW n \in Nat PROVE base[n] \in Numeral
    <3>1. <<>> \in Numeral
      BY DEF Numeral
    <3>2. CASE n < 10
      <4>1. n + 1 \in 1 .. 10
        BY <3>2
      <4>2. <<Digits[n + 1]>> \in Numeral
        <5>1. Digits[n + 1] \in {Digits[e] : e \in DOMAIN Digits}
          <6>1. DOMAIN Digits = 1 .. 10
            BY DEF Digits
          <6> QED BY <4>1, <6>1
        <5> QED BY <5>1 DEF Numeral
      <4> QED BY <3>2, <4>2
    <3>3. CASE ~(n < 10)
      BY <3>1, <3>3
    <3> QED BY <3>2, <3>3
  <2> QED BY <2>1
<1>6. PICK f : Defined(f, Nat, Numeral, W, next, step, base)
  <2>0. Numeral # {}
    <3>1. <<>> \in Numeral
      BY DEF Numeral
    <3> QED BY <3>1, Zenon
  <2>1. Ranked(Nat, Numeral, W, rank, next, step, base)
    <3> HIDE DEF W, rank, next, step, base
    <3> QED BY <1>2, <1>3, <1>4, <1>5, <2>0, Zenon DEF Ranked
  <2> HIDE DEF W, rank, next, step, base
  <2> QED BY <2>1, Recursion, Zenon
<1>7. f \in [Nat -> Numeral] /\ \A n \in Nat : f[n] = IF n \in W THEN step[<<n, f[next[n]]>>] ELSE base[n]
  BY <1>6, Zenon DEF Defined
<1>8. ASSUME NEW n \in Nat PROVE f[n] = Body(f, n)
  <2>1. CASE n \in W
    <3>1. next[n] \in Nat /\ next[n] = n \div 10
      BY <1>1, <2>1
    <3>2. f[n] = step[<<n, f[next[n]]>>]
      BY <1>7, <2>1, Zenon
    <3> HIDE DEF next
    <3>3. <<n, f[next[n]]>> \in W \X Numeral
      <4>1. f[next[n]] \in Numeral
        BY <1>7, <3>1, Zenon
      <4> HIDE DEF W
      <4> QED BY <2>1, <4>1
    <3>4. step[<<n, f[next[n]]>>] = Append(f[next[n]], Digits[(n % 10) + 1])
      <4> HIDE DEF W
      <4> QED BY <3>3
    <3>5. ~(n < 10)
      BY <2>1
    <3> HIDE DEF step, base, W
    <3> QED BY <3>1, <3>2, <3>4, <3>5, Zenon
  <2>2. CASE n \notin W
    <3>1. f[n] = base[n]
      BY <1>7, <2>2, Zenon
    <3>2. n < 10
      BY <2>2
    <3> QED BY <3>1, <3>2
  <2> QED BY <2>1, <2>2, Zenon
<1>9. Eq(f)
  <2> HIDE DEF W, next, step, base, Body
  <2> QED BY <1>7, <1>8
<1>10. Decimal = CHOOSE g : Eq(g)
  BY DEF Decimal
<1>11. Eq(Decimal)
  <2> HIDE DEF Eq
  <2> QED BY <1>9, <1>10
<1>12. \A n \in Nat : Decimal[n] = Body(Decimal, n)
  <2> HIDE DEF Body
  <2> QED BY <1>11
<1> QED BY <1>12, Zenon

\* std::to_string writes a number as digits that denote it again.
Denotes(n) == Decimal[n] \in Numeral /\ Decimal[n] # <<>> /\ Value[Decimal[n]] = n

\* Every number is written as digits that denote it.
LEMMA DecimalDenotes == \A n \in Nat : Denotes(n)
<1> DEFINE T == {n \in Nat : ~Denotes(n)}
<1>1. SUFFICES ASSUME T # {} PROVE FALSE
  OBVIOUS
<1>2. PICK m \in T : \A k \in T : m <= k
  <2> HIDE DEF T
  <2>1. T \in SUBSET Nat
    BY DEF T
  <2> QED BY <1>1, <2>1, Least
<1>3. m \in Nat /\ ~Denotes(m)
  OBVIOUS
<1>4. CASE m < 10
  <2>1. <<>> \in Numeral /\ m \in 0 .. 9
    BY <1>3, <1>4 DEF Numeral
  <2>2. Value[<<>>] = 0
    BY <2>1, ValueUnfolds, Zenon
  <2>3. /\ Append(<<>>, Digits[m + 1]) \in Numeral /\ Append(<<>>, Digits[m + 1]) # <<>>
        /\ Value[Append(<<>>, Digits[m + 1])] = 10 * Value[<<>>] + m
    BY <2>1, ValueAppends, Zenon DEF Extended
  <2>4. Append(<<>>, Digits[m + 1]) = <<Digits[m + 1]>>
    OBVIOUS
  <2>5. Decimal[m] = <<Digits[m + 1]>>
    BY <1>3, <1>4, DecimalUnfolds, Zenon
  <2>6. 10 * 0 + m = m
    BY <1>3
  <2> QED BY <1>3, <2>2, <2>3, <2>4, <2>5, <2>6, Zenon DEF Denotes
<1>5. CASE ~(m < 10)
  <2> DEFINE k == m \div 10
             r == m % 10
  <2>1. k \in Nat /\ r \in 0 .. 9 /\ m = 10 * k + r /\ ~(m <= k)
    BY <1>3, <1>5, Tens
  <2>2. Decimal[m] = Append(Decimal[k], Digits[r + 1])
    BY <1>3, <1>5, DecimalUnfolds, Zenon
  <2> HIDE DEF k, r
  <2>3. Denotes(k)
    BY <1>2, <2>1
  <2>4. Decimal[k] \in Numeral /\ Value[Decimal[k]] = k
    BY <2>3, Zenon DEF Denotes
  <2>5. /\ Decimal[m] \in Numeral /\ Decimal[m] # <<>>
        /\ Value[Decimal[m]] = 10 * Value[Decimal[k]] + r
    BY <2>1, <2>2, <2>4, ValueAppends, Zenon DEF Extended
  <2> QED BY <1>3, <2>1, <2>4, <2>5, Zenon DEF Denotes
<1> QED BY <1>4, <1>5

\* The parts of a stream are streams.
LEMMA PartsType ==
    \A X, S : \A s, t \in Seq(X) : s \o t \in Seq(S) => s \in Seq(S) /\ t \in Seq(S)
<1> SUFFICES ASSUME NEW X, NEW S, NEW s \in Seq(X), NEW t \in Seq(X), s \o t \in Seq(S)
             PROVE  s \in Seq(S) /\ t \in Seq(S)
  OBVIOUS
<1>1. Len(s) \in Nat /\ Len(t) \in Nat /\ s = [k \in 1 .. Len(s) |-> s[k]] /\ t = [k \in 1 .. Len(t) |-> t[k]]
  OBVIOUS
<1>2. /\ Len(s \o t) = Len(s) + Len(t)
      /\ \A k \in 1 .. Len(s) + Len(t) : (s \o t)[k] = IF k <= Len(s) THEN s[k] ELSE t[k - Len(s)]
  BY ConcatProperties
<1>3. \A k \in 1 .. Len(s) + Len(t) : (s \o t)[k] \in S
  BY <1>1, <1>2
<1>4. ASSUME NEW k \in 1 .. Len(s) PROVE s[k] \in S
  BY <1>1, <1>2, <1>3
<1>5. ASSUME NEW k \in 1 .. Len(t) PROVE t[k] \in S
  <2>1. Len(s) + k \in 1 .. Len(s) + Len(t) /\ ~(Len(s) + k <= Len(s)) /\ Len(s) + k - Len(s) = k
    BY <1>1
  <2> QED BY <1>2, <1>3, <2>1
<1> QED BY <1>1, <1>4, <1>5

\* The stream to_string makes of a body from_stream admits holds that body and
\* nothing else.
LEMMA WrittenContents ==
    ASSUME NEW b \in Bodies, to_string(b) \in Seq(Chars)
    PROVE  Contents[to_string(b)] = [bodies |-> <<b>>, good |-> TRUE]
<1> PICK d : d = Decimal[Len(b)]
  OBVIOUS
<1>1. b \in Seq(Chars) /\ Len(b) \in Nat /\ Len(b) # 0 /\ Len(b) <= MaxSize /\ Len(b) <= MaxULong
  <2>1. Len(b) <= MaxULong
    BY DEF Bodies
  <2>2. PICK n \in 1 .. MaxSize : b \in [1 .. n -> Chars]
    BY DEF Bodies
  <2>3. n \in Nat
    BY NetstringAssumption
  <2>4. b \in Seq(Chars) /\ Len(b) = n
    BY <2>2, <2>3
  <2> QED BY <2>1, <2>2, <2>3, <2>4, NetstringAssumption
<1>2. d \in Numeral /\ d # <<>> /\ Value[d] = Len(b)
  BY <1>1, DecimalDenotes, Zenon DEF Denotes
<1>3. AllDigits(d)
  BY <1>2, NumeralDigits, Zenon DEF AllDigits
<1>4. to_string(b) = ((d \o Colon) \o b) \o Sign
  BY Zenon DEF to_string, Colon, Sign
<1> DEFINE X == Chars \cup {Digits[e] : e \in DOMAIN Digits} \cup {":"} \cup {","}
<1>5. d \in Seq(X) /\ b \in Seq(X) /\ Colon \in Seq(X) /\ Sign \in Seq(X)
  <2>1. \A S : S \subseteq X => \A s \in Seq(S) : s \in Seq(X)
    <3> HIDE DEF X
    <3> QED OBVIOUS
  <2>2. \A c \in X : <<c>> \in Seq(X)
    <3> HIDE DEF X
    <3> QED OBVIOUS
  <2>3. d \in Seq({Digits[e] : e \in DOMAIN Digits})
    BY <1>2, Zenon DEF Numeral
  <2>4. Chars \subseteq X /\ {Digits[e] : e \in DOMAIN Digits} \subseteq X /\ ":" \in X /\ "," \in X
    BY Zenon
  <2> HIDE DEF X
  <2>5. d \in Seq(X)
    BY <2>1, <2>3, <2>4, Zenon
  <2>6. b \in Seq(X)
    BY <1>1, <2>1, <2>4, Zenon
  <2> QED BY <2>2, <2>4, <2>5, <2>6, Zenon DEF Colon, Sign
<1> HIDE DEF X
<1>6. d \o Colon \in Seq(X)
  BY <1>5, ConcatProperties
<1>7. (d \o Colon) \o b \in Seq(X)
  BY <1>5, <1>6, ConcatProperties
<1>8. (d \o Colon) \o b \in Seq(Chars) /\ Sign \in Seq(Chars)
  <2>1. ((d \o Colon) \o b) \o Sign \in Seq(Chars)
    BY <1>4, Zenon
  <2> QED BY <1>5, <1>7, <2>1, PartsType, Zenon
<1>9. d \o Colon \in Seq(Chars)
  BY <1>5, <1>6, <1>8, PartsType, Zenon
<1>10. d \in Seq(Chars) /\ Colon \in Seq(Chars)
  BY <1>5, <1>9, PartsType, Zenon
<1>11. HaveSeparators
  <2>1. \A c : <<c>> \in Seq(Chars) => c \in Chars
    <3>1. ASSUME NEW c, <<c>> \in Seq(Chars) PROVE c \in Chars
      <4>1. Len(<<c>>) = 1 /\ <<c>>[1] = c
        OBVIOUS
      <4> QED BY <3>1, <4>1
    <3> QED BY <3>1
  <2> QED BY <1>8, <1>10, <2>1, Zenon DEF Colon, Sign, HaveSeparators
<1>12. Admitted(d) /\ Measures(d, b)
  <2>1. Len(b) \in 0 .. MaxULong
    BY <1>1, NetstringAssumption
  <2>2. b # <<>>
    <3>1. Len(<<>>) = 0
      OBVIOUS
    <3> QED BY <1>1, <3>1, Zenon
  <2> QED BY <1>1, <1>2, <2>1, <2>2, Zenon DEF Admitted, Measures
<1>13. to_string(b) = d \o (Colon \o (b \o Sign))
  <2>1. Associates(d \o Colon, b, Sign)
    BY <1>1, <1>8, <1>9, Association, Zenon
  <2>2. b \o Sign \in Seq(Chars)
    BY <1>1, <1>8, ConcatProperties
  <2>3. Associates(d, Colon, b \o Sign)
    BY <1>10, <2>2, Association, Zenon
  <2> QED BY <1>4, <2>1, <2>3, Zenon DEF Associates
<1>14. Parsed(to_string(b), <<b>>)
  BY <1>1, <1>3, <1>10, <1>11, <1>12, <1>13, ParsedBody, Zenon
<1>15. Contents[<<>>] = [bodies |-> <<>>, good |-> TRUE] /\ <<>> \in Seq(Chars)
  <2>1. <<>> \in Seq(Chars)
    OBVIOUS
  <2> QED BY <2>1, NoDigits, OnlyDigits, Zenon
<1>16. to_string(b) \o <<>> = to_string(b)
  BY ConcatEmptySeq
<1>17. Contents[to_string(b) \o <<>>] = [bodies |-> <<b>>, good |-> TRUE]
  BY <1>14, <1>15, ParsedThen, Zenon
<1> QED BY <1>16, <1>17, Zenon

\* A call that has consumed just that stream has returned just that body.
LEMMA RoundTripHolds == IInv /\ ChunksDoNotMatter => RoundTrip
<1> SUFFICES ASSUME IInv, ChunksDoNotMatter,
                    NEW b \in Bodies, consumed = to_string(b), pc # "scan"
             PROVE  pc = "rest" /\ delivered = <<b>>
  BY Zenon DEF RoundTrip
<1>1. consumed \in Seq(Chars)
  BY DEF IInv, TypeOK
<1>2. Contents[consumed] = [bodies |-> <<b>>, good |-> TRUE]
  BY <1>1, WrittenContents, Zenon
<1>3. Contents[consumed].good = TRUE /\ Contents[consumed].bodies = <<b>>
  BY <1>2
<1>4. ~Failed
  BY <1>3, Zenon DEF ChunksDoNotMatter
<1>5. pc = "rest"
  BY <1>4 DEF Failed
<1>6. Contents[consumed] = [bodies |-> delivered, good |-> TRUE]
  BY <1>5, Zenon DEF ChunksDoNotMatter
<1>7. Contents[consumed].bodies = delivered
  BY <1>6
<1> QED BY <1>3, <1>5, <1>7, Zenon

\* What to_string writes, from_stream reads again, in whatever chunks it arrives.
THEOREM RoundTripping == Spec => []RoundTrip
<1>1. IInv /\ ChunksDoNotMatter => RoundTrip
  BY RoundTripHolds
<1> QED BY <1>1, Invariance, Chunking, PTL
===============================================================================
