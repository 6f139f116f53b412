-------------------------- MODULE RowStreamsProofs --------------------------
(***************************************************************************)
(* Proofs about synchronization and cleaning (RowStreams), for any number  *)
(* of streams, any samples and any configuration.  The library's induction *)
(* theorems cannot be instantiated, so the inductions over samples and     *)
(* streams are least-counterexample arguments from WFMin.                  *)
(***************************************************************************)
EXTENDS SampleSplits, FiniteSetTheorems, SequenceTheorems, TLAPS

(* Numbers and finite sets.                                                *)

\* Every set of naturals that is not empty has a least element.
LEMMA LeastNatural ==
    ASSUME NEW T \in SUBSET Nat, T # {}
    PROVE \E m \in T : \A n \in T : m <= n
<1> DEFINE R == StrictSubsetOrdering(Nat)
           S == FiniteSubsetsOf(Nat)
           F == {0..n : n \in T}
<1>1. F \subseteq S
  <2> SUFFICES ASSUME NEW n \in T PROVE 0..n \in S
    OBVIOUS
  <2>1. IsFiniteSet(0..n)
    BY FS_Interval
  <2>2. 0..n \in SUBSET Nat
    OBVIOUS
  <2> QED BY <2>1, <2>2 DEF FiniteSubsetsOf
<1>2. F # {}
  OBVIOUS
<1>3. IsWellFoundedOn(R, S)
  BY FS_StrictSubsetOrderingWellFounded
<1> HIDE DEF R, S, F
<1>4. PICK x \in F : \A y \in F : ~(<<y, x>> \in R)
  BY <1>1, <1>2, <1>3, WFMin
<1>5. PICK m \in T : x = 0..m
  BY DEF F
<1>6. ASSUME NEW n \in T PROVE m <= n
  <2> SUFFICES ASSUME n < m PROVE FALSE
    OBVIOUS
  <2>1. 0..n \subseteq 0..m /\ 0..n # 0..m /\ m \in 0..m /\ m \notin 0..n
    OBVIOUS
  <2>2. <<0..n, 0..m>> \in R
    BY <2>1 DEF R, StrictSubsetOrdering
  <2> QED BY <1>4, <1>5, <2>2 DEF F
<1> QED BY <1>6

\* A function with integer values has a greatest one on a finite set.
LEMMA Greatest ==
    ASSUME NEW S, IsFiniteSet(S), S # {}, NEW f, \A s \in S : f[s] \in Int
    PROVE \E m \in S : \A s \in S : f[s] <= f[m]
<1> DEFINE Topped(T) == \E m \in T : \A s \in T : f[s] <= f[m]
           Bad == {T \in SUBSET S : T # {} /\ ~Topped(T)}
<1> SUFFICES ASSUME S \in Bad PROVE FALSE
  OBVIOUS
<1>1. Bad \subseteq FiniteSubsetsOf(S)
  BY FS_FiniteSubsetsOfFinite
<1>2. IsWellFoundedOn(StrictSubsetOrdering(S), FiniteSubsetsOf(S))
  BY FS_StrictSubsetOrderingWellFounded
<1>3. Bad # {}
  OBVIOUS
<1>4. PICK T \in Bad : \A U \in Bad : ~(<<U, T>> \in StrictSubsetOrdering(S))
  <2> HIDE DEF Bad
  <2> QED BY <1>1, <1>2, <1>3, WFMin
<1>5. PICK x \in T : TRUE
  BY <1>4
<1>6. T \ {x} \notin Bad
  BY ZenonT(30), <1>4, <1>5 DEF StrictSubsetOrdering
<1>7. CASE T = {x}
  BY <1>4, <1>7
<1>8. CASE T # {x}
  <2>1. T \ {x} # {} /\ T \ {x} \in SUBSET S
    BY <1>4, <1>5, <1>8
  <2>2. PICK m \in T \ {x} : \A s \in T \ {x} : f[s] <= f[m]
    BY <1>6, <2>1
  <2>3. f[m] \in Int /\ f[x] \in Int /\ \A s \in T : f[s] \in Int
    BY <1>4
  <2>4. \/ \A s \in T : f[s] <= f[m]
        \/ \A s \in T : f[s] <= f[x]
    BY <2>2, <2>3
  <2> QED BY <1>4, <1>5, <2>2, <2>4
<1> QED BY <1>7, <1>8

\* What never goes back from one position to the next never goes back at all.
LEMMA Sorted ==
    ASSUME NEW n \in Nat, NEW f, \A k \in 1..n : f[k] \in Int,
           \A k \in 2..n : f[k - 1] <= f[k]
    PROVE \A j, k \in 1..n : j <= k => f[j] <= f[k]
<1> DEFINE T == {k \in 1..n : \E j \in 1..k : f[k] < f[j]}
<1> SUFFICES ASSUME T # {} PROVE FALSE
  OBVIOUS
<1>1. PICK m \in T : \A k \in T : m <= k
  <2>1. T \in SUBSET Nat
    OBVIOUS
  <2> HIDE DEF T
  <2> QED BY <2>1, LeastNatural
<1>2. PICK j \in 1..m : f[m] < f[j]
  BY <1>1
<1>3. m # 1 /\ j <= m - 1
  BY <1>1, <1>2
<1>4. m - 1 \notin T /\ m - 1 \in 1..n
  BY <1>1, <1>3
<1>5. f[m - 1] >= f[j] /\ f[m - 1] <= f[m]
  BY <1>2, <1>3, <1>4
<1> QED BY <1>2, <1>4, <1>5

\* Multiplication by a natural number keeps the order.
LEMMA TimesMonotone ==
    ASSUME NEW x \in Int, NEW y \in Int, NEW d \in Nat, x <= y
    PROVE d * x <= d * y
OBVIOUS

\* Quotient and remainder.
LEMMA DivMod ==
    ASSUME NEW n \in Int, NEW d \in Int, d > 0
    PROVE /\ n \div d \in Int /\ n % d \in 0..d - 1
          /\ n = d * (n \div d) + (n % d)
<1>1. n = d * (n \div d) + (n % d)
  OBVIOUS
<1>2. n \div d \in Int
  OBVIOUS
<1>3. n % d \in 0..d - 1
  <2>1. 0 <= n % d /\ n % d <= d - 1
    OBVIOUS
  <2>2. n % d \in Int
    BY d \in Nat \ {0}
  <2> QED BY <2>1, <2>2
<1> QED BY <1>1, <1>2, <1>3

\* Rounding halves to the even neighbour keeps the order.
LEMMA RoundMonotone ==
    ASSUME NEW a \in Int, NEW b \in Int, NEW d \in Int, d > 0, a <= b
    PROVE /\ RoundHalfEven(a, d) \in Int
          /\ RoundHalfEven(a, d) <= RoundHalfEven(b, d)
<1> DEFINE qa == a \div d  qb == b \div d  ra == a % d  rb == b % d
<1>1. /\ qa \in Int /\ ra \in 0..d - 1 /\ a = d * qa + ra
      /\ qb \in Int /\ rb \in 0..d - 1 /\ b = d * qb + rb
  BY DivMod
<1>2. RoundHalfEven(a, d) \in {qa, qa + 1} /\ RoundHalfEven(b, d) \in {qb, qb + 1}
  BY DEF RoundHalfEven
<1>3. /\ RoundHalfEven(a, d) = qa + 1 <=> 2 * ra > d \/ (2 * ra = d /\ qa % 2 = 1)
      /\ RoundHalfEven(b, d) = qb + 1 <=> 2 * rb > d \/ (2 * rb = d /\ qb % 2 = 1)
  BY <1>1 DEF RoundHalfEven
<1> HIDE DEF qa, qb, ra, rb
<1>4. qa <= qb
  <2> SUFFICES ASSUME qb + 1 <= qa PROVE FALSE
    BY <1>1
  <2>1. d * (qb + 1) <= d * qa
    BY <1>1, TimesMonotone
  <2>2. d * (qb + 1) = d * qb + d
    BY <1>1
  <2>3. d * qa \in Int /\ d * qb \in Int
    BY <1>1
  <2> QED BY <1>1, <2>1, <2>2, <2>3
<1>5. CASE qa < qb
  BY <1>1, <1>2, <1>5
<1>6. CASE qa = qb
  <2>1. ra <= rb
    BY <1>1, <1>6
  <2> QED BY <1>1, <1>2, <1>3, <1>6, <2>1
<1> QED BY <1>1, <1>2, <1>4, <1>5, <1>6
-----------------------------------------------------------------------------
(* Alignment of one stream with one target.                                *)

\* The streams have been opened and the request was accepted.
SyncReady ==
    /\ source \in [Streams -> Seq(Samples)]
    /\ request \in SyncConfigs
    /\ \A s \in Streams : request.clocks[s].num > 0

\* A sample of a stream is a sample.
LEMMA SampleType ==
    ASSUME SyncReady, NEW s \in Streams
    PROVE /\ Len(source[s]) \in Nat
          /\ \A k \in 1..Len(source[s]) : source[s][k] \in Samples /\ source[s][k].at \in Int
<1>1. source[s] \in Seq(Samples)
  BY DEF SyncReady
<1>2. \A k \in 1..Len(source[s]) : source[s][k] \in Samples
  BY <1>1, ElementOfSeq
<1> QED BY <1>1, <1>2 DEF Samples

\* A positive scale keeps the order.
LEMMA ScaledInOrder ==
    ASSUME NEW a \in Int, NEW b \in Int, a <= b, NEW base \in Int, NEW anchor \in Int,
           NEW num \in Int, num > 0
    PROVE /\ base + (a - anchor) * num \in Int
          /\ base + (a - anchor) * num <= base + (b - anchor) * num
<1> DEFINE x == a - anchor
           y == b - anchor
<1>1. x \in Int /\ y \in Int /\ x <= y /\ num \in Nat
  OBVIOUS
<1> HIDE DEF x, y
<1>2. num * x <= num * y /\ num * x = x * num /\ num * y = y * num
  BY <1>1, TimesMonotone
<1>3. x * num \in Int /\ y * num \in Int
  BY <1>1
<1>4. base + x * num \in Int /\ base + x * num <= base + y * num
  <2> DEFINE u == x * num
             v == y * num
  <2>1. u \in Int /\ v \in Int /\ u <= v
    BY <1>2, <1>3
  <2> HIDE DEF u, v
  <2>2. base + u \in Int /\ base + u <= base + v
    BY <2>1
  <2> QED BY <2>2 DEF u, v
<1> QED BY <1>4 DEF x, y

\* A clock correction yields an instant, and never swaps two samples.
LEMMA CorrectedInOrder ==
    ASSUME SyncReady, NEW s \in Streams,
           NEW j \in 1..Len(source[s]), NEW k \in 1..Len(source[s]),
           source[s][j].at <= source[s][k].at
    PROVE Corrected(s, j) \in Int /\ Corrected(s, j) <= Corrected(s, k)
<1> DEFINE clock == request.clocks[s]
           anchor == source[s][1].at
           base == (anchor + clock.offset) * clock.den
           x(i) == base + (source[s][i].at - anchor) * clock.num
<1>1. /\ source[s][j].at \in Int /\ source[s][k].at \in Int /\ anchor \in Int
  <2>1. 1 \in 1..Len(source[s])
    BY SampleType
  <2> QED BY <2>1, SampleType
<1>2. clock \in [num : Int, den : Nat \ {0}, offset : Int] /\ clock.num > 0
  BY RowAssumption DEF SyncReady
<1>3. clock.num \in Int /\ clock.den \in Int /\ clock.den > 0 /\ clock.offset \in Int
  BY <1>2
<1>4. base \in Int
  BY <1>1, <1>3
<1>5. Corrected(s, j) = RoundHalfEven(x(j), clock.den) /\ Corrected(s, k) = RoundHalfEven(x(k), clock.den)
  BY DEF Corrected
<1> HIDE DEF clock, anchor, base
<1>6. x(j) \in Int /\ x(j) <= x(k)
  BY <1>1, <1>2, <1>3, <1>4, ScaledInOrder
<1>7. x(k) \in Int
  <2>1. source[s][k].at <= source[s][k].at
    BY <1>1
  <2> QED BY <1>1, <1>2, <1>3, <1>4, <2>1, ScaledInOrder
<1> DEFINE xj == x(j)
           xk == x(k)
           den == clock.den
<1>8. xj \in Int /\ xk \in Int /\ xj <= xk /\ den \in Int /\ den > 0
  BY <1>3, <1>6, <1>7
<1>9. Corrected(s, j) = RoundHalfEven(xj, den) /\ Corrected(s, k) = RoundHalfEven(xk, den)
  BY <1>5
<1> HIDE DEF xj, xk, den
<1> QED BY <1>8, <1>9, RoundMonotone

\* Every sample has a corrected instant.
LEMMA CorrectedType ==
    ASSUME SyncReady, NEW s \in Streams, NEW k \in 1..Len(source[s])
    PROVE Corrected(s, k) \in Int
<1>1. source[s][k].at \in Int
  BY SampleType
<1>2. source[s][k].at <= source[s][k].at
  BY <1>1
<1> QED BY <1>2, CorrectedInOrder

\* The samples that were read without meeting one that goes back are in order.
LEMMA ReadInOrder ==
    ASSUME SyncReady, NEW s \in Streams, NEW n \in 0..Len(source[s]), ReadsTo(s, n)
    PROVE \A j, k \in 1..n : j <= k => Corrected(s, j) <= Corrected(s, k)
<1> DEFINE f == [k \in 1..n |-> source[s][k].at]
<1>1. \A k \in 1..n : k \in 1..Len(source[s]) /\ f[k] = source[s][k].at /\ f[k] \in Int
  BY SampleType
<1>2. ASSUME NEW k \in 2..n PROVE f[k - 1] <= f[k]
  <2>1. k \in 2..Len(source[s]) /\ k - 1 \in 1..n /\ k \in 1..n
    BY SampleType
  <2>2. ~(source[s][k].at < source[s][k - 1].at)
    BY <2>1 DEF ReadsTo, Backward
  <2> QED BY <1>1, <2>1, <2>2
<1> HIDE DEF f
<1>3. \A j, k \in 1..n : j <= k => f[j] <= f[k]
  <2>1. n \in Nat /\ (\A k \in 1..n : f[k] \in Int) /\ \A k \in 2..n : f[k - 1] <= f[k]
    BY <1>1, <1>2, SampleType
  <2> QED BY <2>1, Sorted
<1> QED BY <1>1, <1>3, CorrectedInOrder

\* What a cursor has found: k samples are at or before t, and the next is not.
Found(s, k, t) ==
    /\ k \in 0..Len(source[s])
    /\ \A j \in 1..k : Corrected(s, j) <= t
    /\ k = Len(source[s]) \/ Corrected(s, k + 1) > t

\* advance_to stops, in the right place, whatever the order of the samples.
LEMMA AdvanceFinds ==
    ASSUME SyncReady, NEW s \in Streams, NEW p \in 0..Len(source[s]), NEW t \in Int,
           \A j \in 1..p : Corrected(s, j) <= t
    PROVE Found(s, AdvanceTo(s, p, t), t)
<1> DEFINE n == Len(source[s])
           T == {k \in p..n : k = n \/ Corrected(s, k + 1) > t}
<1>0. n \in Nat
  BY SampleType
<1>1. T \in SUBSET Nat /\ n \in T
  BY <1>0
<1>2. PICK m \in T : \A k \in T : m <= k
  <2> HIDE DEF T
  <2> QED BY <1>1, LeastNatural
<1>3. \A j \in p + 1..m : Corrected(s, j) <= t
  <2> SUFFICES ASSUME NEW j \in p + 1..m PROVE Corrected(s, j) <= t
    OBVIOUS
  <2>1. j - 1 \in p..n /\ j - 1 < m /\ j \in 1..n
    BY <1>0
  <2>2. j - 1 \notin T
    <3>1. m \in Nat /\ ~(m <= j - 1)
      BY <1>1, <2>1
    <3> QED BY <1>2, <3>1
  <2>3. ~(Corrected(s, j) > t)
    BY <2>1, <2>2
  <2> QED BY <2>1, <2>3, CorrectedType
<1>4. /\ m \in p..n
      /\ \A j \in p + 1..m : Corrected(s, j) <= t
      /\ m = n \/ Corrected(s, m + 1) > t
  BY <1>2, <1>3
<1> DEFINE k == AdvanceTo(s, p, t)
<1>5. /\ k \in p..n
      /\ \A j \in p + 1..k : Corrected(s, j) <= t
      /\ k = n \/ Corrected(s, k + 1) > t
  BY <1>4 DEF AdvanceTo
<1> HIDE DEF k
<1>6. \A j \in 1..k : Corrected(s, j) <= t
  BY <1>0, <1>5
<1> QED BY <1>0, <1>5, <1>6 DEF Found, k

\* Linear alignment weighs with a denominator that is not zero.
LEMMA InterpolatedType ==
    ASSUME NEW x0 \in Int \union {None}, NEW x1 \in Int \union {None}, NEW num \in Int,
           NEW den \in Int, den > 0
    PROVE Interpolated(x0, x1, num, den) \in (Int \union {None}) \X (Int \ {0})
<1>1. CASE None \in {x0, x1}
  BY <1>1 DEF Interpolated
<1>2. CASE None \notin {x0, x1}
  <2>1. x0 \in Int /\ x1 \in Int
    BY <1>2
  <2>2. x0 * den + (x1 - x0) * num \in Int
    BY <2>1
  <2> QED BY <1>2, <2>2 DEF Interpolated
<1> QED BY <1>1, <1>2

\* A whole sample is something.
LEMMA WholeType ==
    ASSUME SyncReady, NEW s \in Streams, NEW k \in 1..Len(source[s])
    PROVE Whole(s, k) \in Payloads /\ Whole(s, k) # None
<1>1. source[s][k] \in Samples
  BY SampleType
<1>2. source[s][k].number \in Int \union {None} /\ source[s][k].label \in Labels \union {None}
  BY <1>1 DEF Samples
<1>3. Whole(s, k) \in Payloads
  BY <1>2 DEF Whole, Payload, Payloads
<1> QED BY <1>3, RowAssumption

\* Where a cursor stands, everything before it is at or before the target, and, in a
\* stream that is in order, everything after it is not.
LEMMA CursorSplits ==
    ASSUME SyncReady, NEW s \in Streams, InOrder(s), NEW t \in Int, NEW k, Found(s, k, t)
    PROVE /\ k \in 0..Len(source[s]) /\ Len(source[s]) \in Nat
          /\ \A j \in 1..Len(source[s]) : Corrected(s, j) \in Int
          /\ \A j \in 1..k : Corrected(s, j) <= Corrected(s, k) /\ Corrected(s, k) <= t
          /\ \A j \in k + 1..Len(source[s]) :
                Corrected(s, k + 1) <= Corrected(s, j) /\ t < Corrected(s, k + 1)
<1> DEFINE n == Len(source[s])
<1>1. n \in Nat /\ k \in 0..n
  BY SampleType DEF Found
<1>2. \A j \in 1..n : Corrected(s, j) \in Int
  BY CorrectedType
<1>3. \A i, j \in 1..n : i <= j => Corrected(s, i) <= Corrected(s, j)
  <2>1. n \in 0..n /\ ReadsTo(s, n)
    BY <1>1 DEF InOrder
  <2> QED BY <2>1, ReadInOrder
<1>4. ASSUME NEW j \in 1..k PROVE Corrected(s, j) <= Corrected(s, k) /\ Corrected(s, k) <= t
  <2>1. j \in 1..n /\ k \in 1..n /\ j <= k /\ k \in 1..k
    BY <1>1
  <2> QED BY <1>3, <2>1 DEF Found
<1>5. ASSUME NEW j \in k + 1..n
      PROVE Corrected(s, k + 1) <= Corrected(s, j) /\ t < Corrected(s, k + 1)
  <2>1. j \in 1..n /\ k + 1 \in 1..n /\ k + 1 <= j /\ k # n
    BY <1>1
  <2>2. Corrected(s, k + 1) > t
    BY <2>1 DEF Found
  <2> QED BY <1>2, <1>3, <2>1, <2>2
<1> QED BY <1>1, <1>2, <1>4, <1>5

\* The samples around a cursor, and the one of them a target is given.
Candidates(s, k) == {k, k + 1} \cap 1..Len(source[s])
NearestIn(s, k, t, j) ==
    \A i \in Candidates(s, k) :
        \/ Distance(Corrected(s, j), t) < Distance(Corrected(s, i), t)
        \/ Distance(Corrected(s, j), t) = Distance(Corrected(s, i), t) /\ j <= i

\* One of at most two samples is the nearer one.
LEMMA NearestExists ==
    ASSUME SyncReady, NEW s \in Streams, NEW t \in Int, NEW k \in 0..Len(source[s]),
           Candidates(s, k) # {}
    PROVE \E j \in Candidates(s, k) : NearestIn(s, k, t, j)
<1> DEFINE Away(j) == Distance(Corrected(s, j), t)
           candidates == Candidates(s, k)
           Best(j) == \A i \in candidates :
                        Away(j) < Away(i) \/ (Away(j) = Away(i) /\ j <= i)
<1>1. k \in Nat /\ \A i \in candidates : i \in 1..Len(source[s]) /\ i \in {k, k + 1}
  BY SampleType DEF Candidates
<1>2. \A i \in candidates : Away(i) \in Int /\ i \in Nat
  BY <1>1, CorrectedType DEF Distance
<1>3. \E j \in candidates : Best(j)
  <2> HIDE DEF Away, candidates
  <2>1. CASE candidates = {k, k + 1}
    <3>1. Away(k) \in Int /\ Away(k + 1) \in Int
      BY <1>2, <2>1
    <3>2. CASE Away(k) <= Away(k + 1)
      <4>1. \A i \in {k, k + 1} : Away(k) < Away(i) \/ (Away(k) = Away(i) /\ k <= i)
        BY <1>1, <3>1, <3>2
      <4> QED BY <2>1, <4>1
    <3>3. CASE Away(k + 1) < Away(k)
      <4>1. \A i \in {k, k + 1} : Away(k + 1) < Away(i) \/ (Away(k + 1) = Away(i) /\ k + 1 <= i)
        BY <1>1, <3>1, <3>3
      <4> QED BY <2>1, <4>1
    <3> QED BY <3>1, <3>2, <3>3
  <2>2. CASE candidates # {k, k + 1}
    <3>1. PICK j \in candidates : candidates = {j}
      BY <1>1, <2>2 DEF candidates
    <3> QED BY <1>2, <3>1
  <2> QED BY <2>1, <2>2
<1> QED BY <1>3 DEF NearestIn

\* The nearer of the two samples around the target is the nearest of all.
LEMMA NearestIsBest ==
    ASSUME SyncReady, NEW s \in Streams, InOrder(s), NEW t \in Int, NEW k, Found(s, k, t)
    PROVE NearestOfAll(s, t, AlignNearest(s, k, t))
<1> DEFINE n == Len(source[s])
           C(j) == Corrected(s, j)
           Away(j) == Distance(C(j), t)
           candidates == {k, k + 1} \cap 1..n
           Best(j) == \A i \in candidates :
                        Away(j) < Away(i) \/ (Away(j) = Away(i) /\ j <= i)
           best == CHOOSE j \in candidates : Best(j)
<1>1. n \in Nat /\ k \in 0..n
  BY CursorSplits
<1>2. \A j \in 1..n : C(j) \in Int /\ Away(j) \in Int
  BY CursorSplits DEF Distance
<1>3. \A j \in 1..k : k \in candidates /\ C(j) <= C(k) /\ C(k) <= t /\ Away(j) = t - C(j) /\ Away(k) = t - C(k)
  BY <1>1, <1>2, CursorSplits DEF Distance
<1>4. \A j \in k + 1..n : /\ k + 1 \in candidates /\ C(k + 1) <= C(j) /\ t < C(k + 1)
                          /\ Away(j) = C(j) - t /\ Away(k + 1) = C(k + 1) - t
  BY SMTT(30), <1>1, <1>2, CursorSplits DEF Distance
<1>5. CASE candidates = {}
  <2>1. 1..n = {}
    BY <1>1, <1>5
  <2>2. AlignNearest(s, k, t) = None
    BY <1>5 DEF AlignNearest
  <2> QED BY <2>1, <2>2 DEF NearestOfAll
<1>6. CASE candidates # {}
  <2>1. \E j \in candidates : Best(j)
    BY <1>1, <1>6, NearestExists DEF Candidates, NearestIn
  <2>2. best \in candidates /\ Best(best)
    BY <2>1
  <2>3. AlignNearest(s, k, t) = IF Away(best) > request.tolerance THEN None ELSE Whole(s, best)
    BY <1>6 DEF AlignNearest
  <2>4. best \in 1..n /\ best \in {k, k + 1}
    BY <2>2
  <2>5. ASSUME NEW i \in 1..n
        PROVE Away(best) < Away(i) \/ (Away(best) = Away(i) /\ C(best) <= C(i))
    <3> HIDE DEF best, candidates, Away, C
    <3>1. CASE i \in 1..k
      <4>1. k \in candidates /\ C(i) <= C(k) /\ C(k) <= t /\ Away(i) = t - C(i) /\ Away(k) = t - C(k)
        BY <1>3, <3>1
      <4>2. Away(best) < Away(k) \/ (Away(best) = Away(k) /\ best <= k)
        BY <2>2, <4>1
      <4>3. k \in 1..n /\ C(k) \in Int /\ C(i) \in Int
        BY <1>1, <1>2, <3>1
      <4>4. CASE best = k
        <5>1. Away(k) < Away(i) \/ (Away(k) = Away(i) /\ C(k) <= C(i))
          BY <4>1, <4>3
        <5> QED BY <4>4, <5>1
      <4>5. CASE best # k
        <5>1. best = k + 1 /\ Away(best) < Away(k)
          BY <1>1, <2>4, <4>2, <4>5
        <5>2. Away(best) \in Int /\ Away(k) <= Away(i) /\ Away(k) \in Int /\ Away(i) \in Int
          BY <1>2, <2>4, <4>1, <4>3
        <5> QED BY <5>1, <5>2
      <4> QED BY <4>4, <4>5
    <3>2. CASE i \in k + 1..n
      <4>1. k + 1 \in candidates /\ C(k + 1) <= C(i) /\ t < C(k + 1) /\ Away(i) = C(i) - t
            /\ Away(k + 1) = C(k + 1) - t
        BY <1>4, <3>2
      <4>2. Away(best) < Away(k + 1) \/ (Away(best) = Away(k + 1) /\ best <= k + 1)
        BY <2>2, <4>1
      <4>3. k + 1 \in 1..n
        BY <1>1, <3>2
      <4>4. CASE best = k + 1
        BY <1>2, <2>4, <4>1, <4>3, <4>4
      <4>5. CASE best = k
        <5>1. C(best) <= t
          BY <1>3, <2>4, <4>5
        <5> QED BY SMTT(30), <1>2, <2>4, <4>1, <4>2, <4>3, <5>1
      <4> QED BY <2>4, <4>4, <4>5
    <3> QED BY <1>1, <3>1, <3>2
  <2>6. request.tolerance \in Int
    BY RowAssumption DEF SyncReady
  <2>7. CASE Away(best) > request.tolerance
    <3>1. ASSUME NEW j \in 1..n PROVE Away(j) > request.tolerance
      <4> HIDE DEF best, Away, C, candidates, Best
      <4>1. Away(best) < Away(j) \/ Away(best) = Away(j)
        BY <2>5
      <4>2. PICK x \in Int, y \in Int : x = Away(best) /\ y = Away(j)
        BY <1>2, <2>4
      <4> QED BY <2>6, <2>7, <4>1, <4>2
    <3> QED BY <2>3, <2>7, <3>1 DEF NearestOfAll
  <2>8. CASE ~(Away(best) > request.tolerance)
    <3>1. Away(best) <= request.tolerance
      BY <1>2, <2>4, <2>6, <2>8
    <3>2. AlignNearest(s, k, t) = Whole(s, best)
      BY <2>3, <2>8
    <3> HIDE DEF best
    <3> QED BY <2>4, <2>5, <3>1, <3>2 DEF NearestOfAll
  <2> QED BY <2>7, <2>8
<1> QED BY <1>5, <1>6

\* A linear strategy uses the samples on both sides of the target.
LEMMA LinearIsBest ==
    ASSUME SyncReady, NEW s \in Streams, InOrder(s), NEW t \in Int, NEW k, Found(s, k, t)
    PROVE BetweenNeighbours(s, t, AlignLinear(s, k, t))
<1> DEFINE n == Len(source[s])
           C(j) == Corrected(s, j)
           Before == {j \in 1..n : C(j) <= t}
           After == 1..n \ Before
           got == AlignLinear(s, k, t)
<1>1. n \in Nat /\ k \in 0..n /\ \A j \in 1..n : C(j) \in Int
  BY CursorSplits
<1>2. \A j \in 1..k : C(j) <= C(k) /\ C(k) <= t
  BY CursorSplits
<1>3. \A j \in k + 1..n : C(k + 1) <= C(j) /\ t < C(k + 1)
  BY CursorSplits
<1>4. Before = 1..k /\ After = k + 1..n
  <2> HIDE DEF C
  <2>1. ASSUME NEW j \in 1..n PROVE C(j) <= t <=> j \in 1..k
    <3>1. CASE j \in 1..k
      <4>1. k \in 1..n
        BY <1>1, <3>1
      <4> QED BY <1>1, <1>2, <3>1, <4>1
    <3>2. CASE j \in k + 1..n
      <4>1. k + 1 \in 1..n
        BY <1>1, <3>2
      <4>2. ~(C(j) <= t)
        BY <1>1, <1>3, <3>2, <4>1
      <4> QED BY <1>1, <3>2, <4>2
    <3> QED BY <1>1, <3>1, <3>2
  <2> QED BY <1>1, <2>1
<1>5. CASE k > 0 /\ C(k) = t
  <2>1. k \in Before /\ got = Whole(s, k)
    BY <1>1, <1>4, <1>5 DEF AlignLinear
  <2> QED BY <1>5, <2>1 DEF BetweenNeighbours
<1>6. CASE ~(k > 0 /\ C(k) = t) /\ (k = 0 \/ k = n)
  <2>1. got = None
    BY <1>6 DEF AlignLinear
  <2>2. CASE k = 0
    <3>1. Before = {}
      BY <1>4, <2>2
    <3> QED BY <2>1, <3>1 DEF BetweenNeighbours
  <2>3. CASE k = n /\ k # 0
    <3>1. After = {}
      BY <1>1, <1>4, <2>3
    <3>2. ASSUME NEW j \in Before PROVE C(j) < t
      <4>1. j \in 1..k /\ k \in 1..n /\ j \in 1..n
        BY <1>1, <1>4, <2>3
      <4>2. C(k) # t
        BY <1>1, <1>6, <2>3
      <4> HIDE DEF C
      <4> QED BY <1>1, <1>2, <4>1, <4>2
    <3> QED BY <2>1, <3>1, <3>2 DEF BetweenNeighbours
  <2> QED BY <1>6, <2>2, <2>3
<1>7. CASE ~(k > 0 /\ C(k) = t) /\ ~(k = 0 \/ k = n)
  <2>1. k \in 1..n /\ k + 1 \in 1..n /\ k \in Before /\ k + 1 \in After
    BY <1>1, <1>4, <1>7
  <2> DEFINE num == Interpolated(source[s][k].number, source[s][k + 1].number,
                        t - C(k), C(k + 1) - C(k))
             near == IF Distance(t, C(k)) <= Distance(t, C(k + 1)) THEN k ELSE k + 1
             lab == IF Distance(t, C(near)) <= request.tolerance
                    THEN source[s][near].label ELSE None
  <2>2. got = Payload(num, lab)
    BY <1>7 DEF AlignLinear
  <2>3. num \in (Int \union {None}) \X (Int \ {0})
    <3>1. source[s][k].number \in Int \union {None} /\ source[s][k + 1].number \in Int \union {None}
      BY <2>1, SampleType DEF Samples
    <3>2. t - C(k) \in Int /\ C(k + 1) - C(k) \in Int /\ C(k + 1) - C(k) > 0
      <4>1. k \in 1..k /\ k + 1 \in k + 1..n
        BY <1>1, <2>1
      <4>2. C(k) \in Int /\ C(k + 1) \in Int /\ C(k) <= t /\ t < C(k + 1)
        BY <1>1, <1>2, <1>3, <2>1, <4>1
      <4> HIDE DEF C
      <4> QED BY <4>2
    <3> HIDE DEF C
    <3> QED BY <3>1, <3>2, InterpolatedType
  <2>4. lab \in Labels \union {None}
    <3>1. near \in 1..n
      BY <2>1
    <3> HIDE DEF near
    <3> QED BY <3>1, SampleType DEF Samples
  <2>5. got # None /\ got.number = num
    <3> HIDE DEF num, lab
    <3>1. got \in Payloads /\ got.number = num
      BY <2>2, <2>3, <2>4 DEF Payload, Payloads
    <3> QED BY <3>1, RowAssumption
  <2>6. SameNumber(got.number, num)
    <3> HIDE DEF num
    <3>1. SameNumber(num, num)
      BY DEF SameNumber
    <3> QED BY <2>5, <3>1
  <2>7. (\A b \in Before : b <= k) /\ (\A a \in After : k + 1 <= a)
    <3> HIDE DEF Before, After
    <3>1. (\A b \in 1..k : b <= k) /\ (\A a \in k + 1..n : k + 1 <= a)
      BY <1>1
    <3> QED BY <1>4, <3>1
  <2> HIDE DEF got
  <2>8. BetweenNeighbours(s, t, got)
    BY <2>1, <2>5, <2>6, <2>7 DEF BetweenNeighbours
  <2> QED BY <2>8 DEF got
<1> QED BY <1>5, <1>6, <1>7

\* What is aligned is the best of a stream that is in order.
LEMMA AlignIsBest ==
    ASSUME SyncReady, NEW s \in Streams, InOrder(s), NEW t \in Int, NEW k, Found(s, k, t)
    PROVE BestFit(s, t, Align(s, k, t))
BY NearestIsBest, LinearIsBest DEF BestFit, Align

\* What is aligned has the type of a payload, or is nothing.
LEMMA AlignType ==
    ASSUME SyncReady, NEW s \in Streams, NEW t \in Int, NEW k, Found(s, k, t)
    PROVE Align(s, k, t) \in Payloads \union {None}
<1> DEFINE n == Len(source[s])
           C(j) == Corrected(s, j)
<1>1. n \in Nat /\ k \in 0..n /\ \A j \in 1..n : C(j) \in Int
  BY SampleType, CorrectedType DEF Found
<1>2. AlignNearest(s, k, t) \in Payloads \union {None}
  <2> DEFINE best == CHOOSE j \in Candidates(s, k) : NearestIn(s, k, t, j)
  <2>1. CASE Candidates(s, k) = {}
    BY <2>1 DEF AlignNearest, Candidates
  <2>2. CASE Candidates(s, k) # {}
    <3>1. best \in Candidates(s, k)
      BY <1>1, <2>2, NearestExists
    <3>2. best \in 1..n
      BY <3>1 DEF Candidates
    <3>3. AlignNearest(s, k, t) \in {None, Whole(s, best)}
      BY DEF AlignNearest, Candidates, NearestIn
    <3> HIDE DEF best
    <3> QED BY <3>2, <3>3, WholeType
  <2> QED BY <2>1, <2>2
<1>3. AlignLinear(s, k, t) \in Payloads \union {None}
  <2>1. CASE k > 0 /\ C(k) = t
    <3>1. AlignLinear(s, k, t) = Whole(s, k) /\ k \in 1..n
      BY <1>1, <2>1 DEF AlignLinear
    <3> QED BY <3>1, WholeType
  <2>2. CASE ~(k > 0 /\ C(k) = t) /\ (k = 0 \/ k = n)
    BY <2>2 DEF AlignLinear
  <2>3. CASE ~(k > 0 /\ C(k) = t) /\ ~(k = 0 \/ k = n)
    <3> DEFINE num == Interpolated(source[s][k].number, source[s][k + 1].number,
                          t - C(k), C(k + 1) - C(k))
               near == IF Distance(t, C(k)) <= Distance(t, C(k + 1)) THEN k ELSE k + 1
               lab == IF Distance(t, C(near)) <= request.tolerance
                      THEN source[s][near].label ELSE None
    <3>1. AlignLinear(s, k, t) = Payload(num, lab)
      BY <2>3 DEF AlignLinear
    <3>2. k \in 1..n /\ k + 1 \in 1..n
      BY <1>1, <2>3
    <3>3. num \in (Int \union {None}) \X (Int \ {0})
      <4>1. source[s][k].number \in Int \union {None} /\ source[s][k + 1].number \in Int \union {None}
        BY <3>2, SampleType DEF Samples
      <4>2. C(k) \in Int /\ C(k + 1) \in Int /\ C(k) <= t /\ t < C(k + 1)
        <5>1. k \in 1..k
          BY <3>2
        <5> QED BY <1>1, <2>3, <3>2, <5>1 DEF Found
      <4> HIDE DEF C
      <4>3. t - C(k) \in Int /\ C(k + 1) - C(k) \in Int /\ C(k + 1) - C(k) > 0
        BY <4>2
      <4> QED BY <4>1, <4>3, InterpolatedType
    <3>4. lab \in Labels \union {None}
      <4>1. near \in 1..n
        BY <3>2
      <4> HIDE DEF near
      <4> QED BY <4>1, SampleType DEF Samples
    <3> HIDE DEF num, lab
    <3> QED BY <3>1, <3>3, <3>4 DEF Payload, Payloads
  <2> QED BY <2>1, <2>2, <2>3
<1> QED BY <1>2, <1>3 DEF Align

-----------------------------------------------------------------------------
(* Synchronization.                                                        *)

SyncRows == [timestamp : Int, streams : [Streams -> Payloads \union {None}]]

\* The loop over the targets: no cursor has passed the target, no row is later than it.
Underway ==
    /\ position = Len(rows)
    /\ cursor \in [Streams -> Nat] /\ \A s \in Streams : cursor[s] <= Len(source[s])
    /\ target \in Int \union {None}
    /\ target # None =>
        /\ \A s \in Streams : \A j \in 1..cursor[s] : Corrected(s, j) <= target
        /\ \A k \in 1..Len(rows) : rows[k].timestamp <= target
        /\ request.mode = "stream" =>
            /\ position + 1 \in 1..Len(source[Reference]) /\ ReadsTo(Reference, position + 1)
            /\ target = Corrected(Reference, position + 1)

RowsFit ==
    \A k \in 1..Len(rows), s \in {u \in Streams : InOrder(u) /\ ~Direct(u)} :
        BestFit(s, rows[k].timestamp, rows[k].streams[s])

RowsInOrder == \A j, k \in 1..Len(rows) : j <= k => rows[j].timestamp <= rows[k].timestamp

AlignInv ==
    /\ source \in [Streams -> Seq(Samples)]
    /\ rows \in Seq(SyncRows)
    /\ stage \in {"idle", "opening"} =>
        cursor = [s \in Streams |-> 0] /\ position = 0 /\ rows = << >>
    /\ stage \in {"opening", "aligning", "synchronized"} => SyncReady
    /\ stage = "aligning" => Underway
    /\ stage \in {"aligning", "synchronized"} => RowsFit
    /\ stage \in {"aligning", "synchronized", "cleaning", "cleaned", "rejected"} => RowsInOrder

\* What is said of the streams stays true while they and the request stay the same.
LEMMA StreamsFrame ==
    ASSUME source' = source, request' = request
    PROVE /\ SyncReady' <=> SyncReady
          /\ \A s, k : Corrected(s, k)' = Corrected(s, k)
          /\ \A s, k : ReadsTo(s, k)' <=> ReadsTo(s, k)
          /\ \A s : Direct(s)' <=> Direct(s)
          /\ \A s : InOrder(s)' <=> InOrder(s)
          /\ \A s, t, got : BestFit(s, t, got)' <=> BestFit(s, t, got)
<1>1. SyncReady' <=> SyncReady
  BY DEF SyncReady
<1>2. ASSUME NEW s, NEW k PROVE Corrected(s, k)' = Corrected(s, k)
  BY DEF Corrected
<1>3. ASSUME NEW s, NEW k PROVE (ReadsTo(s, k)' <=> ReadsTo(s, k)) /\ Whole(s, k)' = Whole(s, k)
  BY DEF ReadsTo, Backward, Whole
<1>4. ASSUME NEW s PROVE (Direct(s)' <=> Direct(s)) /\ (InOrder(s)' <=> InOrder(s))
  BY DEF Direct, InOrder, ReadsTo, Backward
<1>5. ASSUME NEW s, NEW t, NEW got PROVE BestFit(s, t, got)' <=> BestFit(s, t, got)
  <2>1. NearestOfAll(s, t, got)' <=> NearestOfAll(s, t, got)
    BY <1>2, <1>3 DEF NearestOfAll
  <2>2. BetweenNeighbours(s, t, got)' <=> BetweenNeighbours(s, t, got)
    BY <1>2, <1>3 DEF BetweenNeighbours
  <2> QED BY <2>1, <2>2 DEF BestFit
<1> QED BY <1>1, <1>2, <1>3, <1>4, <1>5

\* The rows of a finished synchronization, and what follows it.
LEMMA RowsFrame ==
    ASSUME AlignInv, rows' \in {rows, << >>}, source' \in {source, [s \in Streams |-> << >>]},
           stage' \notin {"idle", "opening", "aligning", "synchronized"},
           stage' \in {"cleaning", "cleaned", "rejected"} =>
                rows' = rows /\ stage \in {"synchronized", "cleaning", "cleaned"}
    PROVE AlignInv'
<1>1. << >> \in Seq(SyncRows) /\ [s \in Streams |-> << >>] \in [Streams -> Seq(Samples)]
  OBVIOUS
<1>2. source' \in [Streams -> Seq(Samples)] /\ rows' \in Seq(SyncRows)
  BY <1>1 DEF AlignInv
<1>3. stage' \in {"cleaning", "cleaned", "rejected"} => RowsInOrder'
  BY DEF AlignInv, RowsInOrder
<1> QED BY <1>2, <1>3 DEF AlignInv

\* The later stages leave the rows alone, or forget them.
LEMMA LaterStages ==
    ASSUME AlignInv, WindowingStage \/ PackagingStage
    PROVE AlignInv'
<1>1. /\ source' = source /\ rows' \in {rows, << >>}
      /\ stage' \in {"raised", "windowing", "disordered", "windowed", "package_rejected",
                     "grouping", "splitting", "leaking", "packaged"}
  <2>1. CASE WindowingStage
    BY <2>1 DEF WindowingStage, start_windowing, take_row, finish_count_windows, take_timed_row,
         close_window, finish_time_windows, Windowing, RowsIdle
  <2>2. CASE PackagingStage
    BY <2>2 DEF PackagingStage, start_packaging, group_sample, finish_grouping, assign_sequential,
         assign_by_hash, audit_and_write, RowsIdle
  <2> QED BY <2>1, <2>2
<1> QED BY <1>1, RowsFrame

\* So does cleaning.
LEMMA CleaningKeepsRows ==
    ASSUME AlignInv, (\E config \in CleaningConfigs : start_cleaning(config)) \/ evaluate_row \/ finish_cleaning
    PROVE AlignInv'
<1>1. /\ rows' = rows /\ source' \in {source, [s \in Streams |-> << >>]}
      /\ stage' \in {"cleaning", "cleaned", "rejected"} /\ stage \in {"synchronized", "cleaning"}
  BY DEF start_cleaning, evaluate_row, finish_cleaning
<1> QED BY <1>1, RowsFrame

\* The last steps of synchronization: the artifact is committed, or the stage raises.
LEMMA FinishAligns ==
    ASSUME AlignInv, finish_alignment
    PROVE AlignInv'
<1>1. /\ source' = source /\ request' = request /\ rows' = rows
      /\ stage = "aligning" /\ stage' \in {"raised", "synchronized"}
  BY DEF finish_alignment
<1>2. CASE stage' = "raised"
  BY <1>1, <1>2, RowsFrame
<1>3. CASE stage' = "synchronized"
  <2>1. SyncReady' /\ RowsFit'
    BY <1>1, StreamsFrame DEF AlignInv, RowsFit
  <2>2. RowsInOrder'
    BY <1>1 DEF AlignInv, RowsInOrder
  <2> QED BY <1>1, <1>3, <2>1, <2>2 DEF AlignInv
<1> QED BY <1>1, <1>2, <1>3

\* The request is accepted with its streams.
LEMMA StartAligns ==
    ASSUME AlignInv, NEW input \in SyncInputs, NEW config \in SyncConfigs, start_alignment(input, config)
    PROVE AlignInv'
<1>1. /\ stage = "idle" /\ source' = input /\ request' = config
      /\ UNCHANGED <<cursor, position, rows>>
      /\ stage' = IF \A s \in Streams : config.clocks[s].num > 0 THEN "opening" ELSE "raised"
  BY DEF start_alignment
<1>2. source' \in [Streams -> Seq(Samples)]
  BY <1>1, RowAssumption
<1>3. stage' = "opening" => SyncReady'
  BY <1>1, <1>2 DEF SyncReady
<1> QED BY <1>1, <1>2, <1>3 DEF AlignInv

\* The first of the targets is an instant, and no row is later.
LEMMA OpenAligns ==
    ASSUME AlignInv, open_streams
    PROVE AlignInv'
<1>1. /\ stage = "opening" /\ UNCHANGED <<request, source, cursor, position, rows>>
      /\ SyncReady /\ cursor = [s \in Streams |-> 0] /\ position = 0 /\ rows = << >>
  BY DEF open_streams, AlignInv
<1>2. SyncReady' /\ rows' \in Seq(SyncRows) /\ source' \in [Streams -> Seq(Samples)]
  BY <1>1, StreamsFrame DEF AlignInv
<1>3. RowsFit' /\ RowsInOrder'
  BY <1>1 DEF RowsFit, RowsInOrder
<1>4. ASSUME stage' = "aligning" PROVE Underway'
  <2>1. /\ position' = Len(rows') /\ cursor' \in [Streams -> Nat]
        /\ \A s \in Streams : cursor'[s] <= Len(source'[s])
        /\ \A s \in Streams : 1..cursor'[s] = {}
        /\ 1..Len(rows') = {}
    BY <1>1, SampleType
  <2>2. CASE request.mode = "stream"
    <3>1. target' = Continue(1)
      BY <1>1, <2>2 DEF open_streams
    <3>2. target' # None => /\ position + 1 \in 1..Len(source[Reference]) /\ ReadsTo(Reference, position + 1)
                            /\ target' = Corrected(Reference, position + 1)
      BY <1>1, <3>1, RowAssumption, SampleType DEF Continue
    <3>3. target' \in Int \union {None}
      BY <1>1, <3>2, RowAssumption, CorrectedType
    <3>4. /\ ReadsTo(Reference, position + 1) => ReadsTo(Reference, position + 1)'
          /\ Corrected(Reference, position + 1) = Corrected(Reference, position + 1)'
      BY <1>1, StreamsFrame DEF ReadsTo, Backward, Corrected
    <3> QED BY <1>1, <2>1, <3>2, <3>3, <3>4 DEF Underway
  <2>3. CASE request.mode # "stream"
    <3>1. /\ \A s \in Streams : source[s] # << >>
          /\ target' = IF IntersectionStart <= IntersectionEnd THEN IntersectionStart ELSE None
      BY <1>4, <2>3 DEF open_streams, Fail
    <3>2. IntersectionStart \in Int
      <4> DEFINE f == [s \in Streams |-> FirstAt(s)]
      <4>1. \A s \in Streams : f[s] \in Int
        <5> SUFFICES ASSUME NEW s \in Streams PROVE FirstAt(s) \in Int
          OBVIOUS
        <5>1. source[s] \in Seq(Samples) /\ source[s] # << >>
          BY <1>1, <3>1 DEF SyncReady
        <5>2. 1 \in 1..Len(source[s])
          BY <5>1
        <5> QED BY <1>1, <5>2, CorrectedType DEF FirstAt
      <4> HIDE DEF f
      <4>2. PICK m \in Streams : \A s \in Streams : f[s] <= f[m]
        BY <4>1, RowAssumption, Greatest
      <4>3. f[m] \in {FirstAt(s) : s \in Streams} /\ \A s \in Streams : FirstAt(s) <= f[m]
        BY <4>2 DEF f
      <4>4. IntersectionStart \in {FirstAt(s) : s \in Streams}
        BY <4>3 DEF IntersectionStart
      <4> QED BY <4>1, <4>4 DEF f
    <3>3. target' \in Int \union {None}
      BY <3>1, <3>2
    <3> QED BY <1>1, <2>1, <2>3, <3>3 DEF Underway
  <2> QED BY <2>2, <2>3
<1>5. stage' \in {"aligning", "raised"}
  BY DEF open_streams, Fail
<1> QED BY <1>2, <1>3, <1>4, <1>5 DEF AlignInv

\* The target after this one, if there is one, is not earlier.
LEMMA LaterTarget ==
    ASSUME AlignInv, stage = "aligning", target # None
    PROVE /\ NextTarget(target) \in Int \union {None}
          /\ NextTarget(target) # None =>
                /\ target <= NextTarget(target)
                /\ request.mode = "stream" =>
                    /\ position + 2 \in 1..Len(source[Reference]) /\ ReadsTo(Reference, position + 2)
                    /\ NextTarget(target) = Corrected(Reference, position + 2)
<1>1. SyncReady /\ Underway /\ target \in Int /\ rows \in Seq(SyncRows) /\ position = Len(rows)
  BY DEF AlignInv, Underway
<1>2. position \in Nat /\ Len(source[Reference]) \in Nat
  BY <1>1, RowAssumption, SampleType
<1>3. CASE request.mode = "stream"
  <2>1. NextTarget(target) = Continue(position + 2)
    BY <1>3 DEF NextTarget
  <2>2. CASE NextTarget(target) = None
    BY <2>2
  <2>3. CASE NextTarget(target) # None
    <3>1. /\ position + 2 \in 1..Len(source[Reference]) /\ ReadsTo(Reference, position + 2)
          /\ NextTarget(target) = Corrected(Reference, position + 2)
      BY <1>2, <2>1, <2>3 DEF Continue
    <3>2. NextTarget(target) \in Int
      BY <1>1, <3>1, CorrectedType, RowAssumption
    <3>3. target = Corrected(Reference, position + 1)
      BY <1>1, <1>3 DEF Underway
    <3>4. position + 2 \in 0..Len(source[Reference]) /\ position + 1 \in 1..position + 2
      BY <1>2, <3>1
    <3>5. Corrected(Reference, position + 1) <= Corrected(Reference, position + 2)
      <4>1. \A j, k \in 1..position + 2 : j <= k => Corrected(Reference, j) <= Corrected(Reference, k)
        BY <1>1, <3>1, <3>4, RowAssumption, ReadInOrder
      <4> QED BY <1>2, <3>4, <4>1
    <3> QED BY <3>1, <3>2, <3>3, <3>5
  <2> QED BY <2>2, <2>3
<1>4. CASE request.mode # "stream"
  <2>1. request.period \in Nat \ {0}
    BY <1>1, RowAssumption DEF SyncReady
  <2> QED BY <1>1, <1>4, <2>1 DEF NextTarget
<1> QED BY <1>3, <1>4

\* One row more.
LEMMA AlignRow ==
    ASSUME AlignInv, align_row
    PROVE AlignInv'
<1> DEFINE moved == [s \in Streams |->
                        IF Direct(s) THEN cursor[s] ELSE AdvanceTo(s, cursor[s], target)]
           got == [s \in Streams |->
                        IF Direct(s) THEN Whole(s, position + 1) ELSE Align(s, moved[s], target)]
           row == [timestamp |-> target, streams |-> got]
<1>1. /\ stage = "aligning" /\ target # None /\ source' = source /\ request' = request
      /\ \/ /\ rows' = Append(rows, row) /\ cursor' = moved /\ position' = position + 1
            /\ target' = NextTarget(target) /\ stage' = stage
         \/ stage' = "raised" /\ rows' = rows
  BY DEF align_row, Fail
<1> HIDE DEF moved, got, row
<1>2. SyncReady /\ Underway /\ target \in Int /\ rows \in Seq(SyncRows) /\ position = Len(rows)
  BY <1>1 DEF AlignInv, Underway
<1>3. CASE stage' = "raised" /\ rows' = rows
  BY <1>1, <1>3, RowsFrame
<1>4. CASE /\ rows' = Append(rows, row) /\ cursor' = moved /\ position' = position + 1
           /\ target' = NextTarget(target) /\ stage' = stage
  <2>1. ASSUME NEW s \in Streams, ~Direct(s)
        PROVE Found(s, moved[s], target)
    <3>1. cursor[s] \in 0..Len(source[s]) /\ \A j \in 1..cursor[s] : Corrected(s, j) <= target
      BY <1>1, <1>2, SampleType DEF Underway
    <3>2. Found(s, AdvanceTo(s, cursor[s], target), target)
      BY <1>2, <3>1, AdvanceFinds
    <3> QED BY <2>1, <3>2 DEF moved
  <2>2. ASSUME NEW s \in Streams
        PROVE /\ moved[s] \in 0..Len(source[s]) /\ \A j \in 1..moved[s] : Corrected(s, j) <= target
              /\ Len(source[s]) \in Nat
    <3>1. CASE Direct(s)
      BY <1>1, <1>2, <3>1, SampleType DEF Underway, moved
    <3>2. CASE ~Direct(s)
      BY <1>2, <2>1, <3>2, SampleType DEF Found
    <3> QED BY <3>1, <3>2
  <2>3. moved \in [Streams -> Nat]
    BY <2>2 DEF moved
  <2>4. got \in [Streams -> Payloads \union {None}]
    <3> SUFFICES ASSUME NEW s \in Streams PROVE got[s] \in Payloads \union {None}
      BY DEF got
    <3>1. CASE Direct(s)
      <4>1. s = Reference /\ request.mode = "stream"
        BY <3>1 DEF Direct
      <4>2. position + 1 \in 1..Len(source[s])
        BY <1>1, <1>2, <4>1 DEF Underway
      <4>3. got[s] = Whole(s, position + 1)
        BY <3>1 DEF got
      <4> QED BY <1>2, <4>2, <4>3, WholeType
    <3>2. CASE ~Direct(s)
      BY <1>2, <2>1, <3>2, AlignType DEF got
    <3> QED BY <3>1, <3>2
  <2>5. row \in SyncRows /\ row.timestamp = target /\ row.streams = got
    BY <1>2, <2>4 DEF row, SyncRows
  <2>6. /\ rows' \in Seq(SyncRows) /\ Len(rows') = Len(rows) + 1
        /\ rows'[Len(rows) + 1] = row /\ \A k \in 1..Len(rows) : rows'[k] = rows[k]
        /\ Len(rows) \in Nat /\ \A k \in 1..Len(rows) : rows[k] \in SyncRows
    BY <1>2, <1>4, <2>5
  <2>7. \A k \in 1..Len(rows) : rows[k].timestamp \in Int /\ rows[k].timestamp <= target
    BY <1>1, <1>2, <2>6 DEF Underway, SyncRows
  <2>8. RowsFit'
    <3> SUFFICES ASSUME NEW k \in 1..Len(rows'), NEW s \in Streams, InOrder(s)', ~Direct(s)'
                 PROVE BestFit(s, rows[k].timestamp, rows[k].streams[s])'
      BY DEF RowsFit
    <3>1. InOrder(s) /\ ~Direct(s)
      BY <1>1, StreamsFrame
    <3>2. BestFit(s, rows'[k].timestamp, rows'[k].streams[s])
      <4>1. CASE k = Len(rows) + 1
        <5>1. BestFit(s, target, Align(s, moved[s], target))
          BY <1>2, <2>1, <3>1, AlignIsBest
        <5>2. rows'[k].timestamp = target /\ rows'[k].streams[s] = Align(s, moved[s], target)
          BY <2>5, <2>6, <3>1, <4>1 DEF got
        <5> QED BY <5>1, <5>2
      <4>2. CASE k \in 1..Len(rows)
        BY <1>1, <2>6, <3>1, <4>2 DEF AlignInv, RowsFit
      <4> QED BY <2>6, <4>1, <4>2
    <3>3. PICK t, g : t = rows'[k].timestamp /\ g = rows'[k].streams[s]
      OBVIOUS
    <3>4. BestFit(s, t, g)'
      BY <1>1, <3>2, <3>3, StreamsFrame
    <3> QED BY <3>3, <3>4 DEF BestFit, NearestOfAll, BetweenNeighbours
  <2>9. RowsInOrder'
    <3> SUFFICES ASSUME NEW j \in 1..Len(rows'), NEW k \in 1..Len(rows'), j <= k
                 PROVE rows'[j].timestamp <= rows'[k].timestamp
      BY DEF RowsInOrder
    <3>1. RowsInOrder
      BY <1>1 DEF AlignInv
    <3>2. CASE k = Len(rows) + 1
      BY <1>2, <2>5, <2>6, <2>7, <3>2
    <3>3. CASE k \in 1..Len(rows)
      BY <2>6, <3>1, <3>3 DEF RowsInOrder
    <3> QED BY <2>6, <3>2, <3>3
  <2>10. Underway'
    <3>1. position' = Len(rows') /\ cursor' \in [Streams -> Nat]
          /\ \A s \in Streams : cursor'[s] <= Len(source'[s])
      BY <1>1, <1>2, <1>4, <2>2, <2>3, <2>6
    <3>2. target' \in Int \union {None}
      BY <1>1, <1>4, LaterTarget
    <3>3. ASSUME target' # None
          PROVE /\ target <= target' /\ target' \in Int
                /\ request.mode = "stream" =>
                    /\ position + 2 \in 1..Len(source[Reference]) /\ ReadsTo(Reference, position + 2)
                    /\ target' = Corrected(Reference, position + 2)
      BY <1>1, <1>4, <3>3, LaterTarget
    <3>4. ASSUME target' # None, NEW s \in Streams, NEW j \in 1..moved[s]
          PROVE Corrected(s, j)' <= target'
      <4>1. Corrected(s, j)' = Corrected(s, j)
        BY <1>1 DEF Corrected
      <4>2. j \in 1..Len(source[s])
        BY <2>2
      <4>3. Corrected(s, j) \in Int /\ Corrected(s, j) <= target
        BY <1>2, <2>2, <4>2, CorrectedType
      <4> QED BY <1>2, <3>3, <3>4, <4>1, <4>3
    <3>5. ASSUME target' # None, NEW k \in 1..Len(rows')
          PROVE rows'[k].timestamp <= target'
      BY <1>2, <2>5, <2>6, <2>7, <3>3, <3>5
    <3>6. ASSUME target' # None, request'.mode = "stream"
          PROVE /\ position' + 1 \in 1..Len(source'[Reference]) /\ ReadsTo(Reference, position + 1)'
                /\ target' = Corrected(Reference, position + 1)'
      <4>1. position' + 1 = position + 2 /\ position \in Nat
        BY <1>2, <1>4, <2>6
      <4>2. (ReadsTo(Reference, position + 2) <=> ReadsTo(Reference, position + 1)')
        BY <1>1, <4>1 DEF ReadsTo, Backward
      <4>3. Corrected(Reference, position + 2) = Corrected(Reference, position + 1)'
        BY <1>1, <4>1 DEF Corrected
      <4> QED BY <1>1, <3>3, <3>6, <4>1, <4>2, <4>3
    <3> QED BY <1>4, <3>1, <3>2, <3>4, <3>5, <3>6 DEF Underway
  <2>11. SyncReady' /\ source' \in [Streams -> Seq(Samples)]
    BY <1>1, <1>2, StreamsFrame DEF AlignInv
  <2> QED BY <1>1, <1>4, <2>6, <2>8, <2>9, <2>10, <2>11 DEF AlignInv
<1> QED BY <1>1, <1>3, <1>4

\* Every step of the stages keeps it.
LEMMA AlignStep ==
    ASSUME AlignInv, [Next]_vars
    PROVE AlignInv'
<1>1. CASE RowStage
  <2>1. RowNext
    BY <1>1 DEF RowStage
  <2> QED BY <2>1, StartAligns, OpenAligns, AlignRow, FinishAligns, CleaningKeepsRows DEF RowNext
<1>2. CASE WindowingStage \/ PackagingStage
  BY <1>2, LaterStages
<1>3. CASE UNCHANGED vars
  <2>1. /\ source' = source /\ request' = request /\ rows' = rows /\ stage' = stage
        /\ cursor' = cursor /\ target' = target /\ position' = position
    BY <1>3 DEF vars, rowVars
  <2>2. (SyncReady' <=> SyncReady) /\ (RowsFit' <=> RowsFit) /\ (RowsInOrder' <=> RowsInOrder)
    BY <2>1, StreamsFrame DEF RowsFit, RowsInOrder
  <2>3. Underway' <=> Underway
    BY <2>1 DEF Underway, Corrected, ReadsTo, Backward
  <2> QED BY <2>1, <2>2, <2>3 DEF AlignInv
<1> QED BY <1>1, <1>2, <1>3 DEF Next

\* Synchronization walks each stream once, holding one sample back and one ahead, and
\* yet every row of the artifact has of every stream that is in order what the whole of
\* it offers best: StreamCursor never has to go back, and row timestamps do not either.
THEOREM SinglePassAligns == Spec => []AlignedToTheNearest
<1>1. Init => AlignInv
  <2>1. << >> \in Seq(SyncRows) /\ [s \in Streams |-> << >>] \in [Streams -> Seq(Samples)]
    OBVIOUS
  <2> QED BY <2>1 DEF Init, RowInit, AlignInv
<1>2. AlignInv /\ [Next]_vars => AlignInv'
  BY AlignStep
<1>3. AlignInv => AlignedToTheNearest
  <2> SUFFICES ASSUME AlignInv, stage \in {"aligning", "synchronized"}
               PROVE /\ \A k \in 1..Len(rows) - 1 : rows[k].timestamp <= rows[k + 1].timestamp
                     /\ RowsFit
    BY DEF AlignedToTheNearest, RowsFit
  <2>1. Len(rows) \in Nat /\ RowsInOrder /\ RowsFit
    BY DEF AlignInv
  <2> QED BY <2>1 DEF RowsInOrder
<1> QED BY <1>1, <1>2, <1>3, PTL DEF Spec

-----------------------------------------------------------------------------
(* Cleaning.                                                               *)

Keepings == [index : Nat, row : SyncRows]
Reasons == {"MISSING_REQUIRED_STREAM", "INSUFFICIENT_MODALITY_COVERAGE",
            "ALL_OPTIONAL_STREAMS_MISSING", "DUPLICATE_ROW"}
Droppings == [index : Nat, reason : Reasons, of : Nat \union {None}]

\* Row k is one to keep: it has the streams asked for, and nothing before it repeats.
Original(k) ==
    /\ CoverageReason(rows[k]) = None
    /\ request.duplicates => \A j \in 1..k - 1 : ~SameContent(rows[j], rows[k])

\* The rows evaluated so far were kept or dropped as they should be.
Sifted ==
    /\ evaluated \in 0..Len(rows)
    /\ {kept[k].index : k \in 1..Len(kept)} = {k \in 1..evaluated : Original(k)}
    /\ {dropped[k].index : k \in 1..Len(dropped)} = {k \in 1..evaluated : ~Original(k)}
    /\ Len(kept) + Len(dropped) = evaluated
    /\ \A k \in 1..Len(kept) - 1 : kept[k].index < kept[k + 1].index
    /\ \A k \in 1..Len(kept) : kept[k].row = Redacted(rows[kept[k].index])
    /\ \A k \in 1..Len(dropped) : dropped[k].reason = "DUPLICATE_ROW" =>
        \E j \in 1..Len(kept) : kept[j].index = dropped[k].of
    /\ request.duplicates => seen = {k \in 1..evaluated : Original(k)}

\* Before cleaning nothing has been sifted.
CleanInv ==
    /\ rows \in Seq(SyncRows) /\ kept \in Seq(Keepings) /\ dropped \in Seq(Droppings)
    /\ stage \in {"idle", "opening", "aligning", "synchronized"} =>
        seen = {} /\ evaluated = 0 /\ kept = << >> /\ dropped = << >>
    /\ stage \in {"cleaning", "cleaned", "rejected"} => Sifted
    /\ stage \in {"cleaned", "rejected"} => evaluated = Len(rows)

\* Equality of fractions passes through a third one.
LEMMA SameNumberTransitive ==
    ASSUME NEW x \in (Int \union {None}) \X (Int \ {0}), NEW y \in (Int \union {None}) \X (Int \ {0}),
           NEW z \in (Int \union {None}) \X (Int \ {0}), SameNumber(x, y), SameNumber(y, z)
    PROVE SameNumber(x, z)
<1>1. /\ x[1] \in Int \union {None} /\ y[1] \in Int \union {None} /\ z[1] \in Int \union {None}
      /\ x[2] \in Int \ {0} /\ y[2] \in Int \ {0} /\ z[2] \in Int \ {0}
  OBVIOUS
<1>2. CASE None \in {x[1], y[1], z[1]}
  <2>1. x[1] = None <=> y[1] = None
    BY DEF SameNumber
  <2>2. y[1] = None <=> z[1] = None
    BY DEF SameNumber
  <2> QED BY <1>2, <2>1, <2>2 DEF SameNumber
<1>3. CASE None \notin {x[1], y[1], z[1]}
  <2>1. x[1] * y[2] = y[1] * x[2] /\ y[1] * z[2] = z[1] * y[2]
    BY <1>3 DEF SameNumber
  <2> DEFINE a == x[1]
             b == x[2]
             c == y[1]
             d == y[2]
             e == z[1]
             f == z[2]
  <2>2. /\ a \in Int /\ b \in Int /\ c \in Int /\ d \in Int /\ e \in Int /\ f \in Int
        /\ d # 0 /\ a * d = c * b /\ c * f = e * d
    BY <1>1, <1>3, <2>1
  <2> HIDE DEF a, b, c, d, e, f
  <2>3. d * (a * f) = (c * b) * f /\ (c * b) * f = (c * f) * b /\ (e * d) * b = d * (e * b)
    BY <2>2
  <2>4. d * (a * f) = d * (e * b)
    BY <2>2, <2>3
  <2>5. a * f = e * b
    <3>1. a * f \in Int /\ e * b \in Int
      BY <2>2
    <3>2. \A p, q \in Int : d * p = d * q => p = q
      BY <2>2
    <3> QED BY <2>4, <3>1, <3>2
  <2> QED BY <1>3, <2>5 DEF SameNumber, a, b, e, f
<1> QED BY <1>2, <1>3

\* canonical_row_key makes a partition of the rows.
LEMMA SameContentTransitive ==
    ASSUME NEW a \in SyncRows, NEW b \in SyncRows, NEW c \in SyncRows,
           SameContent(a, b), SameContent(b, c)
    PROVE SameContent(a, c)
<1>1. a.timestamp = c.timestamp
  BY DEF SameContent
<1> SUFFICES ASSUME NEW s \in Streams
             PROVE IF None \in {a.streams[s], c.streams[s]} THEN a.streams[s] = c.streams[s]
                   ELSE /\ SameNumber(a.streams[s].number, c.streams[s].number)
                        /\ a.streams[s].label = c.streams[s].label
  BY <1>1 DEF SameContent
<1> DEFINE x == a.streams[s]
           y == b.streams[s]
           z == c.streams[s]
<1>2. x \in Payloads \union {None} /\ y \in Payloads \union {None} /\ z \in Payloads \union {None}
  BY DEF SyncRows
<1>3. /\ IF None \in {x, y} THEN x = y ELSE SameNumber(x.number, y.number) /\ x.label = y.label
      /\ IF None \in {y, z} THEN y = z ELSE SameNumber(y.number, z.number) /\ y.label = z.label
  BY DEF SameContent
<1> HIDE DEF x, y, z
<1>4. CASE None \in {x, y, z}
  BY <1>3, <1>4 DEF x, z
<1>5. CASE None \notin {x, y, z}
  <2>1. x \in Payloads /\ y \in Payloads /\ z \in Payloads
    BY <1>2, <1>5
  <2>2. /\ x.number \in (Int \union {None}) \X (Int \ {0})
        /\ y.number \in (Int \union {None}) \X (Int \ {0})
        /\ z.number \in (Int \union {None}) \X (Int \ {0})
    BY <2>1 DEF Payloads
  <2>3. SameNumber(x.number, z.number) /\ x.label = z.label
    BY <1>3, <1>5, <2>2, SameNumberTransitive
  <2> QED BY <1>5, <2>3 DEF x, z
<1> QED BY <1>4, <1>5

\* Rows of the same content have the same streams: the rules before the duplicate rule
\* treat them alike.
LEMMA SameContentSameCoverage ==
    ASSUME NEW a \in SyncRows, NEW b \in SyncRows, SameContent(a, b)
    PROVE CoverageReason(a) = CoverageReason(b)
<1>1. \A s : Present(a, s) <=> Present(b, s)
  BY DEF Present, SameContent
<1>2. {s \in Streams : Present(a, s)} = {s \in Streams : Present(b, s)}
  BY <1>1
<1> QED BY <1>1, <1>2 DEF CoverageReason

\* What a row repeats, it repeats from a row that is kept.
LEMMA RepeatsAnOriginal ==
    ASSUME rows \in Seq(SyncRows), NEW k \in 1..Len(rows), CoverageReason(rows[k]) = None,
           NEW j \in 1..k - 1, SameContent(rows[j], rows[k]), request.duplicates
    PROVE \E i \in 1..k - 1 : Original(i) /\ SameContent(rows[i], rows[k])
<1> DEFINE T == {i \in 1..k - 1 : SameContent(rows[i], rows[k])}
<1>1. T \in SUBSET Nat /\ T # {}
  OBVIOUS
<1>2. PICK i \in T : \A n \in T : i <= n
  BY <1>1, LeastNatural
<1>3. Len(rows) \in Nat /\ i \in 1..k - 1 /\ SameContent(rows[i], rows[k])
  BY <1>2
<1>4. \A n \in 1..k : rows[n] \in SyncRows
  BY <1>3
<1>5. CoverageReason(rows[i]) = None
  BY <1>3, <1>4, SameContentSameCoverage
<1>6. ASSUME NEW n \in 1..i - 1, SameContent(rows[n], rows[i])
      PROVE FALSE
  <2>1. n \in 1..k - 1
    BY <1>3
  <2>2. SameContent(rows[n], rows[k])
    BY <1>3, <1>4, <1>6, <2>1, SameContentTransitive
  <2>3. n \in T
    BY <2>1, <2>2
  <2> QED BY <1>2, <1>3, <2>3
<1>7. Original(i)
  BY <1>5, <1>6 DEF Original
<1> QED BY <1>3, <1>7

\* What redaction leaves of a row.
LEMMA RedactedRow ==
    ASSUME NEW row \in SyncRows
    PROVE /\ Redacted(row) \in SyncRows
          /\ \A s \in Streams :
                IF s \in request.redact /\ row.streams[s] # None
                THEN /\ Redacted(row).streams[s].label = None
                     /\ Redacted(row).streams[s].number = row.streams[s].number
                ELSE Redacted(row).streams[s] = row.streams[s]
<1> DEFINE left == [s \in Streams |->
                IF s \in request.redact /\ Present(row, s)
                THEN [row.streams[s] EXCEPT !.label = None] ELSE row.streams[s]]
<1>1. row = [timestamp |-> row.timestamp, streams |-> row.streams] /\ row.timestamp \in Int
      /\ row.streams \in [Streams -> Payloads \union {None}]
  BY DEF SyncRows
<1>2. Redacted(row) = [timestamp |-> row.timestamp, streams |-> left]
  BY <1>1 DEF Redacted
<1>3. ASSUME NEW s \in Streams
      PROVE /\ left[s] \in Payloads \union {None}
            /\ IF s \in request.redact /\ row.streams[s] # None
               THEN left[s].label = None /\ left[s].number = row.streams[s].number
               ELSE left[s] = row.streams[s]
  <2>1. row.streams[s] \in Payloads \union {None}
    BY <1>1
  <2>2. ASSUME NEW p \in Payloads
        PROVE LET q == [p EXCEPT !.label = None] IN q \in Payloads /\ q.label = None /\ q.number = p.number
    BY DEF Payloads
  <2> QED BY <2>1, <2>2 DEF Present
<1>4. left \in [Streams -> Payloads \union {None}]
  BY <1>3
<1>5. [timestamp |-> row.timestamp, streams |-> left] \in SyncRows
  BY <1>1, <1>4 DEF SyncRows
<1> QED BY <1>2, <1>3, <1>5

\* What is said of a row stays true while the request stays the same.
LEMMA RowFrame ==
    ASSUME request' = request, rows' = rows
    PROVE /\ \A row : CoverageReason(row)' = CoverageReason(row)
          /\ \A row : Redacted(row)' = Redacted(row)
          /\ \A k : Original(k)' <=> Original(k)
<1>1. ASSUME NEW row PROVE CoverageReason(row)' = CoverageReason(row)
  BY DEF CoverageReason, Present
<1>2. ASSUME NEW row PROVE Redacted(row)' = Redacted(row)
  BY DEF Redacted, Present
<1>3. ASSUME NEW k PROVE Original(k)' <=> Original(k)
  BY DEF Original, SameContent, SameNumber, CoverageReason, Present
<1> QED BY <1>1, <1>2, <1>3

\* The reasons of the coverage rules are names.
LEMMA ReasonType ==
    ASSUME NEW row, CoverageReason(row) # None
    PROVE CoverageReason(row) \in Reasons /\ CoverageReason(row) # "DUPLICATE_ROW"
BY DEF CoverageReason, Reasons

\* A step that keeps everything that cleaning wrote.
LEMMA CleaningFrame ==
    ASSUME CleanInv, UNCHANGED <<request, rows, seen, evaluated, kept, dropped>>
    PROVE Sifted' <=> Sifted
<1>1. (\A row : Redacted(row)' = Redacted(row)) /\ \A k : Original(k)' <=> Original(k)
  BY RowFrame
<1>2. \A k \in 1..Len(kept) : Redacted(rows[kept[k].index])' = Redacted(rows[kept[k].index])
  BY DEF Redacted, Present
<1>3. {k \in 1..evaluated' : Original(k)'} = {k \in 1..evaluated : Original(k)}
      /\ {k \in 1..evaluated' : ~Original(k)'} = {k \in 1..evaluated : ~Original(k)}
  BY <1>1
<1>4. (\A k \in 1..Len(kept) : kept[k].row = Redacted(rows[kept[k].index]))
      <=> (\A k \in 1..Len(kept') : kept'[k].row = Redacted(rows[kept[k].index])')
  BY <1>2
<1> QED BY <1>3, <1>4 DEF Sifted

\* A row that is dropped for a reason.
LEMMA DropSifts ==
    ASSUME CleanInv, Sifted, evaluated < Len(rows), ~Original(evaluated + 1),
           UNCHANGED <<request, rows, seen, kept>>, evaluated' = evaluated + 1,
           NEW reason \in Reasons, NEW of \in Nat \union {None},
           dropped' = Append(dropped, [index |-> evaluated + 1, reason |-> reason, of |-> of]),
           reason = "DUPLICATE_ROW" => \E j \in 1..Len(kept) : kept[j].index = of
    PROVE Sifted' /\ dropped' \in Seq(Droppings)
<1> DEFINE e == evaluated + 1
           entry == [index |-> e, reason |-> reason, of |-> of]
<1>1. evaluated \in Nat /\ e \in 1..Len(rows) /\ Len(rows) \in Nat /\ 1..e = 1..evaluated \union {e}
      /\ e \notin 1..evaluated
  BY DEF CleanInv, Sifted
<1>2. entry \in Droppings /\ entry.index = e /\ entry.reason = reason /\ entry.of = of
  BY <1>1 DEF Droppings
<1> HIDE DEF entry
<1>3. /\ dropped' \in Seq(Droppings) /\ Len(dropped') = Len(dropped) + 1 /\ Len(dropped) \in Nat
      /\ dropped'[Len(dropped) + 1] = entry /\ \A k \in 1..Len(dropped) : dropped'[k] = dropped[k]
  BY <1>2 DEF CleanInv, entry
<1>4. \A k : Original(k)' <=> Original(k)
  BY RowFrame
<1>5. {dropped'[k].index : k \in 1..Len(dropped')} = {k \in 1..e : ~Original(k)}
  <2>1. {dropped'[k].index : k \in 1..Len(dropped')} = {dropped[k].index : k \in 1..Len(dropped)} \union {e}
    BY <1>2, <1>3
  <2> QED BY <1>1, <2>1 DEF Sifted
<1>6. {k \in 1..e : Original(k)} = {k \in 1..evaluated : Original(k)}
  BY <1>1
<1>7. \A k \in 1..Len(dropped') : dropped'[k].reason = "DUPLICATE_ROW" =>
        \E j \in 1..Len(kept) : kept[j].index = dropped'[k].of
  <2> SUFFICES ASSUME NEW k \in 1..Len(dropped'), dropped'[k].reason = "DUPLICATE_ROW"
               PROVE \E j \in 1..Len(kept) : kept[j].index = dropped'[k].of
    OBVIOUS
  <2>1. CASE k = Len(dropped) + 1
    BY <1>2, <1>3, <2>1
  <2>2. CASE k \in 1..Len(dropped)
    BY <1>3, <2>2 DEF Sifted
  <2> QED BY <1>3, <2>1, <2>2
<1>8. \A k \in 1..Len(kept) : kept'[k].row = Redacted(rows[kept[k].index])'
  <2>1. \A k \in 1..Len(kept) : Redacted(rows[kept[k].index])' = Redacted(rows[kept[k].index])
    BY DEF Redacted, Present
  <2> QED BY <2>1 DEF Sifted
<1>9. Len(kept) \in Nat
  BY DEF CleanInv
<1>10. Len(kept') + Len(dropped') = evaluated'
  <2>1. Len(kept) + Len(dropped) = evaluated
    BY DEF Sifted
  <2>2. Len(dropped') = Len(dropped) + 1 /\ Len(dropped) \in Nat
    BY <1>3
  <2>3. Len(kept') = Len(kept) /\ evaluated' = evaluated + 1
    BY <1>1
  <2> QED BY SMTT(30), <1>9, <2>1, <2>2, <2>3
<1>11. evaluated' \in 0..Len(rows') /\ evaluated' = e
  BY <1>1
<1>12. /\ {kept'[k].index : k \in 1..Len(kept')} = {k \in 1..evaluated' : Original(k)'}
       /\ {dropped'[k].index : k \in 1..Len(dropped')} = {k \in 1..evaluated' : ~Original(k)'}
       /\ request'.duplicates => seen' = {k \in 1..evaluated' : Original(k)'}
  BY SMTT(30), <1>4, <1>5, <1>6, <1>11 DEF Sifted
<1> HIDE DEF e
<1> QED BY SMTT(30), <1>3, <1>7, <1>8, <1>10, <1>11, <1>12 DEF Sifted

\* A row that is kept.
LEMMA KeepSifts ==
    ASSUME CleanInv, Sifted, evaluated < Len(rows), Original(evaluated + 1),
           UNCHANGED <<request, rows, dropped>>, evaluated' = evaluated + 1,
           seen' = IF request.duplicates THEN seen \union {evaluated + 1} ELSE seen,
           kept' = Append(kept, [index |-> evaluated + 1, row |-> Redacted(rows[evaluated + 1])])
    PROVE Sifted' /\ kept' \in Seq(Keepings)
<1> DEFINE e == evaluated + 1
           entry == [index |-> e, row |-> Redacted(rows[e])]
<1>1. evaluated \in Nat /\ e \in 1..Len(rows) /\ Len(rows) \in Nat /\ 1..e = 1..evaluated \union {e}
      /\ e \notin 1..evaluated /\ rows[e] \in SyncRows
  BY DEF CleanInv, Sifted
<1>2. entry \in Keepings /\ entry.index = e /\ entry.row = Redacted(rows[e])
  BY <1>1, RedactedRow DEF Keepings
<1> HIDE DEF entry
<1>3. /\ kept' \in Seq(Keepings) /\ Len(kept') = Len(kept) + 1 /\ Len(kept) \in Nat
      /\ kept'[Len(kept) + 1] = entry /\ \A k \in 1..Len(kept) : kept'[k] = kept[k]
  BY <1>2 DEF CleanInv, entry
<1>4. \A k : Original(k)' <=> Original(k)
  BY RowFrame
<1>5. {kept'[k].index : k \in 1..Len(kept')} = {k \in 1..e : Original(k)}
  <2>1. {kept'[k].index : k \in 1..Len(kept')} = {kept[k].index : k \in 1..Len(kept)} \union {e}
    BY <1>2, <1>3
  <2> QED BY <1>1, <2>1 DEF Sifted
<1>6. {k \in 1..e : ~Original(k)} = {k \in 1..evaluated : ~Original(k)}
  BY <1>1
<1>7. \A k \in 1..Len(dropped) : dropped[k].reason = "DUPLICATE_ROW" =>
        \E j \in 1..Len(kept') : kept'[j].index = dropped[k].of
  <2> SUFFICES ASSUME NEW k \in 1..Len(dropped), dropped[k].reason = "DUPLICATE_ROW"
               PROVE \E j \in 1..Len(kept') : kept'[j].index = dropped[k].of
    OBVIOUS
  <2>1. PICK j \in 1..Len(kept) : kept[j].index = dropped[k].of
    BY DEF Sifted
  <2>2. j \in 1..Len(kept') /\ kept'[j] = kept[j]
    BY <1>3
  <2> QED BY <2>1, <2>2
<1>8. \A k \in 1..Len(kept') : kept'[k].row = Redacted(rows[kept[k].index])'
  <2> SUFFICES ASSUME NEW k \in 1..Len(kept')
               PROVE kept'[k].row = Redacted(rows[kept[k].index])'
    OBVIOUS
  <2>1. Redacted(rows[kept[k].index])' = Redacted(rows[kept'[k].index])
    BY DEF Redacted, Present
  <2>2. CASE k = Len(kept) + 1
    BY <1>2, <1>3, <2>1, <2>2
  <2>3. CASE k \in 1..Len(kept)
    BY <1>3, <2>1, <2>3 DEF Sifted
  <2> QED BY <1>3, <2>2, <2>3
<1>9. \A k \in 1..Len(kept') - 1 : kept'[k].index < kept'[k + 1].index
  <2> SUFFICES ASSUME NEW k \in 1..Len(kept') - 1
               PROVE kept'[k].index < kept'[k + 1].index
    OBVIOUS
  <2>1. CASE k = Len(kept)
    <3>1. k \in 1..Len(kept) /\ kept'[k] = kept[k] /\ kept'[k + 1] = entry
      BY <1>3, <2>1
    <3>2. kept[k].index \in 1..evaluated
      BY <3>1 DEF Sifted
    <3> QED BY <1>1, <1>2, <3>1, <3>2
  <2>2. CASE k \in 1..Len(kept) - 1
    <3>1. kept'[k] = kept[k] /\ kept'[k + 1] = kept[k + 1]
      BY <1>3, <2>2
    <3> QED BY <2>2, <3>1 DEF Sifted
  <2> QED BY <1>3, <2>1, <2>2
<1>10. Len(kept') + Len(dropped') = evaluated'
  <2>1. Len(dropped) \in Nat
    BY DEF CleanInv
  <2> QED BY <1>1, <1>3, <2>1 DEF Sifted
<1>11. evaluated' \in 0..Len(rows') /\ evaluated' = e
  BY <1>1
<1>12. /\ {kept'[k].index : k \in 1..Len(kept')} = {k \in 1..evaluated' : Original(k)'}
       /\ {dropped'[k].index : k \in 1..Len(dropped')} = {k \in 1..evaluated' : ~Original(k)'}
  BY <1>4, <1>5, <1>6, <1>11 DEF Sifted
<1>13. request'.duplicates => seen' = {k \in 1..evaluated' : Original(k)'}
  <2> SUFFICES ASSUME request'.duplicates PROVE seen' = {k \in 1..evaluated' : Original(k)'}
    OBVIOUS
  <2>1. seen' = {k \in 1..evaluated : Original(k)} \union {e}
    BY DEF Sifted
  <2>2. {k \in 1..evaluated' : Original(k)'} = {k \in 1..e : Original(k)}
    BY <1>4, <1>11
  <2> QED BY <1>1, <2>1, <2>2
<1>14. \A k \in 1..Len(dropped') : dropped'[k].reason = "DUPLICATE_ROW" =>
        \E j \in 1..Len(kept') : kept'[j].index = dropped'[k].of
  BY <1>7
<1> HIDE DEF e
<1>15. Sifted'
  BY <1>8, <1>9, <1>10, <1>11, <1>12, <1>13, <1>14 DEF Sifted
<1> QED BY <1>3, <1>15

\* One row more: the rules keep it exactly if it is an original.
LEMMA EvaluateSifts ==
    ASSUME CleanInv, evaluate_row
    PROVE CleanInv'
<1> DEFINE e == evaluated + 1
           row == rows[e]
           duplicates == IF request.duplicates THEN DuplicateOf(row) ELSE {}
<1>1. /\ stage = "cleaning" /\ stage' = stage /\ evaluated < Len(rows) /\ evaluated' = e
      /\ request' = request /\ rows' = rows
      /\ \/ /\ CoverageReason(row) # None /\ seen' = seen /\ kept' = kept
            /\ dropped' = Append(dropped, [index |-> e, reason |-> CoverageReason(row), of |-> None])
         \/ /\ CoverageReason(row) = None /\ duplicates # {} /\ seen' = seen /\ kept' = kept
            /\ dropped' = Append(dropped, [index |-> e, reason |-> "DUPLICATE_ROW",
                                           of |-> CHOOSE k \in duplicates : TRUE])
         \/ /\ CoverageReason(row) = None /\ duplicates = {} /\ dropped' = dropped
            /\ seen' = IF request.duplicates THEN seen \union {e} ELSE seen
            /\ kept' = Append(kept, [index |-> e, row |-> Redacted(row)])
  BY DEF evaluate_row
<1>2. /\ Sifted /\ rows \in Seq(SyncRows) /\ kept \in Seq(Keepings) /\ dropped \in Seq(Droppings)
      /\ evaluated \in Nat /\ e \in 1..Len(rows) /\ 1..e - 1 = 1..evaluated
  BY <1>1 DEF CleanInv, Sifted
<1> HIDE DEF duplicates
<1>3. CASE CoverageReason(row) # None
  <2>1. ~Original(evaluated + 1)
    BY <1>3 DEF Original
  <2>2. CoverageReason(row) \in Reasons /\ CoverageReason(row) # "DUPLICATE_ROW"
    BY <1>3, ReasonType
  <2>3. Sifted' /\ dropped' \in Seq(Droppings)
    BY <1>1, <1>2, <1>3, <2>1, <2>2, DropSifts
  <2> QED BY <1>1, <1>2, <1>3, <2>3 DEF CleanInv
<1>4. CASE CoverageReason(row) = None /\ duplicates # {}
  <2> DEFINE of == CHOOSE k \in duplicates : TRUE
  <2>1. of \in duplicates
    BY <1>4
  <2>2. request.duplicates /\ of \in seen /\ SameContent(rows[of], row)
    BY <2>1 DEF duplicates, DuplicateOf
  <2>3. of \in 1..evaluated /\ Original(of)
    BY <1>2, <2>2 DEF Sifted
  <2>4. ~Original(evaluated + 1)
    BY <1>2, <2>2, <2>3 DEF Original
  <2>5. \E j \in 1..Len(kept) : kept[j].index = of
    BY <1>2, <2>3 DEF Sifted
  <2>6. dropped' = Append(dropped, [index |-> e, reason |-> "DUPLICATE_ROW", of |-> of])
        /\ seen' = seen /\ kept' = kept
    BY <1>1, <1>4
  <2> HIDE DEF of
  <2>7. of \in Nat
    BY <2>3
  <2>8. Sifted' /\ dropped' \in Seq(Droppings)
    <3> DEFINE reason == "DUPLICATE_ROW"
    <3>1. reason \in Reasons /\ dropped' = Append(dropped, [index |-> evaluated + 1, reason |-> reason, of |-> of])
      BY <2>6 DEF Reasons
    <3>2. of \in Nat \union {None} /\ UNCHANGED <<request, rows, seen, kept>> /\ evaluated' = evaluated + 1
      BY <1>1, <2>6, <2>7
    <3> HIDE DEF reason
    <3> QED BY <1>1, <1>2, <2>4, <2>5, <3>1, <3>2, DropSifts
  <2> QED BY <1>1, <1>2, <2>6, <2>8 DEF CleanInv
<1>5. CASE CoverageReason(row) = None /\ duplicates = {}
  <2>1. Original(evaluated + 1)
    <3> SUFFICES ASSUME request.duplicates, NEW j \in 1..e - 1, SameContent(rows[j], row)
                 PROVE FALSE
      BY <1>5 DEF Original
    <3>1. PICK i \in 1..e - 1 : Original(i) /\ SameContent(rows[i], row)
      BY <1>2, <1>5, RepeatsAnOriginal
    <3>2. i \in seen
      BY <1>2, <3>1 DEF Sifted
    <3> QED BY <1>5, <3>1, <3>2 DEF duplicates, DuplicateOf
  <2>2. Sifted' /\ kept' \in Seq(Keepings)
    BY <1>1, <1>2, <1>5, <2>1, KeepSifts
  <2> QED BY <1>1, <1>2, <1>5, <2>2 DEF CleanInv
<1> QED BY <1>1, <1>3, <1>4, <1>5

\* Every step of the stages keeps it.
LEMMA CleanStep ==
    ASSUME AlignInv, CleanInv, [Next]_vars, AlignInv'
    PROVE CleanInv'
<1>1. rows \in Seq(SyncRows) /\ rows' \in Seq(SyncRows)
  BY DEF AlignInv
<1>2. << >> \in Seq(Keepings) /\ << >> \in Seq(Droppings)
  OBVIOUS
<1>3. ASSUME UNCHANGED <<seen, evaluated, kept, dropped>>,
             stage \in {"idle", "opening", "aligning"},
             stage' \in {"opening", "aligning", "synchronized", "raised"}
      PROVE CleanInv'
  BY <1>1, <1>3 DEF CleanInv
<1>4. CASE RowStage
  <2>1. CASE \E input \in SyncInputs, config \in SyncConfigs : start_alignment(input, config)
    BY <1>3, <2>1 DEF start_alignment
  <2>2. CASE open_streams
    BY <1>3, <2>2 DEF open_streams, Fail
  <2>3. CASE align_row
    BY <1>3, <2>3 DEF align_row, Fail
  <2>4. CASE finish_alignment
    BY <1>3, <2>4 DEF finish_alignment
  <2>5. CASE \E config \in CleaningConfigs : start_cleaning(config)
    <3>1. /\ stage = "synchronized" /\ stage' = "cleaning" /\ rows' = rows
          /\ UNCHANGED <<seen, evaluated, kept, dropped>>
      BY <2>5 DEF start_cleaning
    <3>2. seen' = {} /\ evaluated' = 0 /\ kept' = << >> /\ dropped' = << >>
      BY <3>1 DEF CleanInv
    <3>3. Len(kept') = 0 /\ Len(dropped') = 0 /\ 1..0 = {} /\ 1..Len(kept') - 1 = {}
      BY <3>2
    <3>4. Len(rows') \in Nat
      BY <1>1
    <3>5. Sifted'
      BY <3>2, <3>3, <3>4 DEF Sifted
    <3> QED BY <1>1, <1>2, <3>1, <3>2, <3>5 DEF CleanInv
  <2>6. CASE evaluate_row
    BY <2>6, EvaluateSifts
  <2>7. CASE finish_cleaning
    <3>1. /\ stage = "cleaning" /\ stage' \in {"cleaned", "rejected"} /\ evaluated = Len(rows)
          /\ UNCHANGED <<request, rows, seen, evaluated, kept, dropped>>
      BY <2>7 DEF finish_cleaning
    <3>2. Sifted'
      BY <3>1, CleaningFrame DEF CleanInv
    <3> QED BY <3>1, <3>2 DEF CleanInv
  <2> QED BY <1>4, <2>1, <2>2, <2>3, <2>4, <2>5, <2>6, <2>7 DEF RowStage, RowNext
<1>5. CASE WindowingStage \/ PackagingStage
  <2>1. /\ kept' \in {kept, << >>} /\ dropped' \in {dropped, << >>}
        /\ stage' \in {"raised", "windowing", "disordered", "windowed", "package_rejected",
                       "grouping", "splitting", "leaking", "packaged"}
    <3>1. CASE WindowingStage
      BY <3>1 DEF WindowingStage, start_windowing, take_row, finish_count_windows, take_timed_row,
           close_window, finish_time_windows, Windowing, RowsIdle
    <3>2. CASE PackagingStage
      BY <3>2 DEF PackagingStage, start_packaging, group_sample, finish_grouping, assign_sequential,
           assign_by_hash, audit_and_write, RowsIdle
    <3> QED BY <1>5, <3>1, <3>2
  <2> QED BY <1>1, <1>2, <2>1 DEF CleanInv
<1>6. CASE UNCHANGED vars
  <2>1. stage' = stage /\ UNCHANGED <<request, rows, seen, evaluated, kept, dropped>>
    BY <1>6 DEF vars, rowVars
  <2> QED BY <2>1, CleaningFrame DEF CleanInv
<1> QED BY <1>4, <1>5, <1>6 DEF Next

\* Of the rows that pass the coverage rules cleaning keeps exactly the first of each
\* content, whatever the rows and the policy, and accounts for all others: the
\* duplicate index, which holds kept rows only, is enough to find every repetition.
THEOREM CleaningKeepsFirsts == Spec => []FirstOccurrencesSurvive
<1>1. Init => AlignInv /\ CleanInv
  <2>1. /\ << >> \in Seq(SyncRows) /\ << >> \in Seq(Keepings) /\ << >> \in Seq(Droppings)
        /\ [s \in Streams |-> << >>] \in [Streams -> Seq(Samples)]
    OBVIOUS
  <2> QED BY <2>1 DEF Init, RowInit, AlignInv, CleanInv
<1>2. AlignInv /\ CleanInv /\ [Next]_vars => AlignInv' /\ CleanInv'
  BY AlignStep, CleanStep
<1>3. CleanInv => FirstOccurrencesSurvive
  <2> SUFFICES ASSUME CleanInv, stage \in {"cleaned", "rejected"}
               PROVE FirstOccurrencesSurvive
    BY DEF FirstOccurrencesSurvive
  <2>1. Sifted /\ evaluated = Len(rows) /\ rows \in Seq(SyncRows) /\ kept \in Seq(Keepings)
    BY DEF CleanInv
  <2> DEFINE first == {k \in 1..Len(rows) :
                /\ CoverageReason(rows[k]) = None
                /\ request.duplicates => \A j \in 1..k - 1 : ~SameContent(rows[j], rows[k])}
  <2>2. /\ first = {k \in 1..Len(rows) : Original(k)}
        /\ 1..Len(rows) \ first = {k \in 1..Len(rows) : ~Original(k)}
    BY DEF Original
  <2> HIDE DEF first
  <2>3. /\ {kept[k].index : k \in 1..Len(kept)} = first
        /\ {dropped[k].index : k \in 1..Len(dropped)} = 1..Len(rows) \ first
    BY <2>1, <2>2 DEF Sifted
  <2>4. /\ Len(kept) + Len(dropped) = Len(rows)
        /\ \A k \in 1..Len(kept) - 1 : kept[k].index < kept[k + 1].index
        /\ \A k \in 1..Len(dropped) : dropped[k].reason = "DUPLICATE_ROW" =>
             \E j \in 1..Len(kept) : kept[j].index = dropped[k].of
    BY <2>1 DEF Sifted
  <2>5. ASSUME NEW k \in 1..Len(kept), NEW s \in Streams
        PROVE LET old == rows[kept[k].index].streams[s]
                  new == kept[k].row.streams[s]
              IN  IF s \in request.redact /\ old # None
                  THEN new.label = None /\ new.number = old.number ELSE new = old
    <3>1. kept[k].index \in 1..Len(rows) /\ kept[k].row = Redacted(rows[kept[k].index])
      BY <2>1 DEF Sifted
    <3>2. rows[kept[k].index] \in SyncRows
      BY <2>1, <3>1
    <3> QED BY <3>1, <3>2, RedactedRow
  <2> QED BY <2>3, <2>4, <2>5 DEF FirstOccurrencesSurvive, first
<1> QED BY <1>1, <1>2, <1>3, PTL DEF Spec
=============================================================================
