------------------------- MODULE SampleSplitsProofs -------------------------
(***************************************************************************)
(* Proofs about windowing and packaging (SampleSplits), for any rows that  *)
(* cleaning can leave, any window and any split configuration.             *)
(***************************************************************************)
EXTENDS RowStreamsProofs

(* Windows.                                                                *)

\* Where row k stands on the axis that the windows divide.
Place(k) == IF request.mode = "count" THEN k - 1 ELSE Relative(k)

\* The rows of window i among those read.
InWindow(i) == {k \in 1..taken : WindowStart(i) <= Place(k) /\ Place(k) < WindowEnd(i)}

\* No row to come can join window i.
Complete(i) ==
    IF request.mode = "count" THEN WindowEnd(i) <= taken
    ELSE taken > 0 /\ WindowEnd(i) <= Relative(taken)

\* The elements of S in increasing order.
Enumerates(q, S) ==
    /\ q \in Seq(Nat)
    /\ \A i, j \in 1..Len(q) : i < j => q[i] < q[j]
    /\ S = {q[i] : i \in 1..Len(q)}

WindowRequest == request \in WindowConfigs /\ request.size > 0 /\ request.stride > 0

StampsInOrder ==
    /\ stamps \in Seq(Int)
    /\ \A j, k \in 1..Len(stamps) : j <= k => stamps[j] <= stamps[k]

SampleSet == [index : Nat, rows : Seq(Nat)]

\* What has been written are windows, each with its rows, in the order of their index.
Written ==
    /\ samples \in Seq(SampleSet)
    /\ \A k \in 1..Len(samples) :
        /\ InWindow(samples[k].index) # {}
        /\ Enumerates(samples[k].rows, InWindow(samples[k].index))
    /\ \A j, k \in 1..Len(samples) : j < k => samples[j].index < samples[k].index

\* iter_count_windows: the buffer holds the rows read of window emitted, or the rows up
\* to its start are still to be skipped.
CountInv ==
    /\ emitted = Len(samples) /\ skip \in Nat
    /\ buffer \in Seq(Nat) /\ Len(buffer) < request.size
    /\ \A j \in 1..Len(buffer) : buffer[j] = WindowStart(emitted) + j
    /\ taken + skip = WindowStart(emitted) + Len(buffer)
    /\ skip > 0 => Len(buffer) = 0
    /\ \A k \in 1..Len(samples) : samples[k].index = k - 1 /\ WindowEnd(k - 1) <= taken

Closed(i) == \E k \in 1..Len(samples) : samples[k].index = i

\* iter_time_windows: a window that has rows is open or written, never both.
TimeInv ==
    /\ DOMAIN open \subseteq Nat
    /\ \A i \in DOMAIN open : Enumerates(open[i], InWindow(i))
    /\ \A i \in Nat : InWindow(i) # {} <=> i \in DOMAIN open \/ Closed(i)
    /\ \A k \in 1..Len(samples) :
        /\ \A i \in DOMAIN open : samples[k].index < i
        /\ Complete(samples[k].index) \/ (taken = Len(stamps) /\ ~request.drop_incomplete)

Keeps(i) ==
    /\ InWindow(i) # {}
    /\ \/ Complete(i)
       \/ /\ ~request.drop_incomplete
          /\ request.mode = "count" => \A j \in 0..i - 1 : Complete(j)

\* What packaging relies on: every sample has rows, in order, and the samples are in the
\* order of their first rows.
SamplesReady ==
    /\ samples \in Seq(SampleSet)
    /\ \A k \in 1..Len(samples) :
        /\ Len(samples[k].rows) > 0
        /\ \A i, j \in 1..Len(samples[k].rows) : i < j => samples[k].rows[i] < samples[k].rows[j]
    /\ \A j, k \in 1..Len(samples) : j <= k => RowStart(j) <= RowStart(k)

WindowInv ==
    /\ stage \in {"idle", "opening", "aligning", "synchronized", "cleaning", "cleaned"} =>
        /\ taken = 0 /\ buffer = << >> /\ skip = 0 /\ open = << >> /\ emitted = 0 /\ samples = << >>
    /\ stage \in {"windowing", "windowed"} =>
        WindowRequest /\ StampsInOrder /\ taken \in 0..Len(stamps) /\ Written
    /\ stage = "windowing" =>
        (request.mode = "count" => CountInv) /\ (request.mode = "time" => TimeInv)
    /\ stage = "windowed" =>
        taken = Len(stamps) /\ \A i \in Nat : Closed(i) <=> Keeps(i)
    /\ stage \in {"grouping", "splitting", "packaged", "package_rejected"} => SamplesReady
    /\ stage # "disordered"

-----------------------------------------------------------------------------

\* Multiples of the stride.
LEMMA WindowStarts ==
    ASSUME WindowRequest, NEW i \in Nat, NEW j \in Nat, i <= j
    PROVE /\ WindowStart(i) \in Int /\ WindowStart(j) \in Int
          /\ WindowEnd(i) \in Int /\ WindowEnd(j) \in Int
          /\ WindowStart(i) <= WindowStart(j)
          /\ WindowEnd(i) = WindowStart(i) + request.size
          /\ WindowEnd(j) = WindowStart(j) + request.size
          /\ i <= WindowStart(i)
          /\ WindowStart(i + 1) = WindowStart(i) + request.stride
          /\ WindowStart(0) = 0
          /\ request.size \in Nat \ {0} /\ request.stride \in Nat \ {0}
          /\ request.mode \in {"count", "time"}
<1>1. /\ request.size \in Nat \ {0} /\ request.stride \in Nat \ {0}
      /\ request.mode \in {"count", "time"}
  BY SplitAssumption DEF WindowRequest
<1> DEFINE d == request.stride
<1>2. d \in Nat \ {0} /\ WindowStart(i) = i * d /\ WindowStart(j) = j * d /\ WindowStart(0) = 0 * d
      /\ WindowStart(i + 1) = (i + 1) * d
  BY <1>1 DEF WindowStart
<1> HIDE DEF d
<1>3. i * d \in Int /\ j * d \in Int /\ 0 * d = 0 /\ (i + 1) * d = i * d + d
  BY <1>2
<1>4. i * d <= j * d
  <2>1. d * i <= d * j
    BY <1>2, TimesMonotone
  <2> QED BY <1>2, <2>1
<1>5. i <= i * d
  <2>1. i * 1 <= i * d
    BY <1>2, TimesMonotone
  <2> QED BY <2>1
<1> QED BY <1>1, <1>2, <1>3, <1>4, <1>5 DEF WindowEnd, d

\* Rows are read in the order of their places.
LEMMA PlacesInOrder ==
    ASSUME WindowRequest, StampsInOrder
    PROVE /\ Len(stamps) \in Nat
          /\ \A k \in 1..Len(stamps) : Place(k) \in Int /\ Place(k) >= 0 /\ stamps[k] \in Int
                /\ (request.mode # "count" => Place(k) = Relative(k))
          /\ \A j, k \in 1..Len(stamps) : j <= k => Place(j) <= Place(k)
<1>1. Len(stamps) \in Nat /\ \A k \in 1..Len(stamps) : stamps[k] \in Int
  BY DEF StampsInOrder
<1>2. \A k \in 1..Len(stamps) : stamps[1] <= stamps[k] /\ 1 \in 1..Len(stamps)
  BY <1>1 DEF StampsInOrder
<1>3. \A k \in 1..Len(stamps) : /\ Place(k) = IF request.mode = "count" THEN k - 1 ELSE stamps[k] - stamps[1]
                                /\ Relative(k) = stamps[k] - stamps[1]
  BY DEF Place, Relative
<1>4. \A k \in 1..Len(stamps) : /\ Place(k) \in Int /\ Place(k) >= 0 /\ stamps[k] \in Int
                                /\ (request.mode # "count" => Place(k) = Relative(k))
  BY <1>1, <1>2, <1>3
<1>5. \A j, k \in 1..Len(stamps) : j <= k => Place(j) <= Place(k)
  BY SMTT(30), <1>1, <1>2, <1>3 DEF StampsInOrder
<1> QED BY <1>4, <1>5

\* What enumerates a set has as many elements.
LEMMA EnumerationCounts ==
    ASSUME NEW q, NEW S, Enumerates(q, S)
    PROVE IsFiniteSet(S) /\ Cardinality(S) = Len(q) /\ Len(q) \in Nat /\ S \in SUBSET Nat
<1>1. /\ q \in [1..Len(q) -> S] /\ Len(q) \in Nat /\ S \in SUBSET Nat
      /\ \A i \in 1..Len(q) : q[i] \in Nat
  BY DEF Enumerates
<1>2. \A i, j \in 1..Len(q) : q[i] = q[j] => i = j
  <2> SUFFICES ASSUME NEW i \in 1..Len(q), NEW j \in 1..Len(q), q[i] = q[j], i # j
               PROVE FALSE
    OBVIOUS
  <2>1. i < j \/ j < i
    BY <1>1
  <2> QED BY <1>1, <2>1 DEF Enumerates
<1>3. \A t \in S : \E i \in 1..Len(q) : q[i] = t
  BY DEF Enumerates
<1>4. q \in Bijection(1..Len(q), S)
  BY <1>1, <1>2, <1>3 DEF Bijection, Injection, Surjection, IsInjective
<1>5. ExistsBijection(1..Len(q), S)
  BY <1>4 DEF ExistsBijection
<1>6. IsFiniteSet(1..Len(q)) /\ Cardinality(1..Len(q)) = Len(q)
  <2>1. \A n \in Nat : IsFiniteSet(1..n) /\ Cardinality(1..n) = IF 1 > n THEN 0 ELSE n - 1 + 1
    BY FS_Interval
  <2> QED BY <1>1, <2>1
<1> QED BY <1>1, <1>5, <1>6, FS_Bijection

\* The next element is the last one.
LEMMA EnumerateNext ==
    ASSUME NEW q, NEW S, Enumerates(q, S), NEW k \in Nat, \A n \in S : n < k
    PROVE Enumerates(Append(q, k), S \union {k})
<1>1. q \in Seq(Nat) /\ Len(q) \in Nat /\ \A i \in 1..Len(q) : q[i] \in S /\ q[i] \in Nat
  BY DEF Enumerates
<1> DEFINE r == Append(q, k)
<1>2. /\ r \in Seq(Nat) /\ Len(r) = Len(q) + 1 /\ r[Len(q) + 1] = k
      /\ \A i \in 1..Len(q) : r[i] = q[i]
  BY <1>1
<1> HIDE DEF r
<1>3. \A i, j \in 1..Len(r) : i < j => r[i] < r[j]
  <2> SUFFICES ASSUME NEW i \in 1..Len(r), NEW j \in 1..Len(r), i < j
               PROVE r[i] < r[j]
    OBVIOUS
  <2>1. i \in 1..Len(q)
    BY <1>1, <1>2
  <2>2. CASE j = Len(q) + 1
    BY <1>1, <1>2, <2>1, <2>2
  <2>3. CASE j \in 1..Len(q)
    BY <1>1, <1>2, <2>1, <2>3 DEF Enumerates
  <2>4. j = Len(q) + 1 \/ j \in 1..Len(q)
    BY SMTT(30), <1>1, <1>2
  <2> QED BY <2>2, <2>3, <2>4
<1>4. S \union {k} = {r[i] : i \in 1..Len(r)}
  <2>1. S = {q[i] : i \in 1..Len(q)}
    BY DEF Enumerates
  <2>2. ASSUME NEW n \in S PROVE n \in {r[i] : i \in 1..Len(r)}
    <3>1. PICK i \in 1..Len(q) : q[i] = n
      BY <2>1
    <3>2. i \in 1..Len(r) /\ r[i] = n
      BY SMTT(30), <1>1, <1>2, <3>1
    <3> QED BY <3>2
  <2>3. k \in {r[i] : i \in 1..Len(r)}
    <3>1. Len(q) + 1 \in 1..Len(r)
      BY <1>1, <1>2
    <3> QED BY <1>2, <3>1
  <2>4. ASSUME NEW i \in 1..Len(r) PROVE r[i] \in S \union {k}
    <3>1. i = Len(q) + 1 \/ i \in 1..Len(q)
      BY <1>1, <1>2
    <3> QED BY <1>1, <1>2, <3>1
  <2> QED BY <2>2, <2>3, <2>4
<1> QED BY <1>2, <1>3, <1>4 DEF Enumerates, r

\* A sequence of successive numbers.
LEMMA EnumerateRun ==
    ASSUME NEW a \in Nat, NEW q \in Seq(Nat), \A j \in 1..Len(q) : q[j] = a + j
    PROVE Enumerates(q, a + 1..a + Len(q))
<1>1. Len(q) \in Nat
  OBVIOUS
<1>2. a + 1..a + Len(q) = {q[i] : i \in 1..Len(q)}
  <2>1. ASSUME NEW n \in a + 1..a + Len(q) PROVE n \in {q[i] : i \in 1..Len(q)}
    <3>1. n - a \in 1..Len(q) /\ q[n - a] = n
      BY <1>1
    <3> QED BY <3>1
  <2>2. ASSUME NEW i \in 1..Len(q) PROVE q[i] \in a + 1..a + Len(q)
    BY <1>1
  <2>3. a + 1..a + Len(q) \subseteq {q[i] : i \in 1..Len(q)}
    BY <2>1
  <2>4. {q[i] : i \in 1..Len(q)} \subseteq a + 1..a + Len(q)
    BY <2>2
  <2> QED BY <2>3, <2>4
<1>3. \A i, j \in 1..Len(q) : i < j => q[i] < q[j]
  BY <1>1
<1> QED BY <1>2, <1>3 DEF Enumerates

\* The windows stay where they are.
LEMMA WindowFrame ==
    ASSUME request' = request, stamps' = stamps
    PROVE /\ \A i : WindowStart(i)' = WindowStart(i) /\ WindowEnd(i)' = WindowEnd(i)
          /\ \A k : Place(k)' = Place(k) /\ Relative(k)' = Relative(k)
          /\ WindowRequest' <=> WindowRequest
          /\ StampsInOrder' <=> StampsInOrder
BY DEF WindowStart, WindowEnd, Place, Relative, WindowRequest, StampsInOrder

\* And so do their rows, while no row is read.
LEMMA WindowRowsFrame ==
    ASSUME request' = request, stamps' = stamps, taken' = taken
    PROVE /\ \A i : InWindow(i)' = InWindow(i) /\ (Complete(i)' <=> Complete(i))
          /\ \A i : Keeps(i)' <=> Keeps(i)
BY DEF InWindow, Complete, Keeps, WindowStart, WindowEnd, Place, Relative

\* One more row joins the windows around its place, and none that is complete.
LEMMA GrowWindow ==
    ASSUME WindowRequest, StampsInOrder, request' = request, stamps' = stamps,
           taken \in Nat, taken < Len(stamps), taken' = taken + 1, NEW i \in Nat
    PROVE /\ InWindow(i)' = IF WindowStart(i) <= Place(taken + 1) /\ Place(taken + 1) < WindowEnd(i)
                            THEN InWindow(i) \union {taken + 1} ELSE InWindow(i)
          /\ Complete(i) => Complete(i)' /\ InWindow(i)' = InWindow(i)
<1>1. /\ Len(stamps) \in Nat /\ taken + 1 \in 1..Len(stamps)
      /\ 1..taken' = 1..taken \union {taken + 1} /\ taken \in 0..Len(stamps)
  BY PlacesInOrder
<1>2. WindowStart(i) \in Int /\ WindowEnd(i) \in Int /\ request.mode \in {"count", "time"}
  <2>1. i <= i
    OBVIOUS
  <2> QED BY <2>1, WindowStarts
<1>3. InWindow(i)' = {k \in 1..taken' : WindowStart(i) <= Place(k) /\ Place(k) < WindowEnd(i)}
  BY WindowFrame DEF InWindow
<1>4. InWindow(i)' = IF WindowStart(i) <= Place(taken + 1) /\ Place(taken + 1) < WindowEnd(i)
                     THEN InWindow(i) \union {taken + 1} ELSE InWindow(i)
  BY <1>1, <1>3 DEF InWindow
<1>5. ASSUME Complete(i) PROVE Complete(i)' /\ InWindow(i)' = InWindow(i)
  <2>1. Place(taken + 1) \in Int /\ Place(taken + 1) >= WindowEnd(i)
    <3>1. CASE request.mode = "count"
      BY <1>1, <1>2, <1>5, <3>1 DEF Place, Complete
    <3>2. CASE request.mode # "count"
      <4>1. taken \in 1..Len(stamps) /\ WindowEnd(i) <= Relative(taken)
        BY <1>1, <1>5, <3>2 DEF Complete
      <4>2. Place(taken) = Relative(taken) /\ Place(taken) <= Place(taken + 1)
            /\ Place(taken) \in Int /\ Place(taken + 1) \in Int
        BY <1>1, <3>2, <4>1, PlacesInOrder
      <4> QED BY <1>2, <4>1, <4>2
    <3> QED BY <3>1, <3>2
  <2>2. InWindow(i)' = InWindow(i)
    BY <1>2, <1>4, <2>1
  <2>3. Complete(i)'
    <3>1. CASE request.mode = "count"
      BY <1>1, <1>2, <1>5, <3>1 DEF Complete, WindowEnd, WindowStart
    <3>2. CASE request.mode # "count"
      <4>1. Place(taken + 1) = Relative(taken + 1) /\ WindowEnd(i)' = WindowEnd(i)
            /\ Relative(taken + 1) = Relative(taken)'
        BY <1>1, <3>2, PlacesInOrder, WindowFrame DEF Relative
      <4> QED BY <1>1, <1>2, <2>1, <3>2, <4>1 DEF Complete
    <3> QED BY <3>1, <3>2
  <2> QED BY <2>2, <2>3
<1> QED BY <1>4, <1>5

\* The windows of mode "count".
LEMMA CountWindow ==
    ASSUME WindowRequest, taken \in Nat, request.mode = "count", NEW i \in Nat
    PROVE InWindow(i) = {k \in 1..taken : WindowStart(i) < k /\ k <= WindowEnd(i)}
<1>1. WindowStart(i) \in Int /\ WindowEnd(i) \in Int
  BY WindowStarts
<1> QED BY <1>1 DEF InWindow, Place

\* One more sample at the end, of a window after all others.
LEMMA WriteSample ==
    ASSUME Written, \A n \in Nat : Closed(n) => InWindow(n)' = InWindow(n), NEW i \in Nat, NEW q,
           samples' = Append(samples, [index |-> i, rows |-> q]),
           Enumerates(q, InWindow(i)'), InWindow(i)' # {},
           \A k \in 1..Len(samples) : samples[k].index < i
    PROVE /\ Written' /\ Len(samples) \in Nat /\ Len(samples') = Len(samples) + 1
          /\ \A k \in 1..Len(samples) : samples'[k] = samples[k]
          /\ samples'[Len(samples) + 1].index = i
          /\ \A n : Closed(n)' <=> Closed(n) \/ n = i
<1> DEFINE entry == [index |-> i, rows |-> q]
<1>1. entry \in SampleSet /\ entry.index = i /\ entry.rows = q
  BY DEF SampleSet, Enumerates
<1> HIDE DEF entry
<1>2. /\ samples' \in Seq(SampleSet) /\ Len(samples') = Len(samples) + 1 /\ Len(samples) \in Nat
      /\ samples'[Len(samples) + 1] = entry /\ \A k \in 1..Len(samples) : samples'[k] = samples[k]
      /\ \A k \in 1..Len(samples) : samples[k] \in SampleSet
  BY <1>1 DEF Written, entry
<1>3. \A k \in 1..Len(samples') : k = Len(samples) + 1 \/ k \in 1..Len(samples)
  BY <1>2
<1> DEFINE W == [n \in Nat |-> InWindow(n)']
<1>4. \A k \in 1..Len(samples) : samples[k].index \in Nat /\ Closed(samples[k].index)
  BY <1>2 DEF SampleSet, Closed
<1>5. ASSUME NEW k \in 1..Len(samples')
      PROVE /\ W[samples'[k].index] # {} /\ Enumerates(samples'[k].rows, W[samples'[k].index])
            /\ samples'[k].index \in Nat
  <2>1. CASE k = Len(samples) + 1
    BY <1>1, <1>2, <2>1
  <2>2. CASE k \in 1..Len(samples)
    <3>1. samples'[k] = samples[k] /\ samples[k].index \in Nat /\ Closed(samples[k].index)
      BY <1>2, <1>4, <2>2
    <3>2. W[samples[k].index] = InWindow(samples[k].index)
      BY <3>1
    <3> QED BY <2>2, <3>1, <3>2 DEF Written
  <2> QED BY <1>3, <2>1, <2>2
<1>6. ASSUME NEW k \in 1..Len(samples')
      PROVE InWindow(samples[k].index)' = W[samples'[k].index]
  BY <1>5 DEF InWindow, Place, Relative, WindowStart, WindowEnd
<1> HIDE DEF W
<1>7. ASSUME NEW j \in 1..Len(samples'), NEW k \in 1..Len(samples'), j < k
      PROVE samples'[j].index < samples'[k].index
  <2>1. CASE k = Len(samples) + 1
    BY <1>1, <1>2, <1>7, <2>1
  <2>2. CASE k \in 1..Len(samples)
    <3>1. j \in 1..Len(samples) /\ samples'[j] = samples[j] /\ samples'[k] = samples[k]
      BY <1>2, <1>7, <2>2
    <3> QED BY <1>7, <2>2, <3>1 DEF Written
  <2> QED BY <1>3, <2>1, <2>2
<1>8. Written'
  <2>1. \A k \in 1..Len(samples') :
        InWindow(samples[k].index)' # {} /\ Enumerates(samples'[k].rows, InWindow(samples[k].index)')
    <3> SUFFICES ASSUME NEW k \in 1..Len(samples')
                 PROVE /\ InWindow(samples[k].index)' # {}
                       /\ Enumerates(samples'[k].rows, InWindow(samples[k].index)')
      OBVIOUS
    <3>1. InWindow(samples[k].index)' = W[samples'[k].index]
      BY <1>6
    <3> QED BY <1>5, <3>1
  <2> QED BY <1>2, <1>7, <2>1 DEF Written, Enumerates
<1>9. ASSUME NEW n PROVE Closed(n)' <=> Closed(n) \/ n = i
  <2>1. ASSUME Closed(n) PROVE Closed(n)'
    <3>1. PICK k \in 1..Len(samples) : samples[k].index = n
      BY <2>1 DEF Closed
    <3>2. k \in 1..Len(samples') /\ samples'[k].index = n
      BY <1>2, <3>1
    <3> QED BY <3>2 DEF Closed
  <2>2. n = i => Closed(n)'
    <3>1. Len(samples) + 1 \in 1..Len(samples')
      BY <1>2
    <3> QED BY <1>1, <1>2, <3>1 DEF Closed
  <2>3. ASSUME Closed(n)' PROVE Closed(n) \/ n = i
    <3>1. PICK k \in 1..Len(samples') : samples'[k].index = n
      BY <2>3 DEF Closed
    <3> QED BY <1>1, <1>2, <1>3, <3>1 DEF Closed
  <2> QED BY <2>1, <2>2, <2>3
<1> QED BY <1>1, <1>2, <1>8, <1>9

\* A row that joins none of the windows that have been written.
LEMMA WrittenFrame ==
    ASSUME Written, samples' = samples, \A n \in Nat : Closed(n) => InWindow(n)' = InWindow(n)
    PROVE Written' /\ \A n : Closed(n)' <=> Closed(n)
<1> DEFINE W == [n \in Nat |-> InWindow(n)']
<1>1. \A n : Closed(n)' <=> Closed(n)
  BY DEF Closed
<1>2. ASSUME NEW k \in 1..Len(samples')
      PROVE InWindow(samples[k].index)' = InWindow(samples[k].index)
  <2>1. samples[k] \in SampleSet
    BY DEF Written
  <2>2. samples[k].index \in Nat /\ Closed(samples[k].index)
    BY <2>1 DEF Closed, SampleSet
  <2>3. W[samples[k].index] = InWindow(samples[k].index)
    BY <2>2
  <2>4. InWindow(samples[k].index)' = W[samples'[k].index]
    BY <2>2 DEF InWindow, Place, Relative, WindowStart, WindowEnd
  <2> QED BY <2>3, <2>4
<1>3. \A k \in 1..Len(samples') :
        InWindow(samples[k].index)' # {} /\ Enumerates(samples'[k].rows, InWindow(samples[k].index)')
  BY <1>2 DEF Written
<1>4. Written'
  BY <1>3 DEF Written, Enumerates
<1> QED BY <1>1, <1>4

-----------------------------------------------------------------------------
(* Mode "count".                                                           *)

\* Rows that are in order are taken as they come.
LEMMA RowIsInOrder ==
    ASSUME StampsInOrder, NEW k \in 1..Len(stamps)
    PROVE ~OutOfOrderRow(k)
<1>1. Len(stamps) \in Nat /\ \A j \in 1..Len(stamps) : stamps[j] \in Int
  BY DEF StampsInOrder
<1>2. k > 1 => stamps[k - 1] <= stamps[k] /\ k - 1 \in 1..Len(stamps)
  BY <1>1 DEF StampsInOrder
<1> QED BY <1>1, <1>2 DEF OutOfOrderRow

\* Where iter_count_windows stands.
LEMMA CountFacts ==
    ASSUME WindowInv, Windowing("count")
    PROVE /\ stage = "windowing" /\ request.mode = "count"
          /\ WindowRequest /\ StampsInOrder /\ Written /\ CountInv
          /\ taken \in Nat /\ Len(stamps) \in Nat /\ taken <= Len(stamps)
          /\ emitted \in Nat /\ emitted = Len(samples) /\ samples \in Seq(SampleSet)
          /\ WindowStart(emitted) \in Nat /\ WindowEnd(emitted) = WindowStart(emitted) + request.size
          /\ WindowStart(emitted + 1) = WindowStart(emitted) + request.stride
          /\ request.size \in Nat \ {0} /\ request.stride \in Nat \ {0}
          /\ \A n \in Nat : Closed(n) <=> n < emitted
          /\ \A n \in Nat : Closed(n) => Complete(n)
<1>1. /\ stage = "windowing" /\ request.mode = "count"
      /\ WindowRequest /\ StampsInOrder /\ Written /\ CountInv /\ taken \in 0..Len(stamps)
  BY DEF Windowing, WindowInv
<1>2. Len(stamps) \in Nat /\ emitted = Len(samples) /\ samples \in Seq(SampleSet)
  BY <1>1 DEF StampsInOrder, CountInv, Written
<1>3. emitted \in Nat /\ emitted <= emitted
  BY <1>2
<1>4. /\ WindowStart(emitted) \in Int /\ emitted <= WindowStart(emitted)
      /\ WindowEnd(emitted) = WindowStart(emitted) + request.size
      /\ WindowStart(emitted + 1) = WindowStart(emitted) + request.stride
      /\ request.size \in Nat \ {0} /\ request.stride \in Nat \ {0}
  BY <1>1, <1>3, WindowStarts
<1>5. ASSUME NEW n \in Nat
      PROVE /\ Closed(n) <=> n < emitted
            /\ Closed(n) => Complete(n)
  <2>1. ASSUME n < emitted PROVE Closed(n) /\ WindowEnd(n) <= taken
    <3>1. n + 1 \in 1..Len(samples) /\ (n + 1) - 1 = n
      BY <1>2, <1>3, <2>1
    <3>2. samples[n + 1].index = (n + 1) - 1 /\ WindowEnd((n + 1) - 1) <= taken
      BY <1>1, <3>1 DEF CountInv
    <3> QED BY <3>1, <3>2 DEF Closed
  <2>2. ASSUME Closed(n) PROVE n < emitted
    BY <1>1, <1>2, <1>3, <2>2 DEF Closed, CountInv
  <2> QED BY <1>1, <2>1, <2>2 DEF Complete
<1> QED BY <1>1, <1>2, <1>3, <1>4, <1>5

\* A row more for a window, or between two.
LEMMA TakeRow ==
    ASSUME WindowInv, take_row
    PROVE WindowInv'
<1> DEFINE k == taken + 1
           full == Append(buffer, k)
<1>0. PICK e : e = emitted
  OBVIOUS
<1>1. /\ Windowing("count") /\ taken < Len(stamps)
      /\ UNCHANGED <<stamps, open, request>>
      /\ ~OutOfOrderRow(k) => /\ taken' = k /\ stage' = stage
            /\ IF skip > 0 THEN skip' = skip - 1 /\ UNCHANGED <<buffer, samples, emitted>>
               ELSE IF Len(full) = request.size
               THEN /\ samples' = Append(samples, [index |-> e, rows |-> full])
                    /\ emitted' = e + 1
                    /\ buffer' = SubSeq(full, Minimum(request.stride, request.size) + 1, Len(full))
                    /\ skip' = SkipAfter
               ELSE buffer' = full /\ UNCHANGED <<samples, emitted, skip>>
  BY <1>0 DEF take_row, RowsIdle
<1>2. /\ stage = "windowing" /\ request.mode = "count"
      /\ WindowRequest /\ StampsInOrder /\ Written /\ CountInv
      /\ taken \in Nat /\ Len(stamps) \in Nat /\ taken <= Len(stamps)
      /\ e \in Nat /\ e = Len(samples) /\ samples \in Seq(SampleSet)
      /\ WindowStart(e) \in Nat /\ WindowEnd(e) = WindowStart(e) + request.size
      /\ WindowStart(e + 1) = WindowStart(e) + request.stride
      /\ request.size \in Nat \ {0} /\ request.stride \in Nat \ {0}
      /\ \A n \in Nat : Closed(n) <=> n < e
      /\ \A n \in Nat : Closed(n) => Complete(n)
  BY <1>0, <1>1, CountFacts
<1>3. k \in 1..Len(stamps) /\ k \in Nat
  BY <1>1, <1>2
<1>4. ~OutOfOrderRow(k)
  BY <1>2, <1>3, RowIsInOrder
<1>5. taken' = k /\ stage' = stage
  BY <1>1, <1>4
<1>6. /\ WindowRequest' /\ StampsInOrder' /\ taken' \in 0..Len(stamps')
      /\ \A i : WindowStart(i)' = WindowStart(i) /\ WindowEnd(i)' = WindowEnd(i)
  BY <1>1, <1>2, <1>3, <1>5, WindowFrame
<1>7. \A n \in Nat : Closed(n) => InWindow(n)' = InWindow(n)
  BY <1>1, <1>2, <1>5, GrowWindow
<1>8. /\ buffer \in Seq(Nat) /\ Len(buffer) \in Nat /\ Len(buffer) < request.size /\ skip \in Nat
      /\ \A j \in 1..Len(buffer) : buffer[j] = WindowStart(e) + j
      /\ taken + skip = WindowStart(e) + Len(buffer) /\ (skip > 0 => Len(buffer) = 0)
      /\ \A n \in 1..Len(samples) : samples[n].index = n - 1 /\ WindowEnd(n - 1) <= taken
  BY SMTT(30), <1>0, <1>2 DEF CountInv
<1>9. \A n \in 1..Len(samples) : WindowEnd(n - 1)' <= taken'
  <2> SUFFICES ASSUME NEW n \in 1..Len(samples) PROVE WindowEnd(n - 1)' <= taken'
    OBVIOUS
  <2>1. WindowEnd(n - 1)' = WindowEnd(n - 1) /\ WindowEnd(n - 1) <= taken
    BY <1>6, <1>8
  <2>2. n - 1 \in Nat /\ n - 1 <= n - 1
    BY <1>2
  <2>3. WindowEnd(n - 1) \in Int
    BY <1>2, <2>2, WindowStarts
  <2> QED BY <1>2, <1>5, <2>1, <2>3
<1>10. ASSUME Written', CountInv' PROVE WindowInv'
  BY <1>1, <1>2, <1>5, <1>6, <1>10 DEF WindowInv
<1>11. CASE skip > 0
  <2>1. skip' = skip - 1 /\ UNCHANGED <<buffer, samples, emitted>>
    BY <1>1, <1>4, <1>11
  <2>2. Written'
    BY <1>2, <1>7, <2>1, WrittenFrame
  <2>3. WindowStart(emitted)' = WindowStart(e)
    BY <1>0, <1>1, <2>1 DEF WindowStart
  <2>4. /\ taken' + skip' = WindowStart(e) + Len(buffer) /\ skip' \in Nat
        /\ Len(buffer) = 0
    BY <1>2, <1>5, <1>8, <1>11, <2>1
  <2>5. CountInv'
    BY <1>0, <1>1, <1>2, <1>8, <1>9, <2>1, <2>3, <2>4 DEF CountInv
  <2> QED BY <1>10, <2>2, <2>5
<1>12. CASE skip = 0
  <2> HIDE DEF full
  <2>1. /\ full \in Seq(Nat) /\ Len(full) = Len(buffer) + 1 /\ full[Len(buffer) + 1] = k
        /\ \A j \in 1..Len(buffer) : full[j] = buffer[j]
    BY <1>3, <1>8 DEF full
  <2>2. k = WindowStart(e) + Len(full)
    BY <1>2, <1>8, <1>12, <2>1
  <2>3. \A j \in 1..Len(full) : full[j] = WindowStart(e) + j
    <3> SUFFICES ASSUME NEW j \in 1..Len(full) PROVE full[j] = WindowStart(e) + j
      OBVIOUS
    <3>1. j = Len(buffer) + 1 \/ j \in 1..Len(buffer)
      BY <1>8, <2>1
    <3> QED BY <1>8, <2>1, <2>2, <3>1
  <2>4. Len(full) <= request.size /\ Len(full) \in Nat /\ Len(full) > 0
    <3>1. request.size \in Nat /\ Len(buffer) \in Nat /\ Len(buffer) < request.size
      BY <1>2, <1>8
    <3> QED BY <2>1, <3>1
  <2>5. CASE Len(full) # request.size
    <3>1. buffer' = full /\ UNCHANGED <<samples, emitted, skip>>
      BY <1>1, <1>4, <1>12, <2>5
    <3>2. Written'
      BY <1>2, <1>7, <3>1, WrittenFrame
    <3>3. WindowStart(emitted)' = WindowStart(e)
      BY <1>0, <1>1, <3>1 DEF WindowStart
    <3>4. taken' + skip' = WindowStart(e) + Len(full) /\ Len(full) < request.size
      BY <1>2, <1>5, <1>12, <2>2, <2>4, <2>5, <3>1
    <3>5. CountInv'
      BY SMTT(30), <1>0, <1>1, <1>2, <1>8, <1>9, <1>12, <2>1, <2>3, <3>1, <3>3, <3>4 DEF CountInv
    <3> QED BY <1>10, <3>2, <3>5
  <2>6. CASE Len(full) = request.size
    <3> DEFINE m == Minimum(request.stride, request.size)
    <3>1. /\ samples' = Append(samples, [index |-> e, rows |-> full])
          /\ emitted' = e + 1 /\ skip' = SkipAfter
          /\ buffer' = SubSeq(full, m + 1, Len(full))
      BY <1>1, <1>4, <1>12, <2>6
    <3>2. /\ m \in Nat /\ m <= request.size /\ m > 0 /\ SkipAfter \in Nat
          /\ m + SkipAfter = request.stride
          /\ SkipAfter > 0 => m = request.size
      BY SMTT(30), <1>2 DEF Minimum, SkipAfter
    <3> HIDE DEF m
    <3>3. InWindow(e)' = WindowStart(e) + 1..WindowStart(e) + Len(full)
      <4>1. InWindow(e)' = {n \in 1..k : WindowStart(e) < n /\ n <= WindowEnd(e)}
        <5>1. InWindow(e)' = {n \in 1..k : WindowStart(e) <= n - 1 /\ n - 1 < WindowEnd(e)}
          BY <1>1, <1>2, <1>5, <1>6 DEF InWindow, Place, WindowStart, WindowEnd
        <5> QED BY SMTT(30), <1>2, <1>3, <5>1
      <4> QED BY SMTT(30), <1>2, <2>2, <2>4, <2>6, <4>1
    <3>4. Enumerates(full, InWindow(e)') /\ InWindow(e)' # {}
      <4>1. Enumerates(full, WindowStart(e) + 1..WindowStart(e) + Len(full))
        BY <1>2, <2>1, <2>3, EnumerateRun
      <4>2. WindowStart(e) \in Nat
        BY <1>2
      <4>3. WindowStart(e) + 1 \in WindowStart(e) + 1..WindowStart(e) + Len(full)
        BY <2>4, <4>2
      <4> QED BY <3>3, <4>1, <4>3
    <3>5. \A n \in 1..Len(samples) : samples[n].index < e
      BY SMTT(30), <1>2, <1>8
    <3>6. /\ Written' /\ Len(samples) \in Nat /\ Len(samples') = Len(samples) + 1
          /\ \A n \in 1..Len(samples) : samples'[n] = samples[n]
          /\ samples'[Len(samples) + 1].index = e
      BY <1>2, <1>7, <3>1, <3>4, <3>5, WriteSample
    <3>7. WindowStart(emitted)' = WindowStart(e) + request.stride
      BY <1>1, <1>2, <3>1 DEF WindowStart
    <3>8. /\ buffer' \in Seq(Nat) /\ Len(buffer') = Len(full) - m
          /\ \A j \in 1..Len(buffer') : buffer'[j] = full[m + j]
      <4>1. \A j \in m + 1..Len(full) : full[j] \in Nat
        BY <2>1, <2>4, <3>2
      <4>2. m + 1 \in Int /\ Len(full) \in Int
        BY <2>4, <3>2
      <4>3. /\ buffer' \in Seq(Nat)
            /\ Len(buffer') = IF m + 1 <= Len(full) THEN Len(full) - (m + 1) + 1 ELSE 0
            /\ \A j \in 1..Len(full) - (m + 1) + 1 : buffer'[j] = full[(m + 1) + j - 1]
        BY <3>1, <4>1, <4>2, SubSeqProperties
      <4>4. Len(buffer') = Len(full) - m
        BY <2>4, <2>6, <3>2, <4>3
      <4>5. \A j \in 1..Len(buffer') : (m + 1) + j - 1 = m + j /\ j \in 1..Len(full) - (m + 1) + 1
        BY <2>4, <3>2, <4>4
      <4> QED BY <4>3, <4>4, <4>5
    <3>9. ASSUME NEW j \in 1..Len(buffer') PROVE buffer'[j] = WindowStart(emitted)' + j
      <4>1. m + j \in 1..Len(full) /\ buffer'[j] = full[m + j]
        BY <2>4, <3>2, <3>8
      <4>2. buffer'[j] = WindowStart(e) + (m + j)
        BY <2>3, <4>1
      <4>3. SkipAfter = 0
        BY <2>4, <2>6, <3>2, <3>8, <3>9
      <4> QED BY <1>2, <3>2, <3>7, <4>2, <4>3
    <3>10. ASSUME NEW n \in 1..Len(samples')
           PROVE samples'[n].index = n - 1 /\ WindowEnd(n - 1)' <= taken'
      <4>1. CASE n = Len(samples) + 1
        <5>1. n - 1 = e
          BY <1>2, <3>6, <4>1
        <5>2. WindowEnd(e)' <= taken'
          BY <1>2, <1>5, <1>6, <2>2, <2>6
        <5>3. WindowEnd(e)' = WindowEnd(n - 1)'
          BY <5>1 DEF WindowEnd, WindowStart
        <5> QED BY <3>6, <4>1, <5>1, <5>2, <5>3
      <4>2. CASE n \in 1..Len(samples)
        BY <1>8, <1>9, <3>6, <4>2
      <4>3. n = Len(samples) + 1 \/ n \in 1..Len(samples)
        BY <3>6
      <4> QED BY <4>1, <4>2, <4>3
    <3>11. /\ taken' + skip' = WindowStart(emitted)' + Len(buffer')
           /\ skip' \in Nat /\ (skip' > 0 => Len(buffer') = 0)
           /\ Len(buffer') < request'.size /\ emitted' = Len(samples')
      <4>1. taken' = WindowStart(e) + request.size
        BY <1>5, <2>2, <2>6
      <4>2. Len(buffer') = request.size - m /\ WindowStart(emitted)' = WindowStart(e) + request.stride
        BY <2>6, <3>7, <3>8
      <4>3. /\ WindowStart(e) \in Nat /\ request.size \in Nat /\ request.stride \in Nat
            /\ request'.size = request.size /\ skip' = SkipAfter /\ emitted' = Len(samples')
        BY <1>1, <1>2, <3>1, <3>6
      <4>4. taken' + skip' = WindowStart(emitted)' + Len(buffer')
        BY <3>2, <4>1, <4>2, <4>3
      <4>5. skip' > 0 => Len(buffer') = 0
        BY <3>2, <4>2, <4>3
      <4>6. Len(buffer') < request'.size
        BY <3>2, <4>2, <4>3
      <4> QED BY <3>2, <4>3, <4>4, <4>5, <4>6
    <3>12. CountInv'
      BY <3>8, <3>9, <3>10, <3>11 DEF CountInv
    <3> QED BY <1>10, <3>6, <3>12
  <2> QED BY <2>5, <2>6
<1> QED BY <1>8, <1>11, <1>12

\* The rows of a window that has not ended are the last ones read.
LEMMA LastRows ==
    ASSUME NEW a \in Nat, NEW b \in Nat, NEW t \in Nat, NEW v \in Int, t = a + b, t <= v
    PROVE {n \in 1..t : a < n /\ n <= v} = a + 1..a + b
OBVIOUS

\* At the end of the rows the buffer is the only window begun and not complete.
LEMMA FinishCount ==
    ASSUME WindowInv, finish_count_windows
    PROVE WindowInv'
<1>0. PICK e : e = emitted
  OBVIOUS
<1>1. /\ Windowing("count") /\ taken = Len(stamps) /\ stage' = "windowed"
      /\ UNCHANGED <<stamps, taken, request>>
      /\ samples' = IF buffer # << >> /\ ~request.drop_incomplete
                    THEN Append(samples, [index |-> e, rows |-> buffer]) ELSE samples
  BY <1>0 DEF finish_count_windows, RowsIdle
<1>2. /\ request.mode = "count" /\ WindowRequest /\ StampsInOrder /\ Written
      /\ taken \in Nat /\ Len(stamps) \in Nat
      /\ e \in Nat /\ e = Len(samples) /\ samples \in Seq(SampleSet)
      /\ WindowStart(e) \in Nat /\ WindowEnd(e) = WindowStart(e) + request.size
      /\ request.size \in Nat \ {0}
      /\ \A n \in Nat : Closed(n) <=> n < e
      /\ \A n \in Nat : Closed(n) => Complete(n)
  BY <1>0, <1>1, CountFacts
<1>3. /\ buffer \in Seq(Nat) /\ Len(buffer) \in Nat /\ Len(buffer) < request.size /\ skip \in Nat
      /\ \A j \in 1..Len(buffer) : buffer[j] = WindowStart(e) + j
      /\ taken + skip = WindowStart(e) + Len(buffer) /\ (skip > 0 => Len(buffer) = 0)
      /\ \A n \in 1..Len(samples) : samples[n].index = n - 1
  BY SMTT(30), <1>0, <1>1, CountFacts DEF CountInv
<1>4. WindowRequest' /\ StampsInOrder' /\ taken' \in 0..Len(stamps') /\ taken' = Len(stamps')
  BY <1>1, <1>2, WindowFrame
<1>5. (\A i : InWindow(i)' = InWindow(i)) /\ \A i : Keeps(i)' <=> Keeps(i)
  BY <1>1, WindowRowsFrame
<1>6. InWindow(e) = WindowStart(e) + 1..WindowStart(e) + Len(buffer)
  <2>1. InWindow(e) = {n \in 1..taken : WindowStart(e) < n /\ n <= WindowEnd(e)}
    BY <1>2, CountWindow
  <2>2. CASE skip > 0
    <3>1. taken < WindowStart(e) + 1 /\ Len(buffer) = 0
      BY <1>2, <1>3, <2>2
    <3> QED BY <1>2, <2>1, <3>1
  <2>3. CASE skip = 0
    <3>1. /\ taken = WindowStart(e) + Len(buffer) /\ taken <= WindowEnd(e)
          /\ WindowEnd(e) \in Int
      BY <1>2, <1>3, <2>3
    <3>2. {n \in 1..taken : WindowStart(e) < n /\ n <= WindowEnd(e)}
          = WindowStart(e) + 1..WindowStart(e) + Len(buffer)
      BY <1>2, <1>3, <3>1, LastRows
    <3> QED BY <2>1, <3>2
  <2> QED BY <1>3, <2>2, <2>3
<1>7. \A n \in Nat : e <= n => ~Complete(n)
  <2> SUFFICES ASSUME NEW n \in Nat, e <= n PROVE ~(WindowEnd(n) <= taken)
    BY <1>2 DEF Complete
  <2>1. /\ WindowStart(e) <= WindowStart(n) /\ WindowStart(n) \in Int
        /\ WindowEnd(n) = WindowStart(n) + request.size
    BY <1>2, WindowStarts
  <2>2. taken <= WindowStart(e) + Len(buffer)
    BY <1>2, <1>3
  <2>3. WindowStart(e) \in Nat /\ request.size \in Nat /\ Len(buffer) < request.size /\ Len(buffer) \in Nat
    BY <1>2, <1>3
  <2> QED BY <1>2, <2>1, <2>2, <2>3
<1>8. \A n \in Nat : Keeps(n) <=> n < e \/ (n = e /\ buffer # << >> /\ ~request.drop_incomplete)
  <2> SUFFICES ASSUME NEW n \in Nat
               PROVE Keeps(n) <=> n < e \/ (n = e /\ buffer # << >> /\ ~request.drop_incomplete)
    OBVIOUS
  <2>1. CASE n < e
    <3>1. Closed(n) /\ Complete(n)
      BY <1>2, <2>1
    <3>2. InWindow(n) # {}
      BY <1>2, <3>1 DEF Closed, Written
    <3> QED BY <2>1, <3>1, <3>2 DEF Keeps
  <2>2. CASE n = e
    <3>1. \A j \in 0..n - 1 : Complete(j)
      BY <1>2, <2>2
    <3>2. ~Complete(n)
      BY <1>2, <1>7, <2>2
    <3>3. InWindow(n) # {} <=> buffer # << >>
      <4>1. buffer # << >> <=> Len(buffer) > 0
        BY <1>3
      <4>2. (WindowStart(e) + 1..WindowStart(e) + Len(buffer)) # {} <=> Len(buffer) > 0
        <5>1. Len(buffer) > 0 => WindowStart(e) + 1 \in WindowStart(e) + 1..WindowStart(e) + Len(buffer)
          BY <1>2, <1>3
        <5>2. Len(buffer) = 0 => WindowStart(e) + 1..WindowStart(e) + Len(buffer) = {}
          BY <1>2, <1>3
        <5> QED BY <1>3, <5>1, <5>2
      <4> QED BY <1>6, <2>2, <4>1, <4>2
    <3> QED BY <1>2, <2>2, <3>1, <3>2, <3>3 DEF Keeps
  <2>3. CASE n > e
    <3>1. e \in 0..n - 1 /\ ~Complete(e) /\ ~Complete(n)
      BY <1>2, <1>7, <2>3
    <3> QED BY <1>2, <2>3, <3>1 DEF Keeps
  <2> QED BY <1>2, <2>1, <2>2, <2>3
<1>9. Written' /\ \A n \in Nat : Closed(n)' <=> Keeps(n)
  <2>1. CASE buffer # << >> /\ ~request.drop_incomplete
    <3>1. Enumerates(buffer, InWindow(e)')
      BY <1>2, <1>3, <1>5, <1>6, EnumerateRun
    <3>2. InWindow(e)' # {}
      <4>1. Len(buffer) > 0
        BY <1>3, <2>1
      <4>2. WindowStart(e) + 1 \in WindowStart(e) + 1..WindowStart(e) + Len(buffer)
        BY <1>2, <1>3, <4>1
      <4> QED BY <1>5, <1>6, <4>2
    <3>3. \A n \in 1..Len(samples) : samples[n].index < e
      BY <1>2, <1>3
    <3>4. samples' = Append(samples, [index |-> e, rows |-> buffer])
      BY <1>1, <2>1
    <3>5. Written' /\ \A n : Closed(n)' <=> Closed(n) \/ n = e
      BY <1>2, <1>5, <3>1, <3>2, <3>3, <3>4, WriteSample
    <3> QED BY <1>2, <1>8, <2>1, <3>5
  <2>2. CASE ~(buffer # << >> /\ ~request.drop_incomplete)
    <3>1. Written' /\ \A n : Closed(n)' <=> Closed(n)
      BY <1>1, <1>2, <1>5, <2>2, WrittenFrame
    <3> QED BY <1>2, <1>8, <2>2, <3>1
  <2> QED BY <2>1, <2>2
<1> QED BY <1>1, <1>4, <1>5, <1>9 DEF WindowInv

-----------------------------------------------------------------------------
(* Mode "time".                                                            *)

\* _windows_for_timestamp looks far enough in both directions.
LEMMA JoinedWindows ==
    ASSUME WindowRequest, NEW rel \in Nat
    PROVE WindowsFor(rel) = {i \in Nat : WindowStart(i) <= rel /\ rel < WindowEnd(i)}
<1> DEFINE d == request.stride
           z == request.size
           high == rel \div d
           low == IF rel < z THEN 0 ELSE (rel - z) \div d
<1>1. d \in Nat \ {0} /\ z \in Nat \ {0}
  BY SplitAssumption DEF WindowRequest
<1>2. WindowsFor(rel) = {i \in low..high : WindowStart(i) <= rel /\ rel < WindowEnd(i)}
  BY DEF WindowsFor
<1>3. \A i \in Nat : WindowStart(i) = d * i /\ WindowEnd(i) = d * i + z
  BY <1>1 DEF WindowStart, WindowEnd
<1> HIDE DEF d, z
<1>4. high \in Int /\ rel < d * high + d
  <2>1. rel \div d \in Int /\ rel % d \in 0..d - 1 /\ rel = d * (rel \div d) + (rel % d)
    BY <1>1, DivMod
  <2> QED BY <1>1, <2>1
<1>5. low \in Nat /\ (low > 0 => d * low <= rel - z)
  <2>1. CASE rel < z
    BY <2>1
  <2>2. CASE ~(rel < z)
    <3> DEFINE n == rel - z
    <3>1. n \in Nat /\ low = n \div d
      BY <1>1, <2>2
    <3> HIDE DEF n, low
    <3>2. n \div d \in Int /\ n % d \in 0..d - 1 /\ n = d * (n \div d) + (n % d)
      BY <1>1, <3>1, DivMod
    <3>3. d * low <= n /\ low \in Int
      BY <1>1, <3>1, <3>2
    <3>4. low >= 0
      <4> SUFFICES ASSUME low < 0 PROVE FALSE
        BY <3>3
      <4>1. low + 1 <= 0 /\ low + 1 \in Int
        BY <3>3
      <4>2. d * (low + 1) <= d * 0
        BY <1>1, <4>1, TimesMonotone
      <4>3. d * (low + 1) = d * low + d
        BY <1>1, <3>3
      <4>4. n < d * low + d
        BY <1>1, <3>1, <3>2
      <4>5. d * low \in Int
        BY <1>1, <3>3
      <4> QED BY <1>1, <3>1, <4>2, <4>3, <4>4, <4>5
    <3> QED BY <3>3, <3>4 DEF n
  <2> QED BY <2>1, <2>2
<1> HIDE DEF high, low
<1>6. ASSUME NEW i \in Nat, WindowStart(i) <= rel, rel < WindowEnd(i)
      PROVE i \in low..high
  <2>1. d * i <= rel /\ rel < d * i + z /\ d * i \in Int
    BY <1>1, <1>3, <1>6
  <2>2. i <= high
    <3> SUFFICES ASSUME high + 1 <= i PROVE FALSE
      BY <1>4
    <3>1. d * (high + 1) <= d * i
      BY <1>1, <1>4, TimesMonotone
    <3>2. d * (high + 1) = d * high + d /\ d * high \in Int
      BY <1>1, <1>4
    <3> QED BY <1>1, <1>4, <2>1, <3>1, <3>2
  <2>3. low <= i
    <3> SUFFICES ASSUME i <= low, low > 0 PROVE FALSE
      BY <1>5
    <3>1. d * i <= d * low /\ d * low \in Int
      BY <1>1, <1>5, TimesMonotone
    <3> QED BY <1>1, <1>5, <2>1, <3>1
  <2> QED BY <1>4, <1>5, <2>2, <2>3
<1>7. low..high \subseteq Nat
  BY <1>4, <1>5
<1> QED BY <1>2, <1>6, <1>7

\* Where iter_time_windows stands.
LEMMA TimeFacts ==
    ASSUME WindowInv, Windowing("time")
    PROVE /\ stage = "windowing" /\ request.mode = "time"
          /\ WindowRequest /\ StampsInOrder /\ Written /\ TimeInv
          /\ taken \in Nat /\ Len(stamps) \in Nat /\ taken <= Len(stamps)
          /\ samples \in Seq(SampleSet)
          /\ \A k \in 1..Len(samples) : samples[k].index \in Nat /\ Closed(samples[k].index)
          /\ \A n : Closed(n) => n \in Nat /\ (Complete(n) \/ (taken = Len(stamps) /\ ~request.drop_incomplete))
<1>1. /\ stage = "windowing" /\ request.mode = "time"
      /\ WindowRequest /\ StampsInOrder /\ Written /\ TimeInv /\ taken \in 0..Len(stamps)
  BY DEF Windowing, WindowInv
<1>2. Len(stamps) \in Nat /\ samples \in Seq(SampleSet)
  BY <1>1 DEF StampsInOrder, Written
<1>3. \A k \in 1..Len(samples) : samples[k].index \in Nat /\ Closed(samples[k].index)
  <2> SUFFICES ASSUME NEW k \in 1..Len(samples) PROVE samples[k].index \in Nat /\ Closed(samples[k].index)
    OBVIOUS
  <2>1. samples[k] \in SampleSet
    BY <1>2
  <2> QED BY <2>1 DEF SampleSet, Closed
<1>4. \A n : Closed(n) => n \in Nat /\ (Complete(n) \/ (taken = Len(stamps) /\ ~request.drop_incomplete))
  BY <1>1, <1>3 DEF Closed, TimeInv
<1> QED BY <1>1, <1>2, <1>3, <1>4

\* A row joins the windows around it.
LEMMA TakeTimedRow ==
    ASSUME WindowInv, take_timed_row
    PROVE WindowInv'
<1>0. PICK k : k = taken + 1
  OBVIOUS
<1> DEFINE joined == WindowsFor(Relative(k))
<1>1. /\ Windowing("time") /\ taken < Len(stamps)
      /\ UNCHANGED <<stamps, samples, request>>
      /\ ~OutOfOrderRow(k) => /\ taken' = k /\ stage' = stage
            /\ open' = [i \in DOMAIN open \union joined |->
                        IF i \notin DOMAIN open THEN <<k>>
                        ELSE IF i \in joined THEN Append(open[i], k) ELSE open[i]]
  BY <1>0 DEF take_timed_row, RowsIdle
<1>2. /\ stage = "windowing" /\ request.mode = "time"
      /\ WindowRequest /\ StampsInOrder /\ Written /\ TimeInv
      /\ taken \in Nat /\ Len(stamps) \in Nat /\ taken <= Len(stamps)
      /\ samples \in Seq(SampleSet)
      /\ \A n \in 1..Len(samples) : samples[n].index \in Nat /\ Closed(samples[n].index)
      /\ \A n : Closed(n) => n \in Nat /\ Complete(n)
  BY <1>1, TimeFacts
<1>3. k \in 1..Len(stamps) /\ k \in Nat
  BY <1>0, <1>1, <1>2
<1>4. ~OutOfOrderRow(k)
  BY <1>2, <1>3, RowIsInOrder
<1>5. /\ taken' = k /\ stage' = stage
      /\ open' = [i \in DOMAIN open \union joined |->
                    IF i \notin DOMAIN open THEN <<k>>
                    ELSE IF i \in joined THEN Append(open[i], k) ELSE open[i]]
  BY <1>1, <1>4
<1>6. WindowRequest' /\ StampsInOrder' /\ taken' \in 0..Len(stamps')
  BY <1>1, <1>2, <1>3, <1>5, WindowFrame
<1>7. Place(k) = Relative(k) /\ Relative(k) \in Nat
  BY <1>2, <1>3, PlacesInOrder
<1>8. joined = {i \in Nat : WindowStart(i) <= Place(k) /\ Place(k) < WindowEnd(i)}
  BY <1>2, <1>7, JoinedWindows
<1> HIDE DEF joined
<1>9. ASSUME NEW i \in Nat
      PROVE /\ InWindow(i)' = IF i \in joined THEN InWindow(i) \union {k} ELSE InWindow(i)
            /\ Complete(i) => Complete(i)' /\ InWindow(i)' = InWindow(i)
            /\ \A n \in InWindow(i) : n < k
  <2>1. /\ InWindow(i)' = IF WindowStart(i) <= Place(k) /\ Place(k) < WindowEnd(i)
                          THEN InWindow(i) \union {k} ELSE InWindow(i)
        /\ Complete(i) => Complete(i)' /\ InWindow(i)' = InWindow(i)
    BY <1>0, <1>1, <1>2, <1>5, GrowWindow
  <2>2. \A n \in InWindow(i) : n < k
    BY <1>0, <1>2 DEF InWindow
  <2> QED BY <1>8, <2>1, <2>2
<1>10. \A i \in joined : ~Closed(i)
  <2> SUFFICES ASSUME NEW i \in joined, Closed(i) PROVE FALSE
    OBVIOUS
  <2>1. i \in Nat /\ InWindow(i)' = InWindow(i) /\ k \in InWindow(i)' /\ k \notin InWindow(i)
    BY <1>2, <1>3, <1>9
  <2> QED BY <2>1
<1>11. Written' /\ \A n : Closed(n)' <=> Closed(n)
  BY <1>1, <1>2, <1>9, WrittenFrame
<1>12. DOMAIN open' = DOMAIN open \union joined /\ DOMAIN open' \subseteq Nat /\ DOMAIN open \subseteq Nat
  BY <1>2, <1>5, <1>8 DEF TimeInv
<1>13. ASSUME NEW i \in DOMAIN open' PROVE Enumerates(open'[i], InWindow(i)')
  <2>1. i \in Nat
    BY <1>12
  <2>2. CASE i \notin DOMAIN open
    <3>1. i \in joined /\ open'[i] = <<k>> /\ ~Closed(i)
      BY <1>5, <1>10, <1>12, <2>2
    <3>2. InWindow(i) = {}
      BY <1>2, <2>1, <2>2, <3>1 DEF TimeInv
    <3>3. InWindow(i)' = {k}
      BY <1>9, <2>1, <3>1, <3>2
    <3>4. Enumerates(<<k>>, {k})
      BY <1>3 DEF Enumerates
    <3> QED BY <3>1, <3>3, <3>4
  <2>3. CASE i \in DOMAIN open /\ i \in joined
    <3>1. open'[i] = Append(open[i], k) /\ InWindow(i)' = InWindow(i) \union {k}
      BY <1>5, <1>9, <1>12, <2>1, <2>3
    <3>2. Enumerates(open[i], InWindow(i)) /\ \A n \in InWindow(i) : n < k
      BY <1>2, <1>9, <2>1, <2>3 DEF TimeInv
    <3>3. Enumerates(Append(open[i], k), InWindow(i) \union {k})
      BY <1>3, <3>2, EnumerateNext
    <3> QED BY <3>1, <3>3
  <2>4. CASE i \in DOMAIN open /\ i \notin joined
    BY <1>2, <1>5, <1>9, <1>12, <2>1, <2>4 DEF TimeInv
  <2> QED BY <2>2, <2>3, <2>4
<1>14. ASSUME NEW i \in Nat PROVE InWindow(i)' # {} <=> i \in DOMAIN open' \/ Closed(i)'
  <2>1. InWindow(i) # {} <=> i \in DOMAIN open \/ Closed(i)
    BY <1>2 DEF TimeInv
  <2> QED BY <1>9, <1>11, <1>12, <2>1
<1>15. ASSUME NEW n \in 1..Len(samples')
       PROVE \A i \in DOMAIN open' : samples'[n].index < i
  <2> DEFINE c == samples[n].index
  <2>1. c \in Nat /\ Closed(c) /\ Complete(c) /\ samples'[n].index = c
    BY <1>1, <1>2
  <2> HIDE DEF c
  <2>2. taken \in 1..Len(stamps) /\ WindowEnd(c) <= Relative(taken)
    BY <1>2, <2>1 DEF Complete
  <2>3. Relative(taken) <= Relative(k) /\ Relative(taken) \in Int
    <3>1. taken <= k
      BY <1>0, <1>2
    <3>2. Place(taken) <= Place(k) /\ Place(taken) = Relative(taken) /\ Place(taken) \in Int
      BY <1>2, <1>3, <2>2, <3>1, PlacesInOrder
    <3> QED BY <1>7, <3>2
  <2>4. ASSUME NEW i \in joined PROVE c < i
    <3>1. i \in Nat /\ Relative(k) < WindowEnd(i)
      BY <1>7, <1>8
    <3> SUFFICES ASSUME i <= c PROVE FALSE
      BY <2>1, <3>1
    <3>2. WindowStart(i) <= WindowStart(c) /\ WindowStart(i) \in Int /\ WindowStart(c) \in Int
          /\ WindowEnd(i) = WindowStart(i) + request.size /\ WindowEnd(c) = WindowStart(c) + request.size
          /\ request.size \in Nat
      BY <1>2, <2>1, <3>1, WindowStarts
    <3>3. WindowEnd(i) <= WindowEnd(c) /\ WindowEnd(i) \in Int /\ WindowEnd(c) \in Int
      BY <3>2
    <3> QED BY <1>7, <2>2, <2>3, <3>1, <3>3
  <2>5. \A i \in DOMAIN open : c < i
    BY <1>1, <1>2 DEF TimeInv, c
  <2> QED BY <1>12, <2>1, <2>4, <2>5
<1>16. ASSUME NEW n \in 1..Len(samples') PROVE Complete(samples[n].index)'
  <2> DEFINE C == [i \in Nat |-> Complete(i)']
  <2>1. samples[n].index \in Nat /\ Complete(samples[n].index) /\ samples' = samples
    BY <1>1, <1>2
  <2>2. C[samples[n].index]
    BY <1>9, <2>1
  <2>3. C[samples[n].index] <=> Complete(samples[n].index)'
    BY <2>1 DEF Complete, WindowEnd, WindowStart, Relative
  <2> QED BY <2>2, <2>3
<1>17. TimeInv'
  BY <1>12, <1>13, <1>14, <1>15, <1>16 DEF TimeInv, Enumerates
<1> QED BY <1>1, <1>2, <1>5, <1>6, <1>11, <1>17 DEF WindowInv

\* A window is written, the first of those that are open.
LEMMA CloseWindow ==
    ASSUME WindowInv, NEW i \in DOMAIN open, close_window(i)
    PROVE WindowInv'
<1>1. /\ Windowing("time") /\ ClosesNext(i)
      /\ samples' = Append(samples, [index |-> i, rows |-> open[i]])
      /\ open' = [j \in DOMAIN open \ {i} |-> open[j]]
      /\ UNCHANGED <<stage, stamps, taken, request>>
  BY DEF close_window, RowsIdle
<1>2. /\ stage = "windowing" /\ request.mode = "time"
      /\ WindowRequest /\ StampsInOrder /\ Written /\ TimeInv
      /\ taken \in Nat /\ Len(stamps) \in Nat /\ taken <= Len(stamps)
      /\ samples \in Seq(SampleSet)
      /\ \A k \in 1..Len(samples) : samples[k].index \in Nat
  BY <1>1, TimeFacts
<1>3. WindowRequest' /\ StampsInOrder' /\ taken' \in 0..Len(stamps')
  BY <1>1, <1>2, WindowFrame
<1>4. \A n : InWindow(n)' = InWindow(n) /\ (Complete(n)' <=> Complete(n))
  BY <1>1, WindowRowsFrame
<1>5. /\ i \in Nat /\ Enumerates(open[i], InWindow(i)) /\ InWindow(i) # {}
      /\ \A k \in 1..Len(samples) : samples[k].index < i
      /\ DOMAIN open \subseteq Nat
  BY <1>2 DEF TimeInv
<1>6. /\ Written' /\ Len(samples) \in Nat /\ Len(samples') = Len(samples) + 1
      /\ \A k \in 1..Len(samples) : samples'[k] = samples[k]
      /\ samples'[Len(samples) + 1].index = i
      /\ \A n : Closed(n)' <=> Closed(n) \/ n = i
  <2>1. Enumerates(open[i], InWindow(i)') /\ InWindow(i)' # {}
    BY <1>4, <1>5
  <2>2. \A n \in Nat : Closed(n) => InWindow(n)' = InWindow(n)
    BY <1>4
  <2> DEFINE q == open[i]
  <2>3. samples' = Append(samples, [index |-> i, rows |-> q]) /\ Enumerates(q, InWindow(i)')
    BY <1>1, <2>1
  <2> HIDE DEF q
  <2> QED BY <1>2, <1>5, <2>1, <2>2, <2>3, WriteSample
<1>7. DOMAIN open' = DOMAIN open \ {i} /\ DOMAIN open' \subseteq Nat
  BY <1>1, <1>5
<1>8. ASSUME NEW j \in DOMAIN open' PROVE Enumerates(open'[j], InWindow(j)')
  BY <1>1, <1>2, <1>4, <1>7 DEF TimeInv
<1>9. ASSUME NEW n \in Nat PROVE InWindow(n)' # {} <=> n \in DOMAIN open' \/ Closed(n)'
  <2>1. InWindow(n) # {} <=> n \in DOMAIN open \/ Closed(n)
    BY <1>2 DEF TimeInv
  <2> QED BY <1>4, <1>6, <1>7, <2>1
<1>10. Complete(i) \/ (taken = Len(stamps) /\ ~request.drop_incomplete)
  BY <1>1, <1>2 DEF ClosesNext, Closeable, Complete
<1>11. ASSUME NEW k \in 1..Len(samples')
       PROVE /\ \A j \in DOMAIN open' : samples'[k].index < j
             /\ Complete(samples[k].index)' \/ (taken' = Len(stamps') /\ ~request'.drop_incomplete)
  <2>1. Complete(samples[k].index)' <=> Complete(samples'[k].index)
    BY <1>1 DEF Complete, WindowEnd, WindowStart, Relative
  <2>2. CASE k = Len(samples) + 1
    <3>1. \A j \in DOMAIN open' : i < j
      BY <1>1, <1>5, <1>7 DEF ClosesNext
    <3> QED BY <1>1, <1>6, <1>10, <2>1, <2>2, <3>1
  <2>3. CASE k \in 1..Len(samples)
    <3>1. samples'[k] = samples[k]
      BY <1>6, <2>3
    <3>2. /\ \A j \in DOMAIN open : samples[k].index < j
          /\ Complete(samples[k].index) \/ (taken = Len(stamps) /\ ~request.drop_incomplete)
      BY <1>2, <2>3 DEF TimeInv
    <3> QED BY <1>1, <1>7, <2>1, <3>1, <3>2
  <2>4. k = Len(samples) + 1 \/ k \in 1..Len(samples)
    BY <1>6
  <2> QED BY <2>2, <2>3, <2>4
<1>12. TimeInv'
  <2>1. \A k \in 1..Len(samples') :
            /\ \A j \in DOMAIN open' : samples'[k].index < j
            /\ Complete(samples[k].index)' \/ (taken' = Len(stamps') /\ ~request'.drop_incomplete)
    BY <1>11
  <2> QED BY <1>7, <1>8, <1>9, <2>1 DEF TimeInv, Enumerates
<1> QED BY <1>1, <1>2, <1>3, <1>6, <1>12 DEF WindowInv

\* At the end of the rows every window that should be kept has been written.
LEMMA FinishTime ==
    ASSUME WindowInv, finish_time_windows
    PROVE WindowInv'
<1>1. /\ Windowing("time") /\ taken = Len(stamps) /\ stage' = "windowed"
      /\ \A i \in DOMAIN open : ~ClosesNext(i)
      /\ UNCHANGED <<stamps, taken, request, samples>>
  BY DEF finish_time_windows, RowsIdle
<1>2. /\ request.mode = "time" /\ WindowRequest /\ StampsInOrder /\ Written /\ TimeInv
      /\ taken \in Nat /\ Len(stamps) \in Nat
      /\ \A n : Closed(n) => n \in Nat /\ (Complete(n) \/ ~request.drop_incomplete)
  BY <1>1, TimeFacts
<1>3. WindowRequest' /\ StampsInOrder' /\ taken' \in 0..Len(stamps') /\ taken' = Len(stamps')
  BY <1>1, <1>2, WindowFrame
<1>4. (\A i : InWindow(i)' = InWindow(i)) /\ \A i : Keeps(i)' <=> Keeps(i)
  BY <1>1, WindowRowsFrame
<1>5. Written' /\ \A n : Closed(n)' <=> Closed(n)
  BY <1>1, <1>2, <1>4, WrittenFrame
<1>6. \A i \in DOMAIN open : ~Complete(i) /\ request.drop_incomplete
  <2> SUFFICES ASSUME DOMAIN open # {}
               PROVE \A i \in DOMAIN open : ~Complete(i) /\ request.drop_incomplete
    OBVIOUS
  <2>1. DOMAIN open \in SUBSET Nat
    BY <1>2 DEF TimeInv
  <2>2. PICK m \in DOMAIN open : \A n \in DOMAIN open : m <= n
    BY <2>1, LeastNatural
  <2>3. m \notin Closeable /\ request.drop_incomplete
    BY <1>1, <2>2 DEF ClosesNext
  <2>4. ASSUME NEW i \in DOMAIN open, Complete(i) PROVE FALSE
    <3>1. taken > 0 /\ WindowEnd(i) <= Relative(taken)
      BY <1>2, <2>4 DEF Complete
    <3>2. taken \in 1..Len(stamps) /\ Place(taken) = Relative(taken) /\ Place(taken) \in Int
      BY <1>1, <1>2, <3>1, PlacesInOrder
    <3>3. m \in Nat /\ i \in Nat /\ m <= i
      BY <2>1, <2>2
    <3>4. WindowStart(m) <= WindowStart(i) /\ WindowStart(m) \in Int /\ WindowStart(i) \in Int
          /\ WindowEnd(m) = WindowStart(m) + request.size /\ WindowEnd(i) = WindowStart(i) + request.size
          /\ request.size \in Nat
      BY <1>2, <3>3, WindowStarts
    <3>5. WindowEnd(m) <= Relative(taken)
      BY <3>1, <3>2, <3>4
    <3> QED BY <2>2, <2>3, <3>1, <3>5 DEF Closeable
  <2> QED BY <2>3, <2>4
<1>7. \A n \in Nat : Closed(n) <=> Keeps(n)
  <2> SUFFICES ASSUME NEW n \in Nat PROVE Closed(n) <=> Keeps(n)
    OBVIOUS
  <2>1. InWindow(n) # {} <=> n \in DOMAIN open \/ Closed(n)
    BY <1>2 DEF TimeInv
  <2>2. Keeps(n) <=> InWindow(n) # {} /\ (Complete(n) \/ ~request.drop_incomplete)
    BY <1>2 DEF Keeps
  <2> QED BY <1>2, <1>6, <2>1, <2>2
<1> QED BY <1>1, <1>3, <1>4, <1>5, <1>7 DEF WindowInv

-----------------------------------------------------------------------------
(* The stage as a whole.                                                   *)

\* Windows read the rows that cleaning kept, in their order.
LEMMA StartWindows ==
    ASSUME AlignInv, CleanInv, WindowInv, NEW config \in WindowConfigs, start_windowing(config)
    PROVE WindowInv'
<1>1. /\ stage = "cleaned" /\ request' = config
      /\ stage' = IF config.size > 0 /\ config.stride > 0 THEN "windowing" ELSE "raised"
      /\ stamps' = [k \in 1..Len(kept) |-> kept[k].row.timestamp]
      /\ UNCHANGED <<taken, buffer, skip, open, emitted, samples>>
  BY DEF start_windowing
<1>2. CASE stage' = "raised"
  BY <1>2 DEF WindowInv
<1>3. CASE stage' = "windowing"
  <2>1. taken' = 0 /\ buffer' = << >> /\ skip' = 0 /\ open' = << >> /\ emitted' = 0 /\ samples' = << >>
    BY <1>1 DEF WindowInv
  <2>2. WindowRequest'
    BY <1>1, <1>3 DEF WindowRequest
  <2>3. /\ rows \in Seq(SyncRows) /\ kept \in Seq(Keepings) /\ Sifted /\ RowsInOrder
        /\ evaluated = Len(rows)
    BY <1>1 DEF AlignInv, CleanInv
  <2> DEFINE n == Len(kept)
             f == [k \in 1..n |-> kept[k].index]
  <2>4. n \in Nat /\ \A k \in 1..n : f[k] \in 1..Len(rows)
    BY <2>3 DEF Sifted
  <2>5. \A j, k \in 1..n : j <= k => f[j] <= f[k]
    <3>1. \A k \in 1..n : f[k] \in Int
      BY <2>4
    <3>2. \A k \in 2..n : f[k - 1] <= f[k]
      <4> SUFFICES ASSUME NEW k \in 2..n PROVE f[k - 1] <= f[k]
        OBVIOUS
      <4>1. k - 1 \in 1..n - 1 /\ k - 1 \in 1..n /\ k \in 1..n /\ (k - 1) + 1 = k
        BY <2>4
      <4>2. kept[k - 1].index < kept[(k - 1) + 1].index
        BY <2>3, <4>1 DEF Sifted
      <4> QED BY <3>1, <4>1, <4>2
    <3> HIDE DEF n, f
    <3> QED BY <2>4, <3>1, <3>2, Sorted
  <2>6. ASSUME NEW k \in 1..n
        PROVE /\ kept[k].row.timestamp = rows[f[k]].timestamp
              /\ rows[f[k]].timestamp \in Int
    <3>1. kept[k].row = Redacted(rows[f[k]])
      BY <2>3 DEF Sifted
    <3>2. rows[f[k]] \in SyncRows
      BY <2>3, <2>4
    <3>3. Redacted(rows[f[k]]).timestamp = rows[f[k]].timestamp
      BY <3>2 DEF Redacted, SyncRows
    <3> QED BY <3>1, <3>2, <3>3 DEF SyncRows
  <2>7. stamps' \in Seq(Int) /\ Len(stamps') = n /\ \A k \in 1..n : stamps'[k] = rows[f[k]].timestamp
    <3>1. \A k \in 1..n : kept[k].row.timestamp \in Int
      BY <2>6
    <3> QED BY <1>1, <2>4, <2>6, <3>1, IsASeq
  <2>8. StampsInOrder'
    <3>1. ASSUME NEW j \in 1..n, NEW k \in 1..n, j <= k PROVE stamps'[j] <= stamps'[k]
      <4>1. f[j] <= f[k] /\ f[j] \in 1..Len(rows) /\ f[k] \in 1..Len(rows)
        BY <2>4, <2>5, <3>1
      <4>2. rows[f[j]].timestamp <= rows[f[k]].timestamp
        BY <2>3, <4>1 DEF RowsInOrder
      <4> QED BY <2>7, <4>2
    <3> QED BY <2>7, <3>1 DEF StampsInOrder
  <2>9. Len(samples') = 0 /\ 1..Len(samples') = {} /\ samples' \in Seq(SampleSet) /\ buffer' \in Seq(Nat)
        /\ Len(buffer') = 0 /\ 1..Len(buffer') = {} /\ 1..taken' = {} /\ taken' \in 0..Len(stamps')
        /\ DOMAIN open' = {}
    BY <2>1, <2>4, <2>7
  <2>10. Written' /\ \A i : ~Closed(i)'
    BY <2>9 DEF Written, Closed
  <2>11. CountInv'
    <3>1. WindowStart(0)' = 0 /\ request'.size > 0 /\ request'.size \in Int
      BY <1>1, <2>2, SplitAssumption DEF WindowStart, WindowRequest
    <3>2. WindowStart(emitted)' = 0
      BY <2>1, <3>1 DEF WindowStart
    <3> QED BY <2>1, <2>9, <3>1, <3>2 DEF CountInv
  <2>12. TimeInv'
    <3>1. \A i : InWindow(i)' = {}
      BY <2>9 DEF InWindow
    <3> QED BY <2>9, <2>10, <3>1 DEF TimeInv
  <2> QED BY <1>1, <1>3, <2>2, <2>8, <2>9, <2>10, <2>11, <2>12 DEF WindowInv
<1> QED BY <1>1, <1>2, <1>3

\* The windows come in the order of their first rows, and every one has rows.
LEMMA WindowsInOrder ==
    ASSUME WindowRequest, StampsInOrder, taken \in 0..Len(stamps), Written
    PROVE SamplesReady
<1>1. samples \in Seq(SampleSet) /\ Len(samples) \in Nat /\ taken \in Nat /\ Len(stamps) \in Nat
  BY PlacesInOrder DEF Written
<1>2. ASSUME NEW k \in 1..Len(samples)
      PROVE /\ samples[k].index \in Nat
            /\ Len(samples[k].rows) > 0 /\ RowStart(k) \in InWindow(samples[k].index)
            /\ \A n \in InWindow(samples[k].index) : RowStart(k) <= n
            /\ \A i, j \in 1..Len(samples[k].rows) : i < j => samples[k].rows[i] < samples[k].rows[j]
  <2> DEFINE q == samples[k].rows
             S == InWindow(samples[k].index)
  <2>1. samples[k] \in SampleSet
    BY <1>1
  <2>2. samples[k].index \in Nat /\ Enumerates(q, S) /\ S # {}
    BY <2>1 DEF Written, SampleSet
  <2>3. RowStart(k) = q[1]
    BY DEF RowStart
  <2> HIDE DEF q, S
  <2>4. Len(q) \in Nat /\ Len(q) > 0 /\ 1 \in 1..Len(q)
    <3>1. Len(q) \in Nat /\ S = {q[i] : i \in 1..Len(q)}
      BY <2>2 DEF Enumerates
    <3>2. PICK i \in 1..Len(q) : TRUE
      BY <2>2, <3>1
    <3> QED BY <3>1, <3>2
  <2>5. \A n \in S : q[1] <= n
    <3> SUFFICES ASSUME NEW i \in 1..Len(q) PROVE q[1] <= q[i]
      BY <2>2 DEF Enumerates
    <3>1. q[1] \in Nat /\ q[i] \in Nat
      BY SMTT(30), <2>2, <2>4 DEF Enumerates
    <3>2. CASE i = 1
      BY <3>1, <3>2
    <3>3. CASE i > 1
      BY <2>2, <2>4, <3>1, <3>3 DEF Enumerates
    <3> QED BY <2>4, <3>2, <3>3
  <2>6. q[1] \in S
    BY <2>2, <2>4 DEF Enumerates
  <2>7. \A i, j \in 1..Len(q) : i < j => q[i] < q[j]
    BY <2>2 DEF Enumerates
  <2> QED BY <2>2, <2>3, <2>4, <2>5, <2>6, <2>7 DEF q, S
<1>3. ASSUME NEW j \in 1..Len(samples), NEW k \in 1..Len(samples), j < k
      PROVE RowStart(j) <= RowStart(k)
  <2>1. PICK a, b, m, n : /\ a = RowStart(j) /\ b = RowStart(k)
                          /\ m = samples[j].index /\ n = samples[k].index
    OBVIOUS
  <2>2. /\ m \in Nat /\ n \in Nat /\ m <= n
        /\ a \in InWindow(m) /\ b \in InWindow(n) /\ \A x \in InWindow(m) : a <= x
    BY <1>2, <1>3, <2>1 DEF Written
  <2> SUFFICES ASSUME b < a PROVE FALSE
    BY <2>1, <2>2 DEF InWindow
  <2>3. a \in 1..taken /\ b \in 1..taken /\ Place(a) < WindowEnd(m) /\ WindowStart(n) <= Place(b)
    BY <2>2 DEF InWindow
  <2>4. a \in 1..Len(stamps) /\ b \in 1..Len(stamps) /\ b <= a
    BY <1>1, <2>3
  <2>5. Place(b) <= Place(a) /\ Place(a) \in Int /\ Place(b) \in Int
    BY <2>4, PlacesInOrder
  <2>6. WindowStart(m) <= WindowStart(n) /\ WindowStart(m) \in Int /\ WindowStart(n) \in Int
        /\ WindowEnd(m) \in Int
    BY <2>2, WindowStarts
  <2>7. b \in InWindow(m)
    BY <2>3, <2>5, <2>6 DEF InWindow
  <2> QED BY <1>1, <2>2, <2>3, <2>7
<1>4. \A j, k \in 1..Len(samples) : j <= k => RowStart(j) <= RowStart(k)
  <2> SUFFICES ASSUME NEW j \in 1..Len(samples), NEW k \in 1..Len(samples), j <= k
               PROVE RowStart(j) <= RowStart(k)
    OBVIOUS
  <2>1. CASE j = k
    BY <1>2, <2>1 DEF InWindow
  <2>2. CASE j # k
    BY <1>1, <1>3, <2>2
  <2> QED BY <2>1, <2>2
<1> QED BY <1>1, <1>2, <1>4 DEF SamplesReady

\* Packaging leaves the samples as they are.
LEMMA PackagingKeepsSamples ==
    ASSUME WindowInv, PackagingStage
    PROVE WindowInv'
<1>1. /\ samples' = samples
      /\ stage \in {"windowed", "grouping", "splitting"}
      /\ stage' \in {"grouping", "splitting", "packaged", "package_rejected", "leaking"}
  BY DEF PackagingStage, start_packaging, group_sample, finish_grouping, assign_sequential,
     assign_by_hash, audit_and_write, RowsIdle, WindowingIdle
<1>2. SamplesReady
  <2>1. CASE stage = "windowed"
    BY <2>1, WindowsInOrder DEF WindowInv
  <2>2. CASE stage # "windowed"
    BY <1>1, <2>2 DEF WindowInv
  <2> QED BY <2>1, <2>2
<1>3. SamplesReady'
  BY <1>1, <1>2 DEF SamplesReady, RowStart
<1> QED BY <1>1, <1>3 DEF WindowInv

\* Every step of the stages keeps it.
LEMMA WindowStep ==
    ASSUME AlignInv, CleanInv, WindowInv, [Next]_vars
    PROVE WindowInv'
<1>1. CASE RowStage
  <2>1. /\ stage' \in {"opening", "aligning", "synchronized", "cleaning", "cleaned", "rejected", "raised"}
        /\ stage \in {"idle", "opening", "aligning", "synchronized", "cleaning"}
    BY <1>1 DEF RowStage, RowNext, start_alignment, open_streams, align_row, finish_alignment,
       start_cleaning, evaluate_row, finish_cleaning, Fail
  <2>2. UNCHANGED <<taken, buffer, skip, open, emitted, samples>>
    BY <1>1 DEF RowStage, sampleVars
  <2> QED BY <2>1, <2>2 DEF WindowInv
<1>2. CASE WindowingStage
  BY <1>2, StartWindows, TakeRow, FinishCount, TakeTimedRow, CloseWindow, FinishTime DEF WindowingStage
<1>3. CASE PackagingStage
  BY <1>3, PackagingKeepsSamples
<1>4. CASE UNCHANGED vars
  <2>1. /\ UNCHANGED <<stage, request, stamps, taken, buffer, skip, open, emitted, samples>>
    BY <1>4 DEF vars, rowVars, sampleVars
  <2>2. /\ WindowRequest' <=> WindowRequest
        /\ StampsInOrder' <=> StampsInOrder
        /\ SamplesReady' <=> SamplesReady
        /\ CountInv' <=> CountInv
    BY <2>1 DEF WindowRequest, StampsInOrder, SamplesReady, RowStart, CountInv, WindowStart, WindowEnd
  <2>3. Written' <=> Written
    BY <2>1 DEF Written, InWindow, Place, Relative, WindowStart, WindowEnd, Enumerates
  <2>4. TimeInv' <=> TimeInv
    BY <2>1 DEF TimeInv, Closed, Complete, InWindow, Place, Relative, WindowStart, WindowEnd, Enumerates
  <2>5. \A i : (Closed(i)' <=> Closed(i)) /\ (Keeps(i)' <=> Keeps(i))
    BY <2>1, WindowRowsFrame DEF Closed
  <2> QED BY <2>1, <2>2, <2>3, <2>4, <2>5 DEF WindowInv
<1> QED BY <1>1, <1>2, <1>3, <1>4 DEF Next

\* The rows are never out of order, and what one pass with a bounded buffer finds are the
\* windows of their definition: each with all of its rows and none of another's, and none
\* left out that should be kept.
LEMMA WindowsAreCovered ==
    ASSUME WindowInv
    PROVE WindowsCoverTheirRows
<1>1. stage # "disordered"
  BY DEF WindowInv
<1> SUFFICES ASSUME stage = "windowed" PROVE WindowsCoverTheirRows
  BY <1>1 DEF WindowsCoverTheirRows
<1> DEFINE n == Len(stamps)
           In(i) == IF request.mode = "count"
                    THEN {k \in 1..n : WindowStart(i) < k /\ k <= WindowEnd(i)}
                    ELSE {k \in 1..n : WindowStart(i) <= Relative(k) /\ Relative(k) < WindowEnd(i)}
           Comp(i) == IF request.mode = "count" THEN WindowEnd(i) <= n
                      ELSE n > 0 /\ WindowEnd(i) <= Relative(n)
           last == IF request.mode = "count" THEN n ELSE IF n > 0 THEN Relative(n) ELSE 0
           Kept(i) == /\ In(i) # {}
                      /\ \/ Comp(i)
                         \/ /\ ~request.drop_incomplete
                            /\ request.mode = "count" => \A j \in 0..i - 1 : Comp(j)
<1>2. /\ WindowRequest /\ StampsInOrder /\ Written /\ taken = n
      /\ \A i \in Nat : Closed(i) <=> Keeps(i)
  BY DEF WindowInv
<1>3. n \in Nat /\ samples \in Seq(SampleSet) /\ Len(samples) \in Nat
  BY <1>2, PlacesInOrder DEF Written
<1>4. ASSUME NEW i \in Nat PROVE In(i) = InWindow(i) /\ (Kept(i) <=> Keeps(i))
  <2>1. In(i) = InWindow(i)
    <3>1. CASE request.mode = "count"
      BY <1>2, <1>3, <3>1, CountWindow
    <3>2. CASE request.mode # "count"
      BY <1>2, <3>2 DEF InWindow, Place
    <3> QED BY <3>1, <3>2
  <2>2. \A j : Comp(j) <=> Complete(j)
    BY <1>2 DEF Complete
  <2> QED BY <2>1, <2>2 DEF Keeps
<1>5. ASSUME NEW i \in Nat, InWindow(i) # {} PROVE i \in 0..last
  <2>1. PICK k \in 1..n : WindowStart(i) <= Place(k)
    BY <1>2, <1>5 DEF InWindow
  <2>2. i <= WindowStart(i) /\ WindowStart(i) \in Int /\ request.mode \in {"count", "time"}
    <3>1. i <= i
      OBVIOUS
    <3> QED BY <1>2, <3>1, WindowStarts
  <2>3. CASE request.mode = "count"
    BY <1>3, <2>1, <2>2, <2>3 DEF Place
  <2>4. CASE request.mode # "count"
    <3>1. n \in 1..n /\ k <= n
      BY <1>3, <2>1
    <3>2. Place(k) <= Place(n) /\ Place(n) = Relative(n) /\ Place(k) \in Int /\ Place(n) \in Int
      BY <1>2, <2>1, <2>4, <3>1, PlacesInOrder
    <3>3. last = Relative(n)
      BY <1>3, <2>4, <3>1
    <3> HIDE DEF last
    <3> QED BY <2>1, <2>2, <3>2, <3>3
  <2> QED BY <2>3, <2>4
<1>6. {samples[k].index : k \in 1..Len(samples)} = {i \in 0..last : Kept(i)}
  <2>1. ASSUME NEW k \in 1..Len(samples) PROVE samples[k].index \in {i \in 0..last : Kept(i)}
    <3>1. samples[k] \in SampleSet
      BY <1>3
    <3>2. PICK i \in Nat : i = samples[k].index
      BY <3>1 DEF SampleSet
    <3>3. Closed(i) /\ Keeps(i)
      BY <1>2, <3>2 DEF Closed
    <3>4. InWindow(i) # {}
      BY <3>3 DEF Keeps
    <3> QED BY <1>4, <1>5, <3>2, <3>3, <3>4
  <2>2. ASSUME NEW i \in 0..last, Kept(i) PROVE i \in {samples[k].index : k \in 1..Len(samples)}
    BY <1>2, <1>4, <2>2 DEF Closed
  <2> HIDE DEF Kept, last
  <2> QED BY <2>1, <2>2
<1>7. ASSUME NEW k \in 1..Len(samples)
      PROVE /\ {samples[k].rows[j] : j \in 1..Len(samples[k].rows)} = In(samples[k].index)
            /\ Len(samples[k].rows) = Cardinality(In(samples[k].index))
  <2>1. samples[k] \in SampleSet
    BY <1>3
  <2>2. samples[k].index \in Nat /\ Enumerates(samples[k].rows, InWindow(samples[k].index))
    BY <1>2, <2>1 DEF SampleSet, Written
  <2>3. Cardinality(InWindow(samples[k].index)) = Len(samples[k].rows)
    BY <2>2, EnumerationCounts
  <2>4. In(samples[k].index) = InWindow(samples[k].index)
    BY <1>4, <2>2
  <2> QED BY <2>2, <2>3, <2>4 DEF Enumerates
<1>8. \A k \in 1..Len(samples) - 1 : samples[k].index < samples[k + 1].index
  BY <1>2, <1>3 DEF Written
<1> QED BY <1>1, <1>6, <1>7, <1>8 DEF WindowsCoverTheirRows

\* The invariants of the stages so far, from the first state on.
LEMMA RowsInitially == Init => AlignInv /\ CleanInv /\ WindowInv
<1>1. /\ << >> \in Seq(SyncRows) /\ << >> \in Seq(Keepings) /\ << >> \in Seq(Droppings)
      /\ [s \in Streams |-> << >>] \in [Streams -> Seq(Samples)]
  OBVIOUS
<1> QED BY <1>1 DEF Init, RowInit, AlignInv, CleanInv, WindowInv

\* Windowing reads rows that synchronization put in order and cleaning thinned out, so that
\* NonMonotonicRowOrderError is never raised; and its single pass with a bounded buffer
\* finds, in both modes, exactly the windows of their definition with exactly their rows.
THEOREM WindowsAreExact == Spec => []WindowsCoverTheirRows
<1>1. Init => AlignInv /\ CleanInv /\ WindowInv
  BY RowsInitially
<1>2. AlignInv /\ CleanInv /\ WindowInv /\ [Next]_vars => AlignInv' /\ CleanInv' /\ WindowInv'
  BY AlignStep, CleanStep, WindowStep
<1>3. WindowInv => WindowsCoverTheirRows
  BY WindowsAreCovered
<1> QED BY <1>1, <1>2, <1>3, PTL DEF Spec

-----------------------------------------------------------------------------
(* Groups.                                                                 *)

GroupSet == [min : Nat, max : Nat, members : SUBSET Nat]

\* Every sample read belongs to one group, the groups are stretches of samples, and in
\* mode "source_overlap" no sample touches a row of a group before its own.
GroupInv ==
    /\ groups \in Seq(GroupSet) /\ grouped \in 0..Len(samples)
    /\ \A g \in 1..Len(groups) :
        /\ groups[g].members # {} /\ groups[g].members \subseteq 1..grouped
        /\ \A k \in groups[g].members : RowEnd(k) <= groups[g].max
    /\ \A k \in 1..grouped : \E g \in 1..Len(groups) : k \in groups[g].members
    /\ \A g, h \in 1..Len(groups) : g < h =>
        \A j \in groups[g].members, k \in groups[h].members : j < k
    /\ request.mode = "source_overlap" =>
        \A g, h \in 1..Len(groups) : g < h =>
            \A k \in groups[h].members : groups[g].max < RowStart(k)
    /\ request.mode = "session" => Len(groups) <= 1

\* The first and the last row of a sample.
LEMMA SampleRows ==
    ASSUME SamplesReady, NEW k \in 1..Len(samples)
    PROVE /\ RowStart(k) \in Nat /\ RowEnd(k) \in Nat /\ Len(samples) \in Nat
          /\ \A n \in RowsOf(k) : n \in Nat /\ RowStart(k) <= n /\ n <= RowEnd(k)
<1> DEFINE q == samples[k].rows
<1>1. samples[k] \in SampleSet /\ Len(samples) \in Nat
  BY DEF SamplesReady
<1>2. q \in Seq(Nat) /\ Len(q) > 0 /\ \A i, j \in 1..Len(q) : i < j => q[i] < q[j]
  BY <1>1 DEF SamplesReady, SampleSet
<1>3. RowStart(k) = q[1] /\ RowEnd(k) = q[Len(q)] /\ RowsOf(k) = {q[j] : j \in 1..Len(q)}
  BY DEF RowStart, RowEnd, RowsOf
<1> HIDE DEF q
<1>4. Len(q) \in Nat /\ 1 \in 1..Len(q) /\ Len(q) \in 1..Len(q) /\ \A j \in 1..Len(q) : q[j] \in Nat
  BY <1>2
<1>5. ASSUME NEW j \in 1..Len(q) PROVE q[1] <= q[j] /\ q[j] <= q[Len(q)]
  <2>1. j = 1 \/ q[1] < q[j]
    BY <1>2, <1>4
  <2>2. j = Len(q) \/ q[j] < q[Len(q)]
    BY <1>2, <1>4
  <2> QED BY <1>4, <2>1, <2>2
<1> QED BY <1>1, <1>3, <1>4, <1>5

\* A sample has one group.
LEMMA OneGroup ==
    ASSUME GroupInv, NEW k \in 1..grouped
    PROVE /\ GroupOf(k) \in 1..Len(groups) /\ k \in groups[GroupOf(k)].members
          /\ groups[GroupOf(k)].max \in Nat /\ RowEnd(k) <= groups[GroupOf(k)].max
          /\ \A g \in 1..Len(groups) : k \in groups[g].members => g = GroupOf(k)
<1>1. \E g \in 1..Len(groups) : k \in groups[g].members
  BY DEF GroupInv
<1>2. GroupOf(k) \in 1..Len(groups) /\ k \in groups[GroupOf(k)].members
  BY <1>1 DEF GroupOf
<1>3. ASSUME NEW g \in 1..Len(groups), NEW h \in 1..Len(groups), g < h,
             k \in groups[g].members, k \in groups[h].members
      PROVE FALSE
  <2>1. k < k
    BY <1>3 DEF GroupInv
  <2> QED BY <2>1
<1>4. Len(groups) \in Nat
  BY DEF GroupInv
<1>5. ASSUME NEW g \in 1..Len(groups), k \in groups[g].members, g # GroupOf(k) PROVE FALSE
  <2>1. g < GroupOf(k) \/ GroupOf(k) < g
    BY <1>2, <1>4, <1>5
  <2> QED BY <1>2, <1>3, <1>5, <2>1
<1>6. groups[GroupOf(k)].max \in Nat /\ RowEnd(k) <= groups[GroupOf(k)].max
  <2>1. groups \in Seq(GroupSet)
    BY DEF GroupInv
  <2>2. groups[GroupOf(k)] \in GroupSet
    BY <1>2, <2>1
  <2>3. groups[GroupOf(k)].max \in Nat
    BY <2>2 DEF GroupSet
  <2> QED BY <1>2, <2>3 DEF GroupInv
<1> QED BY <1>2, <1>5, <1>6

\* A sample joins the pending group or starts one.
LEMMA GroupSample ==
    ASSUME SamplesReady, GroupInv, group_sample
    PROVE GroupInv'
<1>0. PICK k, G : k = grouped + 1 /\ G = Len(groups)
  OBVIOUS
<1> DEFINE last == groups[G]
           longer == [last EXCEPT !.max = Larger(last.max, RowEnd(k)), !.members = @ \union {k}]
           first == [min |-> RowStart(k), max |-> RowEnd(k), members |-> {k}]
<1>1. /\ grouped < Len(samples) /\ grouped' = k /\ samples' = samples /\ request' = request
      /\ groups' = IF Joins(k) THEN [groups EXCEPT ![G] = longer] ELSE Append(groups, first)
  BY <1>0 DEF group_sample, RowsIdle, WindowingIdle
<1>2. /\ groups \in Seq(GroupSet) /\ grouped \in Nat /\ G \in Nat /\ Len(samples) \in Nat
      /\ k \in 1..Len(samples) /\ 1..k = 1..grouped \union {k} /\ k \notin 1..grouped
      /\ grouped' \in 0..Len(samples')
      /\ \A g \in 1..G : groups[g] \in GroupSet
  BY <1>0, <1>1 DEF GroupInv, SamplesReady
<1>3. RowStart(k) \in Nat /\ RowEnd(k) \in Nat
  BY <1>2, SampleRows
<1>4. /\ \A n : RowStart(n)' = RowStart(n) /\ RowEnd(n)' = RowEnd(n)
      /\ \A j \in 1..grouped : RowStart(j) <= RowStart(k)
  <2>1. \A j \in 1..grouped : j \in 1..Len(samples) /\ j <= k
    BY <1>0, <1>1, <1>2
  <2> QED BY <1>1, <1>2, <2>1 DEF RowStart, RowEnd, SamplesReady
<1>5. /\ \A g \in 1..G : groups[g].members # {} /\ groups[g].members \subseteq 1..grouped
            /\ \A j \in groups[g].members : RowEnd(j) <= groups[g].max
      /\ \A j \in 1..grouped : \E g \in 1..G : j \in groups[g].members
      /\ \A g, h \in 1..G : g < h => \A i \in groups[g].members, j \in groups[h].members : i < j
      /\ request.mode = "source_overlap" =>
            \A g, h \in 1..G : g < h => \A j \in groups[h].members : groups[g].max < RowStart(j)
      /\ request.mode = "session" => G <= 1
  BY <1>0 DEF GroupInv
<1>6. \A g \in 1..G : \A j \in groups[g].members :
        /\ j < k /\ j \in 1..Len(samples) /\ RowStart(j) \in Nat /\ RowEnd(j) \in Nat
        /\ groups[g].max \in Nat
  <2> SUFFICES ASSUME NEW g \in 1..G, NEW j \in groups[g].members
               PROVE /\ j < k /\ j \in 1..Len(samples) /\ RowStart(j) \in Nat /\ RowEnd(j) \in Nat
                     /\ groups[g].max \in Nat
    OBVIOUS
  <2>1. j \in 1..grouped /\ groups[g] \in GroupSet
    BY <1>2, <1>5
  <2>2. j < k /\ j \in 1..Len(samples)
    BY <1>0, <1>1, <1>2, <2>1
  <2> QED BY <2>1, <2>2, SampleRows DEF GroupSet
<1>7. CASE Joins(k)
  <2>1. groups # << >> /\ (request.mode = "session" \/ RowStart(k) <= last.max)
    BY <1>0, <1>7 DEF Joins
  <2>2. G \in 1..G /\ last \in GroupSet
    BY <1>0, <1>2, <2>1
  <2>3. last.max \in Nat /\ last.members \in SUBSET Nat
    BY <2>2 DEF GroupSet
  <2>4. /\ Larger(last.max, RowEnd(k)) \in Nat
        /\ Larger(last.max, RowEnd(k)) >= last.max /\ Larger(last.max, RowEnd(k)) >= RowEnd(k)
    BY <1>3, <2>3 DEF Larger
  <2>5. longer \in GroupSet /\ longer.members = last.members \union {k}
        /\ longer.max >= last.max /\ longer.max >= RowEnd(k) /\ longer.max \in Nat
    <3>2. last.members \union {k} \in SUBSET Nat
      BY <1>2, <2>3
    <3>3. PICK x \in Nat, y \in SUBSET Nat : x = Larger(last.max, RowEnd(k)) /\ y = last.members \union {k}
      BY <2>4, <3>2
    <3>4. longer = [last EXCEPT !.max = x, !.members = y]
      BY <3>3
    <3> HIDE DEF last, longer
    <3>5. longer \in GroupSet /\ longer.max = x /\ longer.members = y
      <4>1. PICK r \in GroupSet : r = last
        BY <2>2
      <4> DEFINE q == [r EXCEPT !.max = x, !.members = y]
      <4>2. q \in GroupSet /\ q.max = x /\ q.members = y
        BY DEF GroupSet
      <4>3. longer = q
        BY <3>4, <4>1
      <4> HIDE DEF q
      <4> QED BY <4>2, <4>3
    <3> QED BY <2>4, <3>3, <3>5
  <2>6. groups' = [groups EXCEPT ![G] = longer]
    BY <1>1, <1>7
  <2> HIDE DEF longer
  <2>7. /\ groups' \in Seq(GroupSet) /\ Len(groups') = G /\ groups'[G] = longer
        /\ \A g \in 1..G : g # G => groups'[g] = groups[g]
    BY <1>0, <1>2, <2>2, <2>5, <2>6, ExceptSeq
  <2>8. ASSUME NEW g \in 1..G
        PROVE /\ groups'[g].members # {} /\ groups'[g].members \subseteq 1..k
              /\ \A j \in groups'[g].members : RowEnd(j) <= groups'[g].max
              /\ groups'[g].members = IF g = G THEN groups[g].members \union {k} ELSE groups[g].members
    <3>1. CASE g # G
      BY <1>2, <1>5, <2>7, <3>1
    <3>2. CASE g = G
      <4>1. groups'[g].members = last.members \union {k} /\ groups'[g].max = longer.max
        BY <2>5, <2>7, <3>2
      <4>2. \A j \in last.members : RowEnd(j) <= last.max /\ RowEnd(j) \in Nat
        BY <1>5, <1>6, <2>2
      <4>3. \A j \in last.members \union {k} : RowEnd(j) <= longer.max
        BY <1>3, <2>3, <2>5, <4>2
      <4> QED BY <1>2, <1>5, <2>2, <3>2, <4>1, <4>3
    <3> QED BY <3>1, <3>2
  <2>9. \A j \in 1..k : \E g \in 1..G : j \in groups'[g].members
    <3>1. k \in groups'[G].members
      BY <2>2, <2>8
    <3>2. ASSUME NEW j \in 1..grouped PROVE \E g \in 1..G : j \in groups'[g].members
      <4>1. PICK g \in 1..G : j \in groups[g].members
        BY <1>5
      <4> QED BY <2>8, <4>1
    <3> QED BY <1>2, <2>2, <3>1, <3>2
  <2>10. ASSUME NEW g \in 1..G, NEW h \in 1..G, g < h
         PROVE /\ \A i \in groups'[g].members, j \in groups'[h].members : i < j
               /\ request.mode = "source_overlap" =>
                    \A j \in groups'[h].members : groups'[g].max < RowStart(j)
    <3>1. g # G /\ groups'[g] = groups[g]
      BY <1>2, <2>7, <2>10
    <3>2. groups'[h].members \subseteq groups[h].members \union {k} /\ (k \in groups'[h].members => h = G)
      BY <1>2, <1>5, <2>8
    <3>3. ASSUME NEW j \in groups[h].members
          PROVE /\ \A i \in groups[g].members : i < j
                /\ request.mode = "source_overlap" => groups[g].max < RowStart(j)
      BY <1>5, <2>10
    <3>4. \A i \in groups[g].members : i < k
      BY <1>6
    <3>5. ASSUME request.mode = "source_overlap", h = G PROVE groups[g].max < RowStart(k)
      <4>1. PICK j \in groups[G].members : TRUE
        BY <1>5, <2>2
      <4>2. groups[g].max < RowStart(j) /\ j \in 1..grouped
        BY <1>5, <2>2, <2>10, <3>5
      <4>3. RowStart(j) <= RowStart(k) /\ RowStart(j) \in Nat
        BY <1>4, <1>6, <2>2, <4>2
      <4>4. groups[g].max \in Nat
        BY <1>2 DEF GroupSet
      <4> QED BY <1>3, <4>2, <4>3, <4>4
    <3> QED BY <3>1, <3>2, <3>3, <3>4, <3>5
  <2>11. request'.mode = "session" => Len(groups') <= 1
    BY <1>1, <1>5, <2>7
  <2> QED
    <3>1. groups' \in Seq(GroupSet) /\ grouped' \in 0..Len(samples')
      BY <1>2, <2>7
    <3>2. \A g \in 1..Len(groups') :
            /\ groups'[g].members # {} /\ groups'[g].members \subseteq 1..grouped'
            /\ \A j \in groups'[g].members : RowEnd(j)' <= groups'[g].max
      BY <1>1, <1>4, <2>7, <2>8
    <3>3. \A j \in 1..grouped' : \E g \in 1..Len(groups') : j \in groups'[g].members
      BY <1>1, <2>7, <2>9
    <3>4. \A g, h \in 1..Len(groups') : g < h =>
            \A i \in groups'[g].members, j \in groups'[h].members : i < j
      BY <2>7, <2>10
    <3>5. request'.mode = "source_overlap" =>
            \A g, h \in 1..Len(groups') : g < h =>
                \A j \in groups'[h].members : groups'[g].max < RowStart(j)'
      BY <1>1, <1>4, <2>7, <2>10
    <3> QED
      BY <3>1, <3>2, <3>3, <3>4, <3>5, <2>11 DEF GroupInv
<1>8. CASE ~Joins(k)
  <2>1. groups' = Append(groups, first)
    BY <1>1, <1>8
  <2>2. first \in GroupSet /\ first.members = {k} /\ first.max = RowEnd(k)
    BY <1>2, <1>3 DEF GroupSet
  <2> HIDE DEF first
  <2>3. /\ groups' \in Seq(GroupSet) /\ Len(groups') = G + 1 /\ groups'[G + 1] = first
        /\ \A g \in 1..G : groups'[g] = groups[g]
    BY <1>0, <1>2, <2>1, <2>2
  <2>4. \A g \in 1..G + 1 : g = G + 1 \/ g \in 1..G
    BY <1>2
  <2>5. ASSUME NEW g \in 1..G + 1
        PROVE /\ groups'[g].members # {} /\ groups'[g].members \subseteq 1..k
              /\ \A j \in groups'[g].members : RowEnd(j) <= groups'[g].max
    <3>1. CASE g \in 1..G
      BY <1>2, <1>5, <2>3, <3>1
    <3>2. CASE g = G + 1
      <4>1. groups'[g].members = {k} /\ groups'[g].max = RowEnd(k)
        BY <2>2, <2>3, <3>2
      <4>2. k \in 1..k
        BY <1>2
      <4> QED BY <1>3, <4>1, <4>2
    <3> QED BY <2>4, <3>1, <3>2
  <2>6. \A j \in 1..k : \E g \in 1..G + 1 : j \in groups'[g].members
    <3>1. k \in groups'[G + 1].members /\ G + 1 \in 1..G + 1
      BY <1>2, <2>2, <2>3
    <3>2. ASSUME NEW j \in 1..grouped PROVE \E g \in 1..G + 1 : j \in groups'[g].members
      <4>1. PICK g \in 1..G : j \in groups[g].members
        BY <1>5
      <4>2. g \in 1..G + 1
        BY <1>2
      <4> QED BY <2>3, <4>1, <4>2
    <3> QED BY <1>2, <3>1, <3>2
  <2>7. ASSUME request.mode = "source_overlap", NEW g \in 1..G
        PROVE groups[g].max < RowStart(k)
    <3>1. groups # << >> /\ G \in 1..G
      BY <1>0, <1>2
    <3>2. groups[G].max < RowStart(k) /\ groups[G].max \in Nat /\ groups[g].max \in Nat
      BY <1>0, <1>2, <1>3, <1>8, <2>7, <3>1 DEF Joins, GroupSet
    <3>3. CASE g = G
      BY <3>2, <3>3
    <3>4. CASE g # G
      <4>1. PICK j \in groups[G].members : TRUE
        BY <1>5, <3>1
      <4>2. g < G
        BY <1>2, <3>4
      <4>3. groups[g].max < RowStart(j) /\ j \in 1..grouped
        BY <1>5, <2>7, <3>1, <4>2
      <4>4. RowStart(j) <= RowStart(k) /\ RowStart(j) \in Nat
        BY <1>4, <1>6, <3>1, <4>3
      <4> QED BY <1>3, <3>2, <4>3, <4>4
    <3> QED BY <3>3, <3>4
  <2>8. ASSUME NEW g \in 1..G + 1, NEW h \in 1..G + 1, g < h
        PROVE /\ \A i \in groups'[g].members, j \in groups'[h].members : i < j
              /\ request.mode = "source_overlap" =>
                    \A j \in groups'[h].members : groups'[g].max < RowStart(j)
    <3>1. g \in 1..G /\ groups'[g] = groups[g]
      BY <1>2, <2>3, <2>8
    <3>2. CASE h \in 1..G
      BY <1>5, <2>3, <2>8, <3>1, <3>2
    <3>3. CASE h = G + 1
      BY <1>6, <2>2, <2>3, <2>7, <3>1, <3>3
    <3> QED BY <2>4, <3>2, <3>3
  <2>9. request'.mode = "session" => Len(groups') <= 1
    <3> SUFFICES ASSUME request.mode = "session" PROVE G = 0
      BY <1>1, <2>3
    <3> QED BY <1>0, <1>2, <1>8 DEF Joins
  <2> QED
    <3>1. groups' \in Seq(GroupSet) /\ grouped' \in 0..Len(samples')
      BY <1>2, <2>3
    <3>2. \A g \in 1..Len(groups') :
            /\ groups'[g].members # {} /\ groups'[g].members \subseteq 1..grouped'
            /\ \A j \in groups'[g].members : RowEnd(j)' <= groups'[g].max
      BY <1>1, <1>4, <2>3, <2>5
    <3>3. \A j \in 1..grouped' : \E g \in 1..Len(groups') : j \in groups'[g].members
      BY <1>1, <2>3, <2>6
    <3>4. \A g, h \in 1..Len(groups') : g < h =>
            \A i \in groups'[g].members, j \in groups'[h].members : i < j
      BY <2>3, <2>8
    <3>5. request'.mode = "source_overlap" =>
            \A g, h \in 1..Len(groups') : g < h =>
                \A j \in groups'[h].members : groups'[g].max < RowStart(j)'
      BY <1>1, <1>4, <2>3, <2>8
    <3> QED
      BY <3>1, <3>2, <3>3, <3>4, <3>5, <2>9 DEF GroupInv
<1> QED BY <1>7, <1>8

-----------------------------------------------------------------------------
(* Splits.                                                                 *)

\* The samples that split n has so far.
Placed(n) ==
    {k \in 1..Len(samples) :
        \E g \in 1..Len(splitOf) : splitOf[g] = Splits[n] /\ k \in groups[g].members}

\* Group g is the last one that split n has.
LastIn(g, n) == splitOf[g] = Splits[n] /\ \A h \in g + 1..Len(splitOf) : splitOf[h] # Splits[n]

\* What a whole number of samples that has not reached the target of split n looks like.
Short(n, count) ==
    \/ count * Unit < Parts(n) * Len(samples)
    \/ count * Unit = Parts(n) * Len(samples) /\ n \in above

\* The target of split n had not been reached before group g.
TightAt(g, n) ==
    n < 3 /\ Parts(n) > 0 => Short(n, Cardinality(Placed(n)) - Cardinality(groups[g].members))

\* assign_sequential_splits: the splits up to filling have groups, in this order, and those
\* before it have reached their targets, none with a group too many.
Filled ==
    /\ filling \in 1..3
    /\ used = Cardinality(Placed(filling))
    /\ Len(splitOf) = 0 => filling = 1
    /\ \A g \in 1..Len(splitOf) : \E n \in 1..filling : splitOf[g] = Splits[n]
    /\ \A g, h \in 1..Len(splitOf), m, n \in 1..3 :
        (g < h /\ splitOf[g] = Splits[m] /\ splitOf[h] = Splits[n]) => m <= n
    /\ \A n \in 1..filling - 1 :
        Parts(n) > 0 /\ Cardinality(Placed(n)) * Unit >= Parts(n) * Len(samples)
    /\ Len(splitOf) > 0 => \A n \in 1..filling : \E g \in 1..Len(splitOf) : LastIn(g, n) /\ TightAt(g, n)

Undivided == groups = << >> /\ grouped = 0 /\ filling = 1 /\ used = 0 /\ splitOf = << >>

PackageInv ==
    /\ stage \notin {"grouping", "splitting", "packaged", "package_rejected"} => Undivided
    /\ stage \in {"grouping", "splitting", "packaged", "package_rejected"} =>
        request \in PackageConfigs /\ GroupInv
    /\ stage = "grouping" => filling = 1 /\ used = 0 /\ splitOf = << >>
    /\ stage \in {"splitting", "packaged", "package_rejected"} =>
        /\ grouped = Len(samples)
        /\ splitOf \in Seq(SplitNames) /\ Len(splitOf) <= Len(groups)
        /\ request.strategy = "sequential" => Filled
    /\ stage \in {"packaged", "package_rejected"} => Len(splitOf) = Len(groups)
    /\ stage = "packaged" => \A n \in Requested : SamplesIn(n) # {}
    /\ stage # "leaking"

\* The three splits.
LEMMA ThreeSplits ==
    /\ \A n \in 1..3 : Splits[n] \in SplitNames
    /\ \A m, n \in 1..3 : Splits[m] = Splits[n] => m = n
<1>1. /\ 1..3 = {1, 2, 3} /\ Splits[1] = "train" /\ Splits[2] = "validation" /\ Splits[3] = "test"
  BY DEF Splits
<1>2. \A n \in {1, 2, 3} : Splits[n] \in SplitNames
  BY <1>1 DEF SplitNames
<1>3. \A m, n \in {1, 2, 3} : Splits[m] = Splits[n] => m = n
  BY <1>1
<1> QED BY <1>1, <1>2, <1>3

\* Groups are sets of samples that share none.
LEMMA GroupsAreApart ==
    ASSUME SamplesReady, GroupInv
    PROVE /\ Len(groups) \in Nat /\ grouped \in Nat /\ Len(samples) \in Nat
          /\ \A g \in 1..Len(groups) :
                /\ groups[g].members \subseteq 1..Len(samples) /\ groups[g].members # {}
                /\ IsFiniteSet(groups[g].members) /\ Cardinality(groups[g].members) \in Nat
          /\ \A g, h \in 1..Len(groups) : g # h => groups[g].members \cap groups[h].members = {}
<1>1. Len(groups) \in Nat /\ grouped \in Nat /\ Len(samples) \in Nat /\ grouped <= Len(samples)
  BY DEF SamplesReady, GroupInv
<1>2. 1..grouped \subseteq 1..Len(samples) /\ IsFiniteSet(1..Len(samples))
  BY <1>1, FS_Interval
<1>3. ASSUME NEW g \in 1..Len(groups)
      PROVE /\ groups[g].members \subseteq 1..Len(samples) /\ groups[g].members # {}
            /\ IsFiniteSet(groups[g].members) /\ Cardinality(groups[g].members) \in Nat
  <2>1. groups[g].members \subseteq 1..Len(samples) /\ groups[g].members # {}
    BY <1>2 DEF GroupInv
  <2>2. IsFiniteSet(groups[g].members)
    BY <1>2, <2>1, FS_Subset
  <2> QED BY <2>1, <2>2, FS_CardinalityType
<1>4. ASSUME NEW g \in 1..Len(groups), NEW h \in 1..Len(groups), g # h,
             NEW k, k \in groups[g].members, k \in groups[h].members
      PROVE FALSE
  <2>1. g < h \/ h < g
    BY <1>1, <1>4
  <2>2. k < k
    BY <1>4, <2>1 DEF GroupInv
  <2>3. k \in Nat
    BY <1>2, <1>3, <1>4
  <2> QED BY <2>2, <2>3
<1> QED BY <1>1, <1>3, <1>4

\* Splits are sets of samples, and share none.
LEMMA SplitsAreApart ==
    ASSUME SamplesReady, GroupInv, Len(splitOf) \in Nat, Len(splitOf) <= Len(groups)
    PROVE /\ \A n : /\ Placed(n) \subseteq 1..Len(samples) /\ IsFiniteSet(Placed(n))
                    /\ Cardinality(Placed(n)) \in Nat
          /\ \A m, n \in 1..3 : m # n => Placed(m) \cap Placed(n) = {}
<1>1. Len(groups) \in Nat /\ Len(samples) \in Nat /\ 1..Len(splitOf) \subseteq 1..Len(groups)
  BY GroupsAreApart
<1>2. IsFiniteSet(1..Len(samples))
  BY <1>1, FS_Interval
<1>3. ASSUME NEW n
      PROVE Placed(n) \subseteq 1..Len(samples) /\ IsFiniteSet(Placed(n)) /\ Cardinality(Placed(n)) \in Nat
  <2>1. Placed(n) \subseteq 1..Len(samples)
    BY DEF Placed
  <2>2. IsFiniteSet(Placed(n))
    BY <1>2, <2>1, FS_Subset
  <2> QED BY <2>1, <2>2, FS_CardinalityType
<1>4. ASSUME NEW m \in 1..3, NEW n \in 1..3, m # n, NEW k, k \in Placed(m), k \in Placed(n)
      PROVE FALSE
  <2>1. PICK g \in 1..Len(splitOf) : splitOf[g] = Splits[m] /\ k \in groups[g].members
    BY <1>4 DEF Placed
  <2>2. PICK h \in 1..Len(splitOf) : splitOf[h] = Splits[n] /\ k \in groups[h].members
    BY <1>4 DEF Placed
  <2>3. g = h
    BY <1>1, <2>1, <2>2, GroupsAreApart
  <2> QED BY <1>4, <2>1, <2>2, <2>3, ThreeSplits
<1> QED BY <1>3, <1>4

\* One group more, in the split that is being filled or in the next.
LEMMA AssignSequential ==
    ASSUME SamplesReady, GroupInv, request \in PackageConfigs, splitOf \in Seq(SplitNames),
           Len(splitOf) <= Len(groups), Filled, assign_sequential
    PROVE Filled' /\ splitOf' \in Seq(SplitNames) /\ Len(splitOf') <= Len(groups)
<1>0. PICK L, g, n, f, N, U : /\ L = Len(splitOf) /\ g = L + 1 /\ f = filling
                              /\ n = IF Full(f, used) THEN f + 1 ELSE f
                              /\ N = Len(samples) /\ U = Unit
  OBVIOUS
<1>1. /\ g <= Len(groups) /\ splitOf' = Append(splitOf, Splits[n]) /\ filling' = n
      /\ used' = Cardinality(groups[g].members) + (IF n = f THEN used ELSE 0)
      /\ UNCHANGED <<groups, request, samples, above>>
  BY <1>0 DEF assign_sequential, RowsIdle, WindowingIdle
<1>2. /\ f \in 1..3 /\ n \in 1..3 /\ f <= n /\ n <= f + 1 /\ (n = f + 1 => Full(f, used))
      /\ (n = f => ~Full(f, used))
  BY <1>0 DEF Filled, Full
<1>3. /\ L \in Nat /\ g \in 1..Len(groups) /\ Len(groups) \in Nat /\ N \in Nat /\ Splits[n] \in SplitNames
  BY <1>0, <1>1, <1>2, GroupsAreApart, ThreeSplits
<1>4. /\ splitOf' \in Seq(SplitNames) /\ Len(splitOf') = L + 1 /\ splitOf'[g] = Splits[n]
      /\ \A h \in 1..L : splitOf'[h] = splitOf[h]
      /\ \A h \in 1..L + 1 : h = g \/ h \in 1..L
  BY <1>0, <1>1, <1>3
<1>5. groups[g].members \subseteq 1..N /\ groups[g].members # {} /\ IsFiniteSet(groups[g].members)
      /\ Cardinality(groups[g].members) \in Nat /\ N > 0
  <2>1. groups[g].members \subseteq 1..N /\ groups[g].members # {} /\ IsFiniteSet(groups[g].members)
        /\ Cardinality(groups[g].members) \in Nat
    BY <1>0, <1>3, GroupsAreApart
  <2> QED BY <1>3, <2>1
<1>6. /\ U \in Nat /\ \A m \in 1..3 : Parts(m) \in Nat /\ Parts(m)' = Parts(m)
  BY <1>0, <1>1, SplitAssumption, ThreeSplits DEF Parts
<1>7. \A m \in 1..3 : /\ Placed(m) \subseteq 1..N /\ IsFiniteSet(Placed(m)) /\ Cardinality(Placed(m)) \in Nat
  BY <1>0, <1>3, SplitsAreApart
<1>8. ASSUME NEW m \in 1..3
      PROVE Placed(m)' = IF m = n THEN Placed(m) \union groups[g].members ELSE Placed(m)
  <2>1. Placed(m)' = {k \in 1..N : \E h \in 1..L + 1 : splitOf'[h] = Splits[m] /\ k \in groups[h].members}
    BY <1>0, <1>1, <1>4 DEF Placed
  <2>2. Placed(m) = {k \in 1..N : \E h \in 1..L : splitOf[h] = Splits[m] /\ k \in groups[h].members}
    BY <1>0 DEF Placed
  <2>3. splitOf'[g] = Splits[m] <=> m = n
    BY <1>2, <1>4, ThreeSplits
  <2>4. ASSUME NEW k \in 1..N
        PROVE (\E h \in 1..L + 1 : splitOf'[h] = Splits[m] /\ k \in groups[h].members)
              <=> \/ \E h \in 1..L : splitOf[h] = Splits[m] /\ k \in groups[h].members
                  \/ m = n /\ k \in groups[g].members
    <3>1. g \in 1..L + 1 /\ 1..L \subseteq 1..L + 1
      BY <1>0, <1>3
    <3> QED BY <1>4, <2>3, <3>1
  <2> QED BY <1>5, <2>1, <2>2, <2>4
<1>9. Placed(n) \cap groups[g].members = {}
  <2> SUFFICES ASSUME NEW k \in Placed(n), k \in groups[g].members PROVE FALSE
    OBVIOUS
  <2>1. PICK h \in 1..L : k \in groups[h].members
    BY <1>0 DEF Placed
  <2>2. h \in 1..Len(groups) /\ h # g
    BY <1>0, <1>3
  <2> QED BY <1>3, <2>1, <2>2, GroupsAreApart
<1>10. Cardinality(Placed(n)') = Cardinality(Placed(n)) + Cardinality(groups[g].members)
  <2>1. Cardinality({}) = 0
    BY FS_EmptySet
  <2>2. Cardinality(Placed(n) \union groups[g].members)
        = Cardinality(Placed(n)) + Cardinality(groups[g].members) - Cardinality(Placed(n) \cap groups[g].members)
    BY <1>2, <1>5, <1>7, FS_Union
  <2>3. Placed(n)' = Placed(n) \union groups[g].members
    BY <1>2, <1>8
  <2>4. PICK a \in Nat, b \in Nat : a = Cardinality(Placed(n)) /\ b = Cardinality(groups[g].members)
    BY <1>2, <1>5, <1>7
  <2>5. Cardinality(Placed(n) \union groups[g].members) = a + b - 0
    BY <1>9, <2>1, <2>2, <2>4
  <2>6. a + b - 0 = a + b
    BY <2>4
  <2> QED BY <2>3, <2>4, <2>5, <2>6
<1>11. n = f + 1 => Placed(n) = {}
  <2> SUFFICES ASSUME n = f + 1, NEW k \in Placed(n) PROVE FALSE
    OBVIOUS
  <2>1. PICK h \in 1..L : splitOf[h] = Splits[n]
    BY <1>0 DEF Placed
  <2>2. PICK m \in 1..f : splitOf[h] = Splits[m]
    BY <1>0, <2>1 DEF Filled
  <2>3. m \in 1..3 /\ n \in 1..3 /\ Splits[m] = Splits[n]
    BY <1>2, <2>1, <2>2
  <2>4. m = n
    BY <2>3, ThreeSplits
  <2> QED BY <1>2, <2>4
<1>12. used = Cardinality(Placed(f)) /\ used \in Nat
  BY <1>0, <1>2, <1>7 DEF Filled
<1>13. used' = Cardinality(Placed(n)')
  <2>1. CASE n = f
    BY <1>1, <1>5, <1>10, <1>12, <2>1
  <2>2. CASE n = f + 1
    <3>1. Cardinality(Placed(n)) = 0
      BY <1>11, <2>2, FS_EmptySet
    <3> QED BY <1>1, <1>2, <1>5, <1>10, <2>2, <3>1
  <2> QED BY <1>2, <2>1, <2>2
<1>14. L = 0 => n = f /\ f = 1
  <2> SUFFICES ASSUME L = 0 PROVE n = f /\ f = 1
    OBVIOUS
  <2>1. f = 1
    BY <1>0 DEF Filled
  <2>2. Placed(f) = {}
    BY <1>0 DEF Placed
  <2>3. used = 0
    BY <1>12, <2>2, FS_EmptySet
  <2>4. ~Full(f, used)
    <3> SUFFICES ASSUME Parts(f) > 0 PROVE ~(0 * U > Parts(f) * N) /\ ~(0 * U = Parts(f) * N)
      BY <1>0, <2>3 DEF Full
    <3>1. PICK p \in Nat : p = Parts(f)
      BY <1>2, <1>6
    <3>2. p * N > 0
      BY <1>3, <1>5, <3>1
    <3>3. 0 * U = 0
      BY <1>6
    <3>4. ~(0 > p * N) /\ ~(0 = p * N)
      BY <1>3, <3>1, <3>2
    <3> QED BY <3>1, <3>3, <3>4
  <2> QED BY <1>0, <2>1, <2>4
<1>15. \A h \in 1..L : \E m \in 1..f : splitOf[h] = Splits[m]
  BY <1>0 DEF Filled
<1>16. \A h \in 1..L + 1 : \E m \in 1..n : splitOf'[h] = Splits[m]
  <2> SUFFICES ASSUME NEW h \in 1..L + 1 PROVE \E m \in 1..n : splitOf'[h] = Splits[m]
    OBVIOUS
  <2>1. 1..f \subseteq 1..n /\ n \in 1..n
    BY <1>2
  <2> QED BY <1>4, <1>15, <2>1
<1>17. ASSUME NEW h \in 1..L + 1, NEW i \in 1..L + 1, NEW m \in 1..3, NEW o \in 1..3,
              h < i, splitOf'[h] = Splits[m], splitOf'[i] = Splits[o]
       PROVE m <= o
  <2>1. h \in 1..L /\ splitOf[h] = Splits[m]
    BY <1>0, <1>3, <1>4, <1>17
  <2>2. CASE i \in 1..L
    <3>1. \A a, b \in 1..L, c, d \in 1..3 :
            (a < b /\ splitOf[a] = Splits[c] /\ splitOf[b] = Splits[d]) => c <= d
      BY <1>0 DEF Filled
    <3>2. splitOf[i] = Splits[o]
      BY <1>4, <1>17, <2>2
    <3> QED BY <1>17, <2>1, <2>2, <3>1, <3>2
  <2>3. CASE i = g
    <3>1. o = n
      BY <1>2, <1>4, <1>17, <2>3, ThreeSplits
    <3>2. PICK q \in 1..f : splitOf[h] = Splits[q]
      BY <1>15, <2>1
    <3>3. q = m
      <4>1. q \in 1..3 /\ Splits[q] = Splits[m]
        BY <1>2, <2>1, <3>2
      <4> QED BY <4>1, ThreeSplits
    <3> QED BY <1>2, <3>1, <3>2, <3>3
  <2> QED BY <1>4, <2>2, <2>3
<1>18. ASSUME NEW m \in 1..n - 1
       PROVE Parts(m)' > 0 /\ Cardinality(Placed(m)') * U >= Parts(m)' * N
  <2>1. m \in 1..3 /\ m # n /\ Placed(m)' = Placed(m) /\ Parts(m)' = Parts(m)
    BY <1>2, <1>6, <1>8
  <2>2. CASE m < f
    BY <1>0, <1>2, <2>1, <2>2 DEF Filled
  <2>3. CASE m = f
    <3>1. Full(f, used)
      BY <1>2, <2>1, <2>3
    <3>2. Parts(f) > 0 /\ (used * U > Parts(f) * N \/ used * U = Parts(f) * N)
      BY <1>0, <3>1 DEF Full
    <3>3. used * U \in Int /\ Parts(f) * N \in Int
      BY SMTT(30), <1>2, <1>3, <1>6, <1>12
    <3>4. used * U >= Parts(f) * N
      BY <3>2, <3>3
    <3> QED BY <1>12, <2>1, <2>3, <3>2, <3>4
  <2> QED BY <1>2, <2>2, <2>3
<1>19. ASSUME NEW m \in 1..n
       PROVE \E h \in 1..L + 1 : LastIn(h, m)' /\ TightAt(h, m)'
  <2>1. m \in 1..3
    BY <1>2
  <2>2. CASE m # n
    <3>1. m \in 1..f /\ L > 0
      BY <1>2, <1>3, <1>14, <2>2
    <3>2. PICK h \in 1..L : LastIn(h, m) /\ TightAt(h, m)
      BY <1>0, <3>1 DEF Filled
    <3>3. h \in 1..L + 1 /\ splitOf'[h] = splitOf[h] /\ h + 1..L + 1 \subseteq h + 1..L \union {g}
          /\ h + 1..L \subseteq 1..L
      BY <1>0, <1>3, <1>4
    <3>4. splitOf'[g] # Splits[m]
      BY <1>2, <1>4, <2>1, <2>2, ThreeSplits
    <3>5. LastIn(h, m)'
      BY <1>0, <1>4, <3>2, <3>3, <3>4 DEF LastIn
    <3>6. TightAt(h, m)'
      <4>1. Placed(m)' = Placed(m) /\ Parts(m)' = Parts(m)
        BY <1>6, <1>8, <2>1, <2>2
      <4> QED BY <1>1, <3>2, <4>1 DEF TightAt, Short
    <3> QED BY <3>3, <3>5, <3>6
  <2>3. CASE m = n
    <3>1. g \in 1..L + 1 /\ g + 1..L + 1 = {}
      BY <1>0, <1>3
    <3>2. LastIn(g, m)'
      BY <1>4, <2>3, <3>1 DEF LastIn
    <3>3. ASSUME n < 3, Parts(n) > 0
          PROVE LET before == Cardinality(Placed(n)') - Cardinality(groups[g].members)
                IN  before * U < Parts(n) * N \/ (before * U = Parts(n) * N /\ n \in above)
      <4>1. Cardinality(Placed(n)') - Cardinality(groups[g].members) = IF n = f THEN used ELSE 0
        <5>1. Cardinality(Placed(n)') = Cardinality(groups[g].members) + (IF n = f THEN used ELSE 0)
          BY <1>1, <1>13
        <5> QED BY <1>5, <1>12, <5>1
      <4>2. PICK p \in Nat : p = Parts(n)
        BY <1>2, <1>6
      <4>3. CASE n = f
        <5>1. ~(used * U > p * N) /\ (used * U = p * N => n \in above)
          BY <1>0, <1>2, <3>3, <4>2, <4>3 DEF Full
        <5>2. used * U \in Int /\ p * N \in Int
          BY <1>3, <1>6, <1>12
        <5> QED BY <4>1, <4>2, <4>3, <5>1, <5>2
      <4>4. CASE n # f
        <5>1. p * N > 0 /\ 0 * U = 0
          BY <1>3, <1>5, <1>6, <3>3, <4>2
        <5> QED BY <4>1, <4>2, <4>4, <5>1
      <4> QED BY <4>3, <4>4
    <3>4. TightAt(g, m)'
      <4>1. Parts(m)' = Parts(m)
        BY <1>6, <2>1
      <4> QED BY <1>0, <1>1, <2>3, <3>3, <4>1 DEF TightAt, Short
    <3> QED BY <3>1, <3>2, <3>4
  <2> QED BY <2>2, <2>3
<1>20. Filled'
  <2>1. /\ filling' = n /\ Len(splitOf') = L + 1 /\ L + 1 # 0 /\ Len(samples') = N /\ Unit = U
    BY <1>0, <1>1, <1>3, <1>4
  <2>2. used' = Cardinality(Placed(filling))'
    <3>1. Placed(filling)' = Placed(n)'
      BY <2>1 DEF Placed
    <3> QED BY <1>13, <3>1
  <2> QED BY <1>2, <1>16, <1>17, <1>18, <1>19, <2>1, <2>2 DEF Filled
<1> QED BY <1>1, <1>3, <1>4, <1>0, <1>20

\* The chains of the leakage audit.
Extended(k, end) == IF RowStart(k) > end THEN RowEnd(k) ELSE Larger(end, RowEnd(k))

Chains(f, n) == f = [k \in 1..n |-> IF k = 1 THEN RowEnd(k) ELSE Extended(k, f[k - 1])]

\* The recursion has a solution for every number of samples.
LEMMA ChainsExist == ASSUME NEW n \in Nat PROVE \E f : Chains(f, n)
<1> DEFINE Bad == {m \in Nat : ~\E f : Chains(f, m)}
<1> SUFFICES ASSUME Bad # {} PROVE FALSE
  OBVIOUS
<1>1. PICK m \in Bad : \A j \in Bad : m <= j
  BY LeastNatural
<1>2. CASE m = 0
  <2>1. 1..m = {}
    BY <1>2
  <2>2. Chains([k \in 1..m |-> 0], m)
    BY <2>1 DEF Chains
  <2> QED BY <2>2
<1>3. CASE m # 0
  <2>1. m - 1 \in Nat /\ m - 1 \notin Bad
    BY <1>1, <1>3
  <2>2. PICK f : Chains(f, m - 1)
    BY <2>1
  <2> DEFINE g == [k \in 1..m |-> IF k = 1 THEN RowEnd(k) ELSE Extended(k, f[k - 1])]
  <2>3. ASSUME NEW k \in 1..m - 1 PROVE g[k] = f[k]
    <3>1. k \in 1..m
      BY <2>1
    <3>2. f[k] = IF k = 1 THEN RowEnd(k) ELSE Extended(k, f[k - 1])
      BY <2>2 DEF Chains
    <3> QED BY <3>1, <3>2
  <2>4. ASSUME NEW k \in 1..m, k # 1 PROVE g[k - 1] = f[k - 1]
    <3>1. k - 1 \in 1..m - 1
      BY <2>4
    <3> QED BY <2>3, <3>1
  <2>5. g = [k \in 1..m |-> IF k = 1 THEN RowEnd(k) ELSE Extended(k, g[k - 1])]
    BY <2>4
  <2>6. Chains(g, m)
    BY <2>5 DEF Chains
  <2> QED BY <2>6
<1> QED BY <1>2, <1>3

\* MaxEnd is that solution.
LEMMA MaxEndExtends ==
    ASSUME SamplesReady, NEW k \in 1..Len(samples)
    PROVE MaxEnd[k] = IF k = 1 THEN RowEnd(k) ELSE Extended(k, MaxEnd[k - 1])
<1>1. Len(samples) \in Nat
  BY DEF SamplesReady
<1>2. PICK f : Chains(f, Len(samples))
  BY <1>1, ChainsExist
<1>3. \E g : g = [j \in 1..Len(samples) |->
                    IF j = 1 THEN RowEnd(j)
                    ELSE IF RowStart(j) > g[j - 1] THEN RowEnd(j)
                    ELSE Larger(g[j - 1], RowEnd(j))]
  BY <1>2 DEF Chains, Extended
<1>4. MaxEnd = [j \in 1..Len(samples) |->
                    IF j = 1 THEN RowEnd(j)
                    ELSE IF RowStart(j) > MaxEnd[j - 1] THEN RowEnd(j)
                    ELSE Larger(MaxEnd[j - 1], RowEnd(j))]
  BY <1>3 DEF MaxEnd
<1> QED BY <1>4 DEF Extended

\* A sample that touches the group of the one before it is in that group.
LEMMA TouchesGroup ==
    ASSUME SamplesReady, GroupInv, grouped = Len(samples), request.mode = "source_overlap",
           NEW k \in 2..Len(samples), RowStart(k) <= groups[GroupOf(k - 1)].max
    PROVE GroupOf(k) = GroupOf(k - 1)
<1>1. PICK g, h : g = GroupOf(k) /\ h = GroupOf(k - 1)
  OBVIOUS
<1>2. Len(samples) \in Nat /\ Len(groups) \in Nat
  BY GroupsAreApart
<1>3. k \in 1..grouped /\ k - 1 \in 1..grouped /\ k \in 1..Len(samples)
  BY <1>2
<1>4. /\ g \in 1..Len(groups) /\ k \in groups[g].members
      /\ h \in 1..Len(groups) /\ k - 1 \in groups[h].members
  BY <1>1, <1>3, OneGroup
<1>5. RowStart(k) \in Nat
  BY <1>3, SampleRows
<1>6. groups[h].max \in Nat
  BY <1>1, <1>3, OneGroup
<1>7. ~(h < g)
  <2> SUFFICES ASSUME h < g PROVE FALSE
    OBVIOUS
  <2>1. groups[h].max < RowStart(k)
    BY <1>4 DEF GroupInv
  <2> QED BY <1>1, <1>5, <1>6, <2>1
<1>8. ~(g < h)
  <2> SUFFICES ASSUME g < h PROVE FALSE
    OBVIOUS
  <2>1. k < k - 1
    BY <1>4 DEF GroupInv
  <2> QED BY <1>3, <2>1
<1> QED BY <1>1, <1>2, <1>4, <1>7, <1>8

\* The audit's chain never reaches further than the group.
LEMMA ChainsStayInGroups ==
    ASSUME SamplesReady, GroupInv, grouped = Len(samples), request.mode = "source_overlap",
           NEW n \in 1..Len(samples)
    PROVE MaxEnd[n] \in Nat /\ MaxEnd[n] <= groups[GroupOf(n)].max
<1> DEFINE Fits(k) == MaxEnd[k] \in Nat /\ MaxEnd[k] <= groups[GroupOf(k)].max
           Bad == {k \in 1..Len(samples) : ~Fits(k)}
<1> SUFFICES ASSUME Bad # {} PROVE FALSE
  OBVIOUS
<1>0. Len(samples) \in Nat /\ 1..Len(samples) \subseteq Nat
  BY GroupsAreApart
<1>1. PICK k \in Bad : \A j \in Bad : k <= j
  BY <1>0, LeastNatural
<1>2. k \in 1..Len(samples) /\ k \in 1..grouped
  OBVIOUS
<1>3. RowStart(k) \in Nat /\ RowEnd(k) \in Nat
  BY <1>2, SampleRows
<1>4. GroupOf(k) \in 1..Len(groups) /\ k \in groups[GroupOf(k)].members
  BY <1>2, OneGroup
<1>5. groups[GroupOf(k)].max \in Nat /\ RowEnd(k) <= groups[GroupOf(k)].max
  BY <1>2, OneGroup
<1>6. CASE k = 1
  <2>1. MaxEnd[k] = RowEnd(k)
    BY <1>2, <1>6, MaxEndExtends
  <2> QED BY <1>1, <1>3, <1>5, <2>1
<1>7. CASE k # 1
  <2>1. k \in 2..Len(samples) /\ k - 1 \in 1..Len(samples) /\ ~(k <= k - 1)
    BY <1>0, <1>2, <1>7
  <2>2. Fits(k - 1)
    <3>1. k - 1 \notin Bad
      BY <1>1, <2>1
    <3> QED BY <2>1, <3>1
  <2>3. MaxEnd[k] = Extended(k, MaxEnd[k - 1])
    BY <1>2, <1>7, MaxEndExtends
  <2>4. CASE RowStart(k) > MaxEnd[k - 1]
    <3>1. MaxEnd[k] = RowEnd(k)
      BY <2>3, <2>4 DEF Extended
    <3> QED BY <1>1, <1>3, <1>5, <3>1
  <2>5. CASE ~(RowStart(k) > MaxEnd[k - 1])
    <3>1. k - 1 \in 1..grouped
      BY <2>1
    <3>2. groups[GroupOf(k - 1)].max \in Nat
      BY <3>1, OneGroup
    <3>3. GroupOf(k) = GroupOf(k - 1)
      BY <1>3, <2>1, <2>2, <2>5, <3>2, TouchesGroup
    <3>4. MaxEnd[k] = Larger(MaxEnd[k - 1], RowEnd(k))
      BY <2>3, <2>5 DEF Extended
    <3>5. MaxEnd[k] \in {MaxEnd[k - 1], RowEnd(k)}
      BY <3>4 DEF Larger
    <3> QED BY <1>1, <1>3, <1>5, <2>2, <3>3, <3>5
  <2> QED BY <2>4, <2>5
<1> QED BY <1>6, <1>7

\* The audit finds nothing: a sample that its chain reaches is in the group of the one
\* before it, and so in its split.
LEMMA AuditPasses ==
    ASSUME SamplesReady, GroupInv, grouped = Len(samples), request.mode = "source_overlap"
    PROVE AuditedChains
<1> SUFFICES ASSUME NEW k \in 2..Len(samples), RowStart(k) <= MaxEnd[k - 1]
             PROVE SplitOf(k) = SplitOf(k - 1)
  BY DEF AuditedChains
<1>1. Len(samples) \in Nat
  BY GroupsAreApart
<1>2. k \in 1..Len(samples) /\ k - 1 \in 1..Len(samples) /\ k - 1 \in 1..grouped
  BY <1>1
<1>3. MaxEnd[k - 1] \in Nat /\ MaxEnd[k - 1] <= groups[GroupOf(k - 1)].max /\ RowStart(k) \in Nat
  BY <1>2, ChainsStayInGroups, SampleRows
<1>4. groups[GroupOf(k - 1)].max \in Nat
  BY <1>2, OneGroup
<1>5. GroupOf(k) = GroupOf(k - 1)
  BY <1>3, <1>4, TouchesGroup
<1> QED BY <1>5 DEF SplitOf

\* Packaging starts on samples that windowing left ready.
LEMMA SamplesAreReady ==
    ASSUME WindowInv, stage \in {"windowed", "grouping", "splitting", "packaged", "package_rejected"}
    PROVE SamplesReady
<1>1. CASE stage = "windowed"
  BY <1>1, WindowsInOrder DEF WindowInv
<1>2. CASE stage # "windowed"
  BY <1>2 DEF WindowInv
<1> QED BY <1>1, <1>2

\* Nothing changes that a group or a split depends on.
LEMMA PackageFrame ==
    ASSUME UNCHANGED <<samples, request, groups, grouped, filling, used, above, splitOf>>
    PROVE (GroupInv' <=> GroupInv) /\ (Filled' <=> Filled)
<1>1. GroupInv' <=> GroupInv
  BY DEF GroupInv, RowStart, RowEnd
<1>2. \A n : Placed(n)' = Placed(n) /\ Parts(n)' = Parts(n)
  BY DEF Placed, Parts
<1>3. \A g, n : (LastIn(g, n)' <=> LastIn(g, n)) /\ (TightAt(g, n)' <=> TightAt(g, n))
  BY <1>2 DEF LastIn, TightAt, Short
<1>4. Placed(filling)' = Placed(filling)
  BY DEF Placed
<1>5. Filled' <=> Filled
  BY <1>2, <1>3, <1>4 DEF Filled
<1> QED BY <1>1, <1>5

\* Every step keeps the groups and the splits in order.
LEMMA PackageStep ==
    ASSUME WindowInv, PackageInv, [Next]_vars
    PROVE PackageInv'
<1>1. ASSUME UNCHANGED <<groups, grouped, filling, used, splitOf>>,
             stage \notin {"grouping", "splitting", "packaged", "package_rejected"},
             stage' \notin {"grouping", "splitting", "packaged", "package_rejected", "leaking"}
      PROVE PackageInv'
  BY <1>1 DEF PackageInv, Undivided
<1>2. CASE RowStage
  <2>1. /\ stage' \in {"opening", "aligning", "synchronized", "cleaning", "cleaned", "rejected", "raised"}
        /\ stage \in {"idle", "opening", "aligning", "synchronized", "cleaning"}
    BY <1>2 DEF RowStage, RowNext, start_alignment, open_streams, align_row, finish_alignment,
       start_cleaning, evaluate_row, finish_cleaning, Fail
  <2>2. UNCHANGED <<groups, grouped, filling, used, splitOf>>
    BY <1>2 DEF RowStage, sampleVars
  <2> QED BY <1>1, <2>1, <2>2
<1>3. CASE WindowingStage
  <2>1. stage \in {"cleaned", "windowing"} /\ stage' \in {"windowing", "windowed", "raised", "disordered"}
    BY <1>3 DEF WindowingStage, start_windowing, take_row, finish_count_windows, take_timed_row,
       close_window, finish_time_windows, Windowing
  <2>2. UNCHANGED <<groups, grouped, filling, used, splitOf>>
    BY <1>3 DEF WindowingStage, start_windowing, take_row, finish_count_windows, take_timed_row,
       close_window, finish_time_windows, PackagingIdle
  <2> QED BY <1>1, <2>1, <2>2
<1>4. ASSUME NEW config \in PackageConfigs, start_packaging(config)
      PROVE PackageInv'
  <2>1. /\ stage = "windowed" /\ request' = config
        /\ stage' = IF samples = << >> THEN "package_rejected" ELSE "grouping"
        /\ UNCHANGED <<samples, groups, grouped, filling, used, splitOf>>
    BY <1>4 DEF start_packaging, WindowingIdle, PackagingIdle
  <2>2. Undivided /\ SamplesReady
    BY <2>1, SamplesAreReady DEF PackageInv
  <2>3. /\ groups' = << >> /\ grouped' = 0 /\ filling' = 1 /\ used' = 0 /\ splitOf' = << >>
        /\ samples' = samples /\ Len(samples) \in Nat /\ request' \in PackageConfigs
    BY <2>1, <2>2 DEF Undivided, SamplesReady
  <2>4. GroupInv'
    <3>1. groups' \in Seq(GroupSet) /\ Len(groups') = 0 /\ 1..Len(groups') = {} /\ 1..grouped' = {}
      BY <2>3
    <3> QED BY <2>3, <3>1 DEF GroupInv
  <2>5. Filled'
    <3>1. Len(splitOf') = 0 /\ 1..Len(splitOf') = {} /\ 1..filling' - 1 = {}
      BY <2>3
    <3>2. Placed(filling)' = {}
      BY <3>1 DEF Placed
    <3>3. Cardinality(Placed(filling)') = 0
      BY <3>2, FS_EmptySet
    <3> QED BY <2>3, <3>1, <3>3 DEF Filled
  <2>6. splitOf' \in Seq(SplitNames) /\ Len(splitOf') = 0 /\ Len(groups') = 0
    BY <2>3
  <2>7. samples = << >> => Len(samples) = 0
    OBVIOUS
  <2> QED BY <2>1, <2>3, <2>4, <2>5, <2>6, <2>7 DEF PackageInv
<1>5. CASE group_sample
  <2>1. /\ stage = "grouping" /\ UNCHANGED <<stage, request, filling, used, splitOf>>
    BY <1>5 DEF group_sample, RowsIdle
  <2>2. GroupInv /\ SamplesReady /\ request \in PackageConfigs
    BY <2>1, SamplesAreReady DEF PackageInv
  <2>3. GroupInv'
    BY <1>5, <2>2, GroupSample
  <2> QED BY <2>1, <2>2, <2>3 DEF PackageInv
<1>6. CASE finish_grouping
  <2>1. /\ stage = "grouping" /\ stage' = "splitting" /\ grouped = Len(samples)
        /\ UNCHANGED <<samples, request, groups, grouped, filling, used, splitOf>>
    BY <1>6 DEF finish_grouping, RowsIdle, WindowingIdle
  <2>2. /\ GroupInv /\ request \in PackageConfigs
        /\ filling = 1 /\ used = 0 /\ splitOf = << >>
    BY <2>1 DEF PackageInv
  <2>3. Filled'
    <3>1. Len(splitOf') = 0 /\ 1..Len(splitOf') = {} /\ 1..filling' - 1 = {}
      BY <2>1, <2>2
    <3>2. Placed(filling)' = {}
      BY <3>1 DEF Placed
    <3>3. Cardinality(Placed(filling)') = 0
      BY <3>2, FS_EmptySet
    <3> QED BY <2>1, <2>2, <3>1, <3>3 DEF Filled
  <2>4. GroupInv' /\ Filled'
    BY <2>1, <2>2, <2>3 DEF GroupInv, RowStart, RowEnd
  <2>5. splitOf' \in Seq(SplitNames) /\ Len(splitOf') = 0 /\ Len(groups') \in Nat
    BY <2>1, <2>2 DEF GroupInv
  <2> QED BY <2>1, <2>2, <2>4, <2>5 DEF PackageInv
<1>7. CASE assign_sequential
  <2>1. /\ stage = "splitting" /\ request.strategy = "sequential"
        /\ UNCHANGED <<stage, samples, request, groups, grouped>>
    BY <1>7 DEF assign_sequential, RowsIdle, WindowingIdle
  <2>2. /\ GroupInv /\ SamplesReady /\ request \in PackageConfigs /\ grouped = Len(samples)
        /\ splitOf \in Seq(SplitNames) /\ Len(splitOf) <= Len(groups) /\ Filled
    BY <2>1, SamplesAreReady DEF PackageInv
  <2>3. Filled' /\ splitOf' \in Seq(SplitNames) /\ Len(splitOf') <= Len(groups)
    BY <1>7, <2>2, AssignSequential
  <2>4. GroupInv'
    BY <2>1, <2>2 DEF GroupInv, RowStart, RowEnd
  <2> QED BY <2>1, <2>2, <2>3, <2>4 DEF PackageInv
<1>8. ASSUME NEW fraction \in 0..Unit - 1, assign_by_hash(fraction)
      PROVE PackageInv'
  <2>1. /\ stage = "splitting" /\ request.strategy = "group_hash" /\ Len(splitOf) < Len(groups)
        /\ UNCHANGED <<stage, samples, request, groups, grouped>>
    BY <1>8 DEF assign_by_hash, RowsIdle, WindowingIdle
  <2>2. PICK name \in SplitNames : splitOf' = Append(splitOf, name)
    BY <1>8 DEF assign_by_hash, SplitNames
  <2>3. /\ GroupInv /\ request \in PackageConfigs /\ grouped = Len(samples)
        /\ splitOf \in Seq(SplitNames) /\ Len(groups) \in Nat
    BY <2>1 DEF PackageInv, GroupInv
  <2>4. splitOf' \in Seq(SplitNames) /\ Len(splitOf') <= Len(groups)
    BY <2>1, <2>2, <2>3
  <2>5. GroupInv'
    BY <2>1, <2>3 DEF GroupInv, RowStart, RowEnd
  <2> QED BY <2>1, <2>3, <2>4, <2>5 DEF PackageInv
<1>9. CASE audit_and_write
  <2>1. /\ stage = "splitting" /\ Len(splitOf) = Len(groups)
        /\ UNCHANGED <<samples, request, groups, grouped, filling, used, above, splitOf>>
    BY <1>9 DEF audit_and_write, RowsIdle, WindowingIdle
  <2>2. /\ GroupInv /\ SamplesReady /\ request \in PackageConfigs /\ grouped = Len(samples)
        /\ splitOf \in Seq(SplitNames) /\ (request.strategy = "sequential" => Filled)
    BY <2>1, SamplesAreReady DEF PackageInv
  <2>3. request.mode = "source_overlap" => AuditedChains
    BY <2>2, AuditPasses
  <2>4. stage' \in {"package_rejected", "packaged"}
    BY <1>9, <2>3 DEF audit_and_write
  <2>5. GroupInv' /\ (request.strategy = "sequential" => Filled')
    BY <2>1, <2>2, PackageFrame
  <2>6. Len(groups) \in Nat
    BY <2>2 DEF GroupInv
  <2>7. ASSUME stage' = "packaged", NEW n \in Requested PROVE SamplesIn(n) # {}
    BY <1>9, <2>7 DEF audit_and_write, SamplesIn
  <2>8. Requested' = Requested /\ \A n : SamplesIn(n)' = SamplesIn(n)
    BY <2>1 DEF Requested, Parts, SamplesIn, SplitOf, GroupOf
  <2> QED BY <2>1, <2>2, <2>4, <2>5, <2>6, <2>7, <2>8 DEF PackageInv
<1>10. CASE UNCHANGED vars
  <2>1. UNCHANGED <<stage, request, samples, groups, grouped, filling, used, above, splitOf>>
    BY <1>10 DEF vars, rowVars, sampleVars
  <2>2. (GroupInv' <=> GroupInv) /\ (Filled' <=> Filled) /\ (Undivided' <=> Undivided)
    BY <2>1, PackageFrame DEF Undivided
  <2>3. Requested' = Requested /\ \A n : SamplesIn(n)' = SamplesIn(n)
    BY <2>1 DEF Requested, Parts, SamplesIn, SplitOf, GroupOf
  <2> QED BY <2>1, <2>2, <2>3 DEF PackageInv
<1> QED BY <1>2, <1>3, <1>4, <1>5, <1>6, <1>7, <1>8, <1>9, <1>10 DEF Next, PackagingStage

\* Samples of two groups share no row.
LEMMA GroupsShareNoRow ==
    ASSUME SamplesReady, GroupInv, grouped = Len(samples), request \in PackageConfigs,
           NEW i \in 1..Len(samples), NEW j \in 1..Len(samples), GroupOf(i) < GroupOf(j)
    PROVE RowsOf(i) \cap RowsOf(j) = {}
<1>1. PICK g, h : g = GroupOf(i) /\ h = GroupOf(j)
  OBVIOUS
<1>2. /\ g \in 1..Len(groups) /\ h \in 1..Len(groups) /\ g < h /\ j \in groups[h].members
      /\ groups[g].max \in Nat /\ RowEnd(i) <= groups[g].max
  BY <1>1, OneGroup
<1>3. Len(groups) \in Nat /\ request.mode \in {"source_overlap", "session"}
  BY GroupsAreApart, SplitAssumption
<1>4. CASE request.mode = "source_overlap"
  <2>1. groups[g].max < RowStart(j)
    BY <1>2, <1>4 DEF GroupInv
  <2>2. RowStart(j) \in Nat /\ RowEnd(i) \in Nat
    BY SampleRows
  <2>3. ASSUME NEW n \in RowsOf(i), n \in RowsOf(j) PROVE FALSE
    <3>1. n \in Nat /\ n <= RowEnd(i)
      BY SampleRows
    <3>2. RowStart(j) <= n
      BY <2>3, SampleRows
    <3> QED BY <1>2, <2>1, <2>2, <3>1, <3>2
  <2> QED BY <2>3
<1>5. CASE request.mode = "session"
  <2>1. Len(groups) <= 1
    BY <1>5 DEF GroupInv
  <2> QED BY <1>2, <1>3, <2>1
<1> QED BY <1>3, <1>4, <1>5

\* Two splits share no row of the source.
LEMMA SplitsAreDisjoint ==
    ASSUME WindowInv, PackageInv
    PROVE SplitsShareNoRow
<1>1. stage # "leaking"
  BY DEF PackageInv
<1>2. ASSUME stage \in {"splitting", "packaged", "package_rejected"},
             NEW i \in 1..Len(samples), NEW j \in 1..Len(samples), SplitOf(i) # SplitOf(j)
      PROVE RowsOf(i) \cap RowsOf(j) = {}
  <2>1. SamplesReady /\ GroupInv /\ grouped = Len(samples) /\ request \in PackageConfigs
    BY <1>2, SamplesAreReady DEF PackageInv
  <2>2. GroupOf(i) # GroupOf(j)
    BY <1>2 DEF SplitOf
  <2>3. GroupOf(i) \in 1..Len(groups) /\ GroupOf(j) \in 1..Len(groups) /\ Len(groups) \in Nat
    BY <2>1, OneGroup, GroupsAreApart
  <2>4. GroupOf(i) < GroupOf(j) \/ GroupOf(j) < GroupOf(i)
    BY <2>2, <2>3
  <2>5. RowsOf(i) \cap RowsOf(j) = {} \/ RowsOf(j) \cap RowsOf(i) = {}
    BY <2>1, <2>4, GroupsShareNoRow
  <2> QED BY <2>5
<1> QED BY <1>1, <1>2 DEF SplitsShareNoRow

\* The inductive invariant of the three stages.
THEOREM PackageInvariance == Spec => [](WindowInv /\ PackageInv)
<1>1. Init => AlignInv /\ CleanInv /\ WindowInv
  BY RowsInitially
<1>2. Init => PackageInv
  BY DEF Init, RowInit, PackageInv, Undivided
<1>3. AlignInv /\ CleanInv /\ WindowInv /\ [Next]_vars => AlignInv' /\ CleanInv' /\ WindowInv'
  BY AlignStep, CleanStep, WindowStep
<1>4. WindowInv /\ PackageInv /\ [Next]_vars => PackageInv'
  BY PackageStep
<1> QED BY <1>1, <1>2, <1>3, <1>4, PTL DEF Spec

\* Whatever the windows, the grouping mode, the strategy and the ratios, no row of the
\* source reaches two splits, and run_leakage_checks never refuses a package: every split
\* takes whole groups, and no sample touches a row of another group.
THEOREM SplitsDoNotLeak == Spec => []SplitsShareNoRow
<1>1. WindowInv /\ PackageInv => SplitsShareNoRow
  BY SplitsAreDisjoint
<1> QED BY <1>1, PackageInvariance, PTL

\* When every group has its split, the samples of a split are those placed in it.
LEMMA AllPlaced ==
    ASSUME SamplesReady, GroupInv, grouped = Len(samples), Len(splitOf) = Len(groups), NEW n
    PROVE SamplesIn(n) = Placed(n)
<1>1. ASSUME NEW k \in 1..Len(samples)
      PROVE SplitOf(k) = Splits[n]
            <=> \E g \in 1..Len(splitOf) : splitOf[g] = Splits[n] /\ k \in groups[g].members
  <2>1. /\ GroupOf(k) \in 1..Len(splitOf) /\ k \in groups[GroupOf(k)].members
        /\ \A g \in 1..Len(splitOf) : k \in groups[g].members => g = GroupOf(k)
    BY OneGroup
  <2> QED BY <2>1 DEF SplitOf
<1> QED BY <1>1 DEF SamplesIn, Placed

\* Two disjoint splits hold no more samples than there are.
LEMMA SplitsFit ==
    ASSUME SamplesReady, GroupInv, Len(splitOf) \in Nat, Len(splitOf) <= Len(groups)
    PROVE /\ Placed(2) # {} => Cardinality(Placed(1)) < Len(samples)
          /\ Placed(3) # {} => Cardinality(Placed(1)) + Cardinality(Placed(2)) < Len(samples)
<1>1. PICK N : N = Len(samples)
  OBVIOUS
<1>2. N \in Nat /\ IsFiniteSet(1..N) /\ Cardinality(1..N) = N
  <2>1. N \in Nat
    BY <1>1, GroupsAreApart
  <2>2. IsFiniteSet(1..N) /\ Cardinality(1..N) = IF 1 > N THEN 0 ELSE N - 1 + 1
    <3>1. 1 \in Int /\ N \in Int
      BY <2>1
    <3>2. /\ IsFiniteSet(1..N)
          /\ Cardinality(1..N) = IF 1 > N THEN 0 ELSE N - 1 + 1
      BY ONLY <3>1, FS_Interval
    <3> QED BY <3>2
  <2> QED BY <2>1, <2>2
<1>3. PICK A, B, C : A = Placed(1) /\ B = Placed(2) /\ C = Placed(3)
  OBVIOUS
<1>4. /\ A \subseteq 1..N /\ B \subseteq 1..N /\ C \subseteq 1..N
      /\ IsFiniteSet(A) /\ IsFiniteSet(B)
      /\ Cardinality(A) \in Nat /\ Cardinality(B) \in Nat
  BY <1>1, <1>3, SplitsAreApart
<1>5. A \cap B = {} /\ A \cap C = {} /\ B \cap C = {}
  <2>1. 1 \in 1..3 /\ 2 \in 1..3 /\ 3 \in 1..3 /\ 1 # 2 /\ 1 # 3 /\ 2 # 3
    OBVIOUS
  <2> QED BY <1>3, <2>1, SplitsAreApart
<1>6. ASSUME NEW X \in SUBSET (1..N), X # 1..N PROVE Cardinality(X) < N
  <2>1. /\ IsFiniteSet(X) /\ Cardinality(X) <= N
        /\ Cardinality(1..N) = Cardinality(X) => 1..N = X
    BY <1>2, FS_Subset
  <2>2. Cardinality(X) \in Nat /\ Cardinality(X) # N
    BY <1>2, <1>6, <2>1, FS_CardinalityType
  <2> QED BY <1>2, <2>1, <2>2
<1>7. B # {} => Cardinality(A) < N
  <2> SUFFICES ASSUME B # {} PROVE A # 1..N
    BY <1>4, <1>6
  <2> QED BY <1>4, <1>5
<1>8. C # {} => Cardinality(A) + Cardinality(B) < N
  <2> SUFFICES ASSUME C # {} PROVE Cardinality(A) + Cardinality(B) < N
    OBVIOUS
  <2>1. A \union B # 1..N /\ A \union B \in SUBSET (1..N)
    BY <1>4, <1>5
  <2>2. Cardinality(A \union B) < N
    BY <1>6, <2>1
  <2>3. Cardinality(A \union B) = Cardinality(A) + Cardinality(B) - Cardinality(A \cap B)
    BY <1>4, FS_Union
  <2>4. Cardinality(A \cap B) = 0
    BY <1>5, FS_EmptySet
  <2> QED BY <1>4, <2>2, <2>3, <2>4
<1> QED BY <1>1, <1>3, <1>7, <1>8

\* Splits that reached their targets leave the rest to be asked for, unless the ratios fall
\* short of one by a whole sample.
LEMMA SharesLeft ==
    ASSUME NEW a \in Nat, NEW b \in Nat, NEW N \in Nat, NEW U \in Nat,
           NEW p \in Nat, NEW q \in Nat, NEW r \in Nat, (U - (p + q + r)) * N < U
    PROVE /\ a < N /\ a * U >= p * N => q + r > 0
          /\ (a + b < N /\ a * U >= p * N /\ b * U >= q * N) => r > 0
<1>1. ASSUME NEW x \in Nat, NEW t \in Nat, x < N, (U - t) * N < U PROVE x * U < t * N
  <2>1. PICK y \in Nat : N = x + 1 + y
    <3>1. N - x - 1 \in Nat /\ N = x + 1 + (N - x - 1)
      BY <1>1
    <3> QED BY <3>1
  <2>2. U * N = x * U + U + U * y /\ (U - t) * N = U * N - t * N
    BY <2>1
  <2>3. U * y >= 0 /\ U * y \in Int /\ x * U \in Int /\ t * N \in Int /\ U * N \in Int
    OBVIOUS
  <2>4. U * N - t * N < U
    BY <1>1, <2>2
  <2> QED BY <2>2, <2>3, <2>4
<1>2. ASSUME a < N, a * U >= p * N, q + r = 0 PROVE FALSE
  <2>1. p + q + r = p
    BY <1>2
  <2>2. a * U < p * N
    BY <1>1, <1>2, <2>1
  <2>3. a * U \in Int /\ p * N \in Int
    OBVIOUS
  <2> QED BY <1>2, <2>2, <2>3
<1>3. ASSUME a + b < N, a * U >= p * N, b * U >= q * N, r = 0 PROVE FALSE
  <2>1. p + q + r = p + q /\ a + b \in Nat /\ p + q \in Nat
    BY <1>3
  <2>2. (a + b) * U < (p + q) * N
    BY <1>1, <1>3, <2>1
  <2>3. (a + b) * U = a * U + b * U /\ (p + q) * N = p * N + q * N
    OBVIOUS
  <2>4. a * U \in Int /\ b * U \in Int /\ p * N \in Int /\ q * N \in Int
    OBVIOUS
  <2> QED BY <1>3, <2>2, <2>3, <2>4
<1> QED BY <1>2, <1>3

\* Sequential splits in the end.
LEMMA FillIsTight ==
    ASSUME WindowInv, PackageInv
    PROVE SequentialFillIsTight
<1> SUFFICES ASSUME Assigned, request.strategy = "sequential" PROVE
        /\ \A n \in 1..3 : \A k \in SamplesIn(n), m \in 1..n - 1 : \A j \in SamplesIn(m) : j < k
        /\ \A n \in 1..2 : (SamplesIn(n) # {} /\ SamplesIn(n + 1) # {}) =>
            LET exact == Parts(n) * Len(samples)
                count == Cardinality(SamplesIn(n))
                before == count - Cardinality(groups[LastGroup(n)].members)
            IN  /\ count * Unit >= exact
                /\ before * Unit < exact \/ (before * Unit = exact /\ n \in above)
        /\ (RatiosAddUp /\ (Parts(2) > 0 \/ Parts(3) = 0)) =>
            \A n \in 1..3 : SamplesIn(n) # {} => n \in Requested
        /\ (Parts(2) = 0 /\ Parts(3) > 0) => SamplesIn(3) = {} /\ stage = "package_rejected"
  BY DEF SequentialFillIsTight
<1>0. PICK L, f, N, U : L = Len(groups) /\ f = filling /\ N = Len(samples) /\ U = Unit
  OBVIOUS
<1>1. /\ SamplesReady /\ GroupInv /\ request \in PackageConfigs /\ grouped = N
      /\ splitOf \in Seq(SplitNames) /\ Len(splitOf) = L /\ Filled
  BY <1>0, SamplesAreReady DEF PackageInv, Assigned
<1>2. L \in Nat /\ N \in Nat /\ f \in 1..3 /\ U \in Nat
  BY <1>0, <1>1, GroupsAreApart, SplitAssumption DEF Filled
<1>3. N > 0
  BY <1>0, <1>1, <1>2 DEF SamplesReady, Assigned
<1>4. \A m : SamplesIn(m) = Placed(m)
  BY <1>0, <1>1, AllPlaced
<1>5. L > 0
  <2>1. 1 \in 1..grouped
    BY <1>1, <1>2, <1>3
  <2>2. GroupOf(1) \in 1..L
    BY <1>0, <1>1, <2>1, OneGroup
  <2> QED BY <1>2, <2>2
<1>6. /\ \A m \in 1..3 : Parts(m) \in Nat
      /\ Parts(1) > 0
      /\ RatiosAddUp => (U - (Parts(1) + Parts(2) + Parts(3))) * N < U
  <2>1. /\ request.ratios \in [SplitNames -> Nat] /\ request.ratios["train"] > 0
        /\ Total(request.ratios)
            = request.ratios["train"] + request.ratios["validation"] + request.ratios["test"]
    BY <1>1, SplitAssumption DEF Total
  <2>2. Splits[1] = "train" /\ Splits[2] = "validation" /\ Splits[3] = "test"
    BY DEF Splits
  <2>3. Parts(1) > 0 /\ Total(request.ratios) = Parts(1) + Parts(2) + Parts(3)
    BY <2>1, <2>2 DEF Parts
  <2>4. \A m \in 1..3 : Parts(m) \in Nat
    BY <2>1, ThreeSplits DEF Parts
  <2> QED BY <1>0, <2>3, <2>4 DEF RatiosAddUp
<1>7. ASSUME NEW m \in 1..3, Placed(m) # {} PROVE m <= f
  <2>1. PICK g \in 1..L : splitOf[g] = Splits[m]
    BY <1>1, <1>7 DEF Placed
  <2>2. PICK q \in 1..f : splitOf[g] = Splits[q]
    BY <1>0, <1>1, <2>1 DEF Filled
  <2>3. q \in 1..3 /\ Splits[q] = Splits[m]
    BY <1>2, <2>1, <2>2
  <2>4. q = m
    BY <2>3, ThreeSplits
  <2> QED BY <1>2, <2>4
<1>8. ASSUME NEW n \in 1..3, NEW k \in Placed(n), NEW m \in 1..n - 1, NEW j \in Placed(m) PROVE j < k
  <2>1. PICK g \in 1..L : splitOf[g] = Splits[n] /\ k \in groups[g].members
    BY <1>1 DEF Placed
  <2>2. PICK h \in 1..L : splitOf[h] = Splits[m] /\ j \in groups[h].members
    BY <1>1 DEF Placed
  <2>3. m \in 1..3 /\ m < n
    OBVIOUS
  <2>4. g # h
    BY <2>1, <2>2, <2>3, ThreeSplits
  <2>5. ~(g < h)
    <3> SUFFICES ASSUME g < h PROVE FALSE
      OBVIOUS
    <3>1. n <= m
      BY <1>1, <2>1, <2>2, <2>3 DEF Filled
    <3> QED BY <2>3, <3>1
  <2>6. h < g
    BY <1>2, <2>4, <2>5
  <2> QED BY <1>0, <1>1, <2>1, <2>2, <2>6 DEF GroupInv
<1>9. \A m \in 1..f - 1 : Parts(m) > 0 /\ Cardinality(Placed(m)) * U >= Parts(m) * N
  BY <1>0, <1>1 DEF Filled
<1>10. ASSUME RatiosAddUp, Parts(2) > 0 \/ Parts(3) = 0, NEW n \in 1..3, Placed(n) # {}
       PROVE Parts(n) > 0
  <2>1. PICK p \in Nat, q \in Nat, r \in Nat : p = Parts(1) /\ q = Parts(2) /\ r = Parts(3)
    BY <1>6
  <2>2. PICK a \in Nat, b \in Nat : a = Cardinality(Placed(1)) /\ b = Cardinality(Placed(2))
    BY <1>0, <1>1, <1>2, SplitsAreApart
  <2>3. p > 0 /\ (U - (p + q + r)) * N < U /\ (q > 0 \/ r = 0)
    BY <1>6, <1>10, <2>1
  <2>4. n <= f
    BY <1>7, <1>10
  <2>5. (Placed(2) # {} => a < N) /\ (Placed(3) # {} => a + b < N)
    BY <1>0, <1>1, <1>2, <2>2, SplitsFit
  <2>6. CASE n = 1
    BY <2>1, <2>3, <2>6
  <2>7. CASE n = 2
    <3>1. 1 \in 1..f - 1
      BY <1>2, <2>4, <2>7
    <3>2. a * U >= p * N /\ a < N
      BY <1>9, <1>10, <2>1, <2>2, <2>5, <2>7, <3>1
    <3>3. q + r > 0
      BY <1>2, <2>3, <3>2, SharesLeft
    <3> QED BY <2>1, <2>3, <2>7, <3>3
  <2>8. CASE n = 3
    <3>1. 1 \in 1..f - 1 /\ 2 \in 1..f - 1
      BY <1>2, <2>4, <2>8
    <3>2. a * U >= p * N /\ b * U >= q * N /\ a + b < N
      BY <1>9, <1>10, <2>1, <2>2, <2>5, <2>8, <3>1
    <3>3. r > 0
      BY <1>2, <2>3, <3>2, SharesLeft
    <3> QED BY <2>1, <2>8, <3>3
  <2> QED BY <2>6, <2>7, <2>8
<1>11. ASSUME NEW n \in 1..2, Placed(n) # {}, Placed(n + 1) # {}
       PROVE /\ Cardinality(Placed(n)) * U >= Parts(n) * N
             /\ Short(n, Cardinality(Placed(n)) - Cardinality(groups[LastGroup(n)].members))
  <2>1. n \in 1..3 /\ n + 1 \in 1..3 /\ n < 3
    OBVIOUS
  <2>2. n \in 1..f - 1 /\ n \in 1..f
    BY <1>2, <1>7, <1>11, <2>1
  <2>3. PICK g \in 1..L : LastIn(g, n) /\ TightAt(g, n)
    BY <1>0, <1>1, <1>5, <2>2 DEF Filled
  <2>4. LastGroup(n) \in 1..L /\ LastIn(LastGroup(n), n)
    BY <1>0, <1>1, <2>3 DEF LastIn, LastGroup
  <2>5. LastGroup(n) = g
    <3>1. ASSUME NEW x \in 1..L, NEW y \in 1..L, x < y, LastIn(x, n), LastIn(y, n) PROVE FALSE
      <4>1. y \in x + 1..L
        BY <1>2, <3>1
      <4> QED BY <1>1, <3>1, <4>1 DEF LastIn
    <3>2. ~(LastGroup(n) < g) /\ ~(g < LastGroup(n))
      BY <2>3, <2>4, <3>1
    <3> QED BY <1>2, <2>4, <3>2
  <2>6. Cardinality(Placed(n)) * U >= Parts(n) * N /\ Parts(n) > 0
    BY <1>9, <2>2
  <2> QED BY <2>1, <2>3, <2>5, <2>6 DEF TightAt
<1>12. ASSUME Parts(2) = 0, Parts(3) > 0
       PROVE Placed(3) = {} /\ stage = "package_rejected"
  <2>1. ~(2 \in 1..f - 1)
    BY <1>9, <1>12
  <2>2. Placed(3) = {}
    BY <1>2, <1>7, <2>1
  <2>3. 3 \in Requested /\ SamplesIn(3) = {}
    BY <1>4, <1>12, <2>2 DEF Requested
  <2> QED BY <2>2, <2>3 DEF PackageInv, Assigned
<1> QED BY <1>0, <1>4, <1>8, <1>10, <1>11, <1>12 DEF Requested, Short

\* assign_sequential_splits cuts the dataset into stretches in the order train, validation,
\* test; leaves a split with the group that reaches its target, not before it and with no
\* group too many (but one where the float target is above the whole number it stands for);
\* gives nothing to a split that was not asked for, unless the tolerance on the ratios is
\* worth a whole sample or validation is the split with the ratio of zero before a positive
\* test ratio, which makes every package a rejected one.
THEOREM SequentialSplitsAreTight == Spec => []SequentialFillIsTight
<1>1. WindowInv /\ PackageInv => SequentialFillIsTight
  BY FillIsTight
<1> QED BY <1>1, PackageInvariance, PTL
=============================================================================
