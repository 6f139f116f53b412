----------------------------- MODULE RowStreams -----------------------------
(***************************************************************************)
(* What stages 5 and 6 do with rows.  Synchronization walks every stream   *)
(* forward once, with one sample of lookback and one of lookahead, and     *)
(* writes a row per target timestamp (app/synchronization).  Cleaning      *)
(* passes each row through an ordered list of rules that remember the rows *)
(* they have seen (app/cleaning).  Each action is one row; what a stage    *)
(* keeps in memory goes when the next stage starts.  Time is in microseconds *)
(* from any origin; numbers are exact.                                     *)
(***************************************************************************)
EXTENDS Integers, Sequences, FiniteSets

CONSTANTS
    Streams,        \* the streams of the request
    Reference,      \* reference.stream
    SyncInputs,     \* what the normalized artifacts may hold: functions from Streams to
                    \* sequences of Samples
    Labels,         \* values of the fields that are not numbers
    SyncConfigs,    \* [mode, methods, tolerance, period, clocks]
    CleaningConfigs,\* [required, min_present, drop_optional, duplicates, redact, min_rows]
    None

\* A normalized record: its instant, a number and another field (None if null).
Samples == [at : Int, number : Int \union {None}, label : Labels \union {None}]

\* What a row holds of a stream; a number is a fraction.
Payloads == [number : (Int \union {None}) \X (Int \ {0}), label : Labels \union {None}]

\* fixed_rate_period_us refuses a period that is not positive; den is the denominator
\* of a clock's scale, whose sign is start_alignment's to test.
ASSUME RowAssumption ==
    /\ IsFiniteSet(Streams) /\ Reference \in Streams
    /\ None \notin Int /\ None \notin Payloads
    /\ SyncInputs \subseteq [Streams -> Seq(Samples)]
    /\ \A config \in SyncConfigs :
        /\ config.mode \in {"stream", "fixed_rate"}
        /\ config.methods \in [Streams -> {"nearest", "linear"}]
        /\ config.tolerance \in Int /\ config.period \in Nat \ {0}
        /\ config.clocks \in [Streams -> [num : Int, den : Nat \ {0}, offset : Int]]

VARIABLES
    stage,      \* the stage at work, or what the last one came to
    request,    \* its configuration
    source,     \* synchronization: the samples of each stream
    cursor,     \* samples each StreamCursor has moved past; the next one is pending
    target,     \* the target timestamp of the next row; None when there are no more
    position,   \* reference samples consumed
    rows,       \* the synchronized rows
    seen,       \* cleaning: rows that DuplicateRowRule has recorded
    evaluated,  \* rows evaluated so far
    kept,       \* rows retained, with their row_index
    dropped     \* rows dropped, with their row_index and reason

rowVars == <<stage, request, source, cursor, target, position, rows, seen, evaluated, kept, dropped>>

RowInit ==
    /\ stage = "idle" /\ request = None
    /\ source = [s \in Streams |-> << >>] /\ cursor = [s \in Streams |-> 0]
    /\ target = None /\ position = 0
    /\ rows = << >>
    /\ seen = {} /\ evaluated = 0 /\ kept = << >> /\ dropped = << >>

-----------------------------------------------------------------------------
(* Clocks and timelines.                                                   *)

\* Python's round: halves go to the even neighbour.  d > 0.
RoundHalfEven(n, d) ==
    LET q == n \div d
        r == n % d
    IN  IF 2 * r > d \/ (2 * r = d /\ q % 2 = 1) THEN q + 1 ELSE q

\* apply_clock_correction anchored at the stream's first sample; the scale num / den is
\* 1 + drift_ppm / 1e6.
Corrected(s, k) ==
    LET clock == request.clocks[s]
        anchor == source[s][1].at
    IN  RoundHalfEven((anchor + clock.offset) * clock.den + (source[s][k].at - anchor) * clock.num,
                      clock.den)

\* iter_typed_records raises NonMonotonicStreamError at the first sample that goes back.
Backward(s, k) == k \in 2..Len(source[s]) /\ source[s][k].at < source[s][k - 1].at

\* Sample k of s is read without meeting such a sample.
ReadsTo(s, k) == \A j \in 2..k : ~Backward(s, j)

FirstAt(s) == Corrected(s, 1)
LastAt(s) == Corrected(s, Len(source[s]))

\* intersection_interval; start > end leaves no target.
IntersectionStart == CHOOSE t \in {FirstAt(s) : s \in Streams} : \A s \in Streams : FirstAt(s) <= t
IntersectionEnd == CHOOSE t \in {LastAt(s) : s \in Streams} : \A s \in Streams : t <= LastAt(s)

-----------------------------------------------------------------------------
(* Alignment of one stream with one target.                                *)

Distance(t, u) == IF t < u THEN u - t ELSE t - u

\* (A slip: the cursor stops at the first sample that reaches the target.)
advance_before(s, p, t) ==
    CHOOSE k \in p..Len(source[s]) :
        /\ \A j \in p + 1..k : Corrected(s, j) < t
        /\ k = Len(source[s]) \/ Corrected(s, k + 1) >= t

\* StreamCursor.advance_to: past every sample at or before the target.
AdvanceTo(s, p, t) ==
    CHOOSE k \in p..Len(source[s]) :
        /\ \A j \in p + 1..k : Corrected(s, j) <= t
        /\ k = Len(source[s]) \/ Corrected(s, k + 1) > t

Payload(number, label) == [number |-> number, label |-> label]
Whole(s, k) == Payload(<<source[s][k].number, 1>>, source[s][k].label)

\* NearestAlignmentStrategy.align; a tie goes to prev.
AlignNearest(s, k, t) ==
    LET candidates == {k, k + 1} \cap 1..Len(source[s])
        best == CHOOSE j \in candidates : \A i \in candidates :
                    \/ Distance(Corrected(s, j), t) < Distance(Corrected(s, i), t)
                    \/ Distance(Corrected(s, j), t) = Distance(Corrected(s, i), t) /\ j <= i
    IN  IF candidates = {} \/ Distance(Corrected(s, best), t) > request.tolerance
        THEN None ELSE Whole(s, best)

\* x0 + (x1 - x0) * fraction, as a fraction; None when a bracket has no value.
Interpolated(x0, x1, num, den) ==
    IF None \in {x0, x1} THEN <<None, 1>> ELSE <<x0 * den + (x1 - x0) * num, den>>

\* LinearInterpolationStrategy.align.
AlignLinear(s, k, t) ==
    IF k > 0 /\ Corrected(s, k) = t THEN Whole(s, k)
    ELSE IF k = 0 \/ k = Len(source[s]) THEN None       \* NO_EXTRAPOLATION
    ELSE LET t0 == Corrected(s, k)
             t1 == Corrected(s, k + 1)
             near == IF Distance(t, t0) <= Distance(t, t1) THEN k ELSE k + 1
         IN  Payload(Interpolated(source[s][k].number, source[s][k + 1].number, t - t0, t1 - t0),
                     IF Distance(t, Corrected(s, near)) <= request.tolerance
                     THEN source[s][near].label ELSE None)

Align(s, k, t) ==
    IF request.methods[s] = "nearest" THEN AlignNearest(s, k, t) ELSE AlignLinear(s, k, t)

\* The reference stream's own record is taken as it is.
Direct(s) == request.mode = "stream" /\ s = Reference

-----------------------------------------------------------------------------
(* Step 5.                                                                 *)

Fail == stage' = "raised"

Continue(k) ==
    IF k <= Len(source[Reference]) THEN IF ReadsTo(Reference, k) THEN Corrected(Reference, k) ELSE None
    ELSE None

\* synchronize(): the request is checked and the streams are opened; the cursors read
\* their first sample.
start_alignment(input, config) ==
    /\ stage = "idle"
    /\ source' = input /\ request' = config
    /\ stage' = IF \A s \in Streams : config.clocks[s].num > 0 THEN "opening" ELSE "raised"
    /\ UNCHANGED <<cursor, target, position, rows, seen, evaluated, kept, dropped>>

\* _build_reference_stream_inputs and _build_fixed_rate_inputs, which reads every
\* stream to its end to know the interval.
open_streams ==
    /\ stage = "opening"
    /\ \/ /\ request.mode = "stream"
          /\ stage' = "aligning"
          /\ target' = Continue(1)
       \/ /\ request.mode = "fixed_rate"
          /\ IF \A s \in Streams : source[s] # << >> /\ ReadsTo(s, Len(source[s]))
             THEN /\ stage' = "aligning"
                  /\ target' = IF IntersectionStart <= IntersectionEnd
                               THEN IntersectionStart ELSE None
             ELSE Fail /\ UNCHANGED target
    /\ UNCHANGED <<request, source, cursor, position, rows, seen, evaluated, kept, dropped>>

\* The target after t.
NextTarget(t) ==
    IF request.mode = "stream" THEN Continue(position + 2)
    ELSE IF t + request.period <= IntersectionEnd THEN t + request.period ELSE None

\* build_row and its line of the artifact.
align_row ==
    LET moved == [s \in Streams |->
                    IF Direct(s) THEN cursor[s] ELSE AdvanceTo(s, cursor[s], target)]
    IN  /\ stage = "aligning" /\ target # None
        /\ IF \A s \in Streams : Direct(s) \/ ReadsTo(s, moved[s] + 1)
           THEN /\ rows' = Append(rows, [timestamp |-> target, streams |-> [s \in Streams |->
                            IF Direct(s) THEN Whole(s, position + 1) ELSE Align(s, moved[s], target)]])
                /\ cursor' = moved
                /\ position' = position + 1
                /\ target' = NextTarget(target)
                /\ UNCHANGED stage
           ELSE Fail /\ UNCHANGED <<rows, cursor, position, target>>
        /\ UNCHANGED <<request, source, seen, evaluated, kept, dropped>>

\* The targets are exhausted: the artifact is committed, unless the reference stream
\* went backward.
finish_alignment ==
    /\ stage = "aligning" /\ target = None
    /\ stage' = IF request.mode = "stream" /\ ~ReadsTo(Reference, Len(source[Reference]))
                THEN "raised" ELSE "synchronized"
    /\ UNCHANGED <<request, source, cursor, target, position, rows, seen, evaluated, kept, dropped>>

-----------------------------------------------------------------------------
(* Step 6.                                                                 *)

\* _is_present; nothing keeps a policy from asking for a stream that does not exist.
Present(row, s) == s \in Streams /\ row.streams[s] # None

\* RequiredStreamsRule, MinPresentStreamsRule and AllOptionalMissingRule, in this order.
CoverageReason(row) ==
    LET optional == Streams \ request.required
    IN  IF \E s \in request.required : ~Present(row, s) THEN "MISSING_REQUIRED_STREAM"
        ELSE IF Cardinality({s \in Streams : Present(row, s)}) < request.min_present
             THEN "INSUFFICIENT_MODALITY_COVERAGE"
        ELSE IF /\ request.drop_optional /\ optional # {}
                /\ \A s \in optional : ~Present(row, s)
             THEN "ALL_OPTIONAL_STREAMS_MISSING"
        ELSE None

SameNumber(x, y) ==
    IF None \in {x[1], y[1]} THEN x[1] = y[1] ELSE x[1] * y[2] = y[1] * x[2]

\* canonical_row_key: the timestamp and the streams, not how they were aligned.
SameContent(row, other) ==
    /\ row.timestamp = other.timestamp
    /\ \A s \in Streams :
        IF None \in {row.streams[s], other.streams[s]} THEN row.streams[s] = other.streams[s]
        ELSE /\ SameNumber(row.streams[s].number, other.streams[s].number)
             /\ row.streams[s].label = other.streams[s].label

\* apply_redactions with the paths streams.<s>.label, the only ones modelled.
Redacted(row) ==
    [row EXCEPT !.streams = [s \in Streams |->
        IF s \in request.redact /\ Present(row, s)
        THEN [row.streams[s] EXCEPT !.label = None] ELSE row.streams[s]]]

\* (A slip: the privacy rule runs before the duplicate rule.)
duplicate_redacted(row) == {k \in seen : SameContent(Redacted(rows[k]), Redacted(row))}

\* first_seen_or_record: where this content was first seen.
DuplicateOf(row) == {k \in seen : SameContent(rows[k], row)}

\* clean(): the rules of the policy are built.
start_cleaning(config) ==
    /\ stage = "synchronized"
    /\ stage' = "cleaning" /\ request' = config
    /\ source' = [s \in Streams |-> << >>] /\ cursor' = [s \in Streams |-> 0] /\ position' = 0
    /\ UNCHANGED <<target, rows, seen, evaluated, kept, dropped>>

\* RowEvaluator.evaluate: the first rule that drops the row ends it.
evaluate_row ==
    LET row == rows[evaluated + 1]
        duplicates == IF request.duplicates THEN DuplicateOf(row) ELSE {}
    IN  /\ stage = "cleaning" /\ evaluated < Len(rows)
        /\ evaluated' = evaluated + 1
        /\ \/ /\ CoverageReason(row) # None
              /\ dropped' = Append(dropped,
                    [index |-> evaluated + 1, reason |-> CoverageReason(row), of |-> None])
              /\ UNCHANGED <<seen, kept>>
           \/ /\ CoverageReason(row) = None /\ duplicates # {}
              /\ dropped' = Append(dropped, [index |-> evaluated + 1, reason |-> "DUPLICATE_ROW",
                    of |-> CHOOSE k \in duplicates : TRUE])
              /\ UNCHANGED <<seen, kept>>
           \/ /\ CoverageReason(row) = None /\ duplicates = {}
              /\ seen' = IF request.duplicates THEN seen \union {evaluated + 1} ELSE seen
              /\ kept' = Append(kept, [index |-> evaluated + 1, row |-> Redacted(row)])
              /\ UNCHANGED dropped
        /\ UNCHANGED <<stage, request, source, cursor, target, position, rows>>

\* _determine_status: completed or rejected.
finish_cleaning ==
    /\ stage = "cleaning" /\ evaluated = Len(rows)
    /\ stage' = IF rows = << >> \/ Len(kept) < request.min_rows THEN "rejected" ELSE "cleaned"
    /\ UNCHANGED <<request, source, cursor, target, position, rows, seen, evaluated, kept, dropped>>

RowNext ==
    \/ \E input \in SyncInputs, config \in SyncConfigs : start_alignment(input, config)
    \/ open_streams
    \/ align_row
    \/ finish_alignment
    \/ \E config \in CleaningConfigs : start_cleaning(config)
    \/ evaluate_row
    \/ finish_cleaning

-----------------------------------------------------------------------------
(* Properties.                                                             *)

InOrder(s) == ReadsTo(s, Len(source[s]))

\* What the whole stream s has to offer for target t.  Nearest: a sample at the least
\* distance there is, an earlier one before a later one, and none only if all are out
\* of tolerance.
NearestOfAll(s, t, got) ==
    LET All == 1..Len(source[s])
        Away(j) == Distance(Corrected(s, j), t)
    IN  \/ got = None /\ \A j \in All : Away(j) > request.tolerance
        \/ \E j \in All :
            /\ got = Whole(s, j) /\ Away(j) <= request.tolerance
            /\ \A i \in All : \/ Away(j) < Away(i)
                              \/ Away(j) = Away(i) /\ Corrected(s, j) <= Corrected(s, i)

\* Linear: the two samples around the target, and none only where it would have to
\* extrapolate.
BetweenNeighbours(s, t, got) ==
    LET Before == {j \in 1..Len(source[s]) : Corrected(s, j) <= t}
        After == 1..Len(source[s]) \ Before
    IN  \/ got = None /\ (Before = {} \/ (After = {} /\ \A j \in Before : Corrected(s, j) < t))
        \/ \E j \in Before : Corrected(s, j) = t /\ got = Whole(s, j)
        \/ \E i \in Before, j \in After :
            /\ \A b \in Before : b <= i
            /\ \A a \in After : j <= a
            /\ got # None
            /\ SameNumber(got.number,
                    Interpolated(source[s][i].number, source[s][j].number,
                        t - Corrected(s, i), Corrected(s, j) - Corrected(s, i)))

BestFit(s, t, got) ==
    IF request.methods[s] = "nearest" THEN NearestOfAll(s, t, got) ELSE BetweenNeighbours(s, t, got)

\* What a single pass with a lookback of one finds is the best of the whole stream, if
\* that is in order.  Row timestamps never go back.
AlignedToTheNearest ==
    stage \in {"aligning", "synchronized"} =>
        /\ \A k \in 1..Len(rows) - 1 : rows[k].timestamp <= rows[k + 1].timestamp
        /\ \A k \in 1..Len(rows), s \in {u \in Streams : InOrder(u) /\ ~Direct(u)} :
            BestFit(s, rows[k].timestamp, rows[k].streams[s])

\* Of the rows that have the streams asked for, exactly the first of each content
\* survive, in their order, changed in nothing but the redacted fields; every other row
\* is accounted for, a duplicate by the surviving row it repeats.
FirstOccurrencesSurvive ==
    stage \in {"cleaned", "rejected"} =>
        LET first == {k \in 1..Len(rows) :
                /\ CoverageReason(rows[k]) = None
                /\ request.duplicates => \A j \in 1..k - 1 : ~SameContent(rows[j], rows[k])}
        IN  /\ {kept[k].index : k \in 1..Len(kept)} = first
            /\ {dropped[k].index : k \in 1..Len(dropped)} = 1..Len(rows) \ first
            /\ Len(kept) + Len(dropped) = Len(rows)
            /\ \A k \in 1..Len(kept) - 1 : kept[k].index < kept[k + 1].index
            /\ \A k \in 1..Len(kept) : \A s \in Streams :
                LET old == rows[kept[k].index].streams[s]
                    new == kept[k].row.streams[s]
                IN  IF s \in request.redact /\ old # None
                    THEN new.label = None /\ new.number = old.number ELSE new = old
            /\ \A k \in 1..Len(dropped) : dropped[k].reason = "DUPLICATE_ROW" =>
                \E j \in 1..Len(kept) : kept[j].index = dropped[k].of
=============================================================================
