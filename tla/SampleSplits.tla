---------------------------- MODULE SampleSplits ----------------------------
(***************************************************************************)
(* What stages 7 and 9 do with the rows that cleaning kept: windows over   *)
(* the rows in one pass (app/transformation/windowing.py), then groups of  *)
(* overlapping samples, a split for every group, and the leakage audit     *)
(* (app/packaging).  Source rows are numbered from 1.                      *)
(***************************************************************************)
EXTENDS RowStreams

CONSTANTS
    WindowConfigs,  \* [mode, size, stride, drop_incomplete]; in mode "time" size is the
                    \* duration, and both are in microseconds
    PackageConfigs, \* [mode, strategy, ratios]; ratios are parts of Unit
    Unit,           \* the resolution of ratios and of hash fractions
    Tolerance       \* _RATIO_TOLERANCE, in parts of Unit

Splits == <<"train", "validation", "test">>
SplitNames == {"train", "validation", "test"}

Total(ratios) == ratios["train"] + ratios["validation"] + ratios["test"]

\* What the profiles' validate_config lets through; that size and stride are positive is
\* start_windowing's to test.
ASSUME SplitAssumption ==
    /\ Unit \in Nat /\ Tolerance \in Nat
    /\ \A config \in WindowConfigs :
        config.mode \in {"count", "time"} /\ config.size \in Int /\ config.stride \in Int
    /\ \A config \in PackageConfigs :
        /\ config.mode \in {"source_overlap", "session"}
        /\ config.strategy \in {"group_hash", "sequential"}
        /\ config.ratios \in [SplitNames -> Nat] /\ config.ratios["train"] > 0
        /\ Total(config.ratios) \in Unit - Tolerance..Unit + Tolerance

VARIABLES
    stamps,     \* timestamps of the cleaned rows
    taken,      \* rows read so far
    buffer,     \* iter_count_windows: rows that a window may still need
    skip,       \* skip_remaining
    open,       \* iter_time_windows: the rows of each open window
    emitted,    \* window_index of the next window in mode "count"
    samples,    \* the transformed samples: [index, rows]
    groups,     \* the groups so far: [min, max, members]; the last is the pending one
    grouped,    \* samples grouped so far
    filling,    \* assign_sequential_splits: idx + 1
    used,       \* used_in_current
    above,      \* the splits whose target, a product of floats, comes out above the exact one
    splitOf     \* the split of each group so far

sampleVars == <<stamps, taken, buffer, skip, open, emitted, samples,
                groups, grouped, filling, used, above, splitOf>>
vars == <<rowVars, sampleVars>>

Init ==
    /\ RowInit
    /\ stamps = << >> /\ taken = 0
    /\ buffer = << >> /\ skip = 0 /\ open = << >> /\ emitted = 0
    /\ samples = << >>
    /\ groups = << >> /\ grouped = 0
    /\ filling = 1 /\ used = 0 /\ above = {} /\ splitOf = << >>

PackagingIdle == UNCHANGED <<groups, grouped, filling, used, above, splitOf>>

-----------------------------------------------------------------------------
(* Step 7.                                                                 *)

\* transform() takes what cleaning completed and reads it row by row.
start_windowing(config) ==
    /\ stage = "cleaned"
    /\ request' = config
    /\ stage' = IF config.size > 0 /\ config.stride > 0 THEN "windowing" ELSE "raised"
    /\ stamps' = [k \in 1..Len(kept) |-> kept[k].row.timestamp]
    /\ rows' = << >> /\ seen' = {} /\ evaluated' = 0 /\ kept' = << >> /\ dropped' = << >>
    /\ UNCHANGED <<source, cursor, target, position>>
    /\ UNCHANGED <<taken, buffer, skip, open, emitted, samples>>
    /\ PackagingIdle

Windowing(mode) == stage = "windowing" /\ request.mode = mode

RowsIdle == UNCHANGED <<request, source, cursor, target, position, rows, seen, evaluated, kept, dropped>>

\* NonMonotonicRowOrderError.
OutOfOrderRow(k) == k > 1 /\ stamps[k] < stamps[k - 1]

Minimum(m, n) == IF m < n THEN m ELSE n

\* (A slip: one row too many is skipped.)
skip_after_off_by_one == IF request.stride > request.size THEN request.stride - request.size + 1 ELSE 0

\* Rows between the end of a window and the start of the next.
SkipAfter == IF request.stride > request.size THEN request.stride - request.size ELSE 0

\* One turn of the loop of iter_count_windows.
take_row ==
    LET k == taken + 1
        full == Append(buffer, k)
    IN  /\ Windowing("count") /\ taken < Len(stamps)
        /\ IF OutOfOrderRow(k) THEN stage' = "disordered" /\ UNCHANGED <<taken, buffer, skip, samples, emitted>>
           ELSE
            /\ taken' = k
            /\ IF skip > 0 THEN skip' = skip - 1 /\ UNCHANGED <<buffer, samples, emitted>>
               ELSE IF Len(full) = request.size
               THEN /\ samples' = Append(samples, [index |-> emitted, rows |-> full])
                    /\ emitted' = emitted + 1
                    /\ buffer' = SubSeq(full, Minimum(request.stride, request.size) + 1, Len(full))
                    /\ skip' = SkipAfter
               ELSE buffer' = full /\ UNCHANGED <<samples, emitted, skip>>
            /\ UNCHANGED stage
        /\ UNCHANGED <<stamps, open>>
        /\ RowsIdle /\ PackagingIdle

\* What is left in the buffer is a last window, unless incomplete ones are dropped.
finish_count_windows ==
    /\ Windowing("count") /\ taken = Len(stamps)
    /\ samples' = IF buffer # << >> /\ ~request.drop_incomplete
                  THEN Append(samples, [index |-> emitted, rows |-> buffer]) ELSE samples
    /\ stage' = "windowed"
    /\ UNCHANGED <<stamps, taken, buffer, skip, open, emitted>>
    /\ RowsIdle /\ PackagingIdle

Relative(k) == stamps[k] - stamps[1]
WindowStart(i) == i * request.stride
WindowEnd(i) == WindowStart(i) + request.size

\* _windows_for_timestamp.
WindowsFor(rel) ==
    LET highest == rel \div request.stride
        lowest == IF rel < request.size THEN 0 ELSE (rel - request.size) \div request.stride
    IN  {i \in lowest..highest : WindowStart(i) <= rel /\ rel < WindowEnd(i)}

\* Windows that no later row can join.
Closeable == {i \in DOMAIN open : taken > 0 /\ WindowEnd(i) <= Relative(taken)}

\* One row of iter_time_windows, once the windows it closes have been written.
take_timed_row ==
    LET k == taken + 1
        joined == WindowsFor(Relative(k))
    IN  /\ Windowing("time") /\ taken < Len(stamps)
        /\ Closeable = {}
        /\ IF OutOfOrderRow(k) THEN stage' = "disordered" /\ UNCHANGED <<taken, open>>
           ELSE /\ taken' = k
                /\ open' = [i \in DOMAIN open \union joined |->
                        IF i \notin DOMAIN open THEN <<k>>
                        ELSE IF i \in joined THEN Append(open[i], k) ELSE open[i]]
                /\ UNCHANGED stage
        /\ UNCHANGED <<stamps, buffer, skip, emitted, samples>>
        /\ RowsIdle /\ PackagingIdle

\* The next window to be written: the first closeable one, or the first of all at the
\* end of the rows if incomplete windows are kept.
ClosesNext(i) ==
    /\ i \in DOMAIN open
    /\ i \in Closeable \/ (taken = Len(stamps) /\ ~request.drop_incomplete)
    /\ \A j \in DOMAIN open : i <= j

close_window(i) ==
    /\ Windowing("time")
    /\ ClosesNext(i)
    /\ samples' = Append(samples, [index |-> i, rows |-> open[i]])
    /\ open' = [j \in DOMAIN open \ {i} |-> open[j]]
    /\ UNCHANGED <<stage, stamps, taken, buffer, skip, emitted>>
    /\ RowsIdle /\ PackagingIdle

finish_time_windows ==
    /\ Windowing("time") /\ taken = Len(stamps)
    /\ \A i \in DOMAIN open : ~ClosesNext(i)
    /\ stage' = "windowed"
    /\ UNCHANGED <<stamps, taken, buffer, skip, open, emitted, samples>>
    /\ RowsIdle /\ PackagingIdle

-----------------------------------------------------------------------------
(* Step 9.                                                                 *)

\* metadata.source_row_start and source_row_end of a sample.
RowStart(k) == samples[k].rows[1]
RowEnd(k) == samples[k].rows[Len(samples[k].rows)]

WindowingIdle == UNCHANGED <<stamps, taken, buffer, skip, open, emitted, samples>>

\* package(), once QC accepted the transformation: EMPTY_SOURCE_DATASET, or grouping.
start_packaging(config) ==
    /\ stage = "windowed"
    /\ request' = config
    /\ stage' = IF samples = << >> THEN "package_rejected" ELSE "grouping"
    /\ UNCHANGED <<source, cursor, target, position, rows, seen, evaluated, kept, dropped>>
    /\ WindowingIdle /\ PackagingIdle

Larger(m, n) == IF m < n THEN n ELSE m

\* (A slip: a sample that only touches the last row of a group starts a new one.)
joins_if_inside(k) ==
    /\ groups # << >>
    /\ request.mode = "session" \/ RowStart(k) < groups[Len(groups)].max

\* The sample extends the pending group.  In mode "session" there is one group.
Joins(k) ==
    /\ groups # << >>
    /\ request.mode = "session" \/ RowStart(k) <= groups[Len(groups)].max

\* One turn of the loop of assign_source_overlap_groups.
group_sample ==
    LET k == grouped + 1
        last == groups[Len(groups)]
    IN  /\ stage = "grouping" /\ grouped < Len(samples)
        /\ grouped' = k
        /\ groups' =
            IF Joins(k)
            THEN [groups EXCEPT ![Len(groups)] =
                    [last EXCEPT !.max = Larger(last.max, RowEnd(k)), !.members = @ \union {k}]]
            ELSE Append(groups, [min |-> RowStart(k), max |-> RowEnd(k), members |-> {k}])
        /\ UNCHANGED <<stage, filling, used, above, splitOf>>
        /\ RowsIdle /\ WindowingIdle

Parts(n) == request.ratios[Splits[n]]

\* Sequential targets that are whole numbers of samples: where it matters on which side
\* of the exact value ratio * total_samples comes out (0.55 * 100 = 55.00000000000001).
\* The float is nearer to any other exact target than the next whole number is.
WholeTargets ==
    {n \in 1..2 : request.strategy = "sequential" /\ Parts(n) > 0
                     /\ (Parts(n) * Len(samples)) % Unit = 0}

\* The groups are complete; assign_splits is called and computes the targets, each of
\* which may come out above the exact value or not.
finish_grouping ==
    /\ stage = "grouping" /\ grouped = Len(samples)
    /\ stage' = "splitting"
    /\ above' \in SUBSET WholeTargets
    /\ UNCHANGED <<groups, grouped, filling, used, splitOf>>
    /\ RowsIdle /\ WindowingIdle

\* (A slip: a split is left only when it holds more than its target.)
full_when_exceeded(n, count) ==
    n < 3 /\ Parts(n) > 0 /\ count * Unit > Parts(n) * Len(samples)

\* used_in_current has reached a positive target, and there is a next split.  A whole
\* number equal to the exact target has not reached a float that is above it.
Full(n, count) ==
    /\ n < 3 /\ Parts(n) > 0
    /\ \/ count * Unit > Parts(n) * Len(samples)
       \/ count * Unit = Parts(n) * Len(samples) /\ n \notin above

\* assign_sequential_splits.  After one move nothing is used yet, so that the loop
\* never moves twice.
assign_sequential ==
    LET g == Len(splitOf) + 1
        n == IF Full(filling, used) THEN filling + 1 ELSE filling
    IN  /\ stage = "splitting" /\ request.strategy = "sequential" /\ g <= Len(groups)
        /\ splitOf' = Append(splitOf, Splits[n])
        /\ filling' = n
        /\ used' = Cardinality(groups[g].members) + (IF n = filling THEN used ELSE 0)
        /\ UNCHANGED <<stage, groups, grouped, above>>
        /\ RowsIdle /\ WindowingIdle

\* assign_group_hash_splits; fraction is what group_split_fraction makes of the group's
\* id, which is another one for every group.
assign_by_hash(fraction) ==
    /\ stage = "splitting" /\ request.strategy = "group_hash" /\ Len(splitOf) < Len(groups)
    /\ splitOf' = Append(splitOf,
            IF fraction < Parts(1) THEN "train"
            ELSE IF fraction < Parts(1) + Parts(2) THEN "validation" ELSE "test")
    /\ UNCHANGED <<stage, groups, grouped, filling, used, above>>
    /\ RowsIdle /\ WindowingIdle

GroupOf(k) == CHOOSE g \in 1..Len(groups) : k \in groups[g].members
SplitOf(k) == splitOf[GroupOf(k)]

\* _count_cross_split_overlaps finds the chains of overlapping samples again: its
\* current_max_end after sample k.
MaxEnd[k \in 1..Len(samples)] ==
    IF k = 1 THEN RowEnd(k)
    ELSE IF RowStart(k) > MaxEnd[k - 1] THEN RowEnd(k)
    ELSE Larger(MaxEnd[k - 1], RowEnd(k))

AuditedChains ==
    \A k \in 2..Len(samples) : RowStart(k) <= MaxEnd[k - 1] => SplitOf(k) = SplitOf(k - 1)

Requested == {n \in 1..3 : Parts(n) > 0}

\* run_leakage_checks refuses, or the splits are written and the package is complete
\* or rejected (INSUFFICIENT_GROUPS_FOR_SPLIT, EMPTY_REQUESTED_SPLIT).
audit_and_write ==
    /\ stage = "splitting" /\ Len(splitOf) = Len(groups)
    /\ stage' = IF request.mode = "source_overlap" /\ ~AuditedChains THEN "leaking"
                ELSE IF \/ Len(groups) < Cardinality(Requested)
                        \/ \E n \in Requested : \A k \in 1..Len(samples) : SplitOf(k) # Splits[n]
                THEN "package_rejected" ELSE "packaged"
    /\ UNCHANGED <<groups, grouped, filling, used, above, splitOf>>
    /\ RowsIdle /\ WindowingIdle

-----------------------------------------------------------------------------
RowStage == RowNext /\ UNCHANGED sampleVars

WindowingStage ==
    \/ \E config \in WindowConfigs : start_windowing(config)
    \/ take_row
    \/ finish_count_windows
    \/ take_timed_row
    \/ \E i \in DOMAIN open : close_window(i)
    \/ finish_time_windows

PackagingStage ==
    \/ \E config \in PackageConfigs : start_packaging(config)
    \/ group_sample
    \/ finish_grouping
    \/ assign_sequential
    \/ \E fraction \in 0..Unit - 1 : assign_by_hash(fraction)
    \/ audit_and_write

Next == RowStage \/ WindowingStage \/ PackagingStage

Spec == Init /\ [][Next]_vars

-----------------------------------------------------------------------------
(* Properties.                                                             *)

\* The rows cleaning keeps are in order, and one pass with a bounded buffer finds the
\* windows of the definition: window i holds the rows from i * stride to size rows (or
\* microseconds) later.  In mode "count" incomplete windows are dropped, or the first of
\* them is kept; in mode "time" a window is kept when a row follows its end or when
\* incomplete ones are kept, and windows without rows do not exist.
WindowsCoverTheirRows ==
    /\ stage # "disordered"
    /\ stage = "windowed" =>
        LET n == Len(stamps)
            In(i) == IF request.mode = "count"
                     THEN {k \in 1..n : WindowStart(i) < k /\ k <= WindowEnd(i)}
                     ELSE {k \in 1..n : WindowStart(i) <= Relative(k) /\ Relative(k) < WindowEnd(i)}
            Complete(i) == IF request.mode = "count" THEN WindowEnd(i) <= n
                           ELSE n > 0 /\ WindowEnd(i) <= Relative(n)
            last == IF request.mode = "count" THEN n ELSE IF n > 0 THEN Relative(n) ELSE 0
            Kept(i) == /\ In(i) # {}
                       /\ \/ Complete(i)
                          \/ /\ ~request.drop_incomplete
                             /\ request.mode = "count" => \A j \in 0..i - 1 : Complete(j)
        IN  /\ {samples[k].index : k \in 1..Len(samples)} = {i \in 0..last : Kept(i)}
            /\ \A k \in 1..Len(samples) :
                /\ {samples[k].rows[j] : j \in 1..Len(samples[k].rows)} = In(samples[k].index)
                /\ Len(samples[k].rows) = Cardinality(In(samples[k].index))
            /\ \A k \in 1..Len(samples) - 1 : samples[k].index < samples[k + 1].index

RowsOf(k) == {samples[k].rows[j] : j \in 1..Len(samples[k].rows)}

\* No row of the source is in samples of two different splits, whatever the windows,
\* the grouping mode and the strategy; and so the audit has nothing to find.
SplitsShareNoRow ==
    /\ stage # "leaking"
    /\ stage \in {"splitting", "packaged", "package_rejected"} =>
        \A i, j \in 1..Len(samples) :
            (/\ GroupOf(i) \in DOMAIN splitOf /\ GroupOf(j) \in DOMAIN splitOf
             /\ SplitOf(i) # SplitOf(j)) => RowsOf(i) \cap RowsOf(j) = {}

SamplesIn(n) == {k \in 1..Len(samples) : SplitOf(k) = Splits[n]}

Assigned == stage \in {"packaged", "package_rejected"} /\ samples # << >>

\* The ratios fall short of one by less than a sample.
RatiosAddUp == (Unit - Total(request.ratios)) * Len(samples) < Unit

\* The last group of split n.
LastGroup(n) ==
    CHOOSE g \in 1..Len(groups) :
        splitOf[g] = Splits[n] /\ \A h \in g + 1..Len(groups) : splitOf[h] # Splits[n]

\* Sequential splits are stretches of the dataset in the order train, validation, test.
\* Each that is followed by another has reached its target with its last group, and had
\* not reached it without that group; only where the float target came out above the
\* exact one, a target hit exactly is overshot by that group.  No split that nobody asked
\* for gets a sample, if the ratios add up; but a validation ratio of zero takes what
\* train leaves, and a test ratio behind it means a rejected package, whatever the dataset.
SequentialFillIsTight ==
    (Assigned /\ request.strategy = "sequential") =>
        /\ \A n \in 1..3 : \A k \in SamplesIn(n), m \in 1..n - 1 : \A j \in SamplesIn(m) : j < k
        /\ \A n \in 1..2 : (SamplesIn(n) # {} /\ SamplesIn(n + 1) # {}) =>
            LET exact == Parts(n) * Len(samples)
                count == Cardinality(SamplesIn(n))
                before == count - Cardinality(groups[LastGroup(n)].members)
            IN  /\ count * Unit >= exact
                /\ before * Unit < exact \/ (before * Unit = exact /\ n \in above)
        /\ (RatiosAddUp /\ (Parts(2) > 0 \/ Parts(3) = 0)) =>
            \A n \in 1..3 : SamplesIn(n) # {} => n \in Requested
        /\ (Parts(2) = 0 /\ Parts(3) > 0) => SamplesIn(3) = {} /\ stage = "package_rejected"
=============================================================================
