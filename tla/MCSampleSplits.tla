--------------------------- MODULE MCSampleSplits ---------------------------
(* Instances of SampleSplits for TLC: a reference stream of up to four     *)
(* samples, in order or not, and one stream to be aligned with it.         *)
EXTENDS SampleSplits, TLC

Times == {0, 1, 3}
Sample(k, t) == [at |-> t, number |-> IF t = 3 THEN None ELSE t, label |-> k % 2]
Stream(times) == [k \in 1..Len(times) |-> Sample(k, times[k])]
Ascending(n) == {f \in [1..n -> Times] : \A k \in 1..n - 1 : f[k] <= f[k + 1]}

MCReferenceTimes == UNION {Ascending(n) : n \in 0..4} \union {<<1, 0>>, <<0, 3, 1>>}
MCOtherTimes == {<< >>, <<1>>, <<0, 2>>, <<0, 2, 2, 4>>, <<1, 1, 2>>, <<2, 1>>, <<0, 4, 3>>}
MCInputs ==
    {[s \in Streams |-> Stream(IF s = Reference THEN r ELSE o)] :
        r \in MCReferenceTimes, o \in MCOtherTimes}

Exact == [num |-> 1, den |-> 1, offset |-> 0]
Slow == [num |-> 1, den |-> 2, offset |-> 1]
Fast == [num |-> 3, den |-> 2, offset |-> 0 - 1]
Reversed == [num |-> 0 - 1, den |-> 1, offset |-> 0]
Config(mode, method, tolerance, clock) ==
    [mode |-> mode, methods |-> [s \in Streams |-> method], tolerance |-> tolerance, period |-> 2,
     clocks |-> [s \in Streams |-> IF s = Reference THEN Exact ELSE clock]]
MCSyncConfigs ==
    {Config("stream", "nearest", 0, Exact), Config("stream", "nearest", 1, Fast),
     Config("stream", "nearest", 1, Slow), Config("stream", "linear", 1, Exact),
     Config("stream", "linear", 0, Slow), Config("fixed_rate", "nearest", 1, Exact),
     Config("fixed_rate", "linear", 1, Fast), Config("stream", "nearest", 1, Reversed)}

MCCleaningConfigs ==
    {[required |-> q, min_present |-> m, drop_optional |-> o, duplicates |-> d, redact |-> r,
      min_rows |-> 2] :
        q \in {{}, {"gps"}}, m \in {0}, o \in {FALSE}, d \in BOOLEAN, r \in {{}, {"imu"}}}
    \union
    {[required |-> {}, min_present |-> 2, drop_optional |-> FALSE, duplicates |-> TRUE,
      redact |-> {}, min_rows |-> 0],
     [required |-> {"imu"}, min_present |-> 0, drop_optional |-> TRUE, duplicates |-> TRUE,
      redact |-> {}, min_rows |-> 0],
     [required |-> {"lidar"}, min_present |-> 0, drop_optional |-> FALSE, duplicates |-> TRUE,
      redact |-> {}, min_rows |-> 1]}

MCWindowConfigs ==
    [mode : {"count"}, size : 1..3, stride : 1..3, drop_incomplete : BOOLEAN]
        \union [mode : {"time"}, size : 1..3, stride : 1..2, drop_incomplete : BOOLEAN]
        \union {[mode |-> "time", size |-> 0, stride |-> 1, drop_incomplete |-> TRUE]}

Ratios(t, v, e) == [train |-> t, validation |-> v, test |-> e]
MCPackageConfigs ==
    [mode : {"source_overlap", "session"}, strategy : {"group_hash", "sequential"},
     ratios : {Ratios(2, 1, 1), Ratios(1, 3, 0), Ratios(3, 0, 1), Ratios(2, 1, 0)}]
=============================================================================
