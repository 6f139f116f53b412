---------------------------- MODULE RecordChecks ----------------------------
(***************************************************************************)
(* What the first three stages make of the records of one file: the        *)
(* validators (app/validation/validators), the integrity checkers          *)
(* (app/integrity/checks) and the RecordNormalizer                         *)
(* (app/normalization/profiles/base.py).  A value is reduced to the classes *)
(* these stages tell apart; a timestamp keeps its instant.                 *)
(***************************************************************************)
EXTENDS Integers, Sequences

CONSTANTS
    Required,   \* the schema's fields with required = true, nullable = false
    Optional,   \* those with required = false, nullable = true
    Ranged      \* schemas whose checker takes an implausible value for an error (gps)

Fields == Required \union Optional

\* What a record holds for a field: no such key, a null or blank cell, a value of
\* another type, NaN or an infinity, a number beyond the checker's limits, any other.
Value == {"absent", "null", "mistyped", "nonfinite", "implausible", "plain"}

\* A timestamp is an instant, or unusable in one of these ways.
NoTime == {"absent", "null", "mistyped", "unparsable"}

\* A line, row or array element: not an object, a row longer than its header, a record
\* with a field that is neither in the schema nor an alias, or an ordinary record.
Records(Instants) ==
    [shape : {"plain", "malformed", "ragged", "extra_field"}, time : {"set"} \union NoTime,
     timestamp : Instants, fields : [Fields -> Value]]

-----------------------------------------------------------------------------
(* Step 2: structure.                                                      *)

check_missing_required(rec) ==
    {f \in Required : rec.fields[f] = "absent"}
        \union {f \in {"timestamp"} : rec.time = "absent"}

check_values(rec) ==
    {f \in Required : rec.fields[f] = "null"}
        \union {f \in Fields : rec.fields[f] = "mistyped"}
        \union {f \in {"timestamp"} : rec.time \in NoTime \ {"absent"}}

ValidRecord(rec) ==
    /\ rec.shape = "plain"
    /\ check_missing_required(rec) = {}
    /\ check_values(rec) = {}

\* Validator.validate and the verdict ValidationService draws from error_count:
\* METADATA_REQUIREMENT_NOT_MET, EMPTY_DATASET or an issue of some record fail it.
ValidationStatus(records, schema, source_type) ==
    IF /\ source_type \in {"none", schema}
       /\ records # << >>
       /\ \A k \in 1..Len(records) : ValidRecord(records[k])
    THEN "passed" ELSE "failed"

-----------------------------------------------------------------------------
(* Step 3: plausibility.                                                   *)

\* What the readers of integrity/records.py yield, by record number: whatever is not an
\* object is skipped, a longer row is cut to its header.
IterRecords(records) == {k \in 1..Len(records) : records[k].shape # "malformed"}

\* parse_timestamp: what does not parse is "nothing to compare".
Timed(records) == {k \in IterRecords(records) : records[k].time = "set"}

\* The pairs of numbers that follow one another in S.
Successive(S) == {p \in S \X S : p[1] < p[2] /\ \A m \in S : m <= p[1] \/ p[2] <= m}

\* (A slip: every second record escapes the comparison.)
out_of_order_strided(records) ==
    \E p \in Successive(Timed(records)) :
        p[1] % 2 = 0 /\ records[p[2]].timestamp < records[p[1]].timestamp

\* TimestampSequenceChecker remembers the last timestamp it could parse.
OutOfOrder(records) ==
    \E p \in Successive(Timed(records)) : records[p[2]].timestamp < records[p[1]].timestamp

DuplicateTimestamp(records) ==
    \E p \in Successive(Timed(records)) : records[p[2]].timestamp = records[p[1]].timestamp

Holds(records, values) ==
    \E k \in IterRecords(records) : \E f \in Fields : records[k].fields[f] \in values

\* check_stream of the IMU and GPS checkers and the verdict of IntegrityService.
IntegrityStatus(records, schema) ==
    LET errors == \/ IterRecords(records) = {}
                  \/ OutOfOrder(records)
                  \/ Holds(records, {"nonfinite"})
                  \/ schema \in Ranged /\ Holds(records, {"implausible"})
        warnings == \/ DuplicateTimestamp(records)
                    \/ schema \notin Ranged /\ Holds(records, {"implausible"})
    IN  IF errors THEN "failed" ELSE IF warnings THEN "passed_with_warnings" ELSE "passed"

-----------------------------------------------------------------------------
(* Step 4: conversion.                                                     *)

\* RecordNormalizer.normalize_record returns; otherwise it raises
\* NormalizationConversionError.
Converts(rec) ==
    /\ rec.time = "set"
    /\ \A f \in Required : rec.fields[f] \in {"plain", "implausible"}
    /\ \A f \in Optional : rec.fields[f] \in {"absent", "null", "plain", "implausible"}

\* A converted record keeps its instant; null and absent are the same to it, and
\* fields outside the schema are dropped.
NormalizeRecord(rec) ==
    [timestamp |-> rec.timestamp,
     fields |-> [f \in Fields |-> IF rec.fields[f] \in {"absent", "null"} THEN "null" ELSE "number"]]

\* What iter_typed_records and the aligners rely on without checking every value: the
\* timestamps never go backward, required fields hold numbers.
Readable(out) ==
    /\ \A p \in Successive(DOMAIN out) : out[p[1]].timestamp <= out[p[2]].timestamp
    /\ \A k \in DOMAIN out : \A f \in Required : out[k].fields[f] = "number"
=============================================================================
