----------------------------- MODULE IntakeGates -----------------------------
(***************************************************************************)
(* The first four stages of one deployment: IngestionService.ingest,       *)
(* ValidationService.validate, IntegrityService.run and                    *)
(* NormalizationService.normalize.  They share no lock: requests            *)
(* interleave wherever one of them reads a store, reads the raw file or    *)
(* publishes, and the raw file may be altered on disk behind their back.   *)
(* A report is stamped before it is written, so reports may appear in an   *)
(* order other than that of their stamps.                                  *)
(***************************************************************************)
EXTENDS RecordChecks

CONSTANTS
    Ingestions,             \* ingestion ids
    Requests,               \* requests for stages 2 to 4; each names what it produces
    Schemas,                \* the schema references of the registry
    Extensions,             \* file name extensions
    ALLOWED_EXTENSIONS,     \* settings.ALLOWED_EXTENSIONS
    RecordExtensions,       \* those with a validator and record readers
    Contents,               \* byte contents: [size, records]
    Tampered,               \* those somebody may put in the place of a raw file
    SourceTypes,            \* what an upload may declare as source_type; "none" for nothing
    MAX_UPLOAD_SIZE,        \* settings.max_upload_size_bytes
    NoFile, None

ASSUME IntakeAssumption ==
    /\ \A b \in Contents : b.size \in Nat /\ b.records \in Seq(Records(Int))
    /\ MAX_UPLOAD_SIZE \in Nat
    /\ Tampered \subseteq Contents
    /\ NoFile \notin Contents
    /\ None \notin Requests

Manifests == [sha256 : Contents, extension : Extensions, source_type : SourceTypes]
Ops == {"validate", "integrity", "normalize"}
Working == {"found_manifest", "found_validation", "reading", "judged", "staged"}
Verdicts == {"passed", "passed_with_warnings", "failed"}
Reports ==
    [id : Requests, op : {"validate", "integrity"}, ingestion : Ingestions, schema : Schemas,
     sha256 : Contents, status : Verdicts, at : Nat, validation : Requests \union {None}]

VARIABLES
    upload,     \* progress of each upload
    raw,        \* the bytes under original/
    manifest,   \* the manifest an upload has written or is about to write
    req,        \* what each request is doing
    clock,      \* stamps handed out so far
    reports,    \* validation and integrity reports on disk
    normalized, \* published normalizations
    altered,    \* history: ingestions whose raw file was ever changed on disk
    readBy,     \* history: the bytes each request read
    seen        \* history: the reports on disk when each normalization was asked for

vars == <<upload, raw, manifest, req, clock, reports, normalized, altered, readBy, seen>>

\* A request's local variables: what it was asked, what it has found, its verdict.
Locals ==
    [step : Working \union {"idle", "raised", "done"}, op : Ops \union {None},
     ingestion : Ingestions \union {None}, schema : Schemas \union {None},
     validation : Requests \union {None}, integrity : Requests \union {None},
     status : Verdicts \union {None}, at : Nat]

Idle == [step |-> "idle", op |-> None, ingestion |-> None, schema |-> None,
         validation |-> None, integrity |-> None, status |-> None, at |-> 0]

Init ==
    /\ upload = [i \in Ingestions |-> "idle"]
    /\ raw = [i \in Ingestions |-> NoFile]
    /\ manifest = [i \in Ingestions |-> None]
    /\ req = [r \in Requests |-> Idle]
    /\ clock = 0
    /\ reports = {} /\ normalized = {}
    /\ altered = {}
    /\ readBy = [r \in Requests |-> NoFile]
    /\ seen = [r \in Requests |-> {}]

-----------------------------------------------------------------------------
(* Ingestion.                                                              *)

\* The checks of ingest() before it saves; enough says what require_disk_space finds.
AcceptsUpload(b, ext, enough) ==
    /\ ext \in ALLOWED_EXTENSIONS
    /\ b.size > 0
    /\ enough

reject_upload(i, b, ext, enough) ==
    /\ upload[i] = "idle"
    /\ ~AcceptsUpload(b, ext, enough) \/ b.size > MAX_UPLOAD_SIZE
    /\ upload' = [upload EXCEPT ![i] = "rejected"]
    /\ UNCHANGED <<raw, manifest, req, clock, reports, normalized, altered, readBy, seen>>

\* storage.save hashes what it streams; the manifest follows in a second commit.
save_upload(i, b, ext, source_type, enough) ==
    /\ upload[i] = "idle"
    /\ AcceptsUpload(b, ext, enough)
    /\ b.size <= MAX_UPLOAD_SIZE
    /\ upload' = [upload EXCEPT ![i] = "saved"]
    /\ raw' = [raw EXCEPT ![i] = b]
    /\ manifest' = [manifest EXCEPT ![i] =
            [sha256 |-> b, extension |-> ext, source_type |-> source_type]]
    /\ UNCHANGED <<req, clock, reports, normalized, altered, readBy, seen>>

write_manifest(i) ==
    /\ upload[i] = "saved"
    /\ \E outcome \in {"stored", "rejected"} : upload' = [upload EXCEPT ![i] = outcome]
    /\ UNCHANGED <<raw, manifest, req, clock, reports, normalized, altered, readBy, seen>>

\* Somebody other than the program replaces the bytes of a raw file.
alter_raw(i, b) ==
    /\ raw[i] \in Contents \ {b}
    /\ raw' = [raw EXCEPT ![i] = b]
    /\ altered' = altered \union {i}
    /\ UNCHANGED <<upload, manifest, req, clock, reports, normalized, readBy, seen>>

FindManifest(i) == upload[i] = "stored"

-----------------------------------------------------------------------------
(* Requests for stages 2 to 4.                                             *)

Continue(r, state) ==
    /\ req' = [req EXCEPT ![r] = state]
    /\ UNCHANGED <<upload, raw, manifest, altered>>

Raise(r) ==
    /\ Continue(r, [Idle EXCEPT !.step = "raised"])
    /\ UNCHANGED <<clock, reports, normalized, readBy, seen>>

\* The candidates of _find_matching_validation_report and ..._integrity_report.
Matching(op, i, s) ==
    {p \in reports : /\ p.op = op /\ p.ingestion = i /\ p.schema = s
                     /\ p.sha256 = manifest[i].sha256}

\* (A slip: whichever matching report the directory lists first.)
latest_is_any(p, candidates) == p \in candidates

\* max(candidates, key=validated_at); None when there is no candidate.
IsLatest(p, candidates) ==
    /\ p \in candidates
    /\ \A q \in candidates : q.at <= p.at

\* known: schema, normalization profile and source units of the request exist.  The
\* code tests some of it after the lookups, which change nothing.
begin(r, op, i, s, known) ==
    /\ req[r].step = "idle"
    /\ Continue(r, IF known /\ FindManifest(i)
            THEN [Idle EXCEPT !.step = "found_manifest", !.op = op, !.ingestion = i, !.schema = s]
            ELSE [Idle EXCEPT !.step = "raised"])
    /\ seen' = [seen EXCEPT ![r] = IF op = "normalize" THEN reports ELSE {}]
    /\ UNCHANGED <<clock, reports, normalized, readBy>>

\* validate() has nothing to look up.
validate_gate(r) ==
    /\ req[r].step = "found_manifest" /\ req[r].op = "validate"
    /\ IF manifest[req[r].ingestion].extension \in RecordExtensions
       THEN /\ Continue(r, [req[r] EXCEPT !.step = "reading"])
            /\ UNCHANGED <<clock, reports, normalized, readBy, seen>>
       ELSE Raise(r)

integrity_gate(r) ==
    LET i == req[r].ingestion
        candidates == Matching("validate", i, req[r].schema)
    IN  /\ req[r].step = "found_manifest" /\ req[r].op = "integrity"
        /\ \/ /\ \/ candidates = {}
                 \/ \E p \in candidates : IsLatest(p, candidates) /\ p.status # "passed"
                 \/ manifest[i].extension \notin RecordExtensions
              /\ Raise(r)
           \/ \E p \in candidates :
                /\ IsLatest(p, candidates) /\ p.status = "passed"
                /\ manifest[i].extension \in RecordExtensions
                /\ Continue(r, [req[r] EXCEPT !.step = "reading", !.validation = p.id])
                /\ UNCHANGED <<clock, reports, normalized, readBy, seen>>

\* normalize() looks the two reports up one after the other.
normalize_find_validation(r) ==
    LET candidates == Matching("validate", req[r].ingestion, req[r].schema)
    IN  /\ req[r].step = "found_manifest" /\ req[r].op = "normalize"
        /\ \/ /\ \/ candidates = {}
                 \/ \E p \in candidates : IsLatest(p, candidates) /\ p.status # "passed"
              /\ Raise(r)
           \/ \E p \in candidates :
                /\ IsLatest(p, candidates) /\ p.status = "passed"
                /\ Continue(r, [req[r] EXCEPT !.step = "found_validation", !.validation = p.id])
                /\ UNCHANGED <<clock, reports, normalized, readBy, seen>>

\* (A slip: the integrity report may refer to any validation.)
accepts_any_lineage(r, p) == p.status \in {"passed", "passed_with_warnings"}

AcceptsIntegrity(r, p) ==
    /\ p.validation = req[r].validation
    /\ p.status \in {"passed", "passed_with_warnings"}

normalize_find_integrity(r) ==
    LET i == req[r].ingestion
        candidates == Matching("integrity", i, req[r].schema)
    IN  /\ req[r].step = "found_validation"
        /\ \/ /\ \/ candidates = {}
                 \/ \E p \in candidates : IsLatest(p, candidates) /\ ~AcceptsIntegrity(r, p)
                 \/ manifest[i].extension \notin RecordExtensions
              /\ Raise(r)
           \/ \E p \in candidates :
                /\ IsLatest(p, candidates) /\ AcceptsIntegrity(r, p)
                /\ manifest[i].extension \in RecordExtensions
                /\ Continue(r, [req[r] EXCEPT !.step = "reading", !.integrity = p.id])
                /\ UNCHANGED <<clock, reports, normalized, readBy, seen>>

-----------------------------------------------------------------------------
(* Reading the raw file, and publishing what came of it.                   *)

StatusOf(r, b) ==
    IF req[r].op = "validate"
    THEN ValidationStatus(b.records, req[r].schema, manifest[req[r].ingestion].source_type)
    ELSE IntegrityStatus(b.records, req[r].schema)

\* validate() and run() read the file to its end and stamp the report with the time;
\* neither hashes what it reads.
read_and_judge(r) ==
    LET b == raw[req[r].ingestion]
    IN  /\ req[r].step = "reading" /\ req[r].op \in {"validate", "integrity"}
        /\ clock' = clock + 1
        /\ readBy' = [readBy EXCEPT ![r] = b]
        /\ Continue(r, [req[r] EXCEPT !.step = "judged", !.status = StatusOf(r, b), !.at = clock + 1])
        /\ UNCHANGED <<reports, normalized, seen>>

write_report(r) ==
    LET q == req[r]
    IN  /\ q.step = "judged"
        /\ reports' = reports \union
                {[id |-> r, op |-> q.op, ingestion |-> q.ingestion, schema |-> q.schema,
                  sha256 |-> manifest[q.ingestion].sha256, status |-> q.status, at |-> q.at,
                  validation |-> q.validation]}
        /\ Continue(r, [Idle EXCEPT !.step = "done"])
        /\ UNCHANGED <<clock, normalized, readBy, seen>>

\* _write_staged_artifact returns: every record converts and the bytes that were read
\* are those of the manifest.
WritesArtifact(r, b) ==
    /\ \A k \in IterRecords(b.records) : Converts(b.records[k])
    /\ b = manifest[req[r].ingestion].sha256

normalize_records(r) ==
    LET b == raw[req[r].ingestion]
    IN  /\ req[r].step = "reading" /\ req[r].op = "normalize"
        /\ readBy' = [readBy EXCEPT ![r] = b]
        /\ Continue(r, IF WritesArtifact(r, b)
                THEN [req[r] EXCEPT !.step = "staged"] ELSE [Idle EXCEPT !.step = "raised"])
        /\ UNCHANGED <<clock, reports, normalized, seen>>

\* One row per record, by the number of the record it comes from.
Normalized(b) == [k \in IterRecords(b.records) |-> NormalizeRecord(b.records[k])]

commit_normalization(r) ==
    LET q == req[r]
    IN  /\ q.step = "staged"
        /\ normalized' = normalized \union
                {[id |-> r, ingestion |-> q.ingestion, schema |-> q.schema,
                  validation |-> q.validation, integrity |-> q.integrity, source |-> readBy[r],
                  out |-> Normalized(readBy[r])]}
        /\ Continue(r, [Idle EXCEPT !.step = "done"])
        /\ UNCHANGED <<clock, reports, readBy, seen>>

\* The file cannot be opened or parsed, or the store raises (disk full, I/O error):
\* nothing is published.
stage_raises(r) == req[r].step \in {"reading", "judged", "staged"} /\ Raise(r)

-----------------------------------------------------------------------------
Ingest(i) ==
    \/ \E b \in Contents, ext \in Extensions, enough \in BOOLEAN : reject_upload(i, b, ext, enough)
    \/ \E b \in Contents, ext \in Extensions, t \in SourceTypes, enough \in BOOLEAN :
            save_upload(i, b, ext, t, enough)
    \/ write_manifest(i)

Stage(r) ==
    \/ \E op \in Ops, i \in Ingestions, s \in Schemas, known \in BOOLEAN :
            begin(r, op, i, s, known)
    \/ validate_gate(r)
    \/ integrity_gate(r)
    \/ normalize_find_validation(r)
    \/ normalize_find_integrity(r)
    \/ read_and_judge(r)
    \/ write_report(r)
    \/ normalize_records(r)
    \/ commit_normalization(r)
    \/ stage_raises(r)

Next ==
    \/ \E i \in Ingestions : Ingest(i)
    \/ \E i \in Ingestions, b \in Tampered : alter_raw(i, b)
    \/ \E r \in Requests : Stage(r)

Spec == Init /\ [][Next]_vars

-----------------------------------------------------------------------------
(* Properties.                                                             *)

\* Requests, reports and manifests stay well formed, and a request that has passed a
\* gate knows what it passed it with.
TypeOK ==
    /\ upload \in [Ingestions -> {"idle", "rejected", "saved", "stored"}]
    /\ raw \in [Ingestions -> Contents \union {NoFile}]
    /\ manifest \in [Ingestions -> Manifests \union {None}]
    /\ req \in [Requests -> Locals]
    /\ \A r \in Requests : req[r].step \in Working =>
        /\ req[r].op \in Ops
        /\ req[r].ingestion \in Ingestions /\ upload[req[r].ingestion] = "stored"
        /\ req[r].schema \in Schemas
    /\ \A r \in Requests : req[r].step = "judged" =>
        req[r].op \in {"validate", "integrity"} /\ req[r].status \in Verdicts
    /\ \A r \in Requests : req[r].step \in {"found_validation", "staged"} => req[r].op = "normalize"
    /\ clock \in Nat
    /\ reports \subseteq Reports
    /\ altered \subseteq Ingestions
    /\ readBy \in [Requests -> Contents \union {NoFile}]
    /\ seen \in [Requests -> SUBSET Reports]
    /\ \A i \in Ingestions : upload[i] \in {"saved", "stored"} => manifest[i] \in Manifests

\* Every published normalization was made from the very bytes of the manifest, and
\* rests on a passed validation and an accepted integrity report of the same ingestion
\* and schema, the integrity report being about that same validation: whatever other
\* requests published, or others did to the file, between the lookups.
NormalizationIsGrounded ==
    \A n \in normalized :
        /\ n.source = manifest[n.ingestion].sha256
        /\ \E v \in reports, g \in reports :
            /\ v.id = n.validation /\ v.op = "validate" /\ v.status = "passed"
            /\ g.id = n.integrity /\ g.op = "integrity" /\ g.validation = v.id
            /\ g.status \in {"passed", "passed_with_warnings"}
            /\ {v.ingestion, g.ingestion} = {n.ingestion}
            /\ {v.schema, g.schema} = {n.schema}
            /\ {v.sha256, g.sha256} = {n.source}

\* Unless the raw file was altered on disk, both verdicts were reached on the bytes
\* that were normalized, and what came out is what synchronization relies on: ordered
\* in time, numbers where the schema requires them.
NormalizedAsChecked ==
    \A n \in normalized : n.ingestion \notin altered =>
        /\ readBy[n.validation] = n.source
        /\ readBy[n.integrity] = n.source
        /\ Readable(n.out)

\* Whoever has seen a verdict and asks for a normalization afterwards never gets one
\* that rests on an earlier verdict of its kind, however late a report with an earlier
\* stamp is written and whatever is published between the two lookups.
SeenVerdictsAreHeeded ==
    \A n \in normalized : \A p \in seen[n.id] :
        (p.ingestion = n.ingestion /\ p.schema = n.schema) =>
            \E q \in reports :
                /\ q.id = IF p.op = "validate" THEN n.validation ELSE n.integrity
                /\ p.at <= q.at
=============================================================================
