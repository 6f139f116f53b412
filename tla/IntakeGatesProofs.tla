-------------------------- MODULE IntakeGatesProofs --------------------------
(***************************************************************************)
(* Proofs about IntakeGates, for any number of ingestions, schemas and     *)
(* concurrent requests and any contents of the files.                      *)
(***************************************************************************)
EXTENDS IntakeGates, TLAPS

(***************************************************************************)
(* The inductive invariant.  A manifest never changes once it is stored,   *)
(* and reports are never removed: what a gate has found stays true.        *)
(***************************************************************************)

\* Every report is about a stored ingestion and carries its checksum.
ReportsAreFiled ==
    \A p \in reports : upload[p.ingestion] = "stored" /\ p.sha256 = manifest[p.ingestion].sha256

\* A passed validation v of the ingestion and schema of request or normalization n.
Validates(v, n) ==
    /\ v.id = n.validation /\ v.op = "validate" /\ v.status = "passed"
    /\ v.ingestion = n.ingestion /\ v.schema = n.schema

\* An accepted integrity report g that rests on the validation n relies on.
Supports(g, n) ==
    /\ g.id = n.integrity /\ g.op = "integrity" /\ g.validation = n.validation
    /\ g.status \in {"passed", "passed_with_warnings"}
    /\ g.ingestion = n.ingestion /\ g.schema = n.schema

\* What a normalization has found by the step it is at.
RequestIsGrounded(r) ==
    /\ (req[r].op = "normalize" /\ req[r].step \in {"found_validation", "reading", "staged"})
            => \E v \in reports : Validates(v, req[r])
    /\ (req[r].op = "normalize" /\ req[r].step \in {"reading", "staged"})
            => \E g \in reports : Supports(g, req[r])
    /\ req[r].step = "staged" => readBy[r] = manifest[req[r].ingestion].sha256

NormalizedIsGrounded(n) ==
    /\ n.ingestion \in Ingestions /\ upload[n.ingestion] = "stored"
    /\ n.source = manifest[n.ingestion].sha256
    /\ \E v \in reports : Validates(v, n)
    /\ \E g \in reports : Supports(g, n)

Inv ==
    /\ TypeOK
    /\ ReportsAreFiled
    /\ \A r \in Requests : RequestIsGrounded(r)
    /\ \A n \in normalized : NormalizedIsGrounded(n)

-----------------------------------------------------------------------------
(* Types.                                                                  *)

\* A verdict is one of three, whatever the file holds.
LEMMA StatusType == \A r, b : StatusOf(r, b) \in Verdicts
BY DEF StatusOf, ValidationStatus, IntegrityStatus, Verdicts

\* What every step of a request leaves alone.
LEMMA IdleType == Idle \in Locals
BY DEF Idle, Locals

\* The type of everything but the requests: uploads, and files on disk.
LEMMA IngestType ==
    ASSUME TypeOK, NEW i \in Ingestions, Ingest(i)
    PROVE TypeOK'
<1> USE DEF TypeOK
<1>1. ASSUME NEW b \in Contents, NEW ext \in Extensions, NEW enough \in BOOLEAN,
             reject_upload(i, b, ext, enough)
      PROVE TypeOK'
  BY <1>1 DEF reject_upload
<1>2. ASSUME NEW b \in Contents, NEW ext \in Extensions, NEW t \in SourceTypes,
             NEW enough \in BOOLEAN, save_upload(i, b, ext, t, enough)
      PROVE TypeOK'
  <2>1. manifest' \in [Ingestions -> Manifests \union {None}] /\ manifest'[i] \in Manifests
    BY <1>2 DEF save_upload, Manifests
  <2> QED BY <1>2, <2>1 DEF save_upload
<1>3. CASE write_manifest(i)
  BY <1>3 DEF write_manifest
<1> QED BY <1>1, <1>2, <1>3 DEF Ingest

\* A step of request r keeps the types if the new local state is well formed.
LEMMA ContinueType ==
    ASSUME TypeOK, NEW r \in Requests, NEW state \in Locals, Continue(r, state),
           state.step \in Working =>
                /\ state.op \in Ops
                /\ state.ingestion \in Ingestions /\ upload[state.ingestion] = "stored"
                /\ state.schema \in Schemas,
           state.step = "judged" => state.op \in {"validate", "integrity"} /\ state.status \in Verdicts,
           state.step \in {"found_validation", "staged"} => state.op = "normalize",
           clock' \in Nat, reports' \subseteq Reports,
           readBy' \in [Requests -> Contents \union {NoFile}],
           seen' \in [Requests -> SUBSET Reports]
    PROVE TypeOK'
BY DEF TypeOK, Continue

\* What a request remembers to have seen are reports.
LEMMA SeenType ==
    ASSUME TypeOK, NEW r \in Requests, Stage(r)
    PROVE seen' \in [Requests -> SUBSET Reports]
<1>1. seen \in [Requests -> SUBSET Reports] /\ reports \in SUBSET Reports
  BY DEF TypeOK
<1>2. ASSUME NEW op \in Ops, NEW i \in Ingestions, NEW s \in Schemas, NEW known \in BOOLEAN,
             begin(r, op, i, s, known)
      PROVE seen' \in [Requests -> SUBSET Reports]
  BY <1>1, <1>2 DEF begin
<1>3. CASE seen' = seen
  BY <1>1, <1>3
<1> QED BY <1>2, <1>3 DEF Stage, validate_gate, integrity_gate, normalize_find_validation,
     normalize_find_integrity, read_and_judge, write_report, normalize_records,
     commit_normalization, stage_raises, Raise

\* The steps of a request keep the types.
LEMMA StageType ==
    ASSUME TypeOK, NEW r \in Requests, Stage(r)
    PROVE TypeOK'
<1>1. /\ req[r] \in Locals /\ clock \in Nat /\ reports \subseteq Reports
      /\ readBy \in [Requests -> Contents \union {NoFile}]
  BY DEF TypeOK
<1>. seen' \in [Requests -> SUBSET Reports]
  BY SeenType
<1>2. ASSUME Raise(r) PROVE TypeOK'
  <2>1. [Idle EXCEPT !.step = "raised"] \in Locals
    BY DEF Idle, Locals
  <2> QED BY <1>1, <1>2, <2>1, ContinueType DEF Raise, Idle, Working
<1>3. ASSUME NEW op \in Ops, NEW i \in Ingestions, NEW s \in Schemas, NEW known \in BOOLEAN,
             begin(r, op, i, s, known)
      PROVE TypeOK'
  <2> DEFINE state == IF known /\ FindManifest(i)
            THEN [Idle EXCEPT !.step = "found_manifest", !.op = op, !.ingestion = i, !.schema = s]
            ELSE [Idle EXCEPT !.step = "raised"]
  <2>1. state \in Locals
    BY DEF Idle, Locals, Working
  <2>2. Continue(r, state)
    BY <1>3 DEF begin
  <2>3. /\ state.step \in Working =>
                /\ state.op \in Ops
                /\ state.ingestion \in Ingestions /\ upload[state.ingestion] = "stored"
                /\ state.schema \in Schemas
        /\ state.step \notin {"judged", "found_validation", "staged"}
    BY DEF Idle, FindManifest, Working
  <2>4. clock' \in Nat /\ reports' \subseteq Reports /\ readBy' \in [Requests -> Contents \union {NoFile}]
    BY <1>1, <1>3 DEF begin
  <2> HIDE DEF state
  <2> QED BY <2>1, <2>2, <2>3, <2>4, ContinueType
<1>4. ASSUME NEW state \in Locals, Continue(r, state), req[r].step \in Working,
             state.op = req[r].op, state.ingestion = req[r].ingestion, state.schema = req[r].schema,
             state.step = "judged" => state.op \in {"validate", "integrity"} /\ state.status \in Verdicts,
             state.step \in {"found_validation", "staged"} => state.op = "normalize",
             clock' \in Nat, reports' \subseteq Reports,
             readBy' \in [Requests -> Contents \union {NoFile}]
      PROVE TypeOK'
  <2>1. /\ state.op \in Ops
        /\ state.ingestion \in Ingestions /\ upload[state.ingestion] = "stored"
        /\ state.schema \in Schemas
    BY <1>4 DEF TypeOK
  <2> QED BY <1>4, <2>1, ContinueType
<1>5. CASE validate_gate(r)
  <2>1. req[r].step \in Working /\ [req[r] EXCEPT !.step = "reading"] \in Locals
    BY <1>1, <1>5 DEF validate_gate, Locals, Working
  <2>2. Raise(r) \/ /\ Continue(r, [req[r] EXCEPT !.step = "reading"])
                    /\ UNCHANGED <<clock, reports, normalized, readBy>>
    BY <1>5 DEF validate_gate
  <2> QED BY <1>1, <1>2, <1>4, <2>1, <2>2 DEF Locals
<1>6. CASE integrity_gate(r)
  <2>1. CASE Raise(r)
    BY <1>2, <2>1
  <2>2. CASE ~Raise(r)
    <3>1. PICK p \in reports :
            /\ Continue(r, [req[r] EXCEPT !.step = "reading", !.validation = p.id])
            /\ UNCHANGED <<clock, reports, normalized, readBy>>
      BY <1>6, <2>2 DEF integrity_gate, Matching
    <3>2. p.id \in Requests
      BY <1>1 DEF Reports
    <3>3. req[r].step \in Working
          /\ [req[r] EXCEPT !.step = "reading", !.validation = p.id] \in Locals
      BY <1>1, <1>6, <3>2 DEF integrity_gate, Locals, Working
    <3> QED BY <1>1, <1>4, <3>1, <3>3 DEF Locals
  <2> QED BY <2>1, <2>2
<1>7. CASE normalize_find_validation(r)
  <2>1. CASE Raise(r)
    BY <1>2, <2>1
  <2>2. CASE ~Raise(r)
    <3>1. PICK p \in reports :
            /\ Continue(r, [req[r] EXCEPT !.step = "found_validation", !.validation = p.id])
            /\ UNCHANGED <<clock, reports, normalized, readBy>>
      BY <1>7, <2>2 DEF normalize_find_validation, Matching
    <3>2. p.id \in Requests
      BY <1>1 DEF Reports
    <3>3. /\ req[r].step \in Working /\ req[r].op = "normalize"
          /\ [req[r] EXCEPT !.step = "found_validation", !.validation = p.id] \in Locals
      BY <1>1, <1>7, <3>2 DEF normalize_find_validation, Locals, Working
    <3> QED BY <1>1, <1>4, <3>1, <3>3 DEF Locals
  <2> QED BY <2>1, <2>2
<1>8. CASE normalize_find_integrity(r)
  <2>1. CASE Raise(r)
    BY <1>2, <2>1
  <2>2. CASE ~Raise(r)
    <3>1. PICK p \in reports :
            /\ Continue(r, [req[r] EXCEPT !.step = "reading", !.integrity = p.id])
            /\ UNCHANGED <<clock, reports, normalized, readBy>>
      BY <1>8, <2>2 DEF normalize_find_integrity, Matching
    <3>2. p.id \in Requests
      BY <1>1 DEF Reports
    <3>3. /\ req[r].step \in Working
          /\ [req[r] EXCEPT !.step = "reading", !.integrity = p.id] \in Locals
      BY <1>1, <1>8, <3>2 DEF normalize_find_integrity, Locals, Working
    <3> QED BY <1>1, <1>4, <3>1, <3>3 DEF Locals
  <2> QED BY <2>1, <2>2
<1>9. CASE read_and_judge(r)
  <2> DEFINE b == raw[req[r].ingestion]
             state == [req[r] EXCEPT !.step = "judged", !.status = StatusOf(r, b), !.at = clock + 1]
  <2>1. req[r].step \in Working /\ req[r].op \in {"validate", "integrity"}
    BY <1>9 DEF read_and_judge, Working
  <2>2. b \in Contents \union {NoFile}
    BY <2>1 DEF TypeOK
  <2>3. StatusOf(r, b) \in Verdicts /\ clock + 1 \in Nat
    BY <1>1, StatusType
  <2>4. state \in Locals /\ state.op = req[r].op /\ state.ingestion = req[r].ingestion
        /\ state.schema = req[r].schema /\ state.step = "judged" /\ state.status \in Verdicts
    BY <1>1, <2>3 DEF Locals, Working
  <2>5. /\ Continue(r, state) /\ clock' \in Nat /\ reports' \subseteq Reports
        /\ readBy' \in [Requests -> Contents \union {NoFile}]
    BY <1>1, <1>9, <2>2 DEF read_and_judge
  <2> HIDE DEF state
  <2> QED BY <1>4, <2>1, <2>4, <2>5
<1>10. CASE write_report(r)
  <2>1. [Idle EXCEPT !.step = "done"] \in Locals
    BY DEF Idle, Locals
  <2>2. /\ req[r].step \in Working
        /\ req[r].op \in {"validate", "integrity"} /\ req[r].status \in Verdicts
        /\ req[r].ingestion \in Ingestions /\ req[r].schema \in Schemas
        /\ req[r].at \in Nat /\ req[r].validation \in Requests \union {None}
        /\ manifest[req[r].ingestion].sha256 \in Contents
    BY <1>10 DEF write_report, TypeOK, Locals, Working, Manifests
  <2>3. reports' \subseteq Reports
    BY <1>1, <1>10, <2>2 DEF write_report, Reports
  <2>4. Continue(r, [Idle EXCEPT !.step = "done"]) /\ clock' = clock /\ readBy' = readBy
    BY <1>10 DEF write_report
  <2> QED BY <1>1, <2>1, <2>3, <2>4, ContinueType DEF Idle, Working
<1>11. CASE normalize_records(r)
  <2> DEFINE b == raw[req[r].ingestion]
  <2>1. req[r].step \in Working /\ req[r].op = "normalize" /\ b \in Contents \union {NoFile}
    BY <1>11 DEF normalize_records, Working, TypeOK
  <2>2. [Idle EXCEPT !.step = "raised"] \in Locals /\ [req[r] EXCEPT !.step = "staged"] \in Locals
    BY <1>1 DEF Idle, Locals, Working
  <2>3. /\ clock' \in Nat /\ reports' \subseteq Reports
        /\ readBy' \in [Requests -> Contents \union {NoFile}]
    BY <1>1, <1>11, <2>1 DEF normalize_records
  <2>4. CASE Continue(r, [Idle EXCEPT !.step = "raised"])
    BY <2>2, <2>3, <2>4, ContinueType DEF Idle, Working
  <2>5. CASE Continue(r, [req[r] EXCEPT !.step = "staged"])
    BY <1>1, <1>4, <2>1, <2>2, <2>3, <2>5 DEF Locals
  <2> QED BY <1>11, <2>4, <2>5 DEF normalize_records
<1>12. CASE commit_normalization(r)
  <2>1. [Idle EXCEPT !.step = "done"] \in Locals
    BY DEF Idle, Locals
  <2>2. Continue(r, [Idle EXCEPT !.step = "done"]) /\ UNCHANGED <<clock, reports, readBy>>
    BY <1>12 DEF commit_normalization
  <2> QED BY <1>1, <2>1, <2>2, ContinueType DEF Idle, Working
<1>13. CASE stage_raises(r)
  BY <1>2, <1>13 DEF stage_raises
<1> QED BY <1>3, <1>5, <1>6, <1>7, <1>8, <1>9, <1>10, <1>11, <1>12, <1>13 DEF Stage

\* Somebody who replaces a raw file changes no type.
LEMMA AlterType ==
    ASSUME TypeOK, NEW i \in Ingestions, NEW b \in Tampered, alter_raw(i, b)
    PROVE TypeOK'
BY IntakeAssumption DEF TypeOK, alter_raw

\* They hold when nothing has been uploaded or asked for.
LEMMA InitType == Init => TypeOK
<1> SUFFICES ASSUME Init PROVE TypeOK
  OBVIOUS
<1>1. req \in [Requests -> Locals] /\ \A r \in Requests : req[r].step = "idle"
  BY DEF Init, Idle, Locals
<1> QED BY <1>1 DEF Init, TypeOK, Working

\* TypeOK holds for any number of ingestions and requests: in particular a request
\* that has passed a gate knows a stored ingestion, a schema and, once it has judged, a
\* verdict.
THEOREM TypeCorrect == Spec => []TypeOK
<1>1. TypeOK /\ [Next]_vars => TypeOK'
  <2> SUFFICES ASSUME TypeOK, [Next]_vars PROVE TypeOK'
    OBVIOUS
  <2>1. CASE UNCHANGED vars
    BY <2>1 DEF vars, TypeOK
  <2> QED BY <2>1, IngestType, StageType, AlterType DEF Next
<1> QED BY <1>1, InitType, PTL DEF Spec

-----------------------------------------------------------------------------
(* Grounds.                                                                *)

\* No step removes a report or touches a stored manifest.
Lasting ==
    /\ reports \subseteq reports'
    /\ \A i \in Ingestions : upload[i] = "stored" => upload'[i] = "stored" /\ manifest'[i] = manifest[i]

\* No step removes a report or rewrites a manifest.
LEMMA StepLasts ==
    ASSUME TypeOK, [Next]_vars
    PROVE Lasting
<1>1. ASSUME NEW i \in Ingestions, Ingest(i) PROVE Lasting
  BY <1>1 DEF Ingest, reject_upload, save_upload, write_manifest, Lasting, TypeOK
<1>2. ASSUME NEW r \in Requests, Stage(r) PROVE Lasting
  <2>1. upload' = upload /\ manifest' = manifest
    BY <1>2 DEF Stage, begin, validate_gate, integrity_gate, normalize_find_validation,
         normalize_find_integrity, read_and_judge, write_report, normalize_records,
         commit_normalization, stage_raises, Raise, Continue
  <2>2. reports \subseteq reports'
    BY <1>2 DEF Stage, begin, validate_gate, integrity_gate, normalize_find_validation,
         normalize_find_integrity, read_and_judge, write_report, normalize_records,
         commit_normalization, stage_raises, Raise
  <2> QED BY <2>1, <2>2 DEF Lasting
<1>3. ASSUME NEW i \in Ingestions, NEW b \in Tampered, alter_raw(i, b) PROVE Lasting
  BY <1>3 DEF alter_raw, Lasting
<1>4. CASE UNCHANGED vars
  BY <1>4 DEF vars, Lasting
<1> QED BY <1>1, <1>2, <1>3, <1>4 DEF Next

\* A request that a step leaves alone keeps its ground.
LEMMA GroundLasts ==
    ASSUME TypeOK, TypeOK', Lasting, NEW r \in Requests, RequestIsGrounded(r),
           req'[r] = req[r], readBy'[r] = readBy[r]
    PROVE RequestIsGrounded(r)'
<1>1. req[r].step = "staged" => /\ req[r].ingestion \in Ingestions
                                /\ upload[req[r].ingestion] = "stored"
  BY DEF TypeOK, Working
<1>2. req[r].step = "staged" => manifest'[req[r].ingestion] = manifest[req[r].ingestion]
  BY <1>1 DEF Lasting
<1> QED BY <1>2 DEF RequestIsGrounded, Lasting, Validates, Supports

\* So does what is published.
LEMMA PublishedLasts ==
    ASSUME Lasting, NEW n, NormalizedIsGrounded(n)
    PROVE NormalizedIsGrounded(n)'
BY DEF NormalizedIsGrounded, Lasting, Validates, Supports

\* The new report carries the checksum of the manifest; the others last.
LEMMA ReportsStayFiled ==
    ASSUME TypeOK, [Next]_vars, ReportsAreFiled, Lasting
    PROVE ReportsAreFiled'
<1>1. \A p \in reports : p.ingestion \in Ingestions
  BY DEF TypeOK, Reports
<1>2. \A p \in reports : upload'[p.ingestion] = "stored" /\ p.sha256 = manifest'[p.ingestion].sha256
  BY <1>1 DEF ReportsAreFiled, Lasting
<1>3. CASE reports' = reports
  BY <1>2, <1>3 DEF ReportsAreFiled
<1>4. ASSUME NEW r \in Requests, write_report(r) PROVE ReportsAreFiled'
  <2>1. upload[req[r].ingestion] = "stored" /\ manifest' = manifest /\ upload' = upload
    BY <1>4 DEF write_report, Continue, TypeOK, Working
  <2>2. \A p \in reports' : \/ p \in reports
                           \/ /\ p.ingestion = req[r].ingestion
                              /\ p.sha256 = manifest[req[r].ingestion].sha256
    BY <1>4 DEF write_report
  <2> QED BY <1>2, <2>1, <2>2 DEF ReportsAreFiled
<1>5. ASSUME NEW r \in Requests, Stage(r), ~write_report(r) PROVE reports' = reports
  BY <1>5 DEF Stage, begin, validate_gate, integrity_gate, normalize_find_validation,
       normalize_find_integrity, read_and_judge, normalize_records, commit_normalization,
       stage_raises, Raise
<1>6. ASSUME NEW i \in Ingestions, Ingest(i) PROVE reports' = reports
  BY <1>6 DEF Ingest, reject_upload, save_upload, write_manifest
<1> QED BY <1>3, <1>4, <1>5, <1>6 DEF Next, alter_raw, vars

\* A request that has ended, or is not yet past a gate, needs no ground.
LEMMA NoGroundNeeded ==
    ASSUME NEW r \in Requests,
           req'[r].step \in {"raised", "done", "found_manifest"} \/ req'[r].op \in {"validate", "integrity"},
           req'[r].step # "staged"
    PROVE RequestIsGrounded(r)'
BY DEF RequestIsGrounded

\* Every step of a request leaves it with the ground it needs.
LEMMA StageGrounds ==
    ASSUME Inv, TypeOK', Lasting, NEW r \in Requests, Stage(r)
    PROVE RequestIsGrounded(r)'
<1>1. req \in [Requests -> Locals] /\ req[r] \in Locals
  BY DEF Inv, TypeOK
<1>2. ASSUME Raise(r) PROVE RequestIsGrounded(r)'
  BY <1>1, <1>2, NoGroundNeeded DEF Raise, Continue, Idle
<1>3. ASSUME NEW op \in Ops, NEW i \in Ingestions, NEW s \in Schemas, NEW known \in BOOLEAN,
             begin(r, op, i, s, known)
      PROVE RequestIsGrounded(r)'
  BY <1>1, <1>3, NoGroundNeeded DEF begin, Continue, Idle
<1>4. CASE validate_gate(r)
  <2>1. CASE Raise(r)
    BY <1>2, <2>1
  <2>2. CASE ~Raise(r)
    BY <1>1, <1>4, <2>2, NoGroundNeeded DEF validate_gate, Continue, Locals
  <2> QED BY <2>1, <2>2
<1>5. CASE integrity_gate(r)
  <2>1. CASE Raise(r)
    BY <1>2, <2>1
  <2>2. CASE ~Raise(r)
    <3>1. PICK p \in reports : Continue(r, [req[r] EXCEPT !.step = "reading", !.validation = p.id])
      BY <1>5, <2>2 DEF integrity_gate, Matching
    <3>2. req'[r].op = "integrity" /\ req'[r].step = "reading"
      BY <1>1, <1>5, <3>1 DEF integrity_gate, Continue, Locals
    <3> QED BY <3>2, NoGroundNeeded
  <2> QED BY <2>1, <2>2
<1>6. CASE normalize_find_validation(r)
  <2>1. CASE Raise(r)
    BY <1>2, <2>1
  <2>2. CASE ~Raise(r)
    <3>1. PICK p \in Matching("validate", req[r].ingestion, req[r].schema) :
            /\ p.status = "passed"
            /\ Continue(r, [req[r] EXCEPT !.step = "found_validation", !.validation = p.id])
      BY <1>6, <2>2 DEF normalize_find_validation
    <3>2. /\ req'[r].step = "found_validation" /\ req'[r].validation = p.id
          /\ req'[r].ingestion = req[r].ingestion /\ req'[r].schema = req[r].schema
      BY <1>1, <3>1 DEF Continue, Locals
    <3>3. p \in reports' /\ Validates(p, req'[r])
      BY <3>1, <3>2 DEF Matching, Validates, Lasting
    <3> QED BY <3>2, <3>3 DEF RequestIsGrounded, Validates
  <2> QED BY <2>1, <2>2
<1>7. CASE normalize_find_integrity(r)
  <2>1. CASE Raise(r)
    BY <1>2, <2>1
  <2>2. CASE ~Raise(r)
    <3>1. PICK p \in Matching("integrity", req[r].ingestion, req[r].schema) :
            /\ AcceptsIntegrity(r, p)
            /\ Continue(r, [req[r] EXCEPT !.step = "reading", !.integrity = p.id])
      BY <1>7, <2>2 DEF normalize_find_integrity
    <3>2. /\ req'[r].step = "reading" /\ req'[r].integrity = p.id
          /\ req'[r].validation = req[r].validation
          /\ req'[r].ingestion = req[r].ingestion /\ req'[r].schema = req[r].schema
      BY <1>1, <3>1 DEF Continue, Locals
    <3>3. p \in reports' /\ Supports(p, req'[r])
      BY <3>1, <3>2 DEF Matching, AcceptsIntegrity, Supports, Lasting
    <3>4. PICK v \in reports : Validates(v, req[r])
      BY <1>7 DEF normalize_find_integrity, Inv, TypeOK, RequestIsGrounded
    <3>5. v \in reports' /\ Validates(v, req'[r])
      BY <3>2, <3>4 DEF Validates, Lasting
    <3> QED BY <3>2, <3>3, <3>5 DEF RequestIsGrounded, Validates, Supports
  <2> QED BY <2>1, <2>2
<1>8. CASE read_and_judge(r)
  <2>1. req'[r].op \in {"validate", "integrity"} /\ req'[r].step = "judged"
    BY <1>1, <1>8 DEF read_and_judge, Continue, Locals
  <2> QED BY <2>1, NoGroundNeeded
<1>9. CASE write_report(r)
  BY <1>1, <1>9, NoGroundNeeded DEF write_report, Continue, Idle
<1>10. CASE normalize_records(r)
  <2>1. CASE req'[r].step = "raised"
    BY <2>1, NoGroundNeeded
  <2>2. CASE req'[r].step # "raised"
    <3>1. /\ req[r].op = "normalize" /\ req[r].step = "reading"
          /\ WritesArtifact(r, raw[req[r].ingestion])
          /\ Continue(r, [req[r] EXCEPT !.step = "staged"])
          /\ readBy' = [readBy EXCEPT ![r] = raw[req[r].ingestion]]
      BY <1>1, <1>10, <2>2 DEF normalize_records, Continue, Idle
    <3>2. /\ req'[r].step = "staged" /\ req'[r].op = "normalize"
          /\ req'[r].validation = req[r].validation /\ req'[r].integrity = req[r].integrity
          /\ req'[r].ingestion = req[r].ingestion /\ req'[r].schema = req[r].schema
          /\ manifest' = manifest
      BY <1>1, <3>1 DEF Continue, Locals
    <3>3. readBy'[r] = manifest'[req'[r].ingestion].sha256
      BY <3>1, <3>2 DEF WritesArtifact, Inv, TypeOK
    <3>4. PICK v \in reports, g \in reports : Validates(v, req[r]) /\ Supports(g, req[r])
      BY <3>1 DEF Inv, RequestIsGrounded
    <3>5. /\ v \in reports' /\ Validates(v, req'[r])
          /\ g \in reports' /\ Supports(g, req'[r])
      BY <3>2, <3>4 DEF Validates, Supports, Lasting
    <3> QED BY <3>3, <3>5 DEF RequestIsGrounded, Validates, Supports
  <2> QED BY <2>1, <2>2
<1>11. CASE commit_normalization(r)
  BY <1>1, <1>11, NoGroundNeeded DEF commit_normalization, Continue, Idle
<1>12. CASE stage_raises(r)
  BY <1>2, <1>12 DEF stage_raises
<1> QED BY <1>3, <1>4, <1>5, <1>6, <1>7, <1>8, <1>9, <1>10, <1>11, <1>12 DEF Stage

\* What is published rests on the ground of the request that publishes it.
LEMMA PublishingGrounds ==
    ASSUME Inv, Lasting, NEW r \in Requests, Stage(r), NEW n \in normalized'
    PROVE NormalizedIsGrounded(n)'
<1>1. CASE n \in normalized
  BY <1>1, PublishedLasts DEF Inv
<1>2. CASE n \notin normalized
  <2>1. commit_normalization(r)
    BY <1>2 DEF Stage, begin, validate_gate, integrity_gate, normalize_find_validation,
         normalize_find_integrity, read_and_judge, write_report, normalize_records,
         commit_normalization, stage_raises, Raise
  <2>2. /\ req[r].step = "staged" /\ req[r].op = "normalize"
        /\ req[r].ingestion \in Ingestions /\ upload[req[r].ingestion] = "stored"
        /\ upload' = upload /\ manifest' = manifest
    BY <2>1 DEF commit_normalization, Continue, Inv, TypeOK, Working
  <2>3. /\ n.ingestion = req[r].ingestion /\ n.schema = req[r].schema
        /\ n.validation = req[r].validation /\ n.integrity = req[r].integrity
        /\ n.source = readBy[r]
    BY <1>2, <2>1 DEF commit_normalization
  <2>4. PICK v \in reports, g \in reports : Validates(v, req[r]) /\ Supports(g, req[r])
    BY <2>2 DEF Inv, RequestIsGrounded
  <2>5. v \in reports' /\ Validates(v, n) /\ g \in reports' /\ Supports(g, n)
    BY <2>3, <2>4 DEF Validates, Supports, Lasting
  <2>6. n.source = manifest'[n.ingestion].sha256
    BY <2>2, <2>3 DEF Inv, RequestIsGrounded
  <2> QED BY <2>2, <2>3, <2>5, <2>6 DEF NormalizedIsGrounded, Validates, Supports
<1> QED BY <1>1, <1>2

\* The invariant is inductive.
LEMMA StepInv == Inv /\ [Next]_vars => Inv'
<1> SUFFICES ASSUME Inv, [Next]_vars PROVE Inv'
  OBVIOUS
<1>1. TypeOK' /\ Lasting /\ ReportsAreFiled'
  <2>1. TypeOK'
    BY IngestType, StageType, AlterType DEF Next, Inv, vars, TypeOK
  <2>2. Lasting
    BY StepLasts DEF Inv
  <2> QED BY <2>1, <2>2, ReportsStayFiled DEF Inv
<1>2. ASSUME NEW r \in Requests, Stage(r) PROVE Inv'
  <2>1. \A q \in Requests \ {r} : req'[q] = req[q] /\ readBy'[q] = readBy[q]
    BY <1>2 DEF Stage, begin, validate_gate, integrity_gate, normalize_find_validation,
         normalize_find_integrity, read_and_judge, write_report, normalize_records,
         commit_normalization, stage_raises, Raise, Continue, Inv, TypeOK
  <2>2. \A q \in Requests : RequestIsGrounded(q)'
    BY <1>1, <1>2, <2>1, GroundLasts, StageGrounds DEF Inv
  <2> QED BY <1>1, <1>2, <2>2, PublishingGrounds DEF Inv
<1>3. CASE /\ req' = req /\ readBy' = readBy /\ normalized' = normalized
  BY <1>1, <1>3, GroundLasts, PublishedLasts DEF Inv
<1> QED BY <1>2, <1>3 DEF Next, Ingest, reject_upload, save_upload, write_manifest, alter_raw, vars

\* Inv is inductive: nothing is published yet, and every step keeps it.
THEOREM Invariance == Spec => []Inv
<1>1. Init => Inv
  BY InitType DEF Init, Inv, ReportsAreFiled, RequestIsGrounded, Idle
<1> QED BY <1>1, StepInv, PTL DEF Spec

\* NormalizationIsGrounded for any number of requests and ingestions: no interleaving of
\* lookups, publications and alterations of the raw file lets normalize() combine
\* reports that do not belong together or publish other bytes than it says.
THEOREM NormalizationsAreGrounded == Spec => []NormalizationIsGrounded
<1>1. Inv => NormalizationIsGrounded
  <2> SUFFICES ASSUME Inv, NEW n \in normalized
               PROVE /\ n.source = manifest[n.ingestion].sha256
                     /\ \E v \in reports, g \in reports :
                        /\ v.id = n.validation /\ v.op = "validate" /\ v.status = "passed"
                        /\ g.id = n.integrity /\ g.op = "integrity" /\ g.validation = v.id
                        /\ g.status \in {"passed", "passed_with_warnings"}
                        /\ {v.ingestion, g.ingestion} = {n.ingestion}
                        /\ {v.schema, g.schema} = {n.schema}
                        /\ {v.sha256, g.sha256} = {n.source}
    BY DEF NormalizationIsGrounded
  <2>1. PICK v \in reports, g \in reports : Validates(v, n) /\ Supports(g, n)
    BY DEF Inv, NormalizedIsGrounded
  <2>2. n.source = manifest[n.ingestion].sha256
    BY DEF Inv, NormalizedIsGrounded
  <2>3. v.sha256 = n.source /\ g.sha256 = n.source
    BY <2>1, <2>2 DEF Inv, ReportsAreFiled, Validates, Supports
  <2> QED BY <2>1, <2>2, <2>3 DEF Validates, Supports
<1> QED BY <1>1, Invariance, PTL

-----------------------------------------------------------------------------
(* Verdicts that are overruled.                                            *)

\* A report of the ingestion, schema and kind a gate asks for carries the checksum of
\* the manifest, so it is one of the gate's candidates.
LEMMA ReportIsCandidate ==
    ASSUME Inv, NEW r \in Requests, NEW p \in reports,
           p.ingestion = req[r].ingestion, p.schema = req[r].schema
    PROVE p \in Matching(p.op, req[r].ingestion, req[r].schema)
BY DEF Inv, ReportsAreFiled, Matching

\* The validation normalize() goes on with is the latest of its candidates.
LEMMA FindsLatestValidation ==
    ASSUME Inv, NEW r \in Requests, normalize_find_validation(r), req'[r].step = "found_validation",
           NEW p \in Matching("validate", req[r].ingestion, req[r].schema)
    PROVE \E v \in reports : v.id = req'[r].validation /\ p.at <= v.at
<1>1. req \in [Requests -> Locals] /\ req[r] \in Locals
  BY DEF Inv, TypeOK
<1>2. ~Raise(r)
  BY <1>1 DEF Raise, Continue, Idle
<1>3. PICK v \in Matching("validate", req[r].ingestion, req[r].schema) :
        /\ IsLatest(v, Matching("validate", req[r].ingestion, req[r].schema))
        /\ Continue(r, [req[r] EXCEPT !.step = "found_validation", !.validation = v.id])
  BY <1>2 DEF normalize_find_validation
<1>4. req'[r].validation = v.id
  BY <1>1, <1>3 DEF Continue, Locals
<1> QED BY <1>3, <1>4 DEF IsLatest, Matching

\* So is the integrity report it goes on with.
LEMMA FindsLatestIntegrity ==
    ASSUME Inv, NEW r \in Requests, normalize_find_integrity(r), req'[r].step = "reading",
           NEW p \in Matching("integrity", req[r].ingestion, req[r].schema)
    PROVE \E g \in reports : g.id = req'[r].integrity /\ p.at <= g.at
<1>1. req \in [Requests -> Locals] /\ req[r] \in Locals
  BY DEF Inv, TypeOK
<1>2. ~Raise(r)
  BY <1>1 DEF Raise, Continue, Idle
<1>3. PICK g \in Matching("integrity", req[r].ingestion, req[r].schema) :
        /\ IsLatest(g, Matching("integrity", req[r].ingestion, req[r].schema))
        /\ Continue(r, [req[r] EXCEPT !.step = "reading", !.integrity = g.id])
  BY <1>2 DEF normalize_find_integrity
<1>4. req'[r].integrity = g.id
  BY <1>1, <1>3 DEF Continue, Locals
<1> QED BY <1>3, <1>4 DEF IsLatest, Matching

\* How a request for a normalization gets past its lookups, and what it keeps.
LEMMA HowRequestsAdvance ==
    ASSUME Inv, NEW r \in Requests, [Next]_vars, req'[r] # req[r],
           req'[r].op = "normalize", req'[r].step \in {"found_validation", "reading", "staged"}
    PROVE /\ req[r].op = "normalize" /\ req[r].step # "idle"
          /\ req'[r].ingestion = req[r].ingestion /\ req'[r].schema = req[r].schema
          /\ \/ normalize_find_validation(r) /\ req'[r].step = "found_validation"
             \/ /\ normalize_find_integrity(r) /\ req'[r].step = "reading"
                /\ req[r].step = "found_validation" /\ req'[r].validation = req[r].validation
             \/ /\ req'[r].step = "staged" /\ req[r].step = "reading"
                /\ req'[r].validation = req[r].validation /\ req'[r].integrity = req[r].integrity
<1>1. req \in [Requests -> Locals] /\ req[r] \in Locals
  BY DEF Inv, TypeOK
<1>2. PICK q \in Requests : Stage(q)
  BY DEF Next, Ingest, reject_upload, save_upload, write_manifest, alter_raw, vars
<1>3. q = r
  BY <1>1, <1>2 DEF Stage, begin, validate_gate, integrity_gate, normalize_find_validation,
       normalize_find_integrity, read_and_judge, write_report, normalize_records,
       commit_normalization, stage_raises, Raise, Continue
<1>4. ~Raise(r)
  BY <1>1 DEF Raise, Continue, Idle
<1>5. ASSUME NEW op \in Ops, NEW i \in Ingestions, NEW s \in Schemas, NEW known \in BOOLEAN,
             begin(r, op, i, s, known)
      PROVE FALSE
  BY <1>1, <1>5 DEF begin, Continue, Idle
<1>6. ~validate_gate(r)
  BY <1>1, <1>4 DEF validate_gate, Continue, Locals
<1>7. ~integrity_gate(r)
  BY <1>1, <1>4, ZenonT(30) DEF integrity_gate, Continue, Locals
<1>8. ~read_and_judge(r) /\ ~write_report(r) /\ ~commit_normalization(r)
  <2>1. ~read_and_judge(r)
    BY ZenonT(30), <1>1 DEF read_and_judge, Continue, Locals
  <2>2. ~write_report(r)
    BY SMTT(30), <1>1 DEF write_report, Continue, Idle, Locals
  <2>3. ~commit_normalization(r)
    BY SMTT(30), <1>1 DEF commit_normalization, Continue, Idle, Locals
  <2> QED BY <2>1, <2>2, <2>3
<1>9. ~stage_raises(r)
  BY <1>4 DEF stage_raises
<1>10. ASSUME normalize_find_validation(r)
       PROVE /\ req[r].op = "normalize" /\ req[r].step # "idle"
             /\ req'[r].ingestion = req[r].ingestion /\ req'[r].schema = req[r].schema
             /\ req'[r].step = "found_validation"
  <2>1. PICK p \in reports :
          Continue(r, [req[r] EXCEPT !.step = "found_validation", !.validation = p.id])
    BY <1>4, <1>10 DEF normalize_find_validation, Matching
  <2> QED BY <1>1, <1>10, <2>1 DEF normalize_find_validation, Continue, Locals
<1>11. ASSUME normalize_find_integrity(r)
       PROVE /\ req[r].op = "normalize" /\ req[r].step = "found_validation"
             /\ req'[r].ingestion = req[r].ingestion /\ req'[r].schema = req[r].schema
             /\ req'[r].step = "reading" /\ req'[r].validation = req[r].validation
  <2>1. PICK p \in reports :
          Continue(r, [req[r] EXCEPT !.step = "reading", !.integrity = p.id])
    BY <1>4, <1>11 DEF normalize_find_integrity, Matching
  <2>2. req[r].op = "normalize" /\ req[r].step = "found_validation"
    BY <1>11 DEF normalize_find_integrity, Inv, TypeOK
  <2> QED BY <1>1, <2>1, <2>2 DEF Continue, Locals
<1>12. ASSUME normalize_records(r)
       PROVE /\ req[r].op = "normalize" /\ req[r].step = "reading"
             /\ req'[r].ingestion = req[r].ingestion /\ req'[r].schema = req[r].schema
             /\ req'[r].step = "staged"
             /\ req'[r].validation = req[r].validation /\ req'[r].integrity = req[r].integrity
  <2>1. Continue(r, [req[r] EXCEPT !.step = "staged"])
    BY <1>1, <1>12 DEF normalize_records, Continue, Idle
  <2> QED BY <1>1, <1>12, <2>1 DEF normalize_records, Continue, Locals
<1> QED BY <1>2, <1>3, <1>5, <1>6, <1>7, <1>8, <1>9, <1>10, <1>11, <1>12 DEF Stage

\* What was on disk when a normalization was asked for is fixed by begin(), which only
\* an idle request does, and a request that has ended does nothing more.
LEMMA SeenStays ==
    ASSUME Inv, [Next]_vars, NEW r \in Requests
    PROVE /\ req[r].step # "idle" => seen'[r] = seen[r]
          /\ seen'[r] \in {seen[r], reports, {}}
          /\ req[r].step = "done" => req'[r] = req[r]
<1>1. req \in [Requests -> Locals] /\ seen \in [Requests -> SUBSET Reports]
  BY DEF Inv, TypeOK
<1>2. ASSUME NEW q \in Requests, NEW op \in Ops, NEW i \in Ingestions, NEW s \in Schemas,
             NEW known \in BOOLEAN, begin(q, op, i, s, known)
      PROVE /\ req[r].step # "idle" => seen'[r] = seen[r] /\ req'[r] = req[r]
            /\ seen'[r] \in {seen[r], reports, {}}
  BY <1>1, <1>2 DEF begin, Continue
<1>3. ASSUME NEW q \in Requests,
             \/ validate_gate(q) \/ integrity_gate(q) \/ normalize_find_validation(q)
             \/ normalize_find_integrity(q) \/ read_and_judge(q) \/ write_report(q)
             \/ normalize_records(q) \/ commit_normalization(q) \/ stage_raises(q)
      PROVE seen' = seen /\ (req[r].step = "done" => req'[r] = req[r])
  <2>1. seen' = seen
    BY <1>3 DEF validate_gate, integrity_gate, normalize_find_validation,
         normalize_find_integrity, read_and_judge, write_report, normalize_records,
         commit_normalization, stage_raises, Raise
  <2>2. req[q].step # "done" /\ \A x \in Requests \ {q} : req'[x] = req[x]
    BY <1>1, <1>3 DEF validate_gate, integrity_gate, normalize_find_validation,
         normalize_find_integrity, read_and_judge, write_report, normalize_records,
         commit_normalization, stage_raises, Raise, Continue
  <2> QED BY <2>1, <2>2
<1>4. CASE seen' = seen /\ req' = req
  BY <1>4
<1> QED BY <1>2, <1>3, <1>4 DEF Next, Stage, Ingest, reject_upload, save_upload, write_manifest,
     alter_raw, vars

\* Report p is no later than the one of its kind that request or normalization n goes
\* by, unless it is about something else.
Heeds(p, n, kind, id) ==
    (p.op = kind /\ p.ingestion = n.ingestion /\ p.schema = n.schema) =>
        \E q \in reports : q.id = id /\ p.at <= q.at

RequestHeeds(r) ==
    /\ (req[r].op = "normalize" /\ req[r].step \in {"found_validation", "reading", "staged"}) =>
          \A p \in seen[r] : Heeds(p, req[r], "validate", req[r].validation)
    /\ (req[r].op = "normalize" /\ req[r].step \in {"reading", "staged"}) =>
          \A p \in seen[r] : Heeds(p, req[r], "integrity", req[r].integrity)

\* The request that published n has ended, so what it saw is settled.
NormalizedHeeds(n) ==
    /\ n.id \in Requests /\ req[n.id].step = "done"
    /\ \A p \in seen[n.id] : /\ Heeds(p, n, "validate", n.validation)
                             /\ Heeds(p, n, "integrity", n.integrity)

Heeding ==
    /\ \A r \in Requests : seen[r] \subseteq reports
    /\ \A r \in Requests : RequestHeeds(r)
    /\ \A n \in normalized : NormalizedHeeds(n)

\* A request that passes a lookup goes by the latest candidate, and what was on disk
\* when it began is among the candidates: its files are never removed.
LEMMA RequestsHeed ==
    ASSUME Inv, Heeding, [Next]_vars, Lasting, NEW r \in Requests PROVE RequestHeeds(r)'
<1>1. RequestHeeds(r) /\ seen[r] \subseteq reports /\ reports \subseteq reports'
  BY DEF Heeding, Lasting
<1>2. CASE req'[r] = req[r]
  <2>1. req[r].step # "idle" => seen'[r] = seen[r]
    BY SeenStays
  <2> QED BY <1>1, <1>2, <2>1 DEF RequestHeeds, Heeds
<1>3. CASE req'[r] # req[r] /\ req'[r].op = "normalize"
            /\ req'[r].step \in {"found_validation", "reading", "staged"}
  <2>1. /\ req[r].op = "normalize" /\ req[r].step # "idle"
        /\ req'[r].ingestion = req[r].ingestion /\ req'[r].schema = req[r].schema
        /\ \/ normalize_find_validation(r) /\ req'[r].step = "found_validation"
           \/ /\ normalize_find_integrity(r) /\ req'[r].step = "reading"
              /\ req[r].step = "found_validation" /\ req'[r].validation = req[r].validation
           \/ /\ req'[r].step = "staged" /\ req[r].step = "reading"
              /\ req'[r].validation = req[r].validation /\ req'[r].integrity = req[r].integrity
    BY <1>3, HowRequestsAdvance
  <2>2. seen'[r] = seen[r]
    BY <2>1, SeenStays
  <2>3. \A p \in seen[r] : (p.ingestion = req[r].ingestion /\ p.schema = req[r].schema) =>
            p \in Matching(p.op, req[r].ingestion, req[r].schema)
    BY <1>1, ReportIsCandidate
  <2>4. CASE normalize_find_validation(r) /\ req'[r].step = "found_validation"
    <3>1. ASSUME NEW p \in seen[r], p.op = "validate", p.ingestion = req[r].ingestion,
                 p.schema = req[r].schema
          PROVE \E q \in reports' : q.id = req'[r].validation /\ p.at <= q.at
      <4>1. p \in Matching("validate", req[r].ingestion, req[r].schema)
        BY <2>3, <3>1
      <4>2. \E q \in reports : q.id = req'[r].validation /\ p.at <= q.at
        BY <2>4, <4>1, FindsLatestValidation
      <4> QED BY <1>1, <4>2
    <3> QED BY <2>1, <2>2, <2>4, <3>1 DEF RequestHeeds, Heeds
  <2>5. CASE /\ normalize_find_integrity(r) /\ req'[r].step = "reading"
             /\ req[r].step = "found_validation" /\ req'[r].validation = req[r].validation
    <3>1. ASSUME NEW p \in seen[r], p.op = "integrity", p.ingestion = req[r].ingestion,
                 p.schema = req[r].schema
          PROVE \E q \in reports' : q.id = req'[r].integrity /\ p.at <= q.at
      <4>1. p \in Matching("integrity", req[r].ingestion, req[r].schema)
        BY <2>3, <3>1
      <4>2. \E q \in reports : q.id = req'[r].integrity /\ p.at <= q.at
        BY <2>5, <4>1, FindsLatestIntegrity
      <4> QED BY <1>1, <4>2
    <3>2. ASSUME NEW p \in seen[r], p.op = "validate", p.ingestion = req[r].ingestion,
                 p.schema = req[r].schema
          PROVE \E q \in reports' : q.id = req'[r].validation /\ p.at <= q.at
      <4>1. \E q \in reports : q.id = req[r].validation /\ p.at <= q.at
        BY <1>1, <2>1, <2>5, <3>2 DEF RequestHeeds, Heeds
      <4> QED BY <1>1, <2>5, <4>1
    <3> QED BY <2>1, <2>2, <2>5, <3>1, <3>2 DEF RequestHeeds, Heeds
  <2>6. CASE /\ req'[r].step = "staged" /\ req[r].step = "reading"
             /\ req'[r].validation = req[r].validation /\ req'[r].integrity = req[r].integrity
    BY <1>1, <2>1, <2>2, <2>6 DEF RequestHeeds, Heeds
  <2> QED BY <2>1, <2>4, <2>5, <2>6
<1> QED BY <1>2, <1>3 DEF RequestHeeds

\* What is published heeds what the request that publishes it did.
LEMMA PublicationsHeed ==
    ASSUME Inv, Heeding, [Next]_vars, Lasting, NEW n \in normalized' PROVE NormalizedHeeds(n)'
<1>1. reports \subseteq reports'
  BY DEF Lasting
<1>2. CASE n \in normalized
  <2>1. NormalizedHeeds(n)
    BY <1>2 DEF Heeding
  <2>2. seen'[n.id] = seen[n.id] /\ req'[n.id] = req[n.id]
    BY <2>1, SeenStays DEF NormalizedHeeds
  <2> QED BY <1>1, <2>1, <2>2 DEF NormalizedHeeds, Heeds
<1>3. CASE n \notin normalized
  <2>1. PICK r \in Requests : commit_normalization(r)
    BY <1>3, ZenonT(30) DEF Next, Stage, begin, validate_gate, integrity_gate, normalize_find_validation,
         normalize_find_integrity, read_and_judge, write_report, normalize_records,
         stage_raises, Raise, Ingest, reject_upload, save_upload, write_manifest, alter_raw, vars
  <2>2. /\ n.id = r /\ n.ingestion = req[r].ingestion /\ n.schema = req[r].schema
        /\ n.validation = req[r].validation /\ n.integrity = req[r].integrity
    BY <1>3, <2>1 DEF commit_normalization
  <2>3. req[r].step = "staged" /\ req[r].op = "normalize" /\ req'[r].step = "done"
    BY <2>1 DEF commit_normalization, Continue, Idle, Inv, TypeOK
  <2>4. seen'[r] = seen[r] /\ RequestHeeds(r)
    BY <2>3, SeenStays DEF Heeding
  <2> QED BY <1>1, <2>2, <2>3, <2>4 DEF NormalizedHeeds, RequestHeeds, Heeds
<1> QED BY <1>2, <1>3

\* SeenVerdictsAreHeeded, for any number of requests: a verdict that was on disk when a
\* normalization was asked for is never overruled by one with an earlier stamp, whichever
\* of them was written first.
THEOREM SeenVerdictsGovern == Spec => []SeenVerdictsAreHeeded
<1>1. Init => Heeding
  BY DEF Init, Heeding, RequestHeeds, Idle
<1>2. Inv /\ Heeding /\ [Next]_vars => Heeding'
  <2> SUFFICES ASSUME Inv, Heeding, [Next]_vars PROVE Heeding'
    OBVIOUS
  <2>1. Lasting
    BY StepLasts DEF Inv
  <2>2. \A r \in Requests : seen'[r] \subseteq reports'
    BY <2>1, SeenStays DEF Heeding, Lasting
  <2> QED BY <2>1, <2>2, RequestsHeed, PublicationsHeed DEF Heeding
<1>3. Inv /\ Heeding => SeenVerdictsAreHeeded
  <2> SUFFICES ASSUME Inv, Heeding, NEW n \in normalized, NEW p \in seen[n.id],
                      p.ingestion = n.ingestion, p.schema = n.schema
               PROVE \E q \in reports :
                        /\ q.id = IF p.op = "validate" THEN n.validation ELSE n.integrity
                        /\ p.at <= q.at
    BY DEF SeenVerdictsAreHeeded
  <2>1. p \in reports /\ NormalizedHeeds(n)
    BY DEF Heeding, NormalizedHeeds
  <2>2. p.op \in {"validate", "integrity"}
    BY <2>1 DEF Inv, TypeOK, Reports
  <2> QED BY <2>1, <2>2 DEF NormalizedHeeds, Heeds
<1> QED BY <1>1, <1>2, <1>3, Invariance, PTL DEF Spec

-----------------------------------------------------------------------------
(* Verdicts and the bytes they were reached on.                            *)

\* A raw file that nobody touched is the one its manifest describes.
RawIsOriginal ==
    \A i \in Ingestions \ altered :
        upload[i] \in {"saved", "stored"} => raw[i] = manifest[i].sha256

\* What a request holds in its hands is about the bytes it read.
JudgesWhatItRead(r) ==
    /\ (req[r].step = "judged" /\ req[r].ingestion \notin altered) =>
        /\ readBy[r] = manifest[req[r].ingestion].sha256
        /\ req[r].op = "integrity" =>
            req[r].status = IntegrityStatus(readBy[r].records, req[r].schema)
    /\ req[r].step = "staged" =>
        \A k \in IterRecords(readBy[r].records) : Converts(readBy[r].records[k])

\* A report was written by a request that has ended, about the bytes it names.
JudgedAsFiled(p) ==
    /\ req[p.id].step = "done"
    /\ p.ingestion \notin altered =>
        /\ readBy[p.id] = p.sha256
        /\ p.op = "integrity" => p.status = IntegrityStatus(p.sha256.records, p.schema)

\* What was published holds the conversions of all records of its source.
ConvertedAsRead(n) ==
    /\ n.out = Normalized(n.source)
    /\ \A k \in IterRecords(n.source.records) : Converts(n.source.records[k])

History ==
    /\ RawIsOriginal
    /\ \A r \in Requests : JudgesWhatItRead(r)
    /\ \A p \in reports : JudgedAsFiled(p)
    /\ \A n \in normalized : ConvertedAsRead(n)

\* Steps of uploads, and whoever alters a file, keep the history.
LEMMA IngestHistory ==
    ASSUME Inv, Inv', History,
           \/ \E i \in Ingestions : Ingest(i)
           \/ \E i \in Ingestions, b \in Tampered : alter_raw(i, b)
           \/ UNCHANGED vars
    PROVE History'
<1>1. /\ UNCHANGED <<req, reports, normalized, readBy>> /\ altered \subseteq altered'
  BY DEF Ingest, reject_upload, save_upload, write_manifest, alter_raw, vars
<1>2. RawIsOriginal'
  <2>1. ASSUME NEW i \in Ingestions, Ingest(i) PROVE RawIsOriginal'
    BY <2>1 DEF Ingest, reject_upload, save_upload, write_manifest, RawIsOriginal, History, Inv, TypeOK
  <2>2. ASSUME NEW i \in Ingestions, NEW b \in Tampered, alter_raw(i, b) PROVE RawIsOriginal'
    BY <2>2 DEF alter_raw, RawIsOriginal, History, Inv, TypeOK
  <2>3. CASE UNCHANGED vars
    BY <2>3 DEF vars, RawIsOriginal, History
  <2> QED BY <2>1, <2>2, <2>3
<1>3. ASSUME NEW r \in Requests PROVE JudgesWhatItRead(r)'
  <2>1. JudgesWhatItRead(r)
    BY DEF History
  <2>2. req[r].step = "judged" => manifest'[req[r].ingestion] = manifest[req[r].ingestion]
    <3>1. req[r].step = "judged" => req[r].ingestion \in Ingestions /\ upload[req[r].ingestion] = "stored"
      BY DEF Inv, TypeOK, Working
    <3>2. Lasting
      BY StepLasts DEF Inv, Next
    <3> QED BY <3>1, <3>2 DEF Lasting
  <2> QED BY <1>1, <2>1, <2>2 DEF JudgesWhatItRead
<1>4. \A p \in reports' : JudgedAsFiled(p)'
  BY <1>1 DEF History, JudgedAsFiled
<1>5. \A n \in normalized' : ConvertedAsRead(n)'
  BY <1>1 DEF History, ConvertedAsRead
<1> QED BY <1>2, <1>3, <1>4, <1>5 DEF History

\* A step of request r, which has not ended, touches no other request and no report
\* on disk, and no file.
LEMMA StageFrame ==
    ASSUME TypeOK, NEW r \in Requests, Stage(r)
    PROVE /\ UNCHANGED <<upload, raw, manifest, altered>>
          /\ req[r].step \notin {"done", "raised"}
          /\ \A q \in Requests \ {r} : req'[q] = req[q] /\ readBy'[q] = readBy[q]
<1>1. UNCHANGED <<upload, raw, manifest, altered>>
  BY DEF Stage, begin, validate_gate, integrity_gate, normalize_find_validation,
       normalize_find_integrity, read_and_judge, write_report, normalize_records,
       commit_normalization, stage_raises, Raise, Continue
<1>2. req[r].step \notin {"done", "raised"}
  BY DEF Stage, begin, validate_gate, integrity_gate, normalize_find_validation,
       normalize_find_integrity, read_and_judge, write_report, normalize_records,
       commit_normalization, stage_raises
<1>3. \A q \in Requests \ {r} : req'[q] = req[q] /\ readBy'[q] = readBy[q]
  BY DEF TypeOK, Stage, begin, validate_gate, integrity_gate, normalize_find_validation,
       normalize_find_integrity, read_and_judge, write_report, normalize_records,
       commit_normalization, stage_raises, Raise, Continue
<1> QED BY <1>1, <1>2, <1>3

\* What the request that takes a step holds afterwards is about the bytes it read.
LEMMA StageJudges ==
    ASSUME Inv, History, NEW r \in Requests, Stage(r)
    PROVE JudgesWhatItRead(r)'
<1>1. req \in [Requests -> Locals] /\ req[r] \in Locals /\ readBy \in [Requests -> Contents \union {NoFile}]
  BY DEF Inv, TypeOK
<1>2. CASE read_and_judge(r)
  <2> DEFINE b == raw[req[r].ingestion]
  <2>1. /\ req'[r].step = "judged" /\ req'[r].op = req[r].op
        /\ req'[r].ingestion = req[r].ingestion /\ req'[r].schema = req[r].schema
        /\ req'[r].status = StatusOf(r, b)
        /\ readBy'[r] = b /\ UNCHANGED <<manifest, altered>>
    BY <1>1, <1>2 DEF read_and_judge, Continue, Locals
  <2>2. req[r].ingestion \in Ingestions /\ upload[req[r].ingestion] = "stored"
    BY <1>2 DEF read_and_judge, Inv, TypeOK, Working
  <2>3. req[r].ingestion \notin altered => b = manifest[req[r].ingestion].sha256
    BY <2>2 DEF History, RawIsOriginal
  <2>4. req[r].op = "integrity" => StatusOf(r, b) = IntegrityStatus(b.records, req[r].schema)
    BY DEF StatusOf
  <2> QED BY <2>1, <2>3, <2>4 DEF JudgesWhatItRead
<1>3. CASE normalize_records(r)
  <2> DEFINE b == raw[req[r].ingestion]
  <2>1. readBy'[r] = b
    BY <1>1, <1>3 DEF normalize_records
  <2>2. \/ req'[r].step = "raised"
        \/ req'[r].step = "staged" /\ WritesArtifact(r, b)
    BY <1>1, <1>3 DEF normalize_records, Continue, Idle, Locals
  <2> QED BY <2>1, <2>2 DEF JudgesWhatItRead, WritesArtifact
<1>4. CASE ~read_and_judge(r) /\ ~normalize_records(r)
  <2>1. Raise(r) => req'[r].step = "raised"
    BY <1>1 DEF Raise, Continue, Idle
  <2>2. (\E op \in Ops, i \in Ingestions, s \in Schemas, known \in BOOLEAN : begin(r, op, i, s, known))
        => req'[r].step \in {"raised", "found_manifest"}
    BY <1>1 DEF begin, Continue, Idle
  <2>3. /\ validate_gate(r) => req'[r].step \in {"raised", "reading"}
        /\ integrity_gate(r) => req'[r].step \in {"raised", "reading"}
    <3>1. ASSUME integrity_gate(r), ~Raise(r) PROVE req'[r].step = "reading"
      <4>1. PICK p : Continue(r, [req[r] EXCEPT !.step = "reading", !.validation = p.id])
        BY <3>1 DEF integrity_gate
      <4> QED BY <1>1, <4>1 DEF Continue, Locals
    <3>2. ASSUME validate_gate(r), ~Raise(r) PROVE req'[r].step = "reading"
      BY <1>1, <3>2 DEF validate_gate, Continue, Locals
    <3> QED BY <2>1, <3>1, <3>2
  <2>4. /\ normalize_find_validation(r) => req'[r].step \in {"raised", "found_validation"}
        /\ normalize_find_integrity(r) => req'[r].step \in {"raised", "reading"}
    <3>1. ASSUME normalize_find_validation(r), ~Raise(r) PROVE req'[r].step = "found_validation"
      <4>1. PICK p : Continue(r, [req[r] EXCEPT !.step = "found_validation", !.validation = p.id])
        BY <3>1 DEF normalize_find_validation
      <4> QED BY <1>1, <4>1 DEF Continue, Locals
    <3>2. ASSUME normalize_find_integrity(r), ~Raise(r) PROVE req'[r].step = "reading"
      <4>1. PICK p : Continue(r, [req[r] EXCEPT !.step = "reading", !.integrity = p.id])
        BY <3>2 DEF normalize_find_integrity
      <4> QED BY <1>1, <4>1 DEF Continue, Locals
    <3> QED BY <2>1, <3>1, <3>2
  <2>5. write_report(r) \/ commit_normalization(r) => req'[r].step = "done"
    BY <1>1 DEF write_report, commit_normalization, Continue, Idle
  <2>6. stage_raises(r) => req'[r].step = "raised"
    BY <2>1 DEF stage_raises
  <2>7. req'[r].step \notin {"judged", "staged"}
    BY <1>4, <2>2, <2>3, <2>4, <2>5, <2>6 DEF Stage
  <2> QED BY <2>7 DEF JudgesWhatItRead
<1> QED BY <1>2, <1>3, <1>4

\* Reports on disk, and the one that is being written, are about the bytes they name.
LEMMA StageFiles ==
    ASSUME Inv, History, NEW r \in Requests, Stage(r), NEW p \in reports'
    PROVE JudgedAsFiled(p)'
<1>1. /\ UNCHANGED <<upload, raw, manifest, altered>> /\ req[r].step # "done"
      /\ \A q \in Requests \ {r} : req'[q] = req[q] /\ readBy'[q] = readBy[q]
  BY StageFrame DEF Inv
<1>2. CASE p \in reports
  <2>1. JudgedAsFiled(p) /\ p.id \in Requests
    BY <1>2 DEF History, Inv, TypeOK, Reports
  <2>2. p.id # r
    BY <1>1, <2>1 DEF JudgedAsFiled
  <2> QED BY <1>1, <2>1, <2>2 DEF JudgedAsFiled
<1>3. CASE p \notin reports
  <2>1. write_report(r)
    BY <1>3 DEF Stage, begin, validate_gate, integrity_gate, normalize_find_validation,
         normalize_find_integrity, read_and_judge, write_report, normalize_records,
         commit_normalization, stage_raises, Raise
  <2>2. /\ p.id = r /\ p.op = req[r].op /\ p.ingestion = req[r].ingestion
        /\ p.schema = req[r].schema /\ p.status = req[r].status
        /\ p.sha256 = manifest[req[r].ingestion].sha256
    BY <1>3, <2>1 DEF write_report
  <2>3. req'[r].step = "done" /\ readBy'[r] = readBy[r] /\ req[r].step = "judged"
    BY <2>1 DEF write_report, Continue, Idle, Inv, TypeOK
  <2>4. JudgesWhatItRead(r)
    BY DEF History
  <2> QED BY <1>1, <2>2, <2>3, <2>4 DEF JudgesWhatItRead, JudgedAsFiled
<1> QED BY <1>2, <1>3

\* What is published holds the conversions of the records it was made from.
LEMMA StageConverts ==
    ASSUME Inv, History, NEW r \in Requests, Stage(r), NEW n \in normalized'
    PROVE ConvertedAsRead(n)'
<1>1. CASE n \in normalized
  BY <1>1 DEF History, ConvertedAsRead
<1>2. CASE n \notin normalized
  <2>1. commit_normalization(r)
    BY <1>2 DEF Stage, begin, validate_gate, integrity_gate, normalize_find_validation,
         normalize_find_integrity, read_and_judge, write_report, normalize_records,
         commit_normalization, stage_raises, Raise
  <2>2. n.source = readBy[r] /\ n.out = Normalized(readBy[r]) /\ req[r].step = "staged"
    BY <1>2, <2>1 DEF commit_normalization
  <2>3. JudgesWhatItRead(r)
    BY DEF History
  <2> QED BY <2>2, <2>3 DEF JudgesWhatItRead, ConvertedAsRead
<1> QED BY <1>1, <1>2

\* The history is kept by every step.
LEMMA StepHistory == Inv /\ Inv' /\ History /\ [Next]_vars => History'
<1> SUFFICES ASSUME Inv, Inv', History, [Next]_vars PROVE History'
  OBVIOUS
<1>1. ASSUME NEW r \in Requests, Stage(r) PROVE History'
  <2>1. /\ UNCHANGED <<upload, raw, manifest, altered>>
        /\ \A q \in Requests \ {r} : req'[q] = req[q] /\ readBy'[q] = readBy[q]
    BY <1>1, StageFrame DEF Inv
  <2>2. RawIsOriginal'
    BY <2>1 DEF History, RawIsOriginal
  <2>3. \A q \in Requests \ {r} : JudgesWhatItRead(q)'
    BY <2>1 DEF History, JudgesWhatItRead
  <2> QED BY <1>1, <2>2, <2>3, StageJudges, StageFiles, StageConverts DEF History
<1> QED BY <1>1, IngestHistory DEF Next

\* If all records convert and none was found out of order, synchronization can read
\* what comes out: the numbers of the rows are those of the timed records.
LEMMA OrderedRecordsAreReadable ==
    ASSUME NEW b \in Contents, ~OutOfOrder(b.records),
           \A k \in IterRecords(b.records) : Converts(b.records[k])
    PROVE Readable(Normalized(b))
<1> DEFINE out == Normalized(b)
<1>1. b.records \in Seq(Records(Int))
  BY IntakeAssumption
<1>2. IterRecords(b.records) \subseteq DOMAIN b.records
  BY <1>1 DEF IterRecords
<1>3. \A k \in IterRecords(b.records) :
        b.records[k].timestamp \in Int /\ b.records[k].time = "set"
  <2> SUFFICES ASSUME NEW k \in IterRecords(b.records)
               PROVE b.records[k].timestamp \in Int /\ b.records[k].time = "set"
    OBVIOUS
  <2>1. b.records[k] \in Records(Int)
    BY <1>1, <1>2
  <2> QED BY <2>1 DEF Records, Converts
<1>4. Timed(b.records) = IterRecords(b.records)
  BY <1>3 DEF Timed
<1>5. /\ DOMAIN out = IterRecords(b.records)
      /\ \A k \in IterRecords(b.records) : out[k] = NormalizeRecord(b.records[k])
  BY DEF Normalized
<1>6. \A k \in IterRecords(b.records) : out[k].timestamp = b.records[k].timestamp
  BY <1>5 DEF NormalizeRecord
<1>7. ASSUME NEW p \in Successive(DOMAIN out) PROVE out[p[1]].timestamp <= out[p[2]].timestamp
  <2>1. p[1] \in IterRecords(b.records) /\ p[2] \in IterRecords(b.records)
    BY <1>5 DEF Successive
  <2>2. ~(b.records[p[2]].timestamp < b.records[p[1]].timestamp)
    BY <1>4, <1>5 DEF OutOfOrder
  <2> QED BY <1>3, <1>6, <2>1, <2>2
<1>8. ASSUME NEW k \in DOMAIN out, NEW f \in Required PROVE out[k].fields[f] = "number"
  <2>1. Converts(b.records[k]) /\ f \in Fields
    BY <1>5 DEF Fields
  <2>2. b.records[k].fields[f] \notin {"absent", "null"}
    BY <2>1 DEF Converts
  <2> QED BY <1>5, <2>1, <2>2 DEF NormalizeRecord
<1> QED BY <1>7, <1>8 DEF Readable

\* NormalizedAsChecked: with any number of requests, what normalize() publishes of a
\* file nobody altered was judged on the very bytes it was made from, and downstream
\* stages can rely on its order and its numbers.
THEOREM NormalizationsAreChecked == Spec => []NormalizedAsChecked
<1>1. Init => History
  BY DEF Init, History, RawIsOriginal, JudgesWhatItRead, Idle
<1>2. Inv /\ History => NormalizedAsChecked
  <2> SUFFICES ASSUME Inv, History, NEW n \in normalized, n.ingestion \notin altered
               PROVE readBy[n.validation] = n.source /\ readBy[n.integrity] = n.source /\ Readable(n.out)
    BY DEF NormalizedAsChecked
  <2>1. PICK v \in reports, g \in reports : Validates(v, n) /\ Supports(g, n)
    BY DEF Inv, NormalizedIsGrounded
  <2>2. n.source = manifest[n.ingestion].sha256 /\ n.source \in Contents
    BY DEF Inv, NormalizedIsGrounded, TypeOK, Manifests
  <2>3. v.sha256 = n.source /\ g.sha256 = n.source
    BY <2>1, <2>2 DEF Inv, ReportsAreFiled, Validates, Supports
  <2>4. JudgedAsFiled(v) /\ JudgedAsFiled(g)
    BY DEF History
  <2>5. readBy[v.id] = n.source /\ readBy[g.id] = n.source
    BY <2>1, <2>3, <2>4 DEF JudgedAsFiled, Validates, Supports
  <2>6. IntegrityStatus(n.source.records, n.schema) # "failed"
    BY <2>1, <2>3, <2>4 DEF JudgedAsFiled, Supports
  <2>7. ~OutOfOrder(n.source.records)
    BY <2>6 DEF IntegrityStatus
  <2>8. ConvertedAsRead(n)
    BY DEF History
  <2>9. Readable(n.out)
    BY <2>2, <2>7, <2>8, OrderedRecordsAreReadable DEF ConvertedAsRead
  <2> QED BY <2>1, <2>5, <2>9 DEF Validates, Supports
<1> QED BY <1>1, <1>2, StepHistory, Invariance, PTL DEF Spec
=============================================================================
