---------------------------- MODULE StageServices ----------------------------
(***************************************************************************)
(* Stages 5 to 9 as they depend on each other: SynchronizationService,     *)
(* CleaningService, TransformationService, QCService and PackagingService  *)
(* look their inputs up on disk, check them, and publish an artifact; the  *)
(* ArtifactVerifier judges the same files.  An actor is a client's request *)
(* or a selective rebuild; between its checks and its commit others run.   *)
(* What the stages compute is in the modules of the row algorithms, how    *)
(* they publish it in ArtifactStore.                                       *)
(***************************************************************************)
EXTENDS Naturals

CONSTANTS
    Actors,         \* whoever calls a stage service
    MaxPerStage,    \* bound: artifacts of one stage that ever exist
    Earlier,        \* what was published before: a function from ids to artifacts
    Mishaps,        \* pairs <<id, damage>> that may happen behind the program's back
    Idle

Stages == <<"normalization", "synchronization", "cleaning", "transformation", "qc", "package">>
StageNames == {Stages[k] : k \in 1..6}
Ids == StageNames \X (1..MaxPerStage)
StageOf(id) == id[1]

Damages == {"content_missing", "content_altered", "manifest_missing", "manifest_rewritten"}

\* What the stages tell apart in a manifest: the parents, the verdict
\* (cleaning, QC and packaging have more than one), the session, and for a normalization what it normalized.
\* "passed" stands for passed_with_warnings too, which nothing here tells from it.
Statuses == {"completed", "rejected", "passed", "failed"}

Jobs == [stage : StageNames, parents : SUBSET Ids]

\* Parents ps among the artifacts A that stage s accepts, leaving the state of their files aside.
Fits(A, s, ps) ==
    /\ ps \subseteq DOMAIN A
    /\ \/ /\ s = "synchronization" /\ ps # {}
          /\ \A n \in ps : StageOf(n) = "normalization"
          /\ \A n, m \in ps : A[n].session = A[m].session
       \/ s = "cleaning" /\ \E p \in ps : ps = {p} /\ StageOf(p) = "synchronization"
       \/ s = "transformation" /\ \E c \in ps :
            ps = {c} /\ StageOf(c) = "cleaning" /\ A[c].status = "completed"
       \/ s = "qc" /\ \E t \in ps : ps = {t} /\ StageOf(t) = "transformation"
       \/ s = "package" /\ \E t, q \in ps :
            /\ ps = {t, q} /\ StageOf(t) = "transformation" /\ StageOf(q) = "qc"
            /\ A[q].parents = {t} /\ A[q].status = "passed"

\* What there is at the start was made by these stages: it has parents they accept and
\* belongs to their session.
ASSUME StagesAssumption ==
    /\ MaxPerStage \in Nat
    /\ Idle \notin Jobs \union Ids
    /\ DOMAIN Earlier \subseteq Ids
    /\ \A id \in DOMAIN Earlier : StageOf(id) # "normalization" =>
        /\ Fits(Earlier, StageOf(id), Earlier[id].parents)
        /\ \A p \in Earlier[id].parents : Earlier[p].session = Earlier[id].session

VARIABLES
    art,        \* the published artifacts, by id
    damage,     \* what has happened to the files of an artifact since
    job,        \* what each actor has passed the checks for and not yet published
    tainted     \* history: artifacts made from input that was not what had been published

stageVars == <<art, damage, job, tainted>>

StageInit ==
    /\ art = Earlier
    /\ damage = [id \in Ids |-> {}]
    /\ job = [a \in Actors |-> Idle]
    /\ tainted = {}

Published == DOMAIN art
OfStage(s) == {id \in Published : StageOf(id) = s}

-----------------------------------------------------------------------------
(* Checks.                                                                 *)

\* find_manifest and its variants find it.
Located(id) == id \in Published /\ "manifest_missing" \notin damage[id]

\* (A slip: the file is opened without comparing its checksum.)
readable_unhashed(id) == Located(id) /\ "content_missing" \notin damage[id]

\* The artifact is located, its file exists and has the manifest's checksum; a manifest
\* that was only rewritten still says the same.
Readable(id) == Located(id) /\ damage[id] \cap {"content_missing", "content_altered"} = {}

\* synchronize(): every stream loads and all belong to one session.
SynchronizationGate(parents) ==
    /\ parents # {}
    /\ \A n \in parents : StageOf(n) = "normalization" /\ Readable(n)
    /\ \A n, m \in parents : art[n].session = art[m].session

CleaningGate(parents) ==
    \E s \in OfStage("synchronization") : parents = {s} /\ Readable(s)

\* transform() takes only what cleaning completed.
TransformationGate(parents) ==
    \E c \in OfStage("cleaning") :
        parents = {c} /\ Readable(c) /\ art[c].status = "completed"

QCGate(parents) ==
    \E t \in OfStage("transformation") : parents = {t} /\ Readable(t)

\* _ACCEPTED_QC_STATUSES.
Accepted(q) == art[q].status = "passed"

\* (A slip: the QC report is not compared with the transformation it is used for.)
package_gate_any_qc(parents) ==
    \E t \in OfStage("transformation"), q \in OfStage("qc") :
        /\ parents = {t, q}
        /\ Readable(t)
        /\ Readable(q)
        /\ Accepted(q)

\* package(): the QC report is about this very transformation, is intact and accepted.
PackageGate(parents) ==
    \E t \in OfStage("transformation"), q \in OfStage("qc") :
        /\ parents = {t, q}
        /\ Readable(t)
        /\ Located(q) /\ art[q].parents = {t}
        /\ Readable(q)
        /\ Accepted(q)

Gate(s, parents) ==
    \/ s = "synchronization" /\ SynchronizationGate(parents)
    \/ s = "cleaning" /\ CleaningGate(parents)
    \/ s = "transformation" /\ TransformationGate(parents)
    \/ s = "qc" /\ QCGate(parents)
    \/ s = "package" /\ PackageGate(parents)

\* The verdicts a stage may write into the manifest it publishes.
Outcomes(s) ==
    CASE s \in {"cleaning", "package"} -> {"completed", "rejected"}
      [] s = "qc" -> {"passed", "failed"}
      [] OTHER -> {"completed"}

-----------------------------------------------------------------------------
(* A stage service at work.                                                *)

\* New identifiers are UUIDs, which nobody has used before.
RoomIn(s) == \E id \in Ids \ Published : StageOf(id) = s
FreshIn(s) == CHOOSE id \in Ids \ Published : StageOf(id) = s

begin_stage(a, s, parents) ==
    /\ job[a] = Idle
    /\ Gate(s, parents)
    /\ job' = [job EXCEPT ![a] = [stage |-> s, parents |-> parents]]
    /\ UNCHANGED <<art, damage, tainted>>

\* The rows are processed and the staged directory is committed.
Publish(a, id, status) ==
    LET j == job[a]
    IN  /\ art' = [x \in Published \union {id} |->
                IF x = id
                THEN [parents |-> j.parents, status |-> status, source |-> Idle,
                      session |-> art[CHOOSE p \in j.parents : TRUE].session]
                ELSE art[x]]
        /\ tainted' = IF \A p \in j.parents : damage[p] \cap {"content_missing", "content_altered"} = {}
                      THEN tainted ELSE tainted \union {id}
        /\ job' = [job EXCEPT ![a] = Idle]
        /\ UNCHANGED damage

commit_stage(a, status) ==
    /\ job[a] # Idle
    /\ status \in Outcomes(job[a].stage)
    /\ RoomIn(job[a].stage)
    /\ Publish(a, FreshIn(job[a].stage), status)

\* The stage raises while it processes rows or commits: the staging directory is
\* discarded.
fail_stage(a) ==
    /\ job[a] # Idle
    /\ job' = [job EXCEPT ![a] = Idle]
    /\ UNCHANGED <<art, damage, tainted>>

\* Somebody removes or changes files, or puts them back.  The stages hash their input
\* and then open it again, so that nothing protects them from a change in between:
\* input in use is assumed to stay as it is.
InUse == UNION {job[a].parents : a \in {b \in Actors : job[b] # Idle}}

damage_files(id, what) ==
    /\ id \in Published \ InUse
    /\ damage' = [damage EXCEPT ![id] = what]
    /\ UNCHANGED <<art, job, tainted>>

-----------------------------------------------------------------------------
(* ArtifactVerifier.                                                       *)

\* The checks made on one artifact; without a manifest nothing else is checked.
Checks(id) ==
    IF "manifest_missing" \in damage[id] THEN {"missing"}
    ELSE {IF "manifest_rewritten" \in damage[id] THEN "manifest_mismatch" ELSE "verified",
          IF "content_missing" \in damage[id] THEN "missing"
          ELSE IF "content_altered" \in damage[id] THEN "checksum_mismatch" ELSE "verified"}

\* (A slip: the order of _PRECEDENCE reversed.)
overall_status_lenient(checks) ==
    IF "verified" \in checks THEN "verified"
    ELSE IF "manifest_mismatch" \in checks THEN "manifest_mismatch"
    ELSE IF "checksum_mismatch" \in checks THEN "checksum_mismatch" ELSE "missing"

OverallStatus(checks) ==
    IF "missing" \in checks THEN "missing"
    ELSE IF "checksum_mismatch" \in checks THEN "checksum_mismatch"
    ELSE IF "manifest_mismatch" \in checks THEN "manifest_mismatch" ELSE "verified"

Verify(id) == OverallStatus(Checks(id))

-----------------------------------------------------------------------------
(* Properties of the stages.                                               *)

\* A package rests on sound ground, whoever asked for its parts and in whatever order:
\* an accepted QC report of the very transformation it packages, made from a completed
\* cleaning of one synchronization whose streams belong to one session; and nothing
\* was ever derived from files that were not those that had been published.
LineageIsSound ==
    /\ tainted = {}
    /\ \A p \in OfStage("package") :
        \E t \in OfStage("transformation"), q \in OfStage("qc"),
           c \in OfStage("cleaning"), s \in OfStage("synchronization") :
            /\ art[p].parents = {t, q}
            /\ art[q].parents = {t} /\ Accepted(q)
            /\ art[t].parents = {c} /\ art[c].status = "completed"
            /\ art[c].parents = {s}
            /\ \A n \in art[s].parents : art[n].session = art[p].session

\* The verifier calls exactly those artifacts verified, or rewritten in the manifest
\* only, that the stages accept as input.
VerifierAgreesWithGates ==
    \A id \in Published : Readable(id) <=> Verify(id) \in {"verified", "manifest_mismatch"}
=============================================================================
