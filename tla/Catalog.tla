------------------------------- MODULE Catalog -------------------------------
(***************************************************************************)
(* The catalog (app/catalog): the artifact index and lineage edges that a  *)
(* scanner derives from the manifests on disk, the governance judgments    *)
(* people attach to artifacts and dataset versions, the dataset versions   *)
(* they register, and the gate that asks governance before new work.       *)
(*                                                                         *)
(* A write transaction holds SQLite's write lock from BEGIN IMMEDIATE to   *)
(* COMMIT; readers see the last committed state.  Transactions that only   *)
(* touch the database are single actions; a scan also reads the file       *)
(* system, one storage root after the other, while stages publish into     *)
(* it, so it is a sequence of actions on a working copy.                   *)
(***************************************************************************)
EXTENDS Integers, Sequences, FiniteSets

CONSTANTS
    Artifacts,      \* the artifacts that may ever be published
    Rank,           \* STAGE_RANK of each one's artifact_type
    Parents,        \* the parents each one's manifest names
    Inputs,         \* the artifacts its route or run asks the gate about
    Accepted,       \* packages that are completed and whose QC was accepted
    Versions,       \* the <<dataset_name, version>> keys clients use
    Callers,        \* concurrent requests
    LastRank,       \* number of storage roots (nine; fewer where some are empty)
    MaxEvents,      \* bound on the governance changes explored
    Env             \* what else may happen, a subset of EnvKinds

(***************************************************************************)
(* A manifest is altered, or an artifact directory removed, by something   *)
(* outside this code; a scan is cut short (its process dies, a file cannot *)
(* be read); BEGIN IMMEDIATE times out; a catalog rebuild or a selective   *)
(* rebuild is asked for; a pipeline run writes to its tables meanwhile.    *)
(***************************************************************************)
EnvKinds == {"alter", "remove", "abort", "busy", "rebuild", "supersede", "runs"}

Ranks == 1..LastRank

ASSUME EnvAssumption == Env \subseteq EnvKinds /\ MaxEvents \in Nat /\ LastRank \in Nat
ASSUME LineageAssumption ==
    /\ Rank \in [Artifacts -> Ranks]
    /\ Parents \in [Artifacts -> SUBSET Artifacts]
    /\ \A a \in Artifacts : \A p \in Parents[a] : Rank[p] < Rank[a]
ASSUME CallAssumption ==
    /\ Inputs \in [Artifacts -> SUBSET Artifacts]
    /\ Accepted \subseteq Artifacts
    /\ Versions \cap Artifacts = {}
    /\ "none" \notin Artifacts
ASSUME FiniteAssumption == IsFiniteSet(Artifacts) /\ IsFiniteSet(Versions)

Datasets == {v[1] : v \in Versions}
Targets == Artifacts \union Versions
GovernanceState == {"active", "deprecated", "invalid"}
Manifest == {"absent", "original", "altered"}
Lineage == {e \in Artifacts \X Artifacts : e[1] \in Parents[e[2]]}

VARIABLES
    disk,       \* what each artifact's manifest on disk says, or "removed"
    index,      \* artifacts: what its registered record says
    edges,      \* lineage_edges
    issues,     \* lineage_issues: edges a scan found without a parent
    gov,        \* governance state of artifacts and versions (no row: active)
    trail,      \* the governance event tables, oldest first
    datasets,   \* datasets
    versions,   \* dataset_versions: the package of each key
    told,       \* registrations a client has been told of: "created", "unchanged"
    call,       \* what each request is about to do
    txn,        \* the scan transaction in progress
    work,       \* its uncommitted index, edges and issues
    stage,      \* the storage root it globs next
    began,      \* what was on disk when it began
    rebuild,    \* where a catalog rebuild() is
    counts      \* the row counts it read first

indexVars == <<index, edges, issues>>
userVars == <<gov, trail, datasets, versions, told>>
scanVars == <<txn, work, stage, began>>
rebuildVars == <<rebuild, counts>>
vars == <<disk, indexVars, userVars, call, scanVars, rebuildVars>>

Idle == [op |-> "none"]
NoWork == [index |-> [a \in Artifacts |-> "absent"], edges |-> {}, issues |-> {}]

Init ==
    /\ disk = NoWork.index
    /\ index = NoWork.index /\ edges = {} /\ issues = {}
    /\ gov = [t \in Targets |-> "active"]
    /\ trail = <<>>
    /\ datasets = {}
    /\ versions = [v \in Versions |-> "none"] /\ told = {}
    /\ call = [c \in Callers |-> Idle]
    /\ txn = "none" /\ work = NoWork /\ stage = 1 /\ began = {}
    /\ rebuild = "idle" /\ counts = <<0, 0, 0, 0>>

On(map) == {a \in Artifacts : map[a] \in {"original", "altered"}}

\* graph.traverse: everything reachable from a by following edges upwards
\* (or, for the cycle test, downwards), a included.
Upstream(E, a) ==
    {x \in Artifacts : \A S \in SUBSET Artifacts :
        (a \in S /\ \A e \in E : e[2] \in S => e[1] \in S) => x \in S}
would_create_cycle(E, p, a) == a \in Upstream(E, p)

\* The manifests a glob of the current storage root finds.
Found == {a \in On(disk) : Rank[a] = stage}

-----------------------------------------------------------------------------
(* Slips the properties below are meant to catch: faulty forms of the      *)
(* operations they are named after, used by none of the specifications.    *)

\* A parent that is not registered is passed over in silence.
Broken_unrecorded == {e \in Lineage : e[2] \in Found /\ e[1] \notin On(disk)}

\* Parents are looked up in what was committed before this scan.
Linked_to_committed == {e \in Lineage : e[2] \in Found /\ index[e[1]] # "absent"}

\* Edges are only inserted along with a new artifact row.
Linked_once == {e \in Lineage : /\ e[2] \in Found /\ work.index[e[2]] = "absent"
                                /\ work.index[e[1]] # "absent"}

\* An existing record is replaced (INSERT OR REPLACE).
Conflict_ignored == FALSE

\* The index is cleared in a transaction of its own.
rebuild_clears_first ==
    /\ rebuild = "counted"
    /\ txn = "none"
    /\ rebuild' = "working"
    /\ txn' = "rebuild" /\ work' = NoWork /\ stage' = 1 /\ began' = On(disk)
    /\ index' = NoWork.index /\ edges' = {} /\ issues' = {}
    /\ UNCHANGED <<disk, userVars, call, counts>>

\* Reactivating only deletes the row.
record_governance_no_event(t, previous, new) ==
    /\ Len(trail) < MaxEvents
    /\ gov' = [gov EXCEPT ![t] = new]
    /\ trail' = IF new = "active" THEN trail ELSE Append(trail, <<t, previous, new>>)

\* Only the direct parents are asked.
verify_direct_parents(a, state) ==
    gov[a] = state \/ \E e \in edges : e[2] = a /\ gov[e[1]] = state

\* A second registration under the same key wins.
create_dataset_version_upsert(c) ==
    /\ call[c].op = "register"
    /\ txn = "none"
    /\ versions' = [versions EXCEPT ![call[c].version] = call[c].artifact]
    /\ told' = told \union {<<call[c].version, call[c].artifact>>}
    /\ call' = [call EXCEPT ![c] = Idle]
    /\ UNCHANGED <<disk, indexVars, gov, trail, datasets, scanVars, rebuildVars>>

-----------------------------------------------------------------------------
(* The gate and the governance tables.                                     *)

verify_governance_chain(a, state) == \E x \in Upstream(edges, a) : gov[x] = state

\* Passes silently for an artifact the catalog does not know.
enforce_upstream_gate(a, allow_deprecated) ==
    \/ index[a] = "absent"
    \/ /\ ~ verify_governance_chain(a, "invalid")
       /\ allow_deprecated \/ ~ verify_governance_chain(a, "deprecated")

\* Row, or its deletion, and event, always together.
record_governance(t, previous, new) ==
    /\ Len(trail) < MaxEvents
    /\ gov' = [gov EXCEPT ![t] = new]
    /\ trail' = Append(trail, <<t, previous, new>>)

Registered(t) == IF t \in Artifacts THEN index[t] # "absent" ELSE versions[t] # "none"


-----------------------------------------------------------------------------
(* New artifacts: the gate first, the stage service afterwards.            *)

enforce_gate(c, a, allow_deprecated) ==
    /\ call[c] = Idle
    /\ disk[a] = "absent"
    /\ Parents[a] \subseteq On(disk)
    /\ \A b \in Callers : call[b] # [op |-> "produce", artifact |-> a]
    /\ \A i \in Inputs[a] : enforce_upstream_gate(i, allow_deprecated)
    /\ call' = [call EXCEPT ![c] = [op |-> "produce", artifact |-> a]]
    /\ UNCHANGED <<disk, indexVars, userVars, scanVars, rebuildVars>>

produce(c) ==
    /\ call[c].op = "produce"
    /\ disk' = [disk EXCEPT ![call[c].artifact] = "original"]
    /\ call' = [call EXCEPT ![c] = Idle]
    /\ UNCHANGED <<indexVars, userVars, scanVars, rebuildVars>>

\* Nothing in this code rewrites a manifest; upsert_artifact allows for it.
alter_manifest(a) ==
    /\ "alter" \in Env
    /\ disk[a] = "original"
    /\ disk' = [disk EXCEPT ![a] = "altered"]
    /\ UNCHANGED <<indexVars, userVars, call, scanVars, rebuildVars>>

\* Nor does it remove one; health() looks for rows left behind by a removal.
\* Identifiers are never used again.
remove_artifact(a) ==
    /\ "remove" \in Env
    /\ a \in On(disk)
    /\ disk' = [disk EXCEPT ![a] = "removed"]
    /\ UNCHANGED <<indexVars, userVars, call, scanVars, rebuildVars>>

-----------------------------------------------------------------------------
(* CatalogService.scan, rebuild and CatalogScanner.scan.                   *)

scan_begins ==
    /\ txn = "none"
    /\ txn' = "scan"
    /\ work' = [index |-> index, edges |-> edges, issues |-> issues]
    /\ stage' = 1
    /\ began' = On(disk)
    /\ UNCHANGED <<disk, indexVars, userVars, call, rebuildVars>>

\* An edge to each parent that is registered, an issue for each one that is
\* not; a record that disagrees with the registered one is a conflict.
Linked == {e \in Lineage : e[2] \in Found /\ work.index[e[1]] # "absent"}
Broken == {e \in Lineage : e[2] \in Found /\ work.index[e[1]] = "absent"}
Conflict == \E a \in Found : work.index[a] \notin {"absent", disk[a]}
Cycle == \E e \in Linked : would_create_cycle(work.edges, e[1], e[2])

upsert_artifacts ==
    [a \in Artifacts |-> IF a \in Found THEN disk[a] ELSE work.index[a]]

rollback ==
    /\ txn' = "none" /\ work' = NoWork /\ stage' = 1 /\ began' = {}
    /\ rebuild' = IF txn = "rebuild" THEN "idle" ELSE rebuild
    /\ counts' = IF txn = "rebuild" THEN <<0, 0, 0, 0>> ELSE counts
    /\ UNCHANGED <<disk, indexVars, userVars, call>>

scan_root ==
    /\ txn # "none"
    /\ stage \in Ranks
    /\ IF Conflict \/ Cycle \/ (txn = "rebuild" /\ Broken # {})
       THEN rollback
       ELSE /\ work' = [index |-> upsert_artifacts,
                        edges |-> work.edges \union Linked,
                        issues |-> work.issues \union Broken]
            /\ stage' = stage + 1
            /\ UNCHANGED <<disk, indexVars, userVars, call, txn, began, rebuildVars>>

scan_aborts ==
    /\ "abort" \in Env
    /\ txn # "none"
    /\ rollback

commit_scan ==
    /\ txn # "none"
    /\ stage \notin Ranks
    /\ index' = work.index /\ edges' = work.edges /\ issues' = work.issues
    /\ rebuild' = IF txn = "rebuild" THEN "committed" ELSE rebuild
    /\ txn' = "none" /\ work' = NoWork /\ stage' = 1 /\ began' = {}
    /\ UNCHANGED <<disk, userVars, call, counts>>

GovernedRows(T) == Cardinality({t \in T : gov[t] # "active"})
RowCounts ==
    << Cardinality(datasets), Cardinality({v \in Versions : versions[v] # "none"}),
       GovernedRows(Artifacts), GovernedRows(Versions) >>

\* Read before the rebuild lock and the transaction are taken.
rebuild_counts ==
    /\ "rebuild" \in Env
    /\ rebuild \in {"idle", "asserted"}
    /\ rebuild' = "counted"
    /\ counts' = RowCounts
    /\ UNCHANGED <<disk, indexVars, userVars, call, scanVars>>

\* clear_artifact_index, then a strict scan.
rebuild_begins ==
    /\ rebuild = "counted"
    /\ txn = "none"
    /\ rebuild' = "working"
    /\ txn' = "rebuild" /\ work' = NoWork /\ stage' = 1 /\ began' = On(disk)
    /\ UNCHANGED <<disk, indexVars, userVars, call, counts>>

\* The transaction waits behind a scan for too long.
rebuild_busy ==
    /\ "busy" \in Env
    /\ rebuild = "counted"
    /\ txn # "none"
    /\ rebuild' = "idle" /\ counts' = <<0, 0, 0, 0>>
    /\ UNCHANGED <<disk, indexVars, userVars, call, scanVars>>

\* The rows are counted again after the commit, those of the run tables too.
rebuild_returns ==
    /\ rebuild = "committed"
    /\ \E run_tables_moved \in IF "runs" \in Env THEN BOOLEAN ELSE {FALSE} :
          rebuild' = IF counts = RowCounts /\ ~ run_tables_moved THEN "idle" ELSE "asserted"
    /\ counts' = <<0, 0, 0, 0>>
    /\ UNCHANGED <<disk, indexVars, userVars, call, scanVars>>

-----------------------------------------------------------------------------
(* Governance.                                                             *)

\* set_artifact_governance and set_dataset_version_governance: existence,
\* current state, transition and write in one transaction; every transition
\* between the three states is allowed.
set_governance(t, new) ==
    /\ txn = "none"
    /\ Registered(t)
    /\ record_governance(t, gov[t], new)
    /\ UNCHANGED <<disk, indexVars, datasets, versions, told, call, scanVars, rebuildVars>>

\* SelectiveRebuildExecutor._mark_superseded: the state is read outside the
\* transaction that writes it.
mark_superseded_reads(c, a) ==
    /\ "supersede" \in Env
    /\ call[c] = Idle
    /\ index[a] # "absent"
    /\ call' = [call EXCEPT ![c] = [op |-> "supersede", artifact |-> a, previous |-> gov[a]]]
    /\ UNCHANGED <<disk, indexVars, userVars, scanVars, rebuildVars>>

mark_superseded(c) ==
    /\ call[c].op = "supersede"
    /\ txn = "none"
    /\ record_governance(call[c].artifact, call[c].previous, "deprecated")
    /\ call' = [call EXCEPT ![c] = Idle]
    /\ UNCHANGED <<disk, indexVars, datasets, versions, told, scanVars, rebuildVars>>

-----------------------------------------------------------------------------
(* Datasets and versions.                                                  *)

create_dataset(d) ==
    /\ txn = "none"
    /\ d \notin datasets
    /\ datasets' = datasets \union {d}
    /\ UNCHANGED <<disk, indexVars, gov, trail, versions, told, call, scanVars, rebuildVars>>

\* register_version: every check is a read of its own, before the insert.
register_version_checks(c, v, p, allow_deprecated) ==
    /\ call[c] = Idle
    /\ v[1] \in datasets
    /\ index[p] # "absent"
    /\ p \in Accepted
    /\ enforce_upstream_gate(p, allow_deprecated)
    /\ call' = [call EXCEPT ![c] = [op |-> "register", version |-> v, artifact |-> p]]
    /\ UNCHANGED <<disk, indexVars, userVars, scanVars, rebuildVars>>

\* The primary key decides: created, unchanged, or DatasetVersionImmutableError.
create_dataset_version(c) ==
    /\ call[c].op = "register"
    /\ txn = "none"
    /\ versions' = [versions EXCEPT
            ![call[c].version] = IF @ = "none" THEN call[c].artifact ELSE @]
    /\ told' = IF versions[call[c].version] \in {"none", call[c].artifact}
                THEN told \union {<<call[c].version, call[c].artifact>>} ELSE told
    /\ call' = [call EXCEPT ![c] = Idle]
    /\ UNCHANGED <<disk, indexVars, gov, trail, datasets, scanVars, rebuildVars>>

\* A writer that waits longer than CATALOG_BUSY_TIMEOUT_MS behind a scan.
catalog_busy(c) ==
    /\ "busy" \in Env
    /\ txn # "none"
    /\ call[c].op \in {"register", "supersede"}
    /\ call' = [call EXCEPT ![c] = Idle]
    /\ UNCHANGED <<disk, indexVars, userVars, scanVars, rebuildVars>>

-----------------------------------------------------------------------------
Request(c) ==
    \/ \E a \in Artifacts : \E allow \in BOOLEAN : enforce_gate(c, a, allow)
    \/ produce(c)
    \/ \E a \in Artifacts : mark_superseded_reads(c, a)
    \/ mark_superseded(c)
    \/ \E v \in Versions : \E p \in Artifacts : \E allow \in BOOLEAN :
          register_version_checks(c, v, p, allow)
    \/ create_dataset_version(c)
    \/ catalog_busy(c)

Scan == scan_begins \/ scan_root \/ commit_scan

Rebuild == rebuild_counts \/ rebuild_begins \/ rebuild_busy \/ rebuild_returns

Next ==
    \/ \E c \in Callers : Request(c)
    \/ Scan \/ scan_aborts \/ Rebuild
    \/ \E t \in Targets : \E new \in GovernanceState : set_governance(t, new)
    \/ \E d \in Datasets : create_dataset(d)
    \/ \E a \in Artifacts : alter_manifest(a) \/ remove_artifact(a)

Spec == Init /\ [][Next]_vars

\* Somebody scans again and again, and a scan in progress goes on.
FairSpec ==
    /\ Spec
    /\ SF_vars(scan_begins) /\ WF_vars(scan_root) /\ WF_vars(commit_scan)

-----------------------------------------------------------------------------
(* Properties.                                                             *)

\* Every table, request and transaction keeps its type.
TypeOK ==
    /\ disk \in [Artifacts -> Manifest \union {"removed"}] /\ index \in [Artifacts -> Manifest]
    /\ edges \subseteq Lineage /\ issues \subseteq Lineage
    /\ gov \in [Targets -> GovernanceState]
    /\ trail \in Seq(Targets \X GovernanceState \X GovernanceState)
    /\ datasets \subseteq Datasets
    /\ versions \in [Versions -> Artifacts \union {"none"}]
    /\ told \subseteq Versions \X Artifacts
    /\ call \in [Callers ->
            {Idle} \union [op : {"produce"}, artifact : Artifacts]
            \union [op : {"supersede"}, artifact : Artifacts, previous : GovernanceState]
            \union [op : {"register"}, version : Versions, artifact : Artifacts]]
    /\ txn \in {"none", "scan", "rebuild"}
    /\ work \in [index : [Artifacts -> Manifest], edges : SUBSET Lineage, issues : SUBSET Lineage]
    /\ stage \in 1..(LastRank + 1)
    /\ began \subseteq Artifacts
    /\ rebuild \in {"idle", "counted", "working", "committed", "asserted"}
    /\ counts \in Nat \X Nat \X Nat \X Nat

\* Artifacts published while a scan walks the roots may be indexed without
\* their parents; whatever the interleaving, every lineage edge the index
\* lacks is in lineage_issues, and no edge dangles.
EveryGapIsReported ==
    /\ \A e \in Lineage : (index[e[2]] # "absent" /\ e \notin edges) => e \in issues
    /\ \A e \in edges : index[e[1]] # "absent" /\ index[e[2]] # "absent"

\* rebuild() clears the index and scan() may fail half way, yet readers only
\* ever see an artifact go when a rebuild found its directory removed, and an
\* edge only along with its child.
CatalogOnlyForgetsTheRemoved ==
    [][ /\ \A a \in On(index) \ On(index)' : txn = "rebuild" /\ disk[a] = "removed"
        /\ \A e \in edges \ edges' : e[2] \notin On(index)' ]_indexVars

\* A scan or rebuild that commits has registered everything that was on disk
\* when it began and still is, with an edge to each parent that still is,
\* however much was published or removed meanwhile.
ScanRegistersWhatWasThere ==
    [][txn # "none" /\ txn' = "none" /\ indexVars' # indexVars =>
          \A a \in began : disk[a] # "removed" =>
              /\ a \in On(index)'
              /\ \A p \in Parents[a] : disk[p] # "removed" => <<p, a>> \in edges']_vars

\* The registered identity of an artifact is only ever replaced by a rebuild:
\* a scan that meets an altered manifest fails as a whole.
ScanNeverOverwrites ==
    [][txn # "rebuild" =>
          \A a \in On(index) : index'[a] = index[a]]_index

effective_version_status(v) ==
    IF gov[v] # "active" THEN gov[v]
    ELSE IF verify_governance_chain(versions[v], "invalid") THEN "affected" ELSE "healthy"

health ==
    IF /\ issues = {}
       /\ \A v \in Versions : versions[v] # "none" => index[versions[v]] # "absent"
       /\ \A a \in Artifacts : gov[a] # "active" => index[a] # "absent"
    THEN "healthy" ELSE "degraded"

\* A version shown as healthy by a healthy catalog has no invalid artifact
\* anywhere in the lineage its manifests really record, however the index
\* came about.
HealthyVersionsAreSound ==
    \A v \in Versions :
        (versions[v] # "none" /\ health = "healthy" /\ effective_version_status(v) = "healthy")
            => \A x \in Upstream(Lineage, versions[v]) : gov[x] # "invalid"

\* The governance tables and their event log never drift apart: the current
\* state of a target is the new_state of its last event.
AuditTrailAgrees ==
    \A t \in Targets :
        LET mine == {i \in DOMAIN trail : trail[i][1] = t}
        IN  gov[t] = IF mine = {} THEN "active"
                     ELSE trail[CHOOSE i \in mine : \A j \in mine : j <= i][3]

\* A client that was told its version is registered finds it pointing to its
\* package ever after, whoever else registers the key and whatever rebuilds do.
RegistrationsHold == \A r \in told : versions[r[1]] = r[2]

\* A version names a package that was accepted, and that the index has as
\* long as its directory exists: no rebuild or failing scan loses it.
VersionsKeepTheirPackage ==
    \A v \in Versions : versions[v] # "none" =>
        /\ versions[v] \in Accepted
        /\ versions[v] \in On(index) \/ disk[versions[v]] = "removed"

\* With scans repeated, what is published and stays is eventually registered
\* and linked to its parents, unless one of them was removed or an altered
\* manifest makes every scan fail.
PublishedBecomesRegistered ==
    \A a \in Artifacts :
        a \in On(disk) ~>
            \/ a \in On(index) /\ \A p \in Parents[a] : <<p, a>> \in edges
            \/ \E b \in Parents[a] \union {a} : disk[b] = "removed"
            \/ \E b \in Artifacts : index[b] = "original" /\ disk[b] = "altered"

(* What the code says and does not do.                                     *)

\* register_version: "rejects a package whose effective lineage includes an
\* INVALID artifact (no override)".
VersionsRespectTheGate ==
    [][\A v \in Versions : (versions[v] = "none" /\ versions'[v] # "none") =>
          ~ verify_governance_chain(versions'[v], "invalid")]_vars
=============================================================================
