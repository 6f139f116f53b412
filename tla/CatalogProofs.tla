---------------------------- MODULE CatalogProofs ----------------------------
(***************************************************************************)
(* Proofs about Catalog, for every lineage, any number of storage roots,   *)
(* requests and governance changes, and every Env.                         *)
(***************************************************************************)
EXTENDS Catalog, FiniteSetTheorems, TLAPS

(***************************************************************************)
(* The inductive invariant.  What a commit establishes is prepared root by *)
(* root in the working copy, so the invariant follows the scan: below the  *)
(* root it reads next, everything that was on disk when it began, or is in *)
(* the committed index, is registered and linked unless it was removed.    *)
(* That needs the published artifacts to be closed under parents, and a    *)
(* removed one never to come back.                                         *)
(***************************************************************************)

Published == {a \in Artifacts : disk[a] # "absent"}

\* A stage publishes only what it made from published artifacts, under a
\* new identifier of its own.
DiskIsClosed ==
    /\ \A a \in Published : Parents[a] \subseteq Published
    /\ \A c \in Callers : call[c].op = "produce" =>
          /\ Parents[call[c].artifact] \subseteq Published
          /\ call[c].artifact \notin Published
          /\ \A b \in Callers \ {c} : call[b] # call[c]

IndexWasPublished == On(index) \subseteq Published

\* EveryGapIsReported, of the working copy; a rebuild has no gaps to report.
WorkReportsGaps ==
    /\ \A e \in Lineage :
          (work.index[e[2]] # "absent" /\ e \notin work.edges) => e \in work.issues
    /\ \A e \in work.edges : work.index[e[1]] # "absent" /\ work.index[e[2]] # "absent"
    /\ txn = "rebuild" => work.issues = {}

\* What was there when the scan began, as far as it has read the roots.
BeganIsCovered ==
    /\ began \subseteq Published
    /\ \A a \in began : \A p \in Parents[a] : p \in began \/ disk[p] = "removed"
    /\ \A a \in began : (Rank[a] < stage /\ disk[a] # "removed") =>
          /\ work.index[a] # "absent"
          /\ \A p \in Parents[a] : disk[p] # "removed" => <<p, a>> \in work.edges

\* What is registered already, as far as a rebuild has read the roots.
IndexIsCovered ==
    \A a \in On(index) : (Rank[a] < stage /\ disk[a] # "removed") => work.index[a] # "absent"

\* A scan, unlike a rebuild, starts from the index and keeps it.
ScanKeepsIndex ==
    txn = "scan" => /\ edges \subseteq work.edges
                    /\ \A a \in On(index) : work.index[a] = index[a]

Scanning ==
    txn # "none" =>
        /\ On(work.index) \subseteq Published
        /\ WorkReportsGaps
        /\ BeganIsCovered
        /\ IndexIsCovered
        /\ ScanKeepsIndex

IndexInv == DiskIsClosed /\ IndexWasPublished /\ EveryGapIsReported /\ Scanning

\* An artifact that was registered and is, unless it was removed since.
Kept(a) == a \in On(index) \/ disk[a] = "removed"

\* What is registered as a version, or about to be, is accepted and kept.
RegistryInv ==
    /\ \A v \in Versions : versions[v] # "none" => versions[v] \in Accepted /\ Kept(versions[v])
    /\ \A c \in Callers : call[c].op = "register" =>
          call[c].artifact \in Accepted /\ Kept(call[c].artifact)
    /\ RegistrationsHold

Inv == TypeOK /\ IndexInv /\ RegistryInv

-----------------------------------------------------------------------------
(* Types.                                                                  *)

ProduceCall == [op : {"produce"}, artifact : Artifacts]
SupersedeCall == [op : {"supersede"}, artifact : Artifacts, previous : GovernanceState]
RegisterCall == [op : {"register"}, version : Versions, artifact : Artifacts]

\* What the locals of a request are, by what it is about to do.
LEMMA CallTypes ==
    ASSUME TypeOK, NEW c \in Callers
    PROVE  /\ call[c].op = "produce" => call[c] \in ProduceCall
           /\ call[c].op = "supersede" => call[c] \in SupersedeCall
           /\ call[c].op = "register" => call[c] \in RegisterCall
  BY DEF TypeOK, ProduceCall, SupersedeCall, RegisterCall, Idle

\* The empty catalog has its types.
LEMMA InitType == Init => TypeOK
  BY EnvAssumption DEF Init, TypeOK, NoWork, Idle, Manifest, GovernanceState, Targets, Lineage, Ranks

\* One request's step keeps the types.
LEMMA RequestType ==
    ASSUME TypeOK, NEW c \in Callers, Request(c) PROVE TypeOK'
<1>1. ASSUME NEW a \in Artifacts, NEW allow \in BOOLEAN, enforce_gate(c, a, allow) PROVE TypeOK'
  BY <1>1 DEF TypeOK, enforce_gate, indexVars, userVars, scanVars, rebuildVars
<1>2. ASSUME produce(c) PROVE TypeOK'
  BY <1>2, CallTypes DEF TypeOK, produce, ProduceCall, indexVars, userVars, scanVars, rebuildVars, Manifest
<1>3. ASSUME NEW a \in Artifacts, mark_superseded_reads(c, a) PROVE TypeOK'
  BY <1>3 DEF TypeOK, mark_superseded_reads, indexVars, userVars, scanVars, rebuildVars, Targets
<1>4. ASSUME mark_superseded(c) PROVE TypeOK'
  BY <1>4, CallTypes DEF TypeOK, mark_superseded, record_governance, SupersedeCall,
     indexVars, scanVars, rebuildVars, Targets, GovernanceState
<1>5. ASSUME NEW v \in Versions, NEW p \in Artifacts, NEW allow \in BOOLEAN,
             register_version_checks(c, v, p, allow) PROVE TypeOK'
  BY <1>5 DEF TypeOK, register_version_checks, indexVars, userVars, scanVars, rebuildVars
<1>6. ASSUME create_dataset_version(c) PROVE TypeOK'
  BY <1>6, CallTypes DEF TypeOK, create_dataset_version, RegisterCall, indexVars, scanVars, rebuildVars
<1>7. ASSUME catalog_busy(c) PROVE TypeOK'
  BY <1>7 DEF TypeOK, catalog_busy, indexVars, userVars, scanVars, rebuildVars
<1> QED
  BY <1>1, <1>2, <1>3, <1>4, <1>5, <1>6, <1>7 DEF Request

\* Row counts are numbers: the tables are finite.
LEMMA RowCountsType ==
    ASSUME TypeOK PROVE RowCounts \in Nat \X Nat \X Nat \X Nat
<1>1. IsFiniteSet(Datasets)
  <2> DEFINE f == [v \in Versions |-> v[1]]
  <2>1. f \in Surjection(Versions, Datasets)
    BY DEF Surjection, Datasets
  <2> QED
    BY <2>1, FiniteAssumption, FS_Surjection
<1>2. Cardinality(datasets) \in Nat
  BY <1>1, FS_Subset, FS_CardinalityType DEF TypeOK
<1>3. Cardinality({v \in Versions : versions[v] # "none"}) \in Nat
  <2>1. {v \in Versions : versions[v] # "none"} \in SUBSET Versions
    OBVIOUS
  <2> QED
    BY <2>1, FiniteAssumption, FS_Subset, FS_CardinalityType
<1>4. \A T : IsFiniteSet(T) => GovernedRows(T) \in Nat
  <2> SUFFICES ASSUME NEW T, IsFiniteSet(T) PROVE GovernedRows(T) \in Nat
    OBVIOUS
  <2>1. {t \in T : gov[t] # "active"} \in SUBSET T
    OBVIOUS
  <2> QED
    BY <2>1, FS_Subset, FS_CardinalityType DEF GovernedRows
<1> QED
  BY <1>2, <1>3, <1>4, FiniteAssumption DEF RowCounts

\* A step of a scan or a rebuild keeps the types.
LEMMA ScanType ==
    ASSUME TypeOK, Scan \/ scan_aborts \/ Rebuild PROVE TypeOK'
<1> USE EnvAssumption DEF TypeOK, indexVars, userVars, scanVars, rebuildVars, Ranks
<1>1. ASSUME rollback PROVE TypeOK'
  BY <1>1 DEF rollback, NoWork, Manifest
<1>2. CASE scan_begins
  BY <1>2 DEF scan_begins, On
<1>3. CASE scan_root
  <2>1. upsert_artifacts \in [Artifacts -> Manifest]
    BY DEF upsert_artifacts, Found, On, Manifest
  <2>2. Linked \subseteq Lineage /\ Broken \subseteq Lineage
    BY DEF Linked, Broken
  <2> QED
    BY <1>1, <1>3, <2>1, <2>2 DEF scan_root
<1>4. CASE scan_aborts
  BY <1>1, <1>4 DEF scan_aborts
<1>5. CASE commit_scan
  BY <1>5 DEF commit_scan, NoWork, Manifest
<1>6. CASE rebuild_counts
  BY <1>6, RowCountsType DEF rebuild_counts
<1>7. CASE rebuild_begins
  BY <1>7 DEF rebuild_begins, NoWork, Manifest, On
<1>8. CASE rebuild_busy
  BY <1>8 DEF rebuild_busy
<1>9. CASE rebuild_returns
  BY <1>9 DEF rebuild_returns
<1> QED
  BY <1>2, <1>3, <1>4, <1>5, <1>6, <1>7, <1>8, <1>9 DEF Scan, Rebuild

\* Every step of every actor keeps the types.
LEMMA NextType == ASSUME TypeOK, [Next]_vars PROVE TypeOK'
<1> USE DEF TypeOK, indexVars, userVars, scanVars, rebuildVars
<1>1. ASSUME NEW t \in Targets, NEW new \in GovernanceState, set_governance(t, new) PROVE TypeOK'
  BY <1>1 DEF set_governance, record_governance
<1>2. ASSUME NEW d \in Datasets, create_dataset(d) PROVE TypeOK'
  BY <1>2 DEF create_dataset
<1>3. ASSUME NEW a \in Artifacts, alter_manifest(a) \/ remove_artifact(a) PROVE TypeOK'
  BY <1>3 DEF alter_manifest, remove_artifact, Manifest
<1>4. CASE UNCHANGED vars
  BY <1>4 DEF vars
<1> HIDE DEF TypeOK, indexVars, userVars, scanVars, rebuildVars
<1> QED
  BY <1>1, <1>2, <1>3, <1>4, RequestType, ScanType DEF Next

-----------------------------------------------------------------------------
(* The index.                                                              *)

\* Nothing is on disk, indexed or being scanned at the start.
LEMMA InitIndex == Init => IndexInv /\ RegistryInv
  BY DEF Init, NoWork, Idle, IndexInv, DiskIsClosed, Published, IndexWasPublished,
     EveryGapIsReported, Scanning, RegistryInv, RegistrationsHold, On, Lineage

\* Publications and removals, while index and scan stay as they are.
LEMMA DiskStep ==
    ASSUME TypeOK, IndexInv, UNCHANGED <<index, edges, issues, txn, work, stage, began>>,
           DiskIsClosed', Published \subseteq Published',
           \A a \in Artifacts : disk[a] = "removed" => disk'[a] = "removed"
    PROVE  IndexInv'
<1> USE DEF IndexInv
<1>1. IndexWasPublished' /\ EveryGapIsReported'
  BY DEF IndexWasPublished, EveryGapIsReported, On
<1>2. ASSUME txn # "none" PROVE BeganIsCovered'
  <2>1. BeganIsCovered /\ began \subseteq Artifacts
    BY <1>2 DEF Scanning, TypeOK
  <2>2. \A a \in Artifacts : Parents[a] \subseteq Artifacts
    BY LineageAssumption
  <2> QED
    BY <2>1, <2>2 DEF BeganIsCovered
<1>3. ASSUME txn # "none" PROVE IndexIsCovered'
  BY <1>3 DEF Scanning, IndexIsCovered, On
<1>4. Scanning'
  BY <1>2, <1>3 DEF Scanning, WorkReportsGaps, ScanKeepsIndex, On
<1> QED
  BY <1>1, <1>4

\* A step that leaves disk, index and scan alone, and starts no production,
\* keeps what is said about them.
LEMMA FrameStep ==
    ASSUME TypeOK, IndexInv, UNCHANGED <<disk, index, edges, issues, txn, work, stage, began>>,
           \A c \in Callers : call'[c].op = "produce" => call'[c] = call[c]
    PROVE  IndexInv'
<1>1. DiskIsClosed'
  BY DEF IndexInv, DiskIsClosed, Published
<1>2. Published \subseteq Published'
  BY DEF Published
<1> QED
  BY <1>1, <1>2, DiskStep

\* The gate admits only a new identifier, with published parents.
LEMMA GateStep ==
    ASSUME TypeOK, IndexInv, NEW c \in Callers, NEW a \in Artifacts, NEW allow \in BOOLEAN,
           enforce_gate(c, a, allow)
    PROVE  IndexInv'
<1> USE DEF indexVars, userVars, scanVars, rebuildVars
<1> DEFINE r == [op |-> "produce", artifact |-> a]
<1>1. /\ call' = [call EXCEPT ![c] = r] /\ UNCHANGED disk
      /\ Published' = Published /\ a \notin Published /\ Parents[a] \subseteq Published
      /\ \A b \in Callers : call[b] # r
  BY DEF enforce_gate, Published, On
<1>2. \A b \in Callers : call'[b] = IF b = c THEN r ELSE call[b]
  BY <1>1 DEF TypeOK
<1>3. r.op = "produce" /\ r.artifact = a
  OBVIOUS
<1> HIDE DEF r
<1>4. DiskIsClosed'
  <2>1. ASSUME NEW b \in Callers, call'[b].op = "produce"
        PROVE  /\ Parents[call'[b].artifact] \subseteq Published
               /\ call'[b].artifact \notin Published
               /\ \A d \in Callers \ {b} : call'[d] # call'[b]
    <3>1. CASE b = c
      BY <1>1, <1>2, <1>3, <3>1
    <3>2. CASE b # c
      BY <1>1, <1>2, <2>1, <3>2 DEF IndexInv, DiskIsClosed
    <3> QED
      BY <3>1, <3>2
  <2> QED
    BY <1>1, <2>1 DEF IndexInv, DiskIsClosed
<1> QED
  BY <1>1, <1>4, DiskStep DEF enforce_gate

\* A publication adds an artifact whose parents are there.
LEMMA ProduceStep == ASSUME TypeOK, IndexInv, NEW c \in Callers, produce(c) PROVE IndexInv'
<1> USE DEF indexVars, userVars, scanVars, rebuildVars
<1> DEFINE x == call[c].artifact
<1>1. x \in Artifacts /\ call[c] \in ProduceCall
  BY CallTypes DEF produce, ProduceCall
<1>2. x \notin Published /\ Parents[x] \subseteq Published
  BY DEF produce, IndexInv, DiskIsClosed
<1>3. \A a \in Artifacts : disk'[a] = IF a = x THEN "original" ELSE disk[a]
  BY <1>1 DEF produce, TypeOK
<1>4. Published' = Published \union {x}
  BY <1>1, <1>3 DEF Published
<1>5. \A b \in Callers : call'[b].op = "produce" => b # c /\ call'[b] = call[b]
  BY DEF produce, TypeOK, Idle
<1>6. \A b \in Callers : call'[b].op = "produce" => call[b].artifact # x
  BY <1>1, <1>5, CallTypes DEF produce, ProduceCall, IndexInv, DiskIsClosed
<1>7. DiskIsClosed'
  <2>1. \A a \in Published' : Parents[a] \subseteq Published'
    BY <1>2, <1>4 DEF IndexInv, DiskIsClosed
  <2>2. ASSUME NEW b \in Callers, call'[b].op = "produce"
        PROVE  /\ Parents[call'[b].artifact] \subseteq Published'
               /\ call'[b].artifact \notin Published'
               /\ \A d \in Callers \ {b} : call'[d] # call'[b]
    <3>1. call'[b] = call[b] /\ call[b].artifact # x
      BY <1>5, <1>6, <2>2
    <3>2. \A d \in Callers \ {b} : call'[d].op = "produce" => call'[d] # call'[b]
      BY <1>5, <2>2, <3>1 DEF IndexInv, DiskIsClosed
    <3> QED
      BY <1>4, <2>2, <3>1, <3>2 DEF IndexInv, DiskIsClosed
  <2> QED
    BY <2>1, <2>2 DEF DiskIsClosed
<1>8. \A a \in Artifacts : disk[a] = "removed" => disk'[a] = "removed"
  BY <1>2, <1>3 DEF Published
<1> QED
  BY <1>4, <1>7, <1>8, DiskStep DEF produce

\* What is rewritten or removed stays published.
LEMMA OutsideStep ==
    ASSUME TypeOK, IndexInv, NEW a \in Artifacts, alter_manifest(a) \/ remove_artifact(a)
    PROVE  IndexInv'
<1> USE DEF indexVars, userVars, scanVars, rebuildVars, alter_manifest, remove_artifact
<1>1. Published' = Published
  BY DEF Published, On, TypeOK
<1>2. DiskIsClosed'
  BY <1>1 DEF IndexInv, DiskIsClosed
<1>3. \A b \in Artifacts : disk[b] = "removed" => disk'[b] = "removed"
  BY DEF TypeOK, On
<1> QED
  BY <1>1, <1>2, <1>3, DiskStep

\* When a scan begins no root has been read.
LEMMA NothingRead ==
    ASSUME TypeOK, IndexInv, stage' = 1, began' = On(disk), UNCHANGED <<disk, index>>
    PROVE  BeganIsCovered' /\ IndexIsCovered'
<1>1. \A a \in Artifacts : ~(Rank[a] < stage')
  BY EnvAssumption, LineageAssumption DEF Ranks
<1>2. \A a \in On(disk) : \A p \in Parents[a] : p \in On(disk) \/ disk[p] = "removed"
  <2>1. \A p \in Published : p \in On(disk) \/ disk[p] = "removed"
    BY DEF Published, On, TypeOK, Manifest
  <2>2. On(disk) \subseteq Published
    BY DEF Published, On
  <2> QED
    BY <2>1, <2>2 DEF IndexInv, DiskIsClosed
<1>3. began' \subseteq Artifacts /\ began' \subseteq Published'
  BY DEF Published, On
<1>4. BeganIsCovered'
  BY <1>1, <1>2, <1>3 DEF BeganIsCovered
<1>5. IndexIsCovered'
  BY <1>1 DEF IndexIsCovered, On
<1> QED
  BY <1>4, <1>5

\* The first step of a scan: the working copy is the index.
LEMMA ScanBeginsStep == ASSUME TypeOK, IndexInv, scan_begins PROVE IndexInv'
<1> USE DEF IndexInv, scan_begins, indexVars, userVars, rebuildVars
<1>1. DiskIsClosed' /\ IndexWasPublished' /\ EveryGapIsReported'
  BY DEF DiskIsClosed, Published, IndexWasPublished, EveryGapIsReported, On
<1>2. (On(work.index) \subseteq Published)'
  BY DEF IndexWasPublished, Published, On
<1>3. WorkReportsGaps'
  BY DEF WorkReportsGaps, EveryGapIsReported
<1>4. ScanKeepsIndex'
  BY DEF ScanKeepsIndex, On
<1> QED
  BY <1>1, <1>2, <1>3, <1>4, NothingRead DEF Scanning

\* The first step of a rebuild: the working copy is empty.
LEMMA RebuildBeginsStep == ASSUME TypeOK, IndexInv, rebuild_begins PROVE IndexInv'
<1> USE DEF IndexInv, rebuild_begins, indexVars, userVars
<1>1. DiskIsClosed' /\ IndexWasPublished' /\ EveryGapIsReported'
  BY DEF DiskIsClosed, Published, IndexWasPublished, EveryGapIsReported, On
<1>2. (On(work.index) \subseteq Published)'
  BY DEF NoWork, On
<1>3. WorkReportsGaps'
  BY DEF WorkReportsGaps, NoWork, Lineage
<1>4. ScanKeepsIndex'
  BY DEF ScanKeepsIndex
<1> QED
  BY <1>1, <1>2, <1>3, <1>4, NothingRead DEF Scanning

\* A rollback forgets the working copy and nothing else.
LEMMA RollbackStep == ASSUME TypeOK, IndexInv, rollback PROVE IndexInv'
  BY DEF IndexInv, rollback, indexVars, userVars, DiskIsClosed, Published, IndexWasPublished,
     EveryGapIsReported, Scanning, On

\* One storage root: each manifest found is registered, each of its parents
\* linked or reported.  A parent that was there when the scan began, and
\* still is, lies in an earlier root, so it is registered by now.
LEMMA ScanRootStep == ASSUME TypeOK, IndexInv, scan_root PROVE IndexInv'
<1>1. CASE rollback
  BY <1>1, RollbackStep
<1>2. CASE ~rollback
  <2>1. /\ txn # "none" /\ stage \in Ranks /\ ~Conflict
        /\ txn = "rebuild" => Broken = {}
        /\ work' = [index |-> upsert_artifacts,
                    edges |-> work.edges \union Linked,
                    issues |-> work.issues \union Broken]
        /\ stage' = stage + 1
        /\ UNCHANGED <<disk, index, edges, issues, call, txn, began>>
    BY <1>2 DEF scan_root, indexVars
  <2>2. /\ WorkReportsGaps /\ BeganIsCovered /\ IndexIsCovered /\ ScanKeepsIndex
        /\ On(work.index) \subseteq Published
    BY <2>1 DEF IndexInv, Scanning
  <2>3. \A a \in Artifacts :
          work'.index[a] = IF a \in Found THEN disk[a] ELSE work.index[a]
    BY <2>1 DEF upsert_artifacts
  <2>4. \A a \in Found : a \in Artifacts /\ disk[a] # "absent" /\ Rank[a] = stage
    BY DEF Found, On
  <2>5. \A a \in Artifacts : work.index[a] # "absent" => work'.index[a] = work.index[a]
    BY <2>1, <2>3 DEF Conflict
  <2>6. \A e \in Lineage : e[1] \in Artifacts /\ e[2] \in Artifacts /\ e[1] \in Parents[e[2]]
    BY DEF Lineage
  <2>7. DiskIsClosed' /\ IndexWasPublished' /\ EveryGapIsReported' /\ Published' = Published
    BY <2>1 DEF IndexInv, DiskIsClosed, Published, IndexWasPublished, EveryGapIsReported, On
  <2>8. (On(work.index) \subseteq Published)'
    BY <2>2, <2>3, <2>4, <2>7 DEF On, Published
  <2>9. WorkReportsGaps'
    <3>1. ASSUME NEW e \in Lineage, work'.index[e[2]] # "absent", e \notin work'.edges
          PROVE  e \in work'.issues
      <4>1. CASE e[2] \in Found
        BY <2>1, <3>1, <4>1 DEF Linked, Broken
      <4>2. CASE e[2] \notin Found
        BY <2>1, <2>2, <2>3, <2>6, <3>1, <4>2 DEF WorkReportsGaps
      <4> QED
        BY <4>1, <4>2
    <3>2. ASSUME NEW e \in work'.edges
          PROVE  work'.index[e[1]] # "absent" /\ work'.index[e[2]] # "absent"
      <4>1. CASE e \in work.edges
        BY <2>2, <2>5, <2>6, <4>1 DEF WorkReportsGaps, TypeOK
      <4>2. CASE e \in Linked
        BY <2>3, <2>4, <2>5, <2>6, <4>2 DEF Linked
      <4> QED
        BY <2>1, <4>1, <4>2
    <3>3. txn' = "rebuild" => work'.issues = {}
      BY <2>1, <2>2 DEF WorkReportsGaps
    <3> QED
      BY <3>1, <3>2, <3>3 DEF WorkReportsGaps
  <2>10. ASSUME NEW a \in Artifacts, a \in Published, disk[a] # "removed", Rank[a] < stage',
                Rank[a] < stage => work.index[a] # "absent"
         PROVE  work'.index[a] # "absent" /\ (~(Rank[a] < stage) => a \in Found)
    <3>1. CASE Rank[a] < stage
      BY <2>5, <2>10, <3>1
    <3>2. CASE ~(Rank[a] < stage)
      <4>1. Rank[a] = stage
        BY <2>1, <2>10, <3>2, EnvAssumption, LineageAssumption DEF Ranks
      <4>2. a \in Found
        BY <2>10, <4>1 DEF Published, Found, On, TypeOK, Manifest
      <4> QED
        BY <2>3, <2>4, <4>2
    <3> QED
      BY <3>1, <3>2
  <2>11. BeganIsCovered'
    <3>1. ASSUME NEW a \in began, Rank[a] < stage', disk[a] # "removed"
          PROVE  /\ work'.index[a] # "absent"
                 /\ \A p \in Parents[a] : disk[p] # "removed" => <<p, a>> \in work'.edges
      <4>1. a \in Artifacts /\ a \in Published /\ (Rank[a] < stage => work.index[a] # "absent")
        BY <2>2, <3>1 DEF BeganIsCovered, Published
      <4>2. work'.index[a] # "absent" /\ (~(Rank[a] < stage) => a \in Found)
        BY <2>10, <3>1, <4>1
      <4>3. ASSUME NEW p \in Parents[a], disk[p] # "removed" PROVE <<p, a>> \in work'.edges
        <5>1. CASE Rank[a] < stage
          BY <2>1, <2>2, <3>1, <4>3, <5>1 DEF BeganIsCovered
        <5>2. CASE ~(Rank[a] < stage)
          <6>1. a \in Found /\ Rank[a] = stage
            BY <2>4, <4>2, <5>2
          <6>2. p \in Artifacts /\ Rank[p] < stage /\ p \in began
            BY <2>2, <3>1, <4>1, <4>3, <6>1, LineageAssumption DEF BeganIsCovered
          <6>3. work.index[p] # "absent" /\ <<p, a>> \in Lineage
            BY <2>2, <4>1, <4>3, <6>2 DEF BeganIsCovered, Lineage
          <6>4. <<p, a>> \in Linked
            BY <6>1, <6>3 DEF Linked
          <6> QED
            BY <2>1, <6>4
        <5> QED
          BY <5>1, <5>2
      <4> QED
        BY <4>2, <4>3
    <3> QED
      BY <2>1, <2>2, <2>7, <3>1 DEF BeganIsCovered
  <2>12. IndexIsCovered'
    <3>1. ASSUME NEW a \in On(index), Rank[a] < stage', disk[a] # "removed"
          PROVE  work'.index[a] # "absent"
      <4>1. a \in Artifacts /\ a \in Published /\ (Rank[a] < stage => work.index[a] # "absent")
        BY <2>2, <3>1 DEF IndexIsCovered, IndexInv, IndexWasPublished, On
      <4> QED
        BY <2>10, <3>1, <4>1
    <3> QED
      BY <2>1, <3>1 DEF IndexIsCovered, On
  <2>13. ScanKeepsIndex'
    BY <2>1, <2>2, <2>5 DEF ScanKeepsIndex, On
  <2> QED
    BY <2>7, <2>8, <2>9, <2>11, <2>12, <2>13 DEF IndexInv, Scanning
<1> QED
  BY <1>1, <1>2

\* When all roots have been read, everything that was there when the scan
\* began is in the working copy with its edges, and so is what the index had,
\* unless it was removed.
LEMMA CommitCovers ==
    ASSUME TypeOK, IndexInv, commit_scan
    PROVE  /\ \A a \in began : disk[a] # "removed" =>
                 /\ a \in On(index)'
                 /\ \A p \in Parents[a] : disk[p] # "removed" => <<p, a>> \in edges'
           /\ \A a \in On(index) \ On(index)' : txn = "rebuild" /\ disk[a] = "removed"
           /\ \A e \in edges \ edges' : e[2] \notin On(index)'
<1>1. /\ WorkReportsGaps /\ BeganIsCovered /\ IndexIsCovered /\ ScanKeepsIndex
      /\ index' = work.index /\ edges' = work.edges /\ txn \in {"scan", "rebuild"}
  BY DEF IndexInv, Scanning, commit_scan, TypeOK
<1>2. \A a \in Artifacts : Rank[a] < stage
  BY EnvAssumption, LineageAssumption DEF TypeOK, commit_scan, Ranks
<1>3. \A a \in Artifacts : work.index[a] # "absent" <=> a \in On(index)'
  BY <1>1 DEF On, TypeOK, Manifest
<1>4. began \subseteq Artifacts /\ On(index) \subseteq Artifacts
  BY DEF TypeOK, On
<1>5. ASSUME NEW a \in began, disk[a] # "removed"
      PROVE  /\ a \in On(index)'
             /\ \A p \in Parents[a] : disk[p] # "removed" => <<p, a>> \in edges'
  BY <1>1, <1>2, <1>3, <1>4, <1>5 DEF BeganIsCovered
<1>6. ASSUME NEW a \in On(index), a \notin On(index)'
      PROVE  txn = "rebuild" /\ disk[a] = "removed"
  <2>1. disk[a] = "removed"
    BY <1>1, <1>2, <1>3, <1>4, <1>6 DEF IndexIsCovered
  <2>2. txn # "scan"
    BY <1>1, <1>3, <1>4, <1>6 DEF ScanKeepsIndex, On
  <2> QED
    BY <1>1, <2>1, <2>2
<1>7. ASSUME NEW e \in edges, e \notin edges' PROVE e[2] \notin On(index)'
  <2>1. txn = "rebuild" /\ e \in Lineage /\ e[2] \in Artifacts
    BY <1>1, <1>7 DEF ScanKeepsIndex, TypeOK, Lineage
  <2> QED
    BY <1>1, <1>3, <1>7, <2>1 DEF WorkReportsGaps
<1> QED
  BY <1>5, <1>6, <1>7

\* Committing makes the working copy the index.
LEMMA CommitStep == ASSUME TypeOK, IndexInv, commit_scan PROVE IndexInv'
  BY DEF IndexInv, commit_scan, userVars, DiskIsClosed, Published, IndexWasPublished,
     EveryGapIsReported, Scanning, WorkReportsGaps, On

\* Every step of every actor keeps what is said about disk, index and scan.
LEMMA NextIndex == ASSUME TypeOK, IndexInv, [Next]_vars PROVE IndexInv'
<1> USE DEF indexVars, userVars, scanVars, rebuildVars
<1>1. ASSUME NEW c \in Callers, Request(c) PROVE IndexInv'
  <2>1. ASSUME NEW a \in Artifacts, mark_superseded_reads(c, a) PROVE IndexInv'
    BY <2>1, FrameStep DEF mark_superseded_reads, TypeOK
  <2>2. CASE mark_superseded(c)
    BY <2>2, FrameStep DEF mark_superseded, TypeOK, Idle
  <2>3. ASSUME NEW v \in Versions, NEW p \in Artifacts, NEW allow \in BOOLEAN,
               register_version_checks(c, v, p, allow) PROVE IndexInv'
    BY <2>3, FrameStep DEF register_version_checks, TypeOK
  <2>4. CASE create_dataset_version(c)
    BY <2>4, FrameStep DEF create_dataset_version, TypeOK, Idle
  <2>5. CASE catalog_busy(c)
    BY <2>5, FrameStep DEF catalog_busy, TypeOK, Idle
  <2> QED
    BY <1>1, <2>1, <2>2, <2>3, <2>4, <2>5, GateStep, ProduceStep DEF Request
<1>2. CASE Scan
  BY <1>2, ScanBeginsStep, ScanRootStep, CommitStep DEF Scan
<1>3. CASE scan_aborts
  BY <1>3, RollbackStep DEF scan_aborts
<1>4. CASE Rebuild
  <2>1. CASE rebuild_counts \/ rebuild_busy \/ rebuild_returns
    BY <2>1, FrameStep DEF rebuild_counts, rebuild_busy, rebuild_returns
  <2> QED
    BY <1>4, <2>1, RebuildBeginsStep DEF Rebuild
<1>5. ASSUME NEW t \in Targets, NEW new \in GovernanceState, set_governance(t, new) PROVE IndexInv'
  BY <1>5, FrameStep DEF set_governance
<1>6. ASSUME NEW d \in Datasets, create_dataset(d) PROVE IndexInv'
  BY <1>6, FrameStep DEF create_dataset
<1>7. CASE UNCHANGED vars
  BY <1>7, FrameStep DEF vars
<1> QED
  BY <1>1, <1>2, <1>3, <1>4, <1>5, <1>6, <1>7, OutsideStep DEF Next

\* Only the commit of a scan or rebuild changes the committed index.
LEMMA OnlyCommitChangesIndex ==
    ASSUME [Next]_vars, indexVars' # indexVars PROVE commit_scan
<1> USE DEF indexVars, userVars, scanVars, rebuildVars
<1>1. ASSUME NEW c \in Callers, Request(c) PROVE FALSE
  BY <1>1 DEF Request, enforce_gate, produce, mark_superseded_reads, mark_superseded,
     register_version_checks, create_dataset_version, catalog_busy
<1>2. CASE Scan \/ scan_aborts \/ Rebuild
  BY <1>2 DEF Scan, scan_begins, scan_root, scan_aborts, rollback, Rebuild,
     rebuild_counts, rebuild_begins, rebuild_busy, rebuild_returns
<1> QED
  BY <1>1, <1>2 DEF Next, set_governance, create_dataset, alter_manifest, remove_artifact, vars

\* A removed artifact never comes back.
LEMMA RemovedStays ==
    ASSUME TypeOK, IndexInv, [Next]_vars, NEW a \in Artifacts, disk[a] = "removed"
    PROVE  disk'[a] = "removed"
<1> USE DEF indexVars, userVars, scanVars, rebuildVars
<1>1. ASSUME NEW c \in Callers, produce(c) PROVE disk'[a] = "removed"
  <2>1. call[c].artifact \in Artifacts /\ call[c].artifact # a
    BY <1>1, CallTypes DEF produce, ProduceCall, IndexInv, DiskIsClosed, Published
  <2> QED
    BY <1>1, <2>1 DEF produce, TypeOK
<1>2. ASSUME NEW c \in Callers, Request(c), ~produce(c) PROVE UNCHANGED disk
  BY <1>2 DEF Request, enforce_gate, mark_superseded_reads, mark_superseded,
     register_version_checks, create_dataset_version, catalog_busy
<1>3. CASE Scan \/ scan_aborts \/ Rebuild
  BY <1>3 DEF Scan, scan_begins, scan_root, scan_aborts, rollback, commit_scan, Rebuild,
     rebuild_counts, rebuild_begins, rebuild_busy, rebuild_returns
<1>4. ASSUME NEW b \in Artifacts, alter_manifest(b) \/ remove_artifact(b)
      PROVE  disk'[a] = "removed"
  BY <1>4 DEF alter_manifest, remove_artifact, TypeOK, On
<1> QED
  BY <1>1, <1>2, <1>3, <1>4 DEF Next, set_governance, create_dataset, vars

\* What is kept stays kept.
LEMMA KeptStays ==
    ASSUME TypeOK, IndexInv, [Next]_vars, NEW a \in Artifacts, Kept(a) PROVE Kept(a)'
<1>1. CASE disk[a] = "removed"
  BY <1>1, RemovedStays DEF Kept
<1>2. CASE a \in On(index) /\ indexVars' = indexVars
  BY <1>2 DEF Kept, On, indexVars
<1>3. CASE a \in On(index) /\ indexVars' # indexVars
  <2>1. a \in On(index)' \/ disk[a] = "removed"
    BY <1>3, OnlyCommitChangesIndex, CommitCovers
  <2> QED
    BY <2>1, RemovedStays DEF Kept
<1> QED
  BY <1>1, <1>2, <1>3 DEF Kept

-----------------------------------------------------------------------------
(* The registry.                                                           *)

\* The insert takes a free key or leaves the row as it is, and says so.
LEMMA InsertStep ==
    ASSUME Inv, [Next]_vars, NEW c \in Callers, create_dataset_version(c) PROVE RegistryInv'
<1> DEFINE v == call[c].version
           p == call[c].artifact
<1>1. v \in Versions /\ p \in Artifacts /\ p \in Accepted /\ Kept(p)
  BY CallTypes DEF Inv, RegistryInv, RegisterCall, create_dataset_version
<1>2. \A u \in Versions :
          versions'[u] = IF u = v /\ versions[u] = "none" THEN p ELSE versions[u]
  BY <1>1 DEF Inv, TypeOK, create_dataset_version
<1>3. \A u \in Versions : versions'[u] # "none" => versions'[u] \in Accepted /\ Kept(versions'[u])
  BY <1>1, <1>2 DEF Inv, RegistryInv
<1>4. \A u \in Versions : Kept(versions[u])' <=> (versions'[u] \in On(index)' \/ disk'[versions'[u]] = "removed")
  BY DEF Kept
<1>5. UNCHANGED <<disk, index>> /\ On(index)' = On(index)
  BY DEF create_dataset_version, indexVars, On
<1>6. \A u \in Versions : versions'[u] # "none" => versions'[u] \in Accepted /\ Kept(versions[u])'
  BY <1>3, <1>4, <1>5 DEF Kept
<1>7. \A b \in Callers : call'[b].op = "register" =>
          call'[b].artifact \in Accepted /\ Kept(call[b].artifact)'
  <2>1. \A b \in Callers : call'[b].op = "register" => call'[b] = call[b]
    BY DEF create_dataset_version, Inv, TypeOK, Idle
  <2> QED
    BY <1>5, <2>1 DEF Inv, RegistryInv, Kept
<1>8. RegistrationsHold'
  <2>1. told' \subseteq told \union {<<v, p>>} /\ (<<v, p>> \in told' => versions'[v] = p)
    BY <1>1, <1>2 DEF create_dataset_version, Inv, RegistryInv, RegistrationsHold
  <2>2. \A r \in told : r[1] \in Versions /\ r[2] \in Artifacts /\ versions[r[1]] = r[2]
    BY DEF Inv, TypeOK, RegistryInv, RegistrationsHold
  <2>3. \A r \in told : versions'[r[1]] = r[2]
    BY <1>2, <2>2, CallAssumption
  <2> QED
    BY <2>1, <2>3 DEF RegistrationsHold
<1> QED
  BY <1>6, <1>7, <1>8 DEF RegistryInv

\* Every step keeps versions, and requests that are about to register one,
\* to accepted packages that are kept, and what clients were told true.
LEMMA NextRegistry == ASSUME Inv, [Next]_vars PROVE RegistryInv'
<1> USE DEF indexVars, userVars, scanVars, rebuildVars
<1>1. \A a \in Artifacts : Kept(a) => Kept(a)'
  BY KeptStays DEF Inv
<1>2. /\ \A v \in Versions : versions[v] \in Artifacts \union {"none"}
      /\ \A c \in Callers : call[c].op = "register" =>
            call[c].version \in Versions /\ call[c].artifact \in Artifacts
  BY CallTypes DEF Inv, TypeOK, RegisterCall
<1>3. ASSUME UNCHANGED <<versions, told>>,
             \A c \in Callers : call'[c].op = "register" =>
                 call'[c] = call[c] \/ (/\ call'[c].artifact \in Accepted \intersect Artifacts
                                       /\ Kept(call'[c].artifact))
      PROVE  RegistryInv'
  <2>1. \A v \in Versions : versions'[v] # "none" =>
            versions'[v] \in Accepted /\ Kept(versions[v])'
    BY <1>1, <1>2, <1>3 DEF Inv, RegistryInv, Kept
  <2>2. \A c \in Callers : call'[c].op = "register" =>
            call'[c].artifact \in Accepted /\ Kept(call[c].artifact)'
    BY <1>1, <1>2, <1>3 DEF Inv, RegistryInv, Kept
  <2>3. RegistrationsHold'
    BY <1>3 DEF Inv, RegistryInv, RegistrationsHold
  <2> QED
    BY <2>1, <2>2, <2>3 DEF RegistryInv
<1>4. ASSUME NEW c \in Callers, Request(c) PROVE RegistryInv'
  <2>1. ASSUME NEW v \in Versions, NEW p \in Artifacts, NEW allow \in BOOLEAN,
               register_version_checks(c, v, p, allow) PROVE RegistryInv'
    <3>1. p \in Accepted /\ Kept(p)
      BY <2>1 DEF register_version_checks, Inv, TypeOK, Manifest, Kept, On
    <3> QED
      BY <1>3, <2>1, <3>1 DEF register_version_checks, Inv, TypeOK
  <2>2. ASSUME NEW a \in Artifacts, NEW allow \in BOOLEAN, enforce_gate(c, a, allow) PROVE RegistryInv'
    BY <1>3, <2>2 DEF enforce_gate, Inv, TypeOK
  <2>3. ASSUME NEW a \in Artifacts, mark_superseded_reads(c, a) PROVE RegistryInv'
    BY <1>3, <2>3 DEF mark_superseded_reads, Inv, TypeOK
  <2>4. CASE produce(c) \/ mark_superseded(c) \/ catalog_busy(c)
    BY <1>3, <2>4 DEF produce, mark_superseded, catalog_busy, Inv, TypeOK, Idle
  <2> QED
    BY <1>4, <2>1, <2>2, <2>3, <2>4, InsertStep DEF Request
<1>5. CASE Scan \/ scan_aborts \/ Rebuild
  BY <1>3, <1>5 DEF Scan, scan_begins, scan_root, scan_aborts, rollback, commit_scan, Rebuild,
     rebuild_counts, rebuild_begins, rebuild_busy, rebuild_returns
<1> QED
  BY <1>3, <1>4, <1>5 DEF Next, set_governance, create_dataset, alter_manifest, remove_artifact, vars

-----------------------------------------------------------------------------
(* The theorems.                                                           *)

\* The invariant holds in every reachable state of the catalog.
THEOREM Invariance == Spec => []Inv
<1>1. Init => Inv
  BY InitType, InitIndex DEF Inv
<1>2. Inv /\ [Next]_vars => Inv'
  BY NextType, NextIndex, NextRegistry DEF Inv
<1> QED
  BY <1>1, <1>2, PTL DEF Spec

\* Tables, requests and transactions always have their types.
THEOREM TypeCorrect == Spec => []TypeOK
<1>1. Inv => TypeOK
  BY DEF Inv
<1> QED
  BY <1>1, Invariance, PTL

\* However scans, rebuilds and publications interleave, every edge that the
\* committed index lacks is reported in lineage_issues, and none dangles.
THEOREM GapsAreReported == Spec => []EveryGapIsReported
<1>1. Inv => EveryGapIsReported
  BY DEF Inv, IndexInv
<1> QED
  BY <1>1, Invariance, PTL

\* clear_artifact_index is never seen: a committed artifact is only lost when
\* it was removed from the disk, and an edge only with its child.
THEOREM OnlyTheRemovedIsForgotten == Spec => CatalogOnlyForgetsTheRemoved
<1>1. Inv /\ [Next]_vars =>
        [ /\ \A a \in On(index) \ On(index)' : txn = "rebuild" /\ disk[a] = "removed"
          /\ \A e \in edges \ edges' : e[2] \notin On(index)' ]_indexVars
  BY OnlyCommitChangesIndex, CommitCovers DEF Inv
<1> QED
  BY <1>1, Invariance, PTL DEF Spec, CatalogOnlyForgetsTheRemoved

\* A committed scan or rebuild registered and linked what it set out from, as
\* far as that is still there.
THEOREM ScansAreComplete == Spec => ScanRegistersWhatWasThere
<1> DEFINE A == txn # "none" /\ txn' = "none" /\ indexVars' # indexVars =>
                   \A a \in began : disk[a] # "removed" =>
                       /\ a \in On(index)'
                       /\ \A p \in Parents[a] : disk[p] # "removed" => <<p, a>> \in edges'
<1>1. Inv /\ [Next]_vars => [A]_vars
  BY OnlyCommitChangesIndex, CommitCovers DEF Inv
<1> QED
  BY <1>1, Invariance, PTL DEF Spec, ScanRegistersWhatWasThere

\* A scan replaces no registered record; only a rebuild reads one afresh.
THEOREM ScansDoNotOverwrite == Spec => ScanNeverOverwrites
<1> DEFINE A == txn # "rebuild" =>
                   \A a \in On(index) : index'[a] = index[a]
<1>1. ASSUME Inv, [Next]_vars PROVE [A]_index
  <2>1. CASE indexVars' # indexVars
    <3>1. commit_scan
      BY <1>1, <2>1, OnlyCommitChangesIndex
    <3>2. ScanKeepsIndex /\ txn \in {"none", "scan", "rebuild"}
      BY <1>1, <3>1 DEF Inv, IndexInv, Scanning, TypeOK, commit_scan
    <3> QED
      BY <3>1, <3>2 DEF commit_scan, ScanKeepsIndex
  <2> QED
    BY <2>1 DEF indexVars
<1> QED
  BY <1>1, Invariance, PTL DEF Spec, ScanNeverOverwrites

\* A registration a client was told of holds for ever, whatever registrations
\* race and whatever rebuilds do.
THEOREM RegistrationsAreKept == Spec => []RegistrationsHold
<1>1. Inv => RegistrationsHold
  BY DEF Inv, RegistryInv
<1> QED
  BY <1>1, Invariance, PTL

\* A version's package was accepted, and no scan or rebuild drops it from the
\* index while it is on disk.
THEOREM VersionsAreBacked == Spec => []VersionsKeepTheirPackage
<1>1. Inv => VersionsKeepTheirPackage
  BY DEF Inv, RegistryInv, VersionsKeepTheirPackage, Kept
<1> QED
  BY <1>1, Invariance, PTL

-----------------------------------------------------------------------------
(* Governance.                                                             *)

\* In an index without gaps the recorded lineage of an indexed artifact is
\* its real one.
LEMMA NoGapsNoHiddenAncestors ==
    ASSUME TypeOK, EveryGapIsReported, issues = {}, NEW a \in Artifacts, index[a] # "absent"
    PROVE  Upstream(Lineage, a) \subseteq Upstream(edges, a)
<1> DEFINE U == Upstream(edges, a)
<1>1. U \subseteq Artifacts /\ a \in U
  BY DEF Upstream
<1>2. U \subseteq On(index)
  <2>1. On(index) \in SUBSET Artifacts /\ a \in On(index)
    BY DEF On, TypeOK, Manifest
  <2>2. \A e \in edges : e[2] \in On(index) => e[1] \in On(index)
    BY DEF EveryGapIsReported, TypeOK, Manifest, Lineage, On
  <2> QED
    BY <2>1, <2>2 DEF Upstream
<1>3. \A e \in edges : e[2] \in U => e[1] \in U
  <2> SUFFICES ASSUME NEW e \in edges, e[2] \in U PROVE e[1] \in U
    OBVIOUS
  <2>1. e[1] \in Artifacts
    BY DEF TypeOK, Lineage
  <2> QED
    BY <2>1 DEF Upstream
<1>4. \A e \in Lineage : e[2] \in U => e \in edges
  BY <1>2 DEF EveryGapIsReported, On
<1>5. \A e \in Lineage : e[2] \in U => e[1] \in U
  BY <1>3, <1>4
<1> HIDE DEF U
<1> QED
  BY <1>1, <1>5 DEF Upstream, U

\* A version that a healthy catalog shows as healthy has no invalid ancestor.
THEOREM HealthyIsSound == Spec => []HealthyVersionsAreSound
<1>1. ASSUME Inv PROVE HealthyVersionsAreSound
  <2> SUFFICES ASSUME NEW v \in Versions, versions[v] # "none", health = "healthy",
                      effective_version_status(v) = "healthy",
                      NEW x \in Upstream(Lineage, versions[v])
               PROVE  gov[x] # "invalid"
    BY DEF HealthyVersionsAreSound
  <2>1. versions[v] \in Artifacts /\ index[versions[v]] # "absent"
    BY <1>1 DEF Inv, TypeOK, health
  <2>2. issues = {}
    BY DEF health
  <2>3. x \in Upstream(edges, versions[v])
    BY <1>1, <2>1, <2>2, NoGapsNoHiddenAncestors DEF Inv, IndexInv
  <2>4. ~ verify_governance_chain(versions[v], "invalid")
    <3>1. gov[v] \in GovernanceState
      BY <1>1 DEF Inv, TypeOK, Targets
    <3> QED
      BY <3>1 DEF effective_version_status, GovernanceState
  <2> QED
    BY <2>3, <2>4 DEF verify_governance_chain
<1> QED
  BY <1>1, Invariance, PTL

\* AuditTrailAgrees without CHOOSE: the last event of each target, if any,
\* says its state.
LastEventAgrees ==
    \A t \in Targets :
        \/ gov[t] = "active" /\ \A i \in 1..Len(trail) : trail[i][1] # t
        \/ \E i \in 1..Len(trail) :
              /\ trail[i][1] = t /\ trail[i][3] = gov[t]
              /\ \A j \in 1..Len(trail) : trail[j][1] = t => j <= i

\* One governance write extends the trail by the event of its new state.
LEMMA RecordStep ==
    ASSUME TypeOK, LastEventAgrees, NEW t \in Targets, NEW previous \in GovernanceState,
           NEW new \in GovernanceState, record_governance(t, previous, new)
    PROVE  LastEventAgrees'
<1> SUFFICES ASSUME NEW u \in Targets
             PROVE \/ gov'[u] = "active" /\ \A i \in 1..Len(trail') : trail'[i][1] # u
                   \/ \E i \in 1..Len(trail') :
                         /\ trail'[i][1] = u /\ trail'[i][3] = gov'[u]
                         /\ \A j \in 1..Len(trail') : trail'[j][1] = u => j <= i
  BY DEF LastEventAgrees
<1> DEFINE n == Len(trail)
<1>1. /\ n \in Nat /\ Len(trail') = n + 1
      /\ trail'[n + 1] = <<t, previous, new>>
      /\ \A i \in 1..n : trail'[i] = trail[i]
  BY DEF TypeOK, record_governance
<1>2. gov' = [gov EXCEPT ![t] = new] /\ gov \in [Targets -> GovernanceState]
  BY DEF TypeOK, record_governance
<1>3. CASE u = t
  <2>1. \A j \in 1..(n + 1) : j <= n + 1
    BY <1>1
  <2>2. n + 1 \in 1..(n + 1)
    BY <1>1
  <2> QED
    BY <1>1, <1>2, <1>3, <2>1, <2>2
<1>4. CASE u # t
  <2>1. gov'[u] = gov[u]
    BY <1>2, <1>4
  <2>2. \A i \in 1..(n + 1) : trail'[i][1] = u => i \in 1..n /\ trail[i][1] = u
    BY <1>1, <1>4
  <2>3. CASE gov[u] = "active" /\ \A i \in 1..n : trail[i][1] # u
    BY <1>1, <2>1, <2>2, <2>3
  <2>4. CASE \E i \in 1..n : /\ trail[i][1] = u /\ trail[i][3] = gov[u]
                             /\ \A j \in 1..n : trail[j][1] = u => j <= i
    <3>1. PICK i \in 1..n : /\ trail[i][1] = u /\ trail[i][3] = gov[u]
                            /\ \A j \in 1..n : trail[j][1] = u => j <= i
      BY <2>4
    <3>2. i \in 1..(n + 1) /\ trail'[i] = trail[i]
      BY <1>1, <3>1
    <3> QED
      BY <1>1, <2>1, <2>2, <3>1, <3>2
  <2> QED
    BY <2>3, <2>4 DEF LastEventAgrees
<1> QED
  BY <1>3, <1>4

\* The governance state of every target is what its last event says, also
\* where a supersession overwrites a judgment it has not seen.
THEOREM TrailAgrees == Spec => []AuditTrailAgrees
<1>1. Init => LastEventAgrees
  BY DEF Init, LastEventAgrees
<1>2. ASSUME Inv, LastEventAgrees, [Next]_vars PROVE LastEventAgrees'
  <2> USE DEF indexVars, userVars, scanVars, rebuildVars
  <2>1. CASE UNCHANGED <<gov, trail>>
    BY <1>2, <2>1 DEF LastEventAgrees
  <2>2. ASSUME NEW t \in Targets, NEW new \in GovernanceState, set_governance(t, new)
        PROVE  LastEventAgrees'
    <3>1. gov[t] \in GovernanceState
      BY <1>2 DEF Inv, TypeOK
    <3> QED
      BY <1>2, <2>2, <3>1, RecordStep DEF set_governance, Inv
  <2>3. ASSUME NEW c \in Callers, mark_superseded(c) PROVE LastEventAgrees'
    <3>1. call[c].artifact \in Targets /\ call[c].previous \in GovernanceState
      BY <1>2, <2>3, CallTypes DEF Inv, mark_superseded, SupersedeCall, Targets
    <3>2. "deprecated" \in GovernanceState
      BY DEF GovernanceState
    <3> QED
      BY <1>2, <2>3, <3>1, <3>2, RecordStep DEF mark_superseded, Inv
  <2>4. ASSUME NEW c \in Callers, Request(c), ~mark_superseded(c) PROVE UNCHANGED <<gov, trail>>
    BY <2>4 DEF Request, enforce_gate, produce, mark_superseded_reads,
       register_version_checks, create_dataset_version, catalog_busy
  <2>5. CASE Scan \/ scan_aborts \/ Rebuild
    BY <2>1, <2>5 DEF Scan, scan_begins, scan_root, scan_aborts, rollback, commit_scan, Rebuild,
       rebuild_counts, rebuild_begins, rebuild_busy, rebuild_returns
  <2> QED
    BY <1>2, <2>1, <2>2, <2>3, <2>4, <2>5 DEF Next, create_dataset, alter_manifest,
       remove_artifact, vars
<1>3. ASSUME Inv, LastEventAgrees PROVE AuditTrailAgrees
  <2> SUFFICES ASSUME NEW t \in Targets
               PROVE LET mine == {i \in DOMAIN trail : trail[i][1] = t}
                     IN  gov[t] = IF mine = {} THEN "active"
                                  ELSE trail[CHOOSE i \in mine : \A j \in mine : j <= i][3]
    BY DEF AuditTrailAgrees
  <2> DEFINE mine == {i \in DOMAIN trail : trail[i][1] = t}
  <2>1. DOMAIN trail = 1..Len(trail) /\ Len(trail) \in Nat
    BY <1>3 DEF Inv, TypeOK
  <2>2. CASE gov[t] = "active" /\ \A i \in 1..Len(trail) : trail[i][1] # t
    BY <2>1, <2>2
  <2>3. CASE \E i \in 1..Len(trail) :
                /\ trail[i][1] = t /\ trail[i][3] = gov[t]
                /\ \A j \in 1..Len(trail) : trail[j][1] = t => j <= i
    <3>1. PICK i \in 1..Len(trail) :
                /\ trail[i][1] = t /\ trail[i][3] = gov[t]
                /\ \A j \in 1..Len(trail) : trail[j][1] = t => j <= i
      BY <2>3
    <3>2. i \in mine /\ \A j \in mine : j <= i
      BY <2>1, <3>1
    <3>3. \A k \in mine : (\A j \in mine : j <= k) => k = i
      BY <2>1, <3>2
    <3>4. (CHOOSE k \in mine : \A j \in mine : j <= k) = i
      BY <3>2, <3>3
    <3> QED
      BY <3>1, <3>2, <3>4
  <2> QED
    BY <1>3, <2>2, <2>3 DEF LastEventAgrees
<1> QED
  BY <1>1, <1>2, <1>3, Invariance, PTL DEF Spec
=============================================================================
