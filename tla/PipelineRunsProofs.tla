------------------------- MODULE PipelineRunsProofs -------------------------
(***************************************************************************)
(* Proofs about PipelineRuns, for every set of runs, every capacity and    *)
(* every plan, whether or not streams share their stage names: the model   *)
(* checker's instances have two runs and at most seven stages.             *)
(***************************************************************************)
EXTENDS PipelineRuns, FiniteSetTheorems, TLAPS

(***************************************************************************)
(* The inductive invariant.  A run's rows are determined by where its      *)
(* executor is, so each part says what an executor at some locations has   *)
(* behind it and ahead of it; the rows of a run whose executor is gone     *)
(* keep only what StageOrder and ProvenanceTracksDisk say.                 *)
(***************************************************************************)

\* Nothing has happened before the stage rows are created.
NothingYet(r) ==
    pc[r] \in {"none", "accepted", "cancel_early", "mark_running", "create_stages"} =>
        /\ rows[r] = NoRows
        /\ pos[r] = 1
        /\ artifacts[r] = {} /\ produced[r] = {}

\* The rows an executor at position p + 1 has written.
RowsUpTo(p) == {RowOf(k) : k \in 1..p}

\* About to start stage pos, or to cancel it unstarted.
BetweenStages(r) ==
    pc[r] \in {"heartbeat", "check", "set_running", "start_stage", "cancel_stage"} =>
        /\ pos[r] \in Positions
        /\ \A i \in Positions :
              rows[r][i] = IF i \in RowsUpTo(pos[r] - 1) THEN "completed" ELSE "pending"
        /\ artifacts[r] = 1..(pos[r] - 1) /\ produced[r] = 1..(pos[r] - 1)

\* Inside stage pos: its row is running until complete_stage.
InsideStage(r) ==
    pc[r] \in {"work", "fail_stage", "complete_stage", "record"} =>
        /\ pos[r] \in Positions
        /\ \A i \in Positions :
              rows[r][i] = IF i = RowOf(pos[r])
                           THEN IF pc[r] = "record" THEN "completed" ELSE "running"
                           ELSE IF i \in RowsUpTo(pos[r] - 1) THEN "completed" ELSE "pending"
        /\ artifacts[r] = 1..(pos[r] - 1)
        /\ produced[r] = 1..(IF pc[r] \in {"complete_stage", "record"}
                             THEN pos[r] ELSE pos[r] - 1)

\* Skipping or cancelling the remaining stages; nothing is recorded for the
\* stage that failed or was cancelled, nor for those after it.
ClosingStages(r) ==
    pc[r] \in {"skip_rest", "cancel_rest"} =>
        /\ \A i \in Positions :
              rows[r][i] \in IF i \in RowsUpTo(pos[r] - 1)
                             THEN IF pc[r] = "skip_rest" THEN {"completed", "failed", "skipped"}
                                  ELSE {"completed", "cancelled"}
                             ELSE {"pending"}
        /\ artifacts[r] \subseteq 1..(pos[r] - 1)

AllStagesDone(r) ==
    pc[r] = "mark_completed" =>
        /\ \A i \in Positions : rows[r][RowOf(i)] = "completed"
        /\ artifacts[r] = Positions /\ produced[r] = Positions

\* Only an executor that has returned leaves a terminal status behind,
\* unless reconciliation wrote the run off under it; and what a gone
\* executor left is final apart from reconciliation.
StatusFollowsExecutor ==
    \A r \in Runs :
        /\ status[r] = "absent" <=> pc[r] = "none"
        /\ (pc[r] \notin {"none", "exited"} /\ error[r] # "RUN_PROCESS_LOST") => status[r] \in Active
        /\ status[r] \in {"completed", "cancelled"} => pc[r] = "exited"

ShapeOf(r) ==
    NothingYet(r) /\ BetweenStages(r) /\ InsideStage(r) /\ ClosingStages(r) /\ AllStagesDone(r)

Shape == \A r \in Runs : ShapeOf(r)

Safety == StageOrder /\ CompletedIsWhole /\ CancelledIsClosed /\ ProvenanceTracksDisk

Inv == TypeOK /\ Shape /\ StatusFollowsExecutor /\ Safety

-----------------------------------------------------------------------------
(* The plan.                                                               *)

\* A plan has at least one stage, whatever the streams of the request.
LEMMA NumStagesNat == NumStages \in Nat /\ NumStages >= 1
<1>1. /\ Len(StreamTypes) \in Nat
      /\ Len(PerStream) \in Nat
      /\ Len(Shared) \in Nat /\ Len(Shared) > 0
  BY StagesAssumption
<1>2. \A m, n \in Nat : m * n \in Nat
  OBVIOUS
<1>3. Len(StreamTypes) * Len(PerStream) \in Nat
  BY <1>1, <1>2
<1> QED
  BY <1>1, <1>3 DEF NumStages

\* Every non-empty set of natural numbers has a least element.
LEMMA LeastNatural == ASSUME NEW T \in SUBSET Nat, T # {} PROVE \E m \in T : \A n \in T : m <= n
<1> DEFINE Below == {0..n : n \in T}
<1>1. Below \subseteq FiniteSubsetsOf(Nat)
  <2> SUFFICES ASSUME NEW n \in T PROVE IsFiniteSet(0..n) /\ 0..n \in SUBSET Nat
    BY DEF FiniteSubsetsOf
  <2> QED
    BY FS_Interval
<1>2. Below # {}
  OBVIOUS
<1>3. PICK x \in Below : \A y \in Below : <<y, x>> \notin StrictSubsetOrdering(Nat)
  <2> HIDE DEF Below
  <2> QED
    BY <1>1, <1>2, FS_StrictSubsetOrderingWellFounded, WFMin
<1>4. PICK m \in T : x = 0..m
  OBVIOUS
<1>5. ASSUME NEW n \in T, n < m PROVE FALSE
  <2>1. 0..n \subseteq 0..m /\ 0..n # 0..m /\ 0..m \in SUBSET Nat
    <3>1. m \in 0..m /\ m \notin 0..n
      BY <1>5
    <3> QED
      BY <1>5, <3>1
  <2>2. <<0..n, 0..m>> \in StrictSubsetOrdering(Nat)
    BY <2>1 DEF StrictSubsetOrdering
  <2> QED
    BY <1>3, <1>4, <2>2
<1> QED
  BY <1>5

\* What _stage_run_ids finds for a stage: the last row of its name.
LEMMA RowFound ==
    ASSUME NEW i \in Positions
    PROVE  /\ RowOf(i) \in Positions /\ Plan[RowOf(i)] = Plan[i]
           /\ \A k \in Positions : Plan[k] = Plan[i] => k <= RowOf(i)
<1> DEFINE P(j) == Plan[j] = Plan[i] /\ \A k \in Positions : Plan[k] = Plan[i] => k <= j
           T == {NumStages - k : k \in {j \in Positions : Plan[j] = Plan[i]}}
<1> USE NumStagesNat DEF Positions
<1>1. T \in SUBSET Nat /\ NumStages - i \in T
  OBVIOUS
<1>2. PICK m \in T : \A n \in T : m <= n
  <2> HIDE DEF T
  <2> QED
    BY <1>1, LeastNatural
<1>3. PICK j \in Positions : m = NumStages - j /\ Plan[j] = Plan[i]
  OBVIOUS
<1>4. \A k \in Positions : Plan[k] = Plan[i] => k <= j
  <2> SUFFICES ASSUME NEW k \in Positions, Plan[k] = Plan[i] PROVE k <= j
    OBVIOUS
  <2>1. NumStages - j <= NumStages - k
    BY <1>2, <1>3
  <2> QED
    BY <2>1
<1>5. P(j)
  BY <1>3, <1>4
<1>6. RowOf(i) \in Positions /\ P(RowOf(i))
  <2> HIDE DEF P
  <2>1. RowOf(i) = CHOOSE k \in Positions : P(k)
    BY DEF RowOf, P
  <2> QED
    BY <1>5, <2>1
<1> QED
  BY <1>6

\* Two stages share a row exactly if they share a name.
LEMMA RowsAreNames ==
    ASSUME NEW i \in Positions, NEW j \in Positions
    PROVE  RowOf(i) = RowOf(j) <=> Plan[i] = Plan[j]
<1>1. ASSUME Plan[i] = Plan[j] PROVE RowOf(i) = RowOf(j)
  <2>1. RowOf(i) <= RowOf(j) /\ RowOf(j) <= RowOf(i)
    BY <1>1, RowFound
  <2>2. RowOf(i) \in Int /\ RowOf(j) \in Int
    BY RowFound, NumStagesNat DEF Positions
  <2> QED
    BY <2>1, <2>2
<1> QED
  BY <1>1, RowFound

\* The rows written so far, as the executor moves on.
LEMMA RowsGrow ==
    /\ RowsUpTo(0) = {}
    /\ \A p \in Positions : RowsUpTo(p) = RowsUpTo(p - 1) \union {RowOf(p)}
    /\ \A i \in Positions : RowOf(i) \in RowsUpTo(NumStages)
<1> USE NumStagesNat DEF Positions, RowsUpTo
<1>1. RowsUpTo(0) = {}
  OBVIOUS
<1>2. ASSUME NEW p \in Positions PROVE RowsUpTo(p) = RowsUpTo(p - 1) \union {RowOf(p)}
  <2>1. 1..p = (1..(p - 1)) \union {p}
    OBVIOUS
  <2> QED
    BY <2>1
<1>3. ASSUME NEW i \in Positions PROVE RowOf(i) \in RowsUpTo(NumStages)
  OBVIOUS
<1> QED
  BY <1>1, <1>2, <1>3

-----------------------------------------------------------------------------
(* The invariant is inductive.                                             *)

\* The empty database, with no run accepted yet, satisfies the invariant.
LEMMA InitInv == Init => Inv
<1> SUFFICES ASSUME Init PROVE Inv
  OBVIOUS
<1> USE NumStagesNat DEF Init, Positions, NoRows
<1>1. TypeOK
  BY DEF TypeOK, RunStatus, Active, Terminal, ErrorCode, StageStatus, EventType, Location
<1>2. Shape
  BY DEF Shape, ShapeOf, NothingYet, BetweenStages, InsideStage, ClosingStages, AllStagesDone
<1>3. StatusFollowsExecutor
  BY DEF StatusFollowsExecutor
<1>4. Safety
  <2>1. \A i \in Positions : RowOf(i) \in Positions
    BY RowFound
  <2> QED
    BY <2>1 DEF Safety, StageOrder, CompletedIsWhole, CancelledIsClosed, ProvenanceTracksDisk
<1> QED
  BY <1>1, <1>2, <1>3, <1>4 DEF Inv

\* The mark_* transactions that end a run.
LEMMA FinishStep ==
    ASSUME Inv, NEW r \in Runs,
           NEW s \in Terminal, NEW event \in EventType,
           NEW code \in ErrorCode \ {"RUN_PROCESS_LOST"},
           Finish(r, s, event, code),
           pc[r] \notin {"none", "exited"},
           s = "completed" => pc[r] = "mark_completed",
           s = "cancelled" => pc[r] = "cancel_early" \/ (pc[r] = "cancel_rest" /\ pos[r] > NumStages)
    PROVE  Inv'
<1> USE NumStagesNat DEF Inv, TypeOK, Finish, Goto, Positions
<1>1. Shape'
  BY DEF Shape, ShapeOf, NothingYet, BetweenStages, InsideStage, ClosingStages, AllStagesDone
<1>2. StageOrder' /\ ProvenanceTracksDisk'
  BY DEF Safety, StageOrder, ProvenanceTracksDisk
<1>3. CASE <<status[r], s>> \in RUN_TRANSITIONS
  <2>1. /\ status' = [status EXCEPT ![r] = s]
        /\ events' = [events EXCEPT ![r] = @ \union {event}]
        /\ error' \in {error, [error EXCEPT ![r] = code]}
    BY <1>3 DEF SetStatus, Log
  <2>2. status[r] \in Active
    BY <1>3 DEF RUN_TRANSITIONS, Active
  <2>3. TypeOK'
    <3>1. error' \in [Runs -> ErrorCode]
      BY <2>1
    <3>2. events' \in [Runs -> SUBSET EventType]
      BY <2>1
    <3>3. status' \in [Runs -> RunStatus \union {"absent"}] /\ pc' \in [Runs -> Location]
      BY <2>1 DEF RunStatus, Location
    <3> QED
      BY <3>1, <3>2, <3>3
  <2>4. StatusFollowsExecutor'
    BY <2>1, <2>2 DEF StatusFollowsExecutor, Active, Terminal
  <2>5. CompletedIsWhole'
    BY <2>1 DEF Shape, ShapeOf, AllStagesDone, Safety, CompletedIsWhole
  <2>6. CancelledIsClosed'
    <3>1. ASSUME s = "cancelled", NEW i \in Positions PROVE rows[r][RowOf(i)] \notin {"pending", "running"}
      <4>1. RowOf(i) \in Positions /\ RowOf(i) \in RowsUpTo(NumStages)
        BY RowFound, RowsGrow
      <4>2. CASE pc[r] = "cancel_early"
        BY <4>1, <4>2 DEF Shape, ShapeOf, NothingYet, NoRows
      <4>3. CASE pc[r] = "cancel_rest" /\ pos[r] > NumStages
        <5>1. pos[r] - 1 = NumStages
          BY <4>3
        <5> QED
          BY <4>1, <4>3, <5>1 DEF Shape, ShapeOf, ClosingStages
      <4> QED
        BY <3>1, <4>2, <4>3
    <3> QED
      BY <2>1, <3>1 DEF Safety, CancelledIsClosed
  <2> QED
    BY <1>1, <1>2, <2>3, <2>4, <2>5, <2>6 DEF Safety
<1>4. CASE <<status[r], s>> \notin RUN_TRANSITIONS
  <2>1. UNCHANGED <<status, events, error>>
    BY <1>4
  <2>2. TypeOK'
    BY <2>1 DEF Location
  <2>3. StatusFollowsExecutor' /\ CompletedIsWhole' /\ CancelledIsClosed'
    BY <2>1 DEF StatusFollowsExecutor, Safety, CompletedIsWhole, CancelledIsClosed
  <2> QED
    BY <1>1, <1>2, <2>2, <2>3 DEF Safety
<1> QED
  BY <1>3, <1>4

\* mark_cancelled, mark_failed and mark_completed, the writes that end a run,
\* keep the invariant.
LEMMA EndingStep ==
    ASSUME Inv, NEW r \in Runs,
           mark_cancelled(r) \/ mark_failed(r) \/ mark_completed(r)
    PROVE  Inv'
<1> USE DEF Terminal, EventType, ErrorCode
<1>1. CASE mark_cancelled(r)
  <2>1. Finish(r, "cancelled", "RUN_CANCELLED", "none")
    BY <1>1 DEF mark_cancelled
  <2>2. pc[r] = "cancel_early" \/ (pc[r] = "cancel_rest" /\ pos[r] > NumStages)
    BY <1>1 DEF mark_cancelled
  <2> QED
    BY <2>1, <2>2, FinishStep
<1>2. CASE mark_failed(r)
  <2>1. PICK code \in {"stage_failure", "internal"} : Finish(r, "failed", "RUN_FAILED", code)
    BY <1>2 DEF mark_failed
  <2>2. pc[r] \in {"skip_rest", "mark_failed"}
    BY <1>2 DEF mark_failed
  <2> QED
    BY <2>1, <2>2, FinishStep
<1>3. CASE mark_completed(r)
  <2>1. Finish(r, "completed", "RUN_COMPLETED", "none") /\ pc[r] = "mark_completed"
    BY <1>3 DEF mark_completed
  <2> QED
    BY <2>1, FinishStep
<1> QED
  BY <1>1, <1>2, <1>3

\* The step in which an executor takes its queued run keeps the invariant.
LEMMA MarkRunningStep ==
    ASSUME Inv, NEW r \in Runs, mark_running(r) PROVE Inv'
<1> USE NumStagesNat DEF Inv, TypeOK, mark_running, Goto, Positions
<1>1. Shape'
  <2>1. pc'[r] \in {"create_stages", "exited"}
    OBVIOUS
  <2>2. ShapeOf(r)'
    BY <2>1 DEF Shape, ShapeOf, NothingYet, BetweenStages, InsideStage, ClosingStages, AllStagesDone
  <2>3. \A q \in Runs \ {r} : ShapeOf(q)'
    BY DEF Shape, ShapeOf, NothingYet, BetweenStages, InsideStage, ClosingStages, AllStagesDone
  <2> QED
    BY <2>2, <2>3 DEF Shape
<1>2. StageOrder' /\ ProvenanceTracksDisk'
  BY DEF Safety, StageOrder, ProvenanceTracksDisk
<1>3. CASE <<status[r], "running">> \in RUN_TRANSITIONS
  <2>1. /\ status' = [status EXCEPT ![r] = "running"]
        /\ events' = [events EXCEPT ![r] = @ \union {"RUN_STARTED"}]
        /\ heartbeat' = [heartbeat EXCEPT ![r] = "fresh"]
        /\ pc' = [pc EXCEPT ![r] = "create_stages"]
    BY <1>3 DEF SetStatus, Log
  <2>2. TypeOK'
    BY <2>1 DEF RunStatus, Active, EventType, Location
  <2>3. StatusFollowsExecutor' /\ CompletedIsWhole' /\ CancelledIsClosed'
    BY <2>1 DEF StatusFollowsExecutor, Active, Safety, CompletedIsWhole, CancelledIsClosed
  <2> QED
    BY <1>1, <1>2, <2>2, <2>3 DEF Safety
<1>4. CASE <<status[r], "running">> \notin RUN_TRANSITIONS
  <2>1. UNCHANGED <<status, events, heartbeat>> /\ pc' = [pc EXCEPT ![r] = "exited"]
    BY <1>4
  <2>2. TypeOK'
    BY <2>1 DEF Location
  <2>3. StatusFollowsExecutor' /\ CompletedIsWhole' /\ CancelledIsClosed'
    BY <2>1 DEF StatusFollowsExecutor, Safety, CompletedIsWhole, CancelledIsClosed
  <2> QED
    BY <1>1, <1>2, <2>2, <2>3 DEF Safety
<1> QED
  BY <1>3, <1>4

\* Writing the pending row of every stage keeps the invariant.
LEMMA CreateStagesStep ==
    ASSUME Inv, NEW r \in Runs, create_all_stage_runs(r) PROVE Inv'
<1> USE NumStagesNat DEF Inv, TypeOK, create_all_stage_runs, Goto, Positions
<1>1. TypeOK'
  BY DEF StageStatus, Location
<1>2. /\ pos[r] = 1 /\ artifacts[r] = {} /\ produced[r] = {}
      /\ 1..(pos[r] - 1) = {} /\ RowsUpTo(pos[r] - 1) = {}
  <2>1. pos[r] = 1 /\ artifacts[r] = {} /\ produced[r] = {}
    BY DEF Shape, ShapeOf, NothingYet
  <2>2. pos[r] - 1 = 0
    BY <2>1
  <2> QED
    BY <2>1, <2>2, RowsGrow
<1>3. Shape'
  <2>1. pc'[r] = "heartbeat" /\ rows'[r] = [i \in Positions |-> "pending"]
    OBVIOUS
  <2>2. ShapeOf(r)'
    BY <1>2, <2>1 DEF ShapeOf, NothingYet, BetweenStages, InsideStage, ClosingStages, AllStagesDone
  <2>3. \A q \in Runs \ {r} : ShapeOf(q)'
    BY DEF Shape, ShapeOf, NothingYet, BetweenStages, InsideStage, ClosingStages, AllStagesDone
  <2> QED
    BY <2>2, <2>3 DEF Shape
<1>4. \A i \in Positions : RowOf(i) \in Positions
  BY RowFound
<1>5. StatusFollowsExecutor' /\ Safety'
  BY <1>2, <1>4, SMTT(30) DEF StatusFollowsExecutor, Safety, StageOrder, CompletedIsWhole,
                              CancelledIsClosed, ProvenanceTracksDisk
<1> QED
  BY <1>1, <1>3, <1>5

\* The return of a stage, its artifact on disk and not yet recorded, keeps
\* the invariant.
LEMMA StageSucceedsStep ==
    ASSUME Inv, NEW r \in Runs, stage_succeeds(r) PROVE Inv'
<1> USE NumStagesNat DEF Inv, TypeOK, stage_succeeds, Goto, dbVars, Positions
<1>1. pos[r] \in Positions /\ artifacts[r] = 1..(pos[r] - 1) /\ produced[r] = 1..(pos[r] - 1)
  BY DEF Shape, ShapeOf, InsideStage
<1>2. (1..(pos[r] - 1)) \union {pos[r]} = 1..pos[r] /\ 1..pos[r] \subseteq Positions
  BY <1>1
<1>3. produced' = [produced EXCEPT ![r] = 1..pos[r]] /\ pc' = [pc EXCEPT ![r] = "complete_stage"]
  BY <1>1, <1>2
<1>4. TypeOK'
  BY <1>2, <1>3 DEF Location
<1>5. Shape'
  <2>1. pc'[r] = "complete_stage" /\ produced'[r] = 1..pos[r]
    BY <1>3
  <2>2. ShapeOf(r)'
    BY <1>1, <2>1 DEF Shape, ShapeOf, NothingYet, BetweenStages, InsideStage, ClosingStages, AllStagesDone
  <2>3. \A q \in Runs \ {r} : ShapeOf(q)'
    BY DEF Shape, ShapeOf, NothingYet, BetweenStages, InsideStage, ClosingStages, AllStagesDone
  <2> QED
    BY <2>2, <2>3 DEF Shape
<1>6. StatusFollowsExecutor' /\ StageOrder' /\ CompletedIsWhole' /\ CancelledIsClosed'
  BY <1>3 DEF StatusFollowsExecutor, Safety, StageOrder, CompletedIsWhole, CancelledIsClosed
<1>7. ProvenanceTracksDisk'
  BY <1>1, <1>3 DEF Safety, ProvenanceTracksDisk
<1> QED
  BY <1>4, <1>5, <1>6, <1>7 DEF Safety

\* Recording a stage's artifact, which makes recorded and produced outputs
\* agree again, keeps the invariant.
LEMMA RecordArtifactStep ==
    ASSUME Inv, NEW r \in Runs, record_artifact(r) PROVE Inv'
<1> USE NumStagesNat DEF Inv, TypeOK, record_artifact, Goto, Positions
<1>1. pos[r] \in Positions /\ artifacts[r] = 1..(pos[r] - 1) /\ produced[r] = 1..pos[r]
  BY DEF Shape, ShapeOf, InsideStage
<1>2. (1..(pos[r] - 1)) \union {pos[r]} = 1..pos[r] /\ 1..pos[r] \subseteq Positions
  BY <1>1
<1>3. /\ artifacts' = [artifacts EXCEPT ![r] = 1..pos[r]]
      /\ pos' = [pos EXCEPT ![r] = pos[r] + 1]
      /\ pc' \in {[pc EXCEPT ![r] = "heartbeat"], [pc EXCEPT ![r] = "mark_completed"]}
  BY <1>1, <1>2
<1>4. TypeOK'
  BY <1>1, <1>2, <1>3 DEF Location
<1>0. \A i \in Positions :
          rows[r][i] = IF i \in RowsUpTo(pos[r]) THEN "completed" ELSE "pending"
  <2>1. RowsUpTo(pos[r]) = RowsUpTo(pos[r] - 1) \union {RowOf(pos[r])}
    BY <1>1, RowsGrow
  <2>2. \A i \in Positions :
            rows[r][i] = IF i = RowOf(pos[r]) THEN "completed"
                         ELSE IF i \in RowsUpTo(pos[r] - 1) THEN "completed" ELSE "pending"
    BY DEF Shape, ShapeOf, InsideStage
  <2> QED
    BY <2>1, <2>2
<1>5. Shape'
  <2>1. \A i \in Positions :
            rows'[r][i] = IF i \in RowsUpTo(pos[r]) THEN "completed" ELSE "pending"
    BY <1>0
  <2>2. /\ pos'[r] = pos[r] + 1 /\ (pos[r] + 1) - 1 = pos[r]
        /\ artifacts'[r] = 1..pos[r] /\ produced'[r] = 1..pos[r]
    BY <1>1, <1>3
  <2>3. ShapeOf(r)'
    <3>1. CASE pos[r] < NumStages
      <4>1. pc'[r] = "heartbeat"
        BY <3>1
      <4> QED
        BY <1>1, <2>1, <2>2, <3>1, <4>1 DEF ShapeOf, NothingYet, BetweenStages, InsideStage, ClosingStages, AllStagesDone
    <3>2. CASE ~(pos[r] < NumStages)
      <4>1. pc'[r] = "mark_completed" /\ pos[r] = NumStages
        BY SMTT(30), <1>1, <3>2
      <4>2. \A i \in Positions : RowOf(i) \in Positions /\ RowOf(i) \in RowsUpTo(NumStages)
        BY RowFound, RowsGrow
      <4>3. \A i \in Positions : rows'[r][RowOf(i)] = "completed"
        BY <2>1, <4>1, <4>2
      <4> QED
        BY <2>2, <4>1, <4>3
        DEF ShapeOf, NothingYet, BetweenStages, InsideStage, ClosingStages, AllStagesDone
    <3> QED
      BY <3>1, <3>2
  <2>4. \A q \in Runs \ {r} : ShapeOf(q)'
    BY DEF Shape, ShapeOf, NothingYet, BetweenStages, InsideStage, ClosingStages, AllStagesDone
  <2> QED
    BY <2>3, <2>4 DEF Shape
<1>6. StatusFollowsExecutor' /\ StageOrder' /\ CompletedIsWhole' /\ CancelledIsClosed'
  BY <1>3 DEF StatusFollowsExecutor, Safety, StageOrder, CompletedIsWhole, CancelledIsClosed
<1>7. ProvenanceTracksDisk'
  <2>1. \A i \in 1..pos[r] : RowOf(i) = i => rows[r][i] = "completed"
    <3>1. \A i \in 1..pos[r] : i \in Positions /\ RowOf(i) \in RowsUpTo(pos[r])
      BY <1>1 DEF RowsUpTo
    <3> QED
      BY <1>0, <3>1
  <2> QED
    BY <1>1, <1>3, <2>1 DEF Safety, ProvenanceTracksDisk
<1> QED
  BY <1>4, <1>5, <1>6, <1>7 DEF Safety

\* A write to the row of the stage in hand keeps what the rows, the artifacts
\* and the status of a run say of each other.
LEMMA RowWritten ==
    ASSUME Inv, NEW r \in Runs, NEW s \in StageStatus,
           pos[r] \in Positions,
           SetRow(r, pos[r], s),
           status[r] \notin {"completed", "cancelled"},
           artifacts[r] \subseteq 1..(pos[r] - 1),
           s \in {"running", "completed", "failed"} => artifacts[r] = 1..(pos[r] - 1),
           UNCHANGED <<status, artifacts, produced>>
    PROVE  Safety'
<1> DEFINE here == RowOf(pos[r])
<1>1. here \in Positions /\ \A i \in Positions : RowOf(i) \in Positions
  BY RowFound
<1>2. /\ rows'[r] = [rows[r] EXCEPT ![here] = s]
      /\ \A q \in Runs \ {r} : rows'[q] = rows[q]
      /\ rows[r] \in [Positions -> StageStatus \union {"absent"}]
  BY DEF SetRow, Inv, TypeOK
<1>3. \A i \in Positions : rows'[r][i] = IF i = here THEN s ELSE rows[r][i]
  BY <1>1, <1>2
<1>4. StageOrder'
  <2> SUFFICES ASSUME NEW q \in Runs, NEW i \in Positions, NEW j \in Positions,
                      rows'[q][RowOf(j)] \in {"running", "completed", "failed"},
                      \A k \in Positions : Plan[k] = Plan[j] => i < k
               PROVE  i \in artifacts[q]
    BY DEF StageOrder
  <2>1. CASE q = r /\ RowOf(j) = here
    <3>1. Plan[j] = Plan[pos[r]]
      BY <2>1, RowsAreNames
    <3>2. i < pos[r] /\ i \in 1..NumStages
      BY <3>1 DEF Positions
    <3>3. s \in {"running", "completed", "failed"}
      BY <1>1, <1>3, <2>1
    <3> QED
      BY <2>1, <3>2, <3>3, NumStagesNat DEF Positions
  <2>2. CASE ~(q = r /\ RowOf(j) = here)
    <3>1. rows'[q][RowOf(j)] = rows[q][RowOf(j)]
      BY <1>1, <1>2, <1>3, <2>2
    <3> QED
      BY <3>1 DEF Inv, Safety, StageOrder
  <2> QED
    BY <2>1, <2>2
<1>5. ProvenanceTracksDisk'
  <2> SUFFICES ASSUME NEW q \in Runs, NEW i \in artifacts[q], RowOf(i) = i
               PROVE  rows'[q][i] = "completed"
    BY DEF Inv, Safety, ProvenanceTracksDisk
  <2>1. i \in Positions /\ rows[q][i] = "completed"
    BY DEF Inv, TypeOK, Safety, ProvenanceTracksDisk
  <2>2. CASE q = r /\ i = here
    <3>1. pos[r] <= i
      BY <2>1, <2>2, RowFound
    <3>2. i \in 1..(pos[r] - 1)
      BY <2>2
    <3> QED
      BY <3>1, <3>2, NumStagesNat DEF Positions
  <2>3. CASE ~(q = r /\ i = here)
    BY <1>2, <1>3, <2>1, <2>3
  <2> QED
    BY <2>2, <2>3
<1>6. CompletedIsWhole' /\ CancelledIsClosed'
  BY <1>2 DEF Inv, Safety, CompletedIsWhole, CancelledIsClosed
<1> QED
  BY <1>4, <1>5, <1>6 DEF Safety

\* The executor's writes to stage rows keep the invariant.
LEMMA RowStep ==
    ASSUME Inv, NEW r \in Runs,
           \/ start_stage(r) \/ complete_stage(r) \/ fail_stage(r) \/ skip_remaining(r)
           \/ cancel_stage(r) \/ cancel_remaining(r)
    PROVE  Inv'
<1> DEFINE here == RowOf(pos[r])
           Written == RowsUpTo(pos[r] - 1)
<1>1. ASSUME NEW s \in StageStatus, NEW loc \in Location,
             pc[r] \notin {"none", "exited"}, pos[r] \in Positions,
             SetRow(r, pos[r], s), Goto(r, loc), loc \notin {"none", "exited"},
             \/ loc \in {"work", "record"} /\ UNCHANGED pos
             \/ loc \in {"skip_rest", "cancel_rest"} /\ pos' = [pos EXCEPT ![r] = @ + 1],
             artifacts[r] \subseteq 1..(pos[r] - 1),
             s \in {"running", "completed", "failed"} => artifacts[r] = 1..(pos[r] - 1),
             UNCHANGED <<status, error, heartbeat, artifacts, events, produced, sweep>>,
             ASSUME \A i \in Positions : rows'[r][i] = IF i = here THEN s ELSE rows[r][i]
             PROVE  ShapeOf(r)'
      PROVE  Inv'
  <2>1. here \in Positions
    BY <1>1, RowFound
  <2>2. /\ rows'[r] = [rows[r] EXCEPT ![here] = s]
        /\ \A q \in Runs \ {r} : rows'[q] = rows[q]
    BY <1>1 DEF SetRow, Inv, TypeOK
  <2>3. TypeOK'
    <3>1. rows' \in [Runs -> [Positions -> StageStatus \union {"absent"}]]
      BY <1>1, <2>1 DEF SetRow, Inv, TypeOK
    <3>2. pos' \in [Runs -> 1..(NumStages + 1)]
      <4>1. pos[r] + 1 \in 1..(NumStages + 1)
        BY <1>1, NumStagesNat DEF Positions
      <4> QED
        BY <1>1, <4>1 DEF Inv, TypeOK
    <3>3. pc' \in [Runs -> Location]
      BY <1>1 DEF Goto, Inv, TypeOK
    <3> QED
      BY <1>1, <3>1, <3>2, <3>3 DEF Inv, TypeOK
  <2>4. StatusFollowsExecutor'
    BY <1>1 DEF Goto, Inv, TypeOK, StatusFollowsExecutor
  <2>5. Safety'
    <3>1. status[r] \notin {"completed", "cancelled"}
      BY <1>1 DEF Inv, StatusFollowsExecutor
    <3> QED
      BY <1>1, <3>1, RowWritten
  <2>6. Shape'
    <3>1. ShapeOf(r)'
      <4>1. \A i \in Positions : rows'[r][i] = IF i = here THEN s ELSE rows[r][i]
        BY <2>1, <2>2 DEF Inv, TypeOK
      <4> QED
        BY <1>1, <4>1
    <3>2. ASSUME NEW q \in Runs \ {r} PROVE ShapeOf(q)'
      <4>1. /\ rows'[q] = rows[q] /\ pos'[q] = pos[q] /\ pc'[q] = pc[q]
            /\ artifacts'[q] = artifacts[q] /\ produced'[q] = produced[q]
        BY <1>1, <2>2 DEF Goto, Inv, TypeOK
      <4> QED
        BY <4>1 DEF Inv, Shape, ShapeOf, NothingYet, BetweenStages, InsideStage, ClosingStages,
                    AllStagesDone
    <3> QED
      BY <3>1, <3>2 DEF Shape
  <2> QED
    BY <2>3, <2>4, <2>5, <2>6 DEF Inv
<1>2. ASSUME pos[r] \in Positions
      PROVE  /\ RowsUpTo(pos[r]) = Written \union {here}
             /\ pos[r] \in Nat /\ (pos[r] + 1) - 1 = pos[r]
             /\ 1..(pos[r] - 1) \subseteq 1..pos[r]
  BY <1>2, RowsGrow, NumStagesNat DEF Positions
<1> USE DEF ShapeOf, NothingYet, BetweenStages, InsideStage, ClosingStages, AllStagesDone
<1>3. CASE start_stage(r)
  <2>1. /\ pc[r] = "start_stage" /\ pos[r] \in Positions
        /\ artifacts[r] = 1..(pos[r] - 1) /\ produced[r] = 1..(pos[r] - 1)
        /\ \A i \in Positions : rows[r][i] = IF i \in Written THEN "completed" ELSE "pending"
    BY <1>3 DEF start_stage, Inv, Shape
  <2>2. pc'[r] = "work"
    BY <1>3 DEF start_stage, Goto, Inv, TypeOK
  <2> QED
    BY <1>1, <1>3, <2>1, <2>2 DEF start_stage, StageStatus, Location
<1>4. CASE complete_stage(r)
  <2>1. /\ pc[r] = "complete_stage" /\ pos[r] \in Positions
        /\ artifacts[r] = 1..(pos[r] - 1) /\ produced[r] = 1..pos[r]
        /\ \A i \in Positions :
              rows[r][i] = IF i = here THEN "running"
                           ELSE IF i \in Written THEN "completed" ELSE "pending"
    BY <1>4 DEF complete_stage, Inv, Shape
  <2>2. pc'[r] = "record"
    BY <1>4 DEF complete_stage, Goto, Inv, TypeOK
  <2> QED
    BY <1>1, <1>4, <2>1, <2>2 DEF complete_stage, StageStatus, Location
<1>5. CASE fail_stage(r)
  <2>1. /\ pc[r] = "fail_stage" /\ pos[r] \in Positions
        /\ artifacts[r] = 1..(pos[r] - 1)
        /\ \A i \in Positions :
              rows[r][i] = IF i = here THEN "running"
                           ELSE IF i \in Written THEN "completed" ELSE "pending"
    BY <1>5 DEF fail_stage, CloseStage, Inv, Shape
  <2>2. pc'[r] = "skip_rest" /\ pos'[r] = pos[r] + 1
    BY <1>5 DEF fail_stage, CloseStage, Goto, Inv, TypeOK
  <2>3. ASSUME \A i \in Positions : rows'[r][i] = IF i = here THEN "failed" ELSE rows[r][i]
        PROVE  ShapeOf(r)'
    <3>1. artifacts'[r] = artifacts[r] /\ pos'[r] - 1 = pos[r]
      BY <1>2, <1>5, <2>1, <2>2 DEF fail_stage, CloseStage
    <3> QED
      BY <1>2, <2>1, <2>2, <2>3, <3>1
  <2> QED
    BY ONLY <1>1, <1>5, <2>1, <2>2, <2>3 DEF fail_stage, CloseStage, StageStatus, Location
<1>6. CASE cancel_stage(r)
  <2>1. /\ pc[r] = "cancel_stage" /\ pos[r] \in Positions
        /\ artifacts[r] = 1..(pos[r] - 1)
        /\ \A i \in Positions : rows[r][i] = IF i \in Written THEN "completed" ELSE "pending"
    BY <1>6 DEF cancel_stage, CloseStage, Inv, Shape
  <2>2. pc'[r] = "cancel_rest" /\ pos'[r] = pos[r] + 1
    BY <1>6 DEF cancel_stage, CloseStage, Goto, Inv, TypeOK
  <2>3. ASSUME \A i \in Positions : rows'[r][i] = IF i = here THEN "cancelled" ELSE rows[r][i]
        PROVE  ShapeOf(r)'
    <3>1. artifacts'[r] = artifacts[r] /\ pos'[r] - 1 = pos[r]
      BY <1>2, <1>6, <2>1, <2>2 DEF cancel_stage, CloseStage
    <3> QED
      BY <1>2, <2>1, <2>2, <2>3, <3>1
  <2> QED
    BY ONLY <1>1, <1>6, <2>1, <2>2, <2>3 DEF cancel_stage, CloseStage, StageStatus, Location
<1>7. CASE skip_remaining(r) \/ cancel_remaining(r)
  <2>1. PICK from \in {"skip_rest", "cancel_rest"} :
            CloseStage(r, from, IF from = "skip_rest" THEN "skipped" ELSE "cancelled", from)
    BY <1>7 DEF skip_remaining, cancel_remaining
  <2>2. /\ pc[r] = from /\ pos[r] \in Positions
        /\ artifacts[r] \subseteq 1..(pos[r] - 1)
        /\ \A i \in Positions :
              rows[r][i] \in IF i \in Written
                             THEN IF from = "skip_rest" THEN {"completed", "failed", "skipped"}
                                  ELSE {"completed", "cancelled"}
                             ELSE {"pending"}
    BY <2>1, NumStagesNat DEF CloseStage, Inv, Shape, TypeOK, Positions
  <2>3. pc'[r] = from /\ pos'[r] = pos[r] + 1
    BY <2>1 DEF CloseStage, Goto, Inv, TypeOK
  <2> QED
    BY <1>1, <1>2, <2>1, <2>2, <2>3, ZenonT(30) DEF CloseStage, StageStatus, Location
<1> QED
  BY <1>3, <1>4, <1>5, <1>6, <1>7

\* One row rewritten by the sweep of a restarting process keeps the
\* invariant.
LEMMA ReconcileRowStep ==
    ASSUME Inv, NEW r \in Runs, reconcile_row(r) PROVE Inv'
<1> USE NumStagesNat DEF Inv, TypeOK, reconcile_row, Positions
<1>1. Shape'
  BY DEF Shape, ShapeOf, NothingYet, BetweenStages, InsideStage, ClosingStages, AllStagesDone
<1>2. StageOrder' /\ ProvenanceTracksDisk'
  BY DEF Safety, StageOrder, ProvenanceTracksDisk
<1>3. CASE status[r] \in Live /\ heartbeat[r] # "fresh"
  <2>1. /\ status' = [status EXCEPT ![r] = "failed"]
        /\ error' = [error EXCEPT ![r] = "RUN_PROCESS_LOST"]
        /\ events' = [events EXCEPT ![r] = @ \union {"RUN_FAILED"}]
    BY <1>3 DEF SetStatus, Log
  <2>2. TypeOK'
    BY <2>1 DEF RunStatus, Terminal, ErrorCode, EventType
  <2>3. StatusFollowsExecutor' /\ CompletedIsWhole' /\ CancelledIsClosed'
    BY <1>3, <2>1 DEF StatusFollowsExecutor, Live, Safety, CompletedIsWhole, CancelledIsClosed
  <2> QED
    BY <1>1, <1>2, <2>2, <2>3 DEF Safety
<1>4. CASE ~(status[r] \in Live /\ heartbeat[r] # "fresh")
  <2>1. UNCHANGED <<status, error, events>>
    BY <1>4
  <2> QED
    BY <1>1, <1>2, <2>1 DEF StatusFollowsExecutor, Safety, CompletedIsWhole, CancelledIsClosed
<1> QED
  BY <1>3, <1>4

\* Every step of every actor keeps the invariant.
LEMMA NextInv == ASSUME Inv, [Next]_vars PROVE Inv'
<1> USE NumStagesNat DEF Inv, Positions, TypeOK
<1> USE DEF Shape, ShapeOf, NothingYet, BetweenStages, InsideStage, ClosingStages, AllStagesDone,
            StatusFollowsExecutor, Safety, StageOrder, CompletedIsWhole, CancelledIsClosed,
            ProvenanceTracksDisk, NoRows
<1> USE DEF RunStatus, Active, Live, Terminal, ErrorCode, StageStatus, EventType, Location
<1>1. ASSUME NEW r \in Runs, Client(r) PROVE Inv'
  <2>1. CASE create_run(r)
    BY <2>1 DEF create_run, SetStatus, Log, Goto
  <2>2. CASE UploadFails(r)
    BY <2>2 DEF UploadFails, Goto, dbVars
  <2>3. CASE request_cancel(r)
    BY <2>3 DEF request_cancel, SetStatus, Log
  <2> QED
    BY <1>1, <2>1, <2>2, <2>3 DEF Client
<1>2. ASSUME NEW r \in Runs, Executor(r) PROVE Inv'
  <2>1. CASE begin_execution(r)
    BY <2>1 DEF begin_execution, Goto, dbVars
  <2>2. CASE mark_running(r)
    BY <2>2, MarkRunningStep
  <2>3. CASE mark_cancelled(r) \/ mark_failed(r) \/ mark_completed(r)
    BY <2>3, EndingStep
  <2>4. CASE create_all_stage_runs(r)
    BY <2>4, CreateStagesStep
  <2>5. CASE touch_heartbeat(r)
    BY SMTT(30), <2>5 DEF touch_heartbeat, Goto
  <2>6. CASE check_cancellation(r)
    BY <2>6 DEF check_cancellation, Goto, dbVars
  <2>7. CASE set_current_stage(r)
    BY <2>7 DEF set_current_stage, SetStatus, Goto
  <2>8. CASE \/ start_stage(r) \/ complete_stage(r) \/ fail_stage(r) \/ skip_remaining(r)
             \/ cancel_stage(r) \/ cancel_remaining(r)
    BY ONLY <2>8, Inv, RowStep
  <2>9. CASE stage_succeeds(r)
    BY <2>9, StageSucceedsStep
  <2>10. CASE stage_raises(r)
    BY SMTT(30), <2>10 DEF stage_raises, Goto, dbVars
  <2>11. CASE record_artifact(r)
    BY <2>11, RecordArtifactStep
  <2> QED
    BY <1>2, <2>1, <2>2, <2>3, <2>4, <2>5, <2>6, <2>7, <2>8, <2>9, <2>10, <2>11 DEF Executor
<1>3. ASSUME NEW r \in Runs, Disturbance(r) PROVE Inv'
  <2>1. CASE catalog_busy(r)
    BY <2>1 DEF catalog_busy, Finishing, Goto, dbVars
  <2>2. CASE crash(r)
    BY <2>2 DEF crash, Goto, dbVars
  <2>3. CASE heartbeat_ages(r)
    BY <2>3 DEF heartbeat_ages
  <2> QED
    BY <1>3, <2>1, <2>2, <2>3 DEF Disturbance
<1>4. CASE Reconcile
  <2>1. CASE reconcile_scan
    BY <2>1 DEF reconcile_scan, find_stale_running_runs, dbVars
  <2>2. ASSUME NEW r \in Runs, reconcile_row(r) PROVE Inv'
    BY <2>2, ReconcileRowStep
  <2>3. CASE reconcile_aborts
    BY <2>3 DEF reconcile_aborts, dbVars
  <2> QED
    BY <1>4, <2>1, <2>2, <2>3 DEF Reconcile
<1>5. CASE UNCHANGED vars
  BY <1>5 DEF vars
<1> QED
  BY <1>1, <1>2, <1>3, <1>4, <1>5 DEF Next

\* The invariant holds in every reachable state.
THEOREM Invariance == Spec => []Inv
<1>1. Init => Inv
  BY InitInv
<1>2. Inv /\ [Next]_vars => Inv'
  BY NextInv
<1> QED
  BY <1>1, <1>2, PTL DEF Spec

-----------------------------------------------------------------------------
(* What it gives.                                                          *)

\* The run tables and the executor's locals always have their types.
THEOREM TypeCorrect == Spec => []TypeOK
<1>1. Inv => TypeOK
  BY DEF Inv
<1> QED
  BY <1>1, Invariance, PTL

\* No interleaving of executors, clients, reconciliation, lock timeouts and
\* crashes lets _run_stage enter a stage before all earlier ones completed.
THEOREM StagesInOrder == Spec => []StageOrder
<1>1. Inv => StageOrder
  BY DEF Inv, Safety
<1> QED
  BY <1>1, Invariance, PTL

\* mark_completed never shows a run as completed with a stage or an artifact
\* missing, and nothing undoes that afterwards.
THEOREM CompletedRunsAreWhole == Spec => []CompletedIsWhole
<1>1. Inv => CompletedIsWhole
  BY DEF Inv, Safety
<1> QED
  BY <1>1, Invariance, PTL

\* mark_cancelled never shows a run as cancelled with a stage still open.
THEOREM CancelledRunsAreClosed == Spec => []CancelledIsClosed
<1>1. Inv => CancelledIsClosed
  BY DEF Inv, Safety
<1> QED
  BY <1>1, Invariance, PTL

\* run_artifacts is at most one artifact behind what the stages published.
THEOREM ProvenanceIsAccurate == Spec => []ProvenanceTracksDisk
<1>1. Inv => ProvenanceTracksDisk
  BY DEF Inv, Safety
<1> QED
  BY <1>1, Invariance, PTL

-----------------------------------------------------------------------------
(* Capacity.  Only create_run adds to the runs that hold a slot, and it     *)
(* does so under the lock it counted them with; the one other write that    *)
(* makes a run active, set_current_stage, finds it active already unless    *)
(* reconciliation had written it off.                                       *)

Holding == {r \in Runs : status[r] \in Active /\ error[r] # "RUN_PROCESS_LOST"}

\* Only create_run adds to the active runs that count against
\* PIPELINE_RUN_MAX_ACTIVE.
LEMMA NobodyElseTakesASlot ==
    ASSUME Inv, [Next]_vars, \A r \in Runs : ~create_run(r)
    PROVE  Holding' \subseteq Holding
<1> USE DEF Inv, TypeOK, Holding, Active
<1>1. ASSUME NEW r \in Runs, Client(r) PROVE Holding' \subseteq Holding
  BY <1>1 DEF Client, UploadFails, request_cancel, SetStatus, dbVars
<1>2. ASSUME NEW r \in Runs, NEW s \in Terminal, NEW event, NEW code, Finish(r, s, event, code)
      PROVE  Holding' \subseteq Holding
  <2>1. CASE <<status[r], s>> \in RUN_TRANSITIONS
    <3>1. status' = [status EXCEPT ![r] = s] /\ \A q \in Runs \ {r} : error'[q] = error[q]
      BY <1>2, <2>1 DEF Finish, SetStatus
    <3> QED
      BY <3>1 DEF Terminal
  <2>2. CASE <<status[r], s>> \notin RUN_TRANSITIONS
    BY <1>2, <2>2 DEF Finish
  <2> QED
    BY <2>1, <2>2
<1>3. ASSUME NEW r \in Runs, Executor(r) PROVE Holding' \subseteq Holding
  <2>1. CASE begin_execution(r) \/ check_cancellation(r) \/ stage_succeeds(r) \/ stage_raises(r)
    BY <2>1 DEF begin_execution, check_cancellation, stage_succeeds, stage_raises, dbVars
  <2>2. CASE mark_running(r)
    <3>1. CASE <<status[r], "running">> \in RUN_TRANSITIONS
      BY <2>2, <3>1 DEF mark_running, SetStatus, RUN_TRANSITIONS
    <3>2. CASE <<status[r], "running">> \notin RUN_TRANSITIONS
      BY <2>2, <3>2 DEF mark_running
    <3> QED
      BY <3>1, <3>2
  <2>3. CASE mark_cancelled(r) \/ mark_failed(r) \/ mark_completed(r)
    <3>1. PICK s \in Terminal, event \in EventType, code \in ErrorCode : Finish(r, s, event, code)
      BY <2>3 DEF mark_cancelled, mark_failed, mark_completed, Terminal, EventType, ErrorCode
    <3> QED
      BY <1>2, <3>1
  <2>4. CASE set_current_stage(r)
    BY <2>4 DEF set_current_stage, SetStatus, StatusFollowsExecutor
  <2>5. CASE create_all_stage_runs(r) \/ touch_heartbeat(r) \/ start_stage(r)
             \/ complete_stage(r) \/ record_artifact(r)
    BY <2>5 DEF create_all_stage_runs, touch_heartbeat, start_stage, complete_stage,
                record_artifact
  <2>6. CASE fail_stage(r) \/ skip_remaining(r) \/ cancel_stage(r) \/ cancel_remaining(r)
    BY <2>6 DEF fail_stage, skip_remaining, cancel_stage, cancel_remaining, CloseStage
  <2> QED
    BY <1>3, <2>1, <2>2, <2>3, <2>4, <2>5, <2>6 DEF Executor
<1>4. ASSUME NEW r \in Runs, Disturbance(r) PROVE Holding' \subseteq Holding
  BY <1>4 DEF Disturbance, catalog_busy, crash, heartbeat_ages, dbVars
<1>5. CASE Reconcile
  <2>1. ASSUME NEW r \in Runs, reconcile_row(r) PROVE Holding' \subseteq Holding
    BY <2>1 DEF reconcile_row, SetStatus
  <2>2. CASE reconcile_scan \/ reconcile_aborts
    BY <2>2 DEF reconcile_scan, reconcile_aborts, dbVars
  <2> QED
    BY <1>5, <2>1, <2>2 DEF Reconcile
<1>6. CASE UNCHANGED vars
  BY <1>6 DEF vars
<1> QED
  BY <1>1, <1>3, <1>4, <1>5, <1>6 DEF Next

\* However many clients call create_run, and whatever happens to the runs
\* afterwards, those that are active and not written off never exceed
\* MAX_LOCAL_PIPELINE_RUNS.
THEOREM CapacityIsRespected == Spec => []CapacityRespected
<1>1. IsFiniteSet(Holding) /\ IsFiniteSet({r \in Runs : status[r] \in Active})
  BY RunsAssumption, FS_Subset DEF Holding
<1>2. CapacityRespected <=> Cardinality(Holding) <= MaxActive
  BY DEF CapacityRespected, Holding
<1>3. Init => CapacityRespected
  <2> SUFFICES ASSUME Init PROVE CapacityRespected
    OBVIOUS
  <2>1. Holding = {}
    BY DEF Init, Holding, Active
  <2> QED
    BY <1>2, <2>1, FS_EmptySet, RunsAssumption
<1>4. ASSUME Inv, [Next]_vars, CapacityRespected PROVE CapacityRespected'
  <2>1. Cardinality(Holding') <= Cardinality(Holding) \/ Cardinality(Holding') <= MaxActive
    <3>1. CASE \A r \in Runs : ~create_run(r)
      BY <1>1, <1>4, <3>1, NobodyElseTakesASlot, FS_Subset
    <3>2. CASE \E r \in Runs : create_run(r)
      <4>1. PICK r \in Runs : create_run(r)
        BY <3>2
      <4> DEFINE A == {q \in Runs : status[q] \in Active}
      <4>2. Holding' \subseteq A \union {r}
        BY <1>4, <4>1 DEF Inv, TypeOK, Holding, create_run, SetStatus
      <4>3. IsFiniteSet(A) /\ Cardinality(A) \in Nat /\ Cardinality(A) < MaxActive
        BY <1>1, <4>1, FS_CardinalityType DEF create_run, count_active_runs
      <4> HIDE DEF A
      <4>4. IsFiniteSet(A \union {r}) /\ Cardinality(A \union {r}) <= Cardinality(A) + 1
        <5>1. /\ IsFiniteSet(A \union {r})
              /\ Cardinality(A \union {r}) = IF r \in A THEN Cardinality(A) ELSE Cardinality(A) + 1
          BY ONLY <4>3, FS_AddElement
        <5> QED
          BY <4>3, <5>1
      <4>5. Cardinality(A \union {r}) \in Nat /\ Cardinality(Holding') <= Cardinality(A \union {r})
            /\ Cardinality(Holding') \in Nat
        BY <4>2, <4>4, FS_Subset, FS_CardinalityType
      <4> QED
        BY <4>3, <4>4, <4>5, RunsAssumption
    <3> QED
      BY <3>1, <3>2
  <2>2. Cardinality(Holding) \in Nat /\ Cardinality(Holding') \in Nat
    <3>1. IsFiniteSet(Holding')
      BY RunsAssumption, FS_Subset DEF Holding
    <3> QED
      BY <1>1, <3>1, FS_CardinalityType
  <2>3. CapacityRespected' <=> Cardinality(Holding') <= MaxActive
    BY DEF CapacityRespected, Holding
  <2> QED
    BY <1>2, <1>4, <2>1, <2>2, <2>3, RunsAssumption
<1> QED
  BY <1>3, <1>4, Invariance, PTL DEF Spec

-----------------------------------------------------------------------------
(* Action properties.                                                      *)

\* A row written before the executor reaches position p is that of an earlier
\* stage; if it is the row of p as well, the two share their name.
LEMMA WrittenTwice ==
    ASSUME NEW p \in Positions, RowOf(p) \in RowsUpTo(p - 1)
    PROVE  Repeated(RowOf(p))
<1>1. PICK k \in 1..(p - 1) : RowOf(k) = RowOf(p)
  BY DEF RowsUpTo
<1>2. k \in Positions /\ k # p
  BY NumStagesNat DEF Positions
<1>3. /\ RowOf(p) \in Positions /\ Plan[RowOf(p)] = Plan[p] /\ Plan[k] = Plan[p]
  BY <1>1, <1>2, RowFound, RowsAreNames
<1>4. k # RowOf(p)
  <2>1. p <= RowOf(p)
    BY RowFound
  <2> QED
    BY <2>1, <1>1, NumStagesNat DEF Positions
<1> QED
  BY <1>2, <1>3, <1>4 DEF Repeated

\* How a stage row may move.
Moves(i, from, to) ==
    <<from, to>> \in STAGE_TRANSITIONS \/ (Repeated(i) /\ <<from, to>> \in TakenOverBy)

\* Whatever step changes an existing stage row, it is a pair of the table
\* STAGE_TRANSITIONS of state_machine.py, or the row changes hands between
\* streams of one sensor_type.
LEMMA LegalStageStep ==
    ASSUME Inv, [Next]_vars, NEW r \in Runs, NEW i \in Positions,
           rows[r][i] # "absent", rows'[r][i] # rows[r][i]
    PROVE  Moves(i, rows[r][i], rows'[r][i])
<1> DEFINE Goal == Moves(i, rows[r][i], rows'[r][i])
<1> USE DEF Inv, TypeOK
<1>1. ASSUME NEW q \in Runs, NEW s, pos[q] \in Positions, SetRow(q, pos[q], s),
             Moves(RowOf(pos[q]), rows[q][RowOf(pos[q])], s)
      PROVE  Goal
  BY <1>1, RowFound DEF SetRow
<1>2. ASSUME NEW q \in Runs, Executor(q) PROVE Goal
  <2> DEFINE here == RowOf(pos[q])
             Written == RowsUpTo(pos[q] - 1)
  <2>0. pos[q] \in Positions => here \in Positions /\ (here \in Written => Repeated(here))
    BY RowFound, WrittenTwice
  <2> USE DEF Shape, ShapeOf
  <2>1. CASE create_all_stage_runs(q)
    BY <2>1 DEF create_all_stage_runs, NothingYet, NoRows
  <2>2. CASE start_stage(q)
    <3>1. pos[q] \in Positions /\ rows[q][here] = IF here \in Written THEN "completed" ELSE "pending"
      BY <2>0, <2>2 DEF start_stage, BetweenStages
    <3>2. Moves(here, rows[q][here], "running")
      BY <2>0, <3>1 DEF Moves, STAGE_TRANSITIONS, TakenOverBy
    <3> QED
      BY <1>1, <2>2, <3>1, <3>2 DEF start_stage
  <2>3. CASE complete_stage(q)
    <3>1. pos[q] \in Positions /\ rows[q][here] = "running"
      BY <2>0, <2>3 DEF complete_stage, InsideStage
    <3>2. Moves(here, rows[q][here], "completed")
      BY <3>1 DEF Moves, STAGE_TRANSITIONS
    <3> QED
      BY <1>1, <2>3, <3>1, <3>2 DEF complete_stage
  <2>4. CASE fail_stage(q)
    <3>1. pos[q] \in Positions /\ rows[q][here] = "running"
      BY <2>0, <2>4 DEF fail_stage, CloseStage, InsideStage
    <3>2. Moves(here, rows[q][here], "failed")
      BY <3>1 DEF Moves, STAGE_TRANSITIONS
    <3> QED
      BY <1>1, <2>4, <3>1, <3>2 DEF fail_stage, CloseStage
  <2>5. CASE cancel_stage(q)
    <3>1. pos[q] \in Positions /\ rows[q][here] = IF here \in Written THEN "completed" ELSE "pending"
      BY <2>0, <2>5 DEF cancel_stage, CloseStage, BetweenStages
    <3>2. Moves(here, rows[q][here], "cancelled")
      BY <2>0, <3>1 DEF Moves, STAGE_TRANSITIONS, TakenOverBy
    <3> QED
      BY <1>1, <2>5, <3>1, <3>2 DEF cancel_stage, CloseStage
  <2>6. CASE skip_remaining(q)
    <3>1. /\ pos[q] \in Positions
          /\ rows[q][here] \in IF here \in Written THEN {"completed", "failed", "skipped"}
                               ELSE {"pending"}
      BY <2>0, <2>6, NumStagesNat DEF skip_remaining, CloseStage, ClosingStages, Positions
    <3>2. rows[q][here] = "skipped" \/ Moves(here, rows[q][here], "skipped")
      BY <2>0, <3>1 DEF Moves, STAGE_TRANSITIONS, TakenOverBy
    <3> QED
      BY <1>1, <2>0, <2>6, <3>1, <3>2 DEF skip_remaining, CloseStage, SetRow
  <2>7. CASE cancel_remaining(q)
    <3>1. /\ pos[q] \in Positions
          /\ rows[q][here] \in IF here \in Written THEN {"completed", "cancelled"} ELSE {"pending"}
      BY <2>0, <2>7, NumStagesNat DEF cancel_remaining, CloseStage, ClosingStages, Positions
    <3>2. rows[q][here] = "cancelled" \/ Moves(here, rows[q][here], "cancelled")
      BY <2>0, <3>1 DEF Moves, STAGE_TRANSITIONS, TakenOverBy
    <3> QED
      BY <1>1, <2>0, <2>7, <3>1, <3>2 DEF cancel_remaining, CloseStage, SetRow
  <2>8. CASE rows' = rows
    BY <2>8
  <2> QED
    BY <1>2, <2>1, <2>2, <2>3, <2>4, <2>5, <2>6, <2>7, <2>8
    DEF Executor, begin_execution, mark_running, mark_cancelled, mark_failed, mark_completed, Finish,
        touch_heartbeat, check_cancellation, set_current_stage, stage_succeeds, stage_raises,
        record_artifact, dbVars
<1>3. ASSUME NEW q \in Runs, Client(q) \/ Disturbance(q) PROVE rows' = rows
  BY <1>3 DEF Client, create_run, UploadFails, request_cancel, Disturbance, catalog_busy, crash,
              heartbeat_ages, dbVars
<1>4. Reconcile => rows' = rows
  BY DEF Reconcile, reconcile_scan, reconcile_row, reconcile_aborts, dbVars
<1>5. UNCHANGED vars => rows' = rows
  BY DEF vars
<1> QED
  BY <1>2, <1>3, <1>4, <1>5 DEF Next

\* The stage writes of _run_stage, made without validate_stage_transition,
\* stay within _STAGE_TRANSITIONS; where streams share a sensor_type and hence
\* a row, it is only reopened for the later of them.
THEOREM StageRowsMoveLegally == Spec => StageTransitionsLegal
<1> DEFINE Legal ==
        \A r \in Runs : \A i \in Positions :
            (rows[r][i] # "absent" /\ rows'[r][i] # rows[r][i]) =>
                \/ <<rows[r][i], rows'[r][i]>> \in STAGE_TRANSITIONS
                \/ Repeated(i) /\ <<rows[r][i], rows'[r][i]>> \in TakenOverBy
<1>1. Inv /\ [Next]_vars => [Legal]_rows
  BY LegalStageStep DEF Moves
<1>2. StageTransitionsLegal <=> [][Legal]_rows
  BY DEF StageTransitionsLegal
<1> HIDE DEF Legal
<1> QED
  BY <1>1, <1>2, Invariance, PTL DEF Spec

\* Once a client sees `cancelled`, the run's executor is gone: no artifact of
\* the run is published or recorded afterwards.
THEOREM CancelledRunsAreQuiet == Spec => CancelledIsQuiet
<1> DEFINE Quiet ==
        \A r \in Runs : status[r] = "cancelled" =>
            produced'[r] = produced[r] /\ artifacts'[r] = artifacts[r]
<1>1. Inv /\ [Next]_vars => [Quiet]_vars
  <2> SUFFICES ASSUME Inv, Next, NEW r \in Runs, status[r] = "cancelled"
               PROVE  produced'[r] = produced[r] /\ artifacts'[r] = artifacts[r]
    OBVIOUS
  <2>1. pc[r] = "exited"
    BY DEF Inv, StatusFollowsExecutor
  <2>2. ASSUME NEW q \in Runs, stage_succeeds(q) \/ record_artifact(q)
        PROVE  produced'[r] = produced[r] /\ artifacts'[r] = artifacts[r]
    BY <2>1, <2>2 DEF Inv, TypeOK, stage_succeeds, record_artifact, dbVars
  <2>3. CASE UNCHANGED <<produced, artifacts>>
    BY <2>3
  <2> QED
    BY ZenonT(30), <2>2, <2>3
    DEF Next, Client, create_run, UploadFails, request_cancel, Executor, begin_execution,
        mark_running, mark_cancelled, mark_failed, mark_completed, Finish, create_all_stage_runs,
        touch_heartbeat, check_cancellation, set_current_stage, start_stage, stage_raises,
        complete_stage, fail_stage, skip_remaining, cancel_stage, cancel_remaining, CloseStage,
        Disturbance, catalog_busy, crash, heartbeat_ages, Reconcile, reconcile_scan, reconcile_row,
        reconcile_aborts, dbVars
<1>2. CancelledIsQuiet <=> [][Quiet]_vars
  BY DEF CancelledIsQuiet
<1> HIDE DEF Quiet
<1> QED
  BY <1>1, <1>2, Invariance, PTL DEF Spec

\* reconcile_row reads the row again inside its transaction: a heartbeat that
\* landed after the scan saves the run, and no other transaction writes
\* RUN_PROCESS_LOST.
THEOREM HealthyRunsAreKept == Spec => HealthyRunsAreNotLost
<1> DEFINE Kept ==
        \A r \in Runs : (heartbeat[r] = "fresh" /\ error[r] # "RUN_PROCESS_LOST")
            => error'[r] # "RUN_PROCESS_LOST"
<1>1. Inv /\ [Next]_vars => [Kept]_vars
  <2> SUFFICES ASSUME Inv, Next, NEW r \in Runs, heartbeat[r] = "fresh",
                      error[r] # "RUN_PROCESS_LOST"
               PROVE  error'[r] # "RUN_PROCESS_LOST"
    OBVIOUS
  <2>1. ASSUME NEW q \in Runs, NEW s, NEW event, NEW code \in ErrorCode \ {"RUN_PROCESS_LOST"},
               Finish(q, s, event, code)
        PROVE  error'[r] # "RUN_PROCESS_LOST"
    BY <2>1 DEF Inv, TypeOK, Finish
  <2>2. ASSUME NEW q \in Runs, mark_cancelled(q) \/ mark_failed(q) \/ mark_completed(q)
        PROVE  error'[r] # "RUN_PROCESS_LOST"
    <3>1. PICK s \in Terminal, event \in EventType, code \in ErrorCode \ {"RUN_PROCESS_LOST"} :
              Finish(q, s, event, code)
      BY <2>2 DEF mark_cancelled, mark_failed, mark_completed, Terminal, EventType, ErrorCode
    <3> QED
      BY <2>1, <3>1
  <2>3. ASSUME NEW q \in Runs, reconcile_row(q) PROVE error'[r] # "RUN_PROCESS_LOST"
    BY <2>3 DEF Inv, TypeOK, reconcile_row
  <2>4. CASE UNCHANGED error
    BY <2>4
  <2> QED
    BY ZenonT(30), <2>2, <2>3, <2>4
    DEF Next, Client, create_run, UploadFails, request_cancel, Executor, begin_execution,
        mark_running, create_all_stage_runs, touch_heartbeat, check_cancellation,
        set_current_stage, start_stage, stage_succeeds, stage_raises, complete_stage,
        record_artifact, fail_stage, skip_remaining, cancel_stage, cancel_remaining, CloseStage,
        Disturbance, catalog_busy, crash, heartbeat_ages, Reconcile, reconcile_scan,
        reconcile_aborts, dbVars
<1>2. HealthyRunsAreNotLost <=> [][Kept]_vars
  BY DEF HealthyRunsAreNotLost
<1> HIDE DEF Kept
<1> QED
  BY <1>1, <1>2, Invariance, PTL DEF Spec

-----------------------------------------------------------------------------
(* The event log.  EventLogTellsTheStory is not inductive: that a          *)
(* cancelled run's log holds CANCEL_REQUESTED follows from the status it   *)
(* was cancelled from, and that a run which published has RUN_STARTED from *)
(* where its executor is.                                                  *)

\* Locations an executor only reaches through mark_running.
Started == Location \ {"none", "accepted", "cancel_early", "mark_running", "exited"}

\* What the log holds before the run has ended.
LogSoFar ==
    \A r \in Runs :
        /\ status[r] = "cancel_requested" => "CANCEL_REQUESTED" \in events[r]
        /\ pc[r] \in Started => "RUN_STARTED" \in events[r]

LogInv == EventLogTellsTheStory /\ LogSoFar

\* A mark_* transaction writes a terminal status and its event together.
LEMMA FinishLogs ==
    ASSUME TypeOK, LogInv, NEW r \in Runs, NEW code,
           \/ Finish(r, "cancelled", "RUN_CANCELLED", code)
           \/ Finish(r, "failed", "RUN_FAILED", code)
           \/ Finish(r, "completed", "RUN_COMPLETED", code)
    PROVE  LogInv'
<1> USE DEF TypeOK, LogInv, EventLogTellsTheStory, LogSoFar, Started, Finish, SetStatus, Log, Goto
<1>1. PICK end \in {<<"cancelled", "RUN_CANCELLED">>, <<"failed", "RUN_FAILED">>,
                    <<"completed", "RUN_COMPLETED">>} : Finish(r, end[1], end[2], code)
  OBVIOUS
<1>2. /\ pc' = [pc EXCEPT ![r] = "exited"]
      /\ produced' = produced
  BY <1>1
<1>3. CASE <<status[r], end[1]>> \in RUN_TRANSITIONS
  <2>1. /\ status' = [status EXCEPT ![r] = end[1]]
        /\ events' = [events EXCEPT ![r] = events[r] \union {end[2]}]
    BY <1>1, <1>3
  <2>2. end[1] = "cancelled" => status[r] = "cancel_requested"
    BY <1>1, <1>3 DEF RUN_TRANSITIONS
  <2> QED
    BY <1>1, <1>2, <2>1, <2>2
<1>4. CASE <<status[r], end[1]>> \notin RUN_TRANSITIONS
  <2>1. UNCHANGED <<status, events>>
    BY <1>1, <1>4
  <2> QED
    BY <1>2, <2>1
<1> QED
  BY <1>3, <1>4

\* Every step of every actor keeps the log in agreement with the rows.
LEMMA NextLogs == ASSUME TypeOK, LogInv, [Next]_vars PROVE LogInv'
<1> USE DEF TypeOK, LogInv, EventLogTellsTheStory, LogSoFar, Started, Goto, SetStatus, Log
<1>0. ASSUME NEW r \in Runs, NEW loc, pc' = [pc EXCEPT ![r] = loc],
             loc \in Started => pc[r] \in Started,
             UNCHANGED <<status, events, produced>>
      PROVE  LogInv'
  BY <1>0
<1>1. ASSUME NEW r \in Runs, Client(r) PROVE LogInv'
  <2>1. CASE create_run(r)
    BY <2>1 DEF create_run
  <2>2. CASE UploadFails(r)
    BY <2>2, <1>0 DEF UploadFails, dbVars
  <2>3. CASE request_cancel(r)
    BY <2>3 DEF request_cancel
  <2> QED
    BY <1>1, <2>1, <2>2, <2>3 DEF Client
<1>2. ASSUME NEW r \in Runs, Executor(r) PROVE LogInv'
  <2>1. CASE begin_execution(r)
    BY <2>1 DEF begin_execution, dbVars
  <2>2. CASE stage_succeeds(r)
    <3>1. pc[r] \in Started
      BY <2>2 DEF stage_succeeds, Location
    <3> QED
      BY <2>2, <3>1 DEF stage_succeeds, dbVars
  <2>3. CASE mark_running(r)
    <3>1. CASE <<status[r], "running">> \in RUN_TRANSITIONS
      BY SMTT(30), <2>3, <3>1 DEF mark_running
    <3>2. CASE <<status[r], "running">> \notin RUN_TRANSITIONS
      BY <1>0, <2>3, <3>2 DEF mark_running
    <3> QED
      BY <3>1, <3>2
  <2>4. CASE mark_cancelled(r) \/ mark_failed(r) \/ mark_completed(r)
    BY <2>4, FinishLogs DEF mark_cancelled, mark_failed, mark_completed
  <2>5. CASE set_current_stage(r)
    BY <2>5 DEF set_current_stage, Location
  <2>6. CASE create_all_stage_runs(r) \/ touch_heartbeat(r) \/ check_cancellation(r)
             \/ start_stage(r) \/ stage_raises(r) \/ complete_stage(r) \/ record_artifact(r)
    <3>1. /\ \E loc : pc' = [pc EXCEPT ![r] = loc]
          /\ UNCHANGED <<status, events, produced>>
          /\ pc[r] \in Started
      BY <2>6 DEF create_all_stage_runs, touch_heartbeat, check_cancellation, start_stage,
                  stage_raises, complete_stage, record_artifact, dbVars, Location
    <3> QED
      BY <1>0, <3>1
  <2>7. CASE fail_stage(r) \/ skip_remaining(r) \/ cancel_stage(r) \/ cancel_remaining(r)
    <3>1. /\ \E loc : pc' = [pc EXCEPT ![r] = loc]
          /\ UNCHANGED <<status, events, produced>>
          /\ pc[r] \in Started
      BY <2>7 DEF fail_stage, skip_remaining, cancel_stage, cancel_remaining, CloseStage, Location
    <3> QED
      BY <1>0, <3>1
  <2> QED
    BY <1>2, <2>1, <2>2, <2>3, <2>4, <2>5, <2>6, <2>7 DEF Executor
<1>3. ASSUME NEW r \in Runs, Disturbance(r) PROVE LogInv'
  <2>1. CASE catalog_busy(r)
    <3>1. /\ \E loc \in {"exited", "mark_failed"} :
                /\ pc' = [pc EXCEPT ![r] = loc]
                /\ loc = "mark_failed" => pc[r] \in Started
          /\ UNCHANGED <<status, events, produced>>
      BY <2>1 DEF catalog_busy, Finishing, dbVars, Location
    <3> QED
      BY <1>0, <3>1
  <2>2. CASE crash(r)
    BY <1>0, <2>2 DEF crash, dbVars
  <2>3. CASE heartbeat_ages(r)
    BY <2>3 DEF heartbeat_ages
  <2> QED
    BY <1>3, <2>1, <2>2, <2>3 DEF Disturbance
<1>4. CASE Reconcile
  <2>1. ASSUME NEW r \in Runs, reconcile_row(r) PROVE LogInv'
    <3>1. CASE status[r] \in Live /\ heartbeat[r] # "fresh"
      <4>1. /\ status' = [status EXCEPT ![r] = "failed"]
            /\ events' = [events EXCEPT ![r] = events[r] \union {"RUN_FAILED"}]
            /\ UNCHANGED <<produced, pc>>
        BY <2>1, <3>1 DEF reconcile_row
      <4> QED
        BY <4>1
    <3>2. CASE ~(status[r] \in Live /\ heartbeat[r] # "fresh")
      BY <2>1, <3>2 DEF reconcile_row
    <3> QED
      BY <3>1, <3>2
  <2>2. CASE reconcile_scan \/ reconcile_aborts
    BY <2>2 DEF reconcile_scan, reconcile_aborts, dbVars
  <2> QED
    BY <1>4, <2>1, <2>2 DEF Reconcile
<1>5. CASE UNCHANGED vars
  BY <1>5 DEF vars
<1> QED
  BY <1>1, <1>2, <1>3, <1>4, <1>5 DEF Next

\* Whatever becomes of a run, its row and run_events never disagree about how
\* it ended or whether it started.
THEOREM LogTellsTheStory == Spec => []EventLogTellsTheStory
<1>1. Init => LogInv
  BY DEF Init, LogInv, EventLogTellsTheStory, LogSoFar, Started
<1>2. TypeOK /\ LogInv /\ [Next]_vars => LogInv'
  BY NextLogs
<1>3. LogInv => EventLogTellsTheStory
  BY DEF LogInv
<1> QED
  BY <1>1, <1>2, <1>3, TypeCorrect, PTL DEF Spec

=============================================================================
