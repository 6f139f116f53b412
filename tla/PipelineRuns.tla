---------------------------- MODULE PipelineRuns ----------------------------
(***************************************************************************)
(* The life of a pipeline run (app/runs): the pipeline_runs and            *)
(* pipeline_stage_runs rows of catalog.db, the LocalRunExecutor that owns  *)
(* a run inside one process, clients that create and cancel runs, and the  *)
(* startup reconciliation that declares runs lost.                         *)
(*                                                                         *)
(* Every `with self._repo.transaction(...)` block of the code is one       *)
(* BEGIN IMMEDIATE .. COMMIT, hence one action here; everything between    *)
(* two of them may interleave with every other actor.  pc[r] says which    *)
(* block the executor of run r is about to enter.                          *)
(***************************************************************************)
EXTENDS Integers, Sequences, FiniteSets

CONSTANTS
    Runs,           \* the run_ids that may ever be created
    MaxActive,      \* settings.MAX_LOCAL_PIPELINE_RUNS
    StreamTypes,    \* the sensor_type of each stream of a request, in order
    PerStream,      \* the stages every stream goes through, in order
    Shared,         \* the stages all the streams share, in order
    Env             \* what the environment may do, a subset of EnvKinds

(***************************************************************************)
(* What may happen around the executors: a client cancels, a stage raises, *)
(* an upload cannot be read, BEGIN IMMEDIATE times out, a process dies, a  *)
(* live executor stays longer than RUN_STALE_HEARTBEAT_SECONDS between two *)
(* heartbeats, an application process starts and reconciles.               *)
(***************************************************************************)
EnvKinds == {"cancel", "stage", "upload", "busy", "crash", "slow", "restart"}

ASSUME EnvAssumption == Env \subseteq EnvKinds
ASSUME RunsAssumption == IsFiniteSet(Runs) /\ MaxActive \in Nat
ASSUME StagesAssumption ==
    /\ StreamTypes \in Seq(STRING)
    /\ PerStream \in Seq(STRING)
    /\ Shared \in Seq(STRING)
    /\ Len(Shared) > 0

-----------------------------------------------------------------------------
(* The plan: four stages per stream, then five shared ones.                *)

NumStages == Len(StreamTypes) * Len(PerStream) + Len(Shared)
Positions == 1..NumStages

plan_stages(types) ==
    LET perStream == Len(types) * Len(PerStream)
    IN  [i \in 1..(perStream + Len(Shared)) |->
            IF i <= perStream
            THEN << PerStream[((i - 1) % Len(PerStream)) + 1],
                    types[((i - 1) \div Len(PerStream)) + 1] >>
            ELSE << Shared[i - perStream] >>]

Plan == plan_stages(StreamTypes)

\* self._stage_run_ids maps a stage NAME to a row, the last one created
\* winning: the row that position i of the plan reads and writes.
RowOf(i) == CHOOSE j \in Positions :
                /\ Plan[j] = Plan[i]
                /\ \A k \in Positions : Plan[k] = Plan[i] => k <= j

\* Streams of one sensor_type share their stage names: validate_request
\* checks that each type is registered and nothing else.
Repeated(i) == \E j \in Positions \ {i} : Plan[j] = Plan[i]

-----------------------------------------------------------------------------
VARIABLES
    status,     \* pipeline_runs.status ("absent": no row yet)
    error,      \* pipeline_runs.error_code, by its origin
    heartbeat,  \* last_heartbeat_at against the staleness threshold
    rows,       \* pipeline_stage_runs.status of each planned stage
    artifacts,  \* run_artifacts: positions whose artifact is recorded
    events,     \* run_events, the set of event types logged
    produced,   \* positions whose artifact the stage service published
    pc,         \* the transaction the run's executor enters next
    pos,        \* the plan position the executor is at
    sweep       \* rows a reconcile() in progress has yet to visit

dbVars == <<status, error, heartbeat, rows, artifacts, events>>
vars == <<status, error, heartbeat, rows, artifacts, events, produced, pc, pos, sweep>>

Active == {"queued", "running", "cancel_requested"}
Live == {"running", "cancel_requested"}
Terminal == {"completed", "failed", "cancelled"}
RunStatus == Active \union Terminal
StageStatus == {"pending", "running", "completed", "failed", "skipped", "cancelled"}
ErrorCode == {"none", "stage_failure", "internal", "RUN_PROCESS_LOST"}
EventType == {"RUN_CREATED", "RUN_STARTED", "CANCEL_REQUESTED",
              "RUN_COMPLETED", "RUN_FAILED", "RUN_CANCELLED"}
Location == {"none", "accepted", "cancel_early", "mark_running", "create_stages",
             "heartbeat", "check", "set_running", "start_stage", "work",
             "complete_stage", "record", "fail_stage", "skip_rest", "cancel_stage",
             "cancel_rest", "mark_failed", "mark_completed", "exited"}

RUN_TRANSITIONS ==
    ({"queued"} \X {"running", "failed", "cancel_requested"})
        \union ({"running"} \X {"completed", "failed", "cancel_requested"})
        \union ({"cancel_requested"} \X {"cancelled", "completed", "failed"})

STAGE_TRANSITIONS ==
    ({"pending"} \X {"running", "skipped", "cancelled"})
        \union ({"running"} \X {"completed", "failed", "cancelled"})

\* What happens to a row whose stage has ended when its name comes up again.
TakenOverBy == ({"completed"} \X {"running", "skipped", "cancelled"})
                    \union {<<"failed", "skipped">>}

NoRows == [i \in Positions |-> "absent"]

Init ==
    /\ status = [r \in Runs |-> "absent"]
    /\ error = [r \in Runs |-> "none"]
    /\ heartbeat = [r \in Runs |-> "null"]
    /\ rows = [r \in Runs |-> NoRows]
    /\ artifacts = [r \in Runs |-> {}]
    /\ events = [r \in Runs |-> {}]
    /\ produced = [r \in Runs |-> {}]
    /\ pc = [r \in Runs |-> "none"]
    /\ pos = [r \in Runs |-> 1]
    /\ sweep = {}

Goto(r, loc) == pc' = [pc EXCEPT ![r] = loc]
SetStatus(r, s) == status' = [status EXCEPT ![r] = s]
Log(r, e) == events' = [events EXCEPT ![r] = @ \union {e}]
SetRow(r, i, s) == rows' = [rows EXCEPT ![r][RowOf(i)] = s]

\* A mark_* transaction: validate_run_transition, then the new status, its
\* event and an optional error code; an illegal transition raises.
Finish(r, s, event, code) ==
    /\ IF <<status[r], s>> \in RUN_TRANSITIONS
       THEN /\ SetStatus(r, s)
            /\ Log(r, event)
            /\ error' = IF code = "none" THEN error ELSE [error EXCEPT ![r] = code]
       ELSE UNCHANGED <<status, events, error>>
    /\ Goto(r, "exited")
    /\ UNCHANGED <<heartbeat, rows, artifacts, produced, pos, sweep>>

\* Closing a stage that did not complete: the one in hand first, then the
\* remaining ones, each in a transaction of its own.
CloseStage(r, from, s, next) ==
    /\ pc[r] = from
    /\ pos[r] <= NumStages
    /\ SetRow(r, pos[r], s)
    /\ pos' = [pos EXCEPT ![r] = @ + 1]
    /\ Goto(r, next)
    /\ UNCHANGED <<status, error, heartbeat, artifacts, events, produced, sweep>>

-----------------------------------------------------------------------------
(* Slips the properties below are meant to catch: each definition is a     *)
(* faulty form of the operation it is named after and is used by none of   *)
(* the specifications.                                                     *)

\* The stage is popped from `remaining` before its artifact is recorded.
record_artifact_after_pop(r) ==
    /\ pc[r] = "record"
    /\ artifacts' = [artifacts EXCEPT ![r] = @ \union {pos[r] + 1}]
    /\ pos' = [pos EXCEPT ![r] = @ + 1]
    /\ Goto(r, IF pos[r] < NumStages THEN "heartbeat" ELSE "mark_completed")
    /\ UNCHANGED <<status, error, heartbeat, rows, events, produced, sweep>>

\* The artifact is only recorded while nobody has asked for cancellation.
record_artifact_if_running(r) ==
    /\ pc[r] = "record"
    /\ artifacts' = IF status[r] = "running"
                    THEN [artifacts EXCEPT ![r] = @ \union {pos[r]}] ELSE artifacts
    /\ pos' = [pos EXCEPT ![r] = @ + 1]
    /\ Goto(r, IF pos[r] < NumStages THEN "heartbeat" ELSE "mark_completed")
    /\ UNCHANGED <<status, error, heartbeat, rows, events, produced, sweep>>

\* A failed stage does not stop the pipeline.
fail_stage_goes_on(r) ==
    CloseStage(r, "fail_stage", "failed",
               IF pos[r] < NumStages THEN "heartbeat" ELSE "mark_completed")

\* The stage in hand is still in `remaining` when the rest is skipped.
fail_stage_keeps_it(r) ==
    /\ pc[r] = "fail_stage"
    /\ SetRow(r, pos[r], "failed")
    /\ Goto(r, "skip_rest")
    /\ UNCHANGED <<status, error, heartbeat, artifacts, events, produced, pos, sweep>>

\* The exception of a stage is swallowed.
stage_raises_unnoticed(r) ==
    /\ "stage" \in Env
    /\ pc[r] = "work"
    /\ Goto(r, "complete_stage")
    /\ UNCHANGED <<dbVars, produced, pos, sweep>>

\* The run is marked before its remaining stages are closed.
mark_cancelled_early(r) ==
    /\ pc[r] \in {"cancel_early", "cancel_rest"}
    /\ Finish(r, "cancelled", "RUN_CANCELLED", "none")

\* Reconciliation updates the row without appending to run_events.
reconcile_row_silently(r) ==
    /\ r \in sweep
    /\ sweep' = sweep \ {r}
    /\ IF status[r] \in Live /\ heartbeat[r] # "fresh"
       THEN /\ SetStatus(r, "failed")
            /\ error' = [error EXCEPT ![r] = "RUN_PROCESS_LOST"]
       ELSE UNCHANGED <<status, error>>
    /\ UNCHANGED <<heartbeat, rows, artifacts, events, produced, pc, pos>>

\* The stale row is not read again inside the transaction.
reconcile_row_unchecked(r) ==
    /\ r \in sweep
    /\ sweep' = sweep \ {r}
    /\ SetStatus(r, "failed")
    /\ error' = [error EXCEPT ![r] = "RUN_PROCESS_LOST"]
    /\ Log(r, "RUN_FAILED")
    /\ UNCHANGED <<heartbeat, rows, artifacts, produced, pc, pos>>

\* Cancelling takes effect at once instead of being requested.
request_cancel_at_once(r) ==
    /\ "cancel" \in Env
    /\ status[r] \in {"queued", "running"}
    /\ SetStatus(r, "cancelled")
    /\ events' = [events EXCEPT ![r] = @ \union {"CANCEL_REQUESTED", "RUN_CANCELLED"}]
    /\ UNCHANGED <<error, heartbeat, rows, artifacts, produced, pc, pos, sweep>>

\* One active run too many is let in.
create_run_off_by_one(r) ==
    /\ status[r] = "absent"
    /\ Cardinality({q \in Runs : status[q] \in Active}) <= MaxActive
    /\ SetStatus(r, "queued")
    /\ Log(r, "RUN_CREATED")
    /\ Goto(r, "accepted")
    /\ UNCHANGED <<error, heartbeat, rows, artifacts, produced, pos, sweep>>

\* Only rows that are still `running` are looked for.
find_stale_only_running == {r \in Runs : status[r] = "running" /\ heartbeat[r] # "fresh"}

\* A NULL last_heartbeat_at compares as not stale.
find_stale_without_null == {r \in Runs : status[r] \in Live /\ heartbeat[r] = "stale"}

-----------------------------------------------------------------------------
(* Clients.                                                                *)

count_active_runs == Cardinality({r \in Runs : status[r] \in Active})

\* RunService.create_run: capacity check and insert in one transaction.
create_run(r) ==
    /\ status[r] = "absent"
    /\ count_active_runs < MaxActive
    /\ SetStatus(r, "queued")
    /\ Log(r, "RUN_CREATED")
    /\ Goto(r, "accepted")
    /\ UNCHANGED <<error, heartbeat, rows, artifacts, produced, pos, sweep>>

\* POST /runs fails after create_run committed, while the uploads are
\* copied to temporary files: no background task is ever added.
UploadFails(r) ==
    /\ "upload" \in Env
    /\ pc[r] = "accepted"
    /\ Goto(r, "exited")
    /\ UNCHANGED <<dbVars, produced, pos, sweep>>

request_cancel(r) ==
    /\ "cancel" \in Env
    /\ status[r] \in {"queued", "running"}
    /\ SetStatus(r, "cancel_requested")
    /\ Log(r, "CANCEL_REQUESTED")
    /\ UNCHANGED <<error, heartbeat, rows, artifacts, produced, pc, pos, sweep>>

-----------------------------------------------------------------------------
(* LocalRunExecutor.run, one transaction at a time.                        *)

\* current = run_service.get_run(run_id), read outside any transaction.
begin_execution(r) ==
    /\ pc[r] = "accepted"
    /\ Goto(r, IF status[r] = "cancel_requested" THEN "cancel_early" ELSE "mark_running")
    /\ UNCHANGED <<dbVars, produced, pos, sweep>>

mark_running(r) ==
    /\ pc[r] = "mark_running"
    /\ IF <<status[r], "running">> \in RUN_TRANSITIONS
       THEN /\ SetStatus(r, "running")
            /\ heartbeat' = [heartbeat EXCEPT ![r] = "fresh"]
            /\ Log(r, "RUN_STARTED")
            /\ Goto(r, "create_stages")
       ELSE /\ Goto(r, "exited")    \* RUN_MARK_RUNNING_FAILED is only logged
            /\ UNCHANGED <<status, heartbeat, events>>
    /\ UNCHANGED <<error, rows, artifacts, produced, pos, sweep>>

mark_cancelled(r) ==
    /\ pc[r] = "cancel_early" \/ (pc[r] = "cancel_rest" /\ pos[r] > NumStages)
    /\ Finish(r, "cancelled", "RUN_CANCELLED", "none")

\* Reached by a stage failure once the remaining stages are skipped, or by
\* any other exception out of execute() ("mark_failed").
mark_failed(r) ==
    \/ /\ pc[r] = "skip_rest" /\ pos[r] > NumStages
       /\ Finish(r, "failed", "RUN_FAILED", "stage_failure")
    \/ /\ pc[r] = "mark_failed"
       /\ Finish(r, "failed", "RUN_FAILED", "internal")

mark_completed(r) ==
    /\ pc[r] = "mark_completed"
    /\ Finish(r, "completed", "RUN_COMPLETED", "none")

-----------------------------------------------------------------------------
(* PipelineRunner.execute and _run_stage.                                  *)

create_all_stage_runs(r) ==
    /\ pc[r] = "create_stages"
    /\ rows' = [rows EXCEPT ![r] = [i \in Positions |-> "pending"]]
    /\ Goto(r, "heartbeat")
    /\ UNCHANGED <<status, error, heartbeat, artifacts, events, produced, pos, sweep>>

touch_heartbeat(r) ==
    /\ pc[r] = "heartbeat"
    /\ heartbeat' = IF status[r] \in Live THEN [heartbeat EXCEPT ![r] = "fresh"] ELSE heartbeat
    /\ Goto(r, "check")
    /\ UNCHANGED <<status, error, rows, artifacts, events, produced, pos, sweep>>

\* CancellationToken.check(force=True): a plain read of the status.
check_cancellation(r) ==
    /\ pc[r] = "check"
    /\ Goto(r, IF status[r] = "cancel_requested" THEN "cancel_stage" ELSE "set_running")
    /\ UNCHANGED <<dbVars, produced, pos, sweep>>

\* update_run_status(status="running", current_stage=...): not validated.
set_current_stage(r) ==
    /\ pc[r] = "set_running"
    /\ SetStatus(r, "running")
    /\ Goto(r, "start_stage")
    /\ UNCHANGED <<error, heartbeat, rows, artifacts, events, produced, pos, sweep>>

start_stage(r) ==
    /\ pc[r] = "start_stage"
    /\ SetRow(r, pos[r], "running")
    /\ Goto(r, "work")
    /\ UNCHANGED <<status, error, heartbeat, artifacts, events, produced, pos, sweep>>

\* fn(): the stage service publishes its artifact ...
stage_succeeds(r) ==
    /\ pc[r] = "work"
    /\ produced' = [produced EXCEPT ![r] = @ \union {pos[r]}]
    /\ Goto(r, "complete_stage")
    /\ UNCHANGED <<dbVars, pos, sweep>>

\* ... or raises (a domain error, a governance gate, an internal error).
stage_raises(r) ==
    /\ "stage" \in Env
    /\ pc[r] = "work"
    /\ Goto(r, "fail_stage")
    /\ UNCHANGED <<dbVars, produced, pos, sweep>>

complete_stage(r) ==
    /\ pc[r] = "complete_stage"
    /\ SetRow(r, pos[r], "completed")
    /\ Goto(r, "record")
    /\ UNCHANGED <<status, error, heartbeat, artifacts, events, produced, pos, sweep>>

record_artifact(r) ==
    /\ pc[r] = "record"
    /\ artifacts' = [artifacts EXCEPT ![r] = @ \union {pos[r]}]
    /\ pos' = [pos EXCEPT ![r] = @ + 1]
    /\ Goto(r, IF pos[r] < NumStages THEN "heartbeat" ELSE "mark_completed")
    /\ UNCHANGED <<status, error, heartbeat, rows, events, produced, sweep>>

fail_stage(r) == CloseStage(r, "fail_stage", "failed", "skip_rest")
skip_remaining(r) == CloseStage(r, "skip_rest", "skipped", "skip_rest")
cancel_stage(r) == CloseStage(r, "cancel_stage", "cancelled", "cancel_rest")
cancel_remaining(r) == CloseStage(r, "cancel_rest", "cancelled", "cancel_rest")

-----------------------------------------------------------------------------
(* What can go wrong around an executor.                                   *)

Finishing(r) ==
    \/ pc[r] \in {"cancel_early", "mark_running", "mark_failed", "mark_completed"}
    \/ pc[r] \in {"skip_rest", "cancel_rest"} /\ pos[r] > NumStages

\* BEGIN IMMEDIATE times out: CatalogBusyError.  Out of execute() it is an
\* unexpected exception, answered by mark_failed; out of the code around
\* execute() nothing is left that would write the row again.
catalog_busy(r) ==
    /\ "busy" \in Env
    /\ pc[r] \notin {"none", "accepted", "check", "work", "exited"}
    /\ Goto(r, IF Finishing(r) THEN "exited" ELSE "mark_failed")
    /\ UNCHANGED <<dbVars, produced, pos, sweep>>

\* The process that owns the run dies; rows stay as they are.
crash(r) ==
    /\ "crash" \in Env
    /\ pc[r] \notin {"none", "exited"}
    /\ Goto(r, "exited")
    /\ UNCHANGED <<dbVars, produced, pos, sweep>>

\* RUN_STALE_HEARTBEAT_SECONDS go by since the last heartbeat.  The
\* threshold of a reconcile() is fixed at its scan, so a heartbeat that
\* lands during the sweep stays on the fresh side until it is over.
heartbeat_ages(r) ==
    /\ heartbeat[r] = "fresh"
    /\ r \notin sweep
    /\ "slow" \in Env \/ pc[r] = "exited"
    /\ heartbeat' = [heartbeat EXCEPT ![r] = "stale"]
    /\ UNCHANGED <<status, error, rows, artifacts, events, produced, pc, pos, sweep>>

-----------------------------------------------------------------------------
(* RunRecoveryService.reconcile, at the startup of an application process. *)

find_stale_running_runs == {r \in Runs : status[r] \in Live /\ heartbeat[r] # "fresh"}

reconcile_scan ==
    /\ "restart" \in Env
    /\ sweep = {}
    /\ sweep' = find_stale_running_runs
    /\ sweep' # {}
    /\ UNCHANGED <<dbVars, produced, pc, pos>>

reconcile_row(r) ==
    /\ r \in sweep
    /\ sweep' = sweep \ {r}
    /\ IF status[r] \in Live /\ heartbeat[r] # "fresh"
       THEN /\ SetStatus(r, "failed")
            /\ error' = [error EXCEPT ![r] = "RUN_PROCESS_LOST"]
            /\ Log(r, "RUN_FAILED")
       ELSE UNCHANGED <<status, error, events>>
    /\ UNCHANGED <<heartbeat, rows, artifacts, produced, pc, pos>>

\* A CatalogBusyError, or the death of the process, ends the sweep early.
reconcile_aborts ==
    /\ Env \cap {"busy", "crash"} # {}
    /\ sweep # {}
    /\ sweep' = {}
    /\ UNCHANGED <<dbVars, produced, pc, pos>>

-----------------------------------------------------------------------------
Executor(r) ==
    \/ begin_execution(r) \/ mark_running(r) \/ mark_cancelled(r)
    \/ mark_failed(r) \/ mark_completed(r)
    \/ create_all_stage_runs(r) \/ touch_heartbeat(r) \/ check_cancellation(r)
    \/ set_current_stage(r) \/ start_stage(r) \/ stage_succeeds(r) \/ stage_raises(r)
    \/ complete_stage(r) \/ record_artifact(r)
    \/ fail_stage(r) \/ skip_remaining(r) \/ cancel_stage(r) \/ cancel_remaining(r)

Client(r) == create_run(r) \/ UploadFails(r) \/ request_cancel(r)

Disturbance(r) == catalog_busy(r) \/ crash(r) \/ heartbeat_ages(r)

Reconcile == reconcile_scan \/ (\E r \in Runs : reconcile_row(r)) \/ reconcile_aborts

Next == (\E r \in Runs : Client(r) \/ Executor(r) \/ Disturbance(r)) \/ Reconcile

Spec == Init /\ [][Next]_vars

\* A live executor thread keeps running; time passes; where application
\* processes restart at all they do so again and again, and not every
\* startup sweep is cut short.
Fairness ==
    /\ \A r \in Runs : WF_vars(Executor(r))
    /\ \A r \in Runs : WF_vars(heartbeat_ages(r))
    /\ WF_vars(reconcile_scan)
    /\ \A r \in Runs : SF_vars(reconcile_row(r))

FairSpec == Spec /\ Fairness
-----------------------------------------------------------------------------
(* Properties.                                                             *)

\* Every column of the run tables and every executor local keeps its type.
TypeOK ==
    /\ status \in [Runs -> RunStatus \union {"absent"}]
    /\ error \in [Runs -> ErrorCode]
    /\ heartbeat \in [Runs -> {"null", "fresh", "stale"}]
    /\ rows \in [Runs -> [Positions -> StageStatus \union {"absent"}]]
    /\ artifacts \in [Runs -> SUBSET Positions]
    /\ events \in [Runs -> SUBSET EventType]
    /\ produced \in [Runs -> SUBSET Positions]
    /\ pc \in [Runs -> Location]
    /\ pos \in [Runs -> 1..(NumStages + 1)]
    /\ sweep \subseteq Runs

\* The capacity test of create_run holds at all times, not only at creation:
\* however creations, cancellations and endings interleave, the active runs
\* that reconciliation has not written off never exceed the limit.
CapacityRespected ==
    Cardinality({r \in Runs : status[r] \in Active /\ error[r] # "RUN_PROCESS_LOST"})
        <= MaxActive

(* Where streams share stage names the rows of all but the last of them    *)
(* are never written again and stay pending, and the last one's tell of    *)
(* whichever stream was there last; the properties speak of RowOf, the     *)
(* rows that tell something.                                               *)

\* A row shows a stage as entered only when every stage before the first of
\* its name has published its artifact and recorded it, whatever exception
\* path the earlier stages took.
StageOrder ==
    \A r \in Runs : \A i, j \in Positions :
        (/\ rows[r][RowOf(j)] \in {"running", "completed", "failed"}
         /\ \A k \in Positions : Plan[k] = Plan[j] => i < k)
            => i \in artifacts[r]

\* `completed` is only ever shown for a run all of whose stages completed and
\* whose every artifact is both published and recorded in run_artifacts.
CompletedIsWhole ==
    \A r \in Runs : status[r] = "completed" =>
        /\ \A i \in Positions : rows[r][RowOf(i)] = "completed"
        /\ artifacts[r] = Positions
        /\ produced[r] = Positions

\* `cancelled` is only shown once no stage of the run is pending or running
\* (the stage that observes the cancellation is itself cancelled).
CancelledIsClosed ==
    \A r \in Runs : status[r] = "cancelled" =>
        \A i \in Positions : rows[r][RowOf(i)] \notin {"pending", "running"}

\* run_artifacts never claims an artifact that was not published or whose
\* stage did not complete (where the row is not shared with a later stream),
\* and misses at most the latest published one.
ProvenanceTracksDisk ==
    \A r \in Runs :
        /\ artifacts[r] \subseteq produced[r]
        /\ \A i \in artifacts[r] : RowOf(i) = i => rows[r][i] = "completed"
        /\ \A i \in produced[r] \ artifacts[r] : \A j \in produced[r] : j <= i

\* A terminal status is always accompanied by its event in run_events, and a
\* run whose log lacks RUN_STARTED has published nothing.
EventLogTellsTheStory ==
    \A r \in Runs :
        /\ status[r] = "completed" => "RUN_COMPLETED" \in events[r]
        /\ status[r] = "failed" => "RUN_FAILED" \in events[r]
        /\ status[r] = "cancelled" => {"CANCEL_REQUESTED", "RUN_CANCELLED"} \subseteq events[r]
        /\ produced[r] # {} => "RUN_STARTED" \in events[r]

\* validate_stage_transition is never called, yet a stage row leaves
\* _STAGE_TRANSITIONS only where it is shared by streams of one sensor_type,
\* and then only because a later one of them runs, is skipped or cancelled.
StageTransitionsLegal ==
    [][\A r \in Runs : \A i \in Positions :
         (rows[r][i] # "absent" /\ rows'[r][i] # rows[r][i]) =>
            \/ <<rows[r][i], rows'[r][i]>> \in STAGE_TRANSITIONS
            \/ Repeated(i) /\ <<rows[r][i], rows'[r][i]>> \in TakenOverBy]_rows

\* A run shown as `cancelled` publishes nothing more and records nothing more.
CancelledIsQuiet ==
    [][\A r \in Runs : status[r] = "cancelled" =>
         produced'[r] = produced[r] /\ artifacts'[r] = artifacts[r]]_vars

\* A live executor that keeps its heartbeats within the threshold is never
\* written off by reconciliation once it has started.
HealthyRunsAreNotLost ==
    [][\A r \in Runs :
         (heartbeat[r] = "fresh" /\ error[r] # "RUN_PROCESS_LOST")
            => error'[r] # "RUN_PROCESS_LOST"]_vars

\* A run that started (or was asked to cancel) and whose executor is gone is
\* eventually shown in a terminal state, through reconciliation at restarts.
LostRunsAreReconciled ==
    \A r \in Runs : (pc[r] = "exited" /\ status[r] \in Live) ~> status[r] \in Terminal

\* Every accepted run reaches a terminal state, whichever stage raises and
\* wherever a cancellation or a crash lands, through the restart sweeps if
\* its executor abandons it; only a run that nobody started may stay queued.
AcceptedRunsFinish ==
    \A r \in Runs : status[r] = "queued" ~>
        (status[r] \in Terminal \/ (status[r] = "queued" /\ pc[r] = "exited"))

(* What the documentation says and the code does not do.                   *)

\* Every status a run moves to is allowed by _RUN_TRANSITIONS.  executor.py:
\* checking first "is what makes the subsequent update_run_status(...) never
\* clobber a pending cancellation"; DETAILED_GUIDE: "there is no completed ->
\* running or failed -> running".
RunTransitionsLegal ==
    [][\A r \in Runs :
         (status[r] # "absent" /\ status'[r] # status[r])
            => <<status[r], status'[r]>> \in RUN_TRANSITIONS]_status
=============================================================================
