-------------------------- MODULE SelectiveRebuild --------------------------
(***************************************************************************)
(* Selective rebuild (app/catalog/rebuild_*.py and its part of             *)
(* CatalogService): a worker process plans, from the catalog, which        *)
(* descendants of a bad artifact have to be made again from a replacement, *)
(* and executes the plan by calling the stage services, while clients call *)
(* them too, other workers rebuild and scans extend the catalog.  The      *)
(* routes run on the event loop of a worker, so each worker does one thing *)
(* at a time; plans live in its memory; the lock is per replaced artifact  *)
(* and goes with the process.                                              *)
(***************************************************************************)
EXTENDS StageServices

CONSTANTS
    Workers,    \* server processes
    Replacements, \* what users ask of a worker: <<worker, bad artifact, replacement>>
    MaxPlans,   \* bound: plans a worker builds
    Calls,      \* what clients ask of the stage services: <<stage, parents>>
    MaxCalls,   \* bound: such calls
    MaxScans,   \* bound: catalog scans
    MaxFaults,  \* bound: raising stages, unfavourable verdicts, withheld configurations, a
                \* busy catalog, damaged files and deaths of workers, together
    NoPlan

Clients == Actors \ Workers

ASSUME RebuildAssumption ==
    /\ Workers \subseteq Actors
    /\ Calls \subseteq StageNames \X SUBSET Ids
    /\ Replacements \subseteq Workers \X Ids \X Ids
    /\ Mishaps \subseteq Ids \X SUBSET Damages
    /\ {MaxPlans, MaxCalls, MaxScans, MaxFaults} \subseteq Nat

VARIABLES
    known,      \* the artifacts in the catalog
    successor,  \* superseded_by of the governance rows
    plans,      \* the plan store of each worker
    built,      \* plans each worker has built so far
    exec,       \* what each worker executes
    runs,       \* history: the recorded runs of type selective_rebuild, by final status
    calls,      \* calls by clients so far
    scans,      \* scans so far
    faults      \* faults so far

rebuildVars == <<known, successor, plans, built, exec, runs, calls, scans, faults>>
vars == <<stageVars, rebuildVars>>

Put(f, x, y) == [z \in DOMAIN f \union {x} |-> IF z = x THEN y ELSE f[z]]

Resting == [step |-> "resting", plan |-> NoPlan, todo |-> {}, resolved |-> << >>,
            unavailable |-> {}, current |-> Idle, results |-> << >>]

Init ==
    /\ StageInit
    /\ known = DOMAIN Earlier
    /\ successor = << >>
    /\ plans = [w \in Workers |-> {}]
    /\ built = [w \in Workers |-> 0]
    /\ exec = [w \in Workers |-> Resting]
    /\ runs = {}
    /\ calls = 0 /\ scans = 0 /\ faults = 0

-----------------------------------------------------------------------------
(* Planning.                                                               *)

\* (A slip: replacements are compared by type only.)
compatible_by_type(old, new) ==
    /\ {old, new} \subseteq known
    /\ StageOf(old) = StageOf(new)

\* _check_compatibility: both registered, of one type, in one session, and
\* normalizations of the same ingestion under the same schema.
Compatible(old, new) ==
    /\ {old, new} \subseteq known
    /\ StageOf(old) = StageOf(new)
    /\ art[old].session = art[new].session
    /\ StageOf(old) = "normalization" => art[old].source = art[new].source

\* One step of graph.traverse(direction="downstream").
Extend(S) == S \union {id \in known : art[id].parents \cap S # {}}

\* Everything downstream of old; no chain of stages is longer than five edges.
Downstream(old) == Extend(Extend(Extend(Extend(Extend({old})))))

\* build_plan.  Every descendant is a step.  The topological order is left open: a step
\* may come next when its parents in the plan are done.
Plan(old, new) == [old |-> old, new |-> new, steps |-> Downstream(old) \ {old}]

\* Parents of a step that the plan replaces.
Replaced(plan, s) == art[s].parents \cap (plan.steps \union {plan.old})

build_rebuild_plan(w, old, new) ==
    /\ exec[w] = Resting /\ built[w] < MaxPlans
    /\ Compatible(old, new)
    /\ plans' = [plans EXCEPT ![w] = @ \union {Plan(old, new)}]
    /\ built' = [built EXCEPT ![w] = @ + 1]
    /\ UNCHANGED <<stageVars, known, successor, exec, runs, calls, scans, faults>>

-----------------------------------------------------------------------------
(* Execution.                                                              *)

Holds(w, root) == exec[w].step = "executing" /\ exec[w].plan.old = root

\* execute_rebuild before the lock: the plan is looked up and its fingerprint (old, new,
\* the steps with their parents) is computed again; a stale plan raises and stays stored.
check_plan(w, plan) ==
    /\ exec[w] = Resting
    /\ plan \in plans[w]
    /\ Compatible(plan.old, plan.new) /\ Plan(plan.old, plan.new) = plan
    /\ exec' = [exec EXCEPT ![w] = [Resting EXCEPT !.step = "checked", !.plan = plan]]
    /\ UNCHANGED <<stageVars, known, successor, plans, built, runs, calls, scans, faults>>

\* RebuildLock.acquire does not block: it raises when another process holds the lock.
acquire(w) ==
    LET plan == exec[w].plan
    IN  /\ exec[w].step = "checked"
        /\ exec' = [exec EXCEPT ![w] =
                IF \E v \in Workers : Holds(v, plan.old) THEN Resting
                ELSE [exec[w] EXCEPT !.step = "executing", !.todo = plan.steps,
                              !.resolved = [x \in {plan.old} |-> plan.new],
                              !.results = [x \in plan.steps |-> {}]]]
        /\ UNCHANGED <<stageVars, known, successor, plans, built, runs, calls, scans, faults>>

\* (A slip: a step waits until its parents are rebuilt.)
next_steps_waiting(w) ==
    IF exec[w].step = "executing" /\ exec[w].current = Idle
    THEN {s \in exec[w].todo : Replaced(exec[w].plan, s) \subseteq DOMAIN exec[w].resolved} ELSE {}

\* The steps of the loop in execute() that may be next.
NextSteps(w) ==
    IF exec[w].step = "executing" /\ exec[w].current = Idle
    THEN {s \in exec[w].todo : Replaced(exec[w].plan, s) \cap exec[w].todo = {}} ELSE {}

\* A parent that the plan replaces was skipped or failed.
Blocked(w, s) == Replaced(exec[w].plan, s) \cap exec[w].unavailable # {}

\* Step s of w is over without an artifact that later steps may use.
GiveUp(w, s, status) ==
    exec' = [exec EXCEPT ![w] =
        [exec[w] EXCEPT !.todo = @ \ {s}, !.current = Idle, !.unavailable = @ \union {s},
                        !.results[s] = @ \union {status}]]

skip_blocked(w, s) ==
    /\ s \in NextSteps(w) /\ Blocked(w, s)
    /\ GiveUp(w, s, "skipped_upstream_not_rebuilt")
    /\ UNCHANGED <<stageVars, known, successor, plans, built, runs, calls, scans, faults>>

\* Only a synchronization's manifest holds its configuration.
ManualConfig(s) == StageOf(s) # "synchronization"

skip_unconfigured(w, s) ==
    /\ s \in NextSteps(w) /\ ~Blocked(w, s)
    /\ ManualConfig(s)
    /\ faults < MaxFaults /\ faults' = faults + 1
    /\ GiveUp(w, s, "skipped_manual_configuration_required")
    /\ UNCHANGED <<stageVars, known, successor, plans, built, runs, calls, scans>>

\* (A slip: replaced parents are looked up under their original id.)
resolve_to_originals(w, s) == art[s].parents

\* _resolve_parent_id: replaced parents by what they became, the others as they were.
ResolvedParents(w, s) ==
    LET replaced == Replaced(exec[w].plan, s)
    IN  (art[s].parents \ replaced) \union {exec[w].resolved[p] : p \in replaced}

\* _execute_step: the stage service checks its input and starts, or raises.
execute_step(w, s) ==
    /\ s \in NextSteps(w) /\ ~Blocked(w, s)
    /\ begin_stage(w, StageOf(s), ResolvedParents(w, s))
    /\ exec' = [exec EXCEPT ![w] = [exec[w] EXCEPT !.current = s]]
    /\ UNCHANGED <<known, successor, plans, built, runs, calls, scans, faults>>

refuse_step(w, s) ==
    /\ s \in NextSteps(w) /\ ~Blocked(w, s)
    /\ ~Gate(StageOf(s), ResolvedParents(w, s))
    /\ GiveUp(w, s, "failed")
    /\ UNCHANGED <<stageVars, known, successor, plans, built, runs, calls, scans, faults>>

Bad(status) == IF status \in {"rejected", "failed"} THEN 1 ELSE 0

\* The service returns the id of what it published, whatever its verdict.
finish_step(w, status) ==
    LET s == exec[w].current
    IN  /\ s # Idle /\ job[w] # Idle
        /\ exec' = [exec EXCEPT ![w] =
                [exec[w] EXCEPT !.resolved = Put(@, s, FreshIn(StageOf(s))),
                                !.results[s] = @ \union {"rebuilt"}]]
        /\ commit_stage(w, status)
        /\ faults + Bad(status) <= MaxFaults /\ faults' = faults + Bad(status)
        /\ UNCHANGED <<known, successor, plans, built, runs, calls, scans>>

fail_step(w) ==
    /\ exec[w].current # Idle /\ job[w] # Idle
    /\ faults < MaxFaults /\ faults' = faults + 1
    /\ fail_stage(w)
    /\ GiveUp(w, exec[w].current, "failed")
    /\ UNCHANGED <<known, successor, plans, built, runs, calls, scans>>

\* _mark_superseded, in a transaction of its own ...
mark_superseded(w) ==
    LET s == exec[w].current
    IN  /\ s # Idle /\ job[w] = Idle
        /\ successor' = Put(successor, s, exec[w].resolved[s])
        /\ exec' = [exec EXCEPT ![w] = [exec[w] EXCEPT !.todo = @ \ {s}, !.current = Idle]]
        /\ UNCHANGED <<stageVars, known, plans, built, runs, calls, scans, faults>>

\* ... which may time out on the catalog's lock, inside the step's try block.
mark_superseded_busy(w) ==
    /\ exec[w].current # Idle /\ job[w] = Idle
    /\ faults < MaxFaults /\ faults' = faults + 1
    /\ GiveUp(w, exec[w].current, "failed")
    /\ UNCHANGED <<stageVars, known, successor, plans, built, runs, calls, scans>>

\* The lock is released, the plan discarded, and the route records a run of the result.
finish_rebuild(w) ==
    /\ exec[w].step = "executing" /\ exec[w].todo = {}
    /\ plans' = [plans EXCEPT ![w] = @ \ {exec[w].plan}]
    /\ runs' = runs \union
            {IF \E s \in exec[w].plan.steps : "failed" \in exec[w].results[s] THEN "failed" ELSE "completed"}
    /\ exec' = [exec EXCEPT ![w] = Resting]
    /\ UNCHANGED <<stageVars, known, successor, built, calls, scans, faults>>

\* The process dies: its plans, its lock and the step it was at are gone.
worker_dies(w) ==
    /\ faults < MaxFaults /\ faults' = faults + 1
    /\ exec[w] # Resting
    /\ exec' = [exec EXCEPT ![w] = Resting]
    /\ plans' = [plans EXCEPT ![w] = {}]
    /\ job' = [job EXCEPT ![w] = Idle]
    /\ UNCHANGED <<art, damage, tainted, known, successor, built, runs, calls, scans>>

-----------------------------------------------------------------------------
(* Everybody else.                                                         *)

Scan ==
    /\ scans < MaxScans /\ scans' = scans + 1
    /\ known' = known \union {id \in Published : Located(id)}
    /\ UNCHANGED <<stageVars, successor, plans, built, exec, runs, calls, faults>>

client_begins(c, s, parents) ==
    /\ calls < MaxCalls /\ calls' = calls + 1
    /\ begin_stage(c, s, parents)
    /\ UNCHANGED <<known, successor, plans, built, exec, runs, scans, faults>>

client_commits(c, status) ==
    /\ commit_stage(c, status)
    /\ faults + Bad(status) <= MaxFaults /\ faults' = faults + Bad(status)
    /\ UNCHANGED <<known, successor, plans, built, exec, runs, calls, scans>>

client_fails(c) == fail_stage(c) /\ UNCHANGED rebuildVars

files_change(id, what) ==
    /\ faults < MaxFaults /\ faults' = faults + 1
    /\ damage_files(id, what)
    /\ UNCHANGED <<known, successor, plans, built, exec, runs, calls, scans>>

Client(c) ==
    \/ \E call \in Calls : client_begins(c, call[1], call[2])
    \/ \E status \in Statuses : client_commits(c, status)
    \/ client_fails(c)

Execute(w) ==
    \/ acquire(w)
    \/ \E s \in exec[w].todo : skip_blocked(w, s)
    \/ \E s \in exec[w].todo : skip_unconfigured(w, s)
    \/ \E s \in exec[w].todo : execute_step(w, s)
    \/ \E s \in exec[w].todo : refuse_step(w, s)
    \/ \E status \in Statuses : finish_step(w, status)
    \/ fail_step(w)
    \/ mark_superseded(w)
    \/ mark_superseded_busy(w)
    \/ finish_rebuild(w)

Next ==
    \/ \E c \in Clients : Client(c)
    \/ \E w \in Workers : Execute(w)
    \/ \E ask \in Replacements : build_rebuild_plan(ask[1], ask[2], ask[3])
    \/ \E w \in Workers : \E plan \in plans[w] : check_plan(w, plan)
    \/ \E w \in Workers : worker_dies(w)
    \/ \E m \in Mishaps : files_change(m[1], m[2])
    \/ Scan

Spec == Init /\ [][Next]_vars

\* A worker that executes a plan is running code: it does not stop by itself.
FairSpec == Spec /\ \A w \in Workers : WF_vars(Execute(w))

-----------------------------------------------------------------------------
(* Properties.                                                             *)

\* While a plan is executed, everything it has made has the parents the plan says: the
\* products of this very execution in the place of what they replace, the others
\* unchanged; and nothing was made downstream of a step that was skipped or failed,
\* even when the failure came after its own artifact had been published.
RebuildFollowsThePlan ==
    \A w \in Workers : exec[w].step = "executing" =>
        LET plan == exec[w].plan
            made == DOMAIN exec[w].resolved \ {plan.old}
        IN  /\ made \subseteq plan.steps
            /\ \A s \in made :
                /\ StageOf(exec[w].resolved[s]) = StageOf(s)
                /\ art[exec[w].resolved[s]].parents =
                        {IF p \in plan.steps \union {plan.old} THEN exec[w].resolved[p] ELSE p :
                            p \in art[s].parents}
                /\ Replaced(plan, s) \cap exec[w].unavailable = {}
            /\ \A s \in plan.steps \ (exec[w].todo \union exec[w].unavailable) : s \in made

\* What an artifact is superseded by has been published, is another artifact of the
\* same type and belongs to the same session, however many rebuilds of overlapping
\* lineages came by, finished or died.
SuccessorsAreRealReplacements ==
    \A s \in DOMAIN successor :
        /\ s \in known
        /\ successor[s] \in Published \ {s}
        /\ StageOf(successor[s]) = StageOf(s)
        /\ art[successor[s]].session = art[s].session

\* Every execution comes to an end (and so gives its lock back): no step waits for
\* another that will never be taken, whatever fails on the way.
ExecutionsEnd ==
    \A w \in Workers : (exec[w].step = "executing") ~> (exec[w] = Resting)
=============================================================================
