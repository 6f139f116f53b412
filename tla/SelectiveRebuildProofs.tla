----------------------- MODULE SelectiveRebuildProofs -----------------------
(***************************************************************************)
(* Proofs about the stage services and selective rebuild, for any number   *)
(* of workers, clients and artifacts, any mishaps and any rebuilds.        *)
(***************************************************************************)
EXTENDS SelectiveRebuild, TLAPS

(***************************************************************************)
(* The invariant of the stages.  Published artifacts are never changed, so *)
(* what a gate has found of them stays true; and files in use are assumed  *)
(* to stay as they are, so what it has found of those does too.            *)
(***************************************************************************)

StageTypes ==
    /\ Published \subseteq Ids
    /\ damage \in [Ids -> SUBSET Damages]
    /\ job \in [Actors -> Jobs \union {Idle}]

\* Every artifact has parents its stage accepts, and belongs to their session.
ArtIsSound(id) ==
    StageOf(id) # "normalization" =>
        /\ Fits(art, StageOf(id), art[id].parents)
        /\ \A p \in art[id].parents : art[p].session = art[id].session

\* So will the one an actor is working on, and the files it reads are intact.
JobIsSound(a) ==
    job[a] # Idle =>
        /\ Fits(art, job[a].stage, job[a].parents)
        /\ \A p \in job[a].parents : damage[p] \cap {"content_missing", "content_altered"} = {}

StageInv ==
    /\ StageTypes
    /\ tainted = {}
    /\ \A id \in Published : ArtIsSound(id)
    /\ \A a \in Actors : JobIsSound(a)

\* What every step does to the artifacts there are.
Kept == Published \subseteq Published' /\ \A id \in Published : art'[id] = art[id]

-----------------------------------------------------------------------------
(* The stages.                                                             *)

\* Parents that a stage accepts stay acceptable.
LEMMA FitsStays ==
    ASSUME Kept, NEW s, NEW ps, Fits(art, s, ps)
    PROVE Fits(art', s, ps)
BY DEF Kept, Fits, Published

\* A gate lets only acceptable parents through.
LEMMA GateFits ==
    ASSUME NEW s, NEW ps, Gate(s, ps)
    PROVE /\ Fits(art, s, ps)
          /\ \A p \in ps : damage[p] \cap {"content_missing", "content_altered"} = {}
<1> USE DEF Fits, Readable, Located, OfStage, Published
<1>1. CASE s = "synchronization" /\ SynchronizationGate(ps)
  BY <1>1 DEF SynchronizationGate
<1>2. CASE s = "cleaning" /\ CleaningGate(ps)
  BY <1>2 DEF CleaningGate
<1>3. CASE s = "transformation" /\ TransformationGate(ps)
  BY <1>3 DEF TransformationGate
<1>4. CASE s = "qc" /\ QCGate(ps)
  BY <1>4 DEF QCGate
<1>5. CASE s = "package" /\ PackageGate(ps)
  BY <1>5 DEF PackageGate, Accepted
<1> QED BY <1>1, <1>2, <1>3, <1>4, <1>5 DEF Gate

\* Acceptable parents are there, and of one session.
LEMMA FitsOneSession ==
    ASSUME StageInv, NEW s, NEW ps, Fits(art, s, ps)
    PROVE /\ ps # {} /\ ps \subseteq Published
          /\ \A p, q \in ps : art[p].session = art[q].session
<1>1. CASE s = "package"
  <2>1. PICK t \in ps, q \in ps : ps = {t, q} /\ StageOf(q) = "qc" /\ art[q].parents = {t}
    BY <1>1 DEF Fits
  <2>2. q \in Published /\ t \in Published
    BY <2>1 DEF Fits, Published
  <2>3. art[t].session = art[q].session
    BY <2>1, <2>2 DEF StageInv, ArtIsSound
  <2> QED BY <2>1, <2>2, <2>3
<1>2. CASE s # "package"
  BY <1>2 DEF Fits, Published
<1> QED BY <1>1, <1>2

\* A fresh identifier is one.
LEMMA Fresh ==
    ASSUME NEW s, RoomIn(s)
    PROVE FreshIn(s) \in Ids \ Published /\ StageOf(FreshIn(s)) = s
BY DEF RoomIn, FreshIn

\* What a commit publishes.
LEMMA CommitPublishes ==
    ASSUME StageInv, NEW a \in Actors, NEW status, commit_stage(a, status)
    PROVE LET id == FreshIn(job[a].stage)
          IN  /\ Kept
              /\ id \in Ids \ Published /\ StageOf(id) = job[a].stage
              /\ Published' = Published \union {id}
              /\ art'[id].parents = job[a].parents
              /\ \A p \in job[a].parents : art[p].session = art'[id].session
<1> DEFINE id == FreshIn(job[a].stage)
<1>1. id \in Ids \ Published /\ StageOf(id) = job[a].stage
  BY Fresh DEF commit_stage
<1>2. job[a] # Idle /\ Fits(art, job[a].stage, job[a].parents)
  BY DEF commit_stage, StageInv, JobIsSound
<1>3. /\ job[a].parents # {}
      /\ \A p, q \in job[a].parents : art[p].session = art[q].session
  BY <1>2, FitsOneSession
<1> DEFINE first == CHOOSE p \in job[a].parents : TRUE
<1>4. first \in job[a].parents
  BY <1>3
<1>5. Publish(a, id, status)
  BY DEF commit_stage
<1> HIDE DEF id
<1>6. art' = [x \in Published \union {id} |->
                IF x = id
                THEN [parents |-> job[a].parents, status |-> status, source |-> Idle,
                      session |-> art[first].session]
                ELSE art[x]]
  BY <1>5 DEF Publish
<1>7. Published' = Published \union {id} /\ Kept
  BY <1>1, <1>6 DEF Published, Kept
<1>8. art'[id].parents = job[a].parents /\ art'[id].session = art[first].session
  BY <1>6
<1> QED BY <1>1, <1>3, <1>4, <1>7, <1>8 DEF id

\* What a stage publishes is as sound as what it was made from.
LEMMA CommitKeepsInv ==
    ASSUME StageInv, NEW a \in Actors, NEW status, commit_stage(a, status)
    PROVE StageInv'
<1> DEFINE id == FreshIn(job[a].stage)
<1>1. /\ Kept
      /\ id \in Ids \ Published /\ StageOf(id) = job[a].stage
      /\ Published' = Published \union {id}
      /\ art'[id].parents = job[a].parents
      /\ \A p \in job[a].parents : art[p].session = art'[id].session
  BY CommitPublishes
<1>2. /\ job[a] # Idle /\ Fits(art, job[a].stage, job[a].parents)
      /\ \A p \in job[a].parents : damage[p] \cap {"content_missing", "content_altered"} = {}
  BY DEF commit_stage, StageInv, JobIsSound
<1>3. job' = [job EXCEPT ![a] = Idle] /\ damage' = damage /\ tainted' = tainted
  BY <1>2 DEF commit_stage, Publish
<1> HIDE DEF id
<1>4. StageTypes'
  BY <1>1, <1>3 DEF StageInv, StageTypes, Published
<1>5. ASSUME NEW x \in Published' PROVE ArtIsSound(x)'
  <2>1. CASE x = id
    <3>1. Fits(art', job[a].stage, job[a].parents)
      BY <1>1, <1>2, FitsStays
    <3>2. \A p \in job[a].parents : art'[p].session = art'[id].session
      BY <1>1, <1>2 DEF Fits, Kept, Published
    <3> QED BY <1>1, <2>1, <3>1, <3>2 DEF ArtIsSound
  <2>2. CASE x \in Published
    <3>1. art'[x] = art[x]
      BY <1>1, <2>2 DEF Kept
    <3>2. CASE StageOf(x) # "normalization"
      <4>1. /\ Fits(art, StageOf(x), art[x].parents)
            /\ \A p \in art[x].parents : art[p].session = art[x].session
        BY <2>2, <3>2 DEF StageInv, ArtIsSound
      <4>2. Fits(art', StageOf(x), art[x].parents)
        BY <1>1, <4>1, FitsStays
      <4>3. \A p \in art[x].parents : art'[p] = art[p]
        BY <1>1, <4>1 DEF Fits, Kept, Published
      <4> QED BY <3>1, <4>1, <4>2, <4>3 DEF ArtIsSound
    <3> QED BY <3>2 DEF ArtIsSound
  <2> QED BY <1>1, <2>1, <2>2
<1>6. ASSUME NEW b \in Actors PROVE JobIsSound(b)'
  <2>1. CASE b = a
    BY <1>3, <2>1 DEF JobIsSound, StageInv, StageTypes
  <2>2. CASE b # a
    <3>1. job'[b] = job[b]
      BY <1>3, <2>2 DEF StageInv, StageTypes
    <3>2. JobIsSound(b)
      BY DEF StageInv
    <3> QED BY <1>1, <1>3, <3>1, <3>2, FitsStays DEF JobIsSound
  <2> QED BY <2>1, <2>2
<1> QED BY <1>3, <1>4, <1>5, <1>6 DEF StageInv

\* What the stages do: an actor starts, commits or gives up its work, or files change.
StageStep ==
    \/ \E a \in Actors, s \in StageNames, ps \in SUBSET Ids : begin_stage(a, s, ps)
    \/ \E a \in Actors, status \in Statuses : commit_stage(a, status)
    \/ \E a \in Actors : fail_stage(a)
    \/ \E id \in Ids, what \in SUBSET Damages : damage_files(id, what)
    \/ UNCHANGED stageVars

\* Whatever they do keeps the invariant, and the artifacts.
LEMMA StageStepInv ==
    ASSUME StageInv, StageStep
    PROVE StageInv' /\ Kept
<1>0. ASSUME art' = art PROVE Kept
  BY <1>0 DEF Kept, Published
<1>1. ASSUME NEW a \in Actors, NEW s \in StageNames, NEW ps \in SUBSET Ids, begin_stage(a, s, ps)
      PROVE StageInv' /\ Kept
  <2>1. /\ Fits(art, s, ps)
        /\ \A p \in ps : damage[p] \cap {"content_missing", "content_altered"} = {}
    BY <1>1, GateFits DEF begin_stage
  <2>2. job' = [job EXCEPT ![a] = [stage |-> s, parents |-> ps]] /\ UNCHANGED <<art, damage, tainted>>
    BY <1>1 DEF begin_stage
  <2>3. StageTypes'
    BY <1>1, <2>2 DEF StageInv, StageTypes, Jobs, Published
  <2>4. ASSUME NEW b \in Actors PROVE JobIsSound(b)'
    BY <2>1, <2>2 DEF StageInv, StageTypes, JobIsSound
  <2> QED BY <1>0, <2>2, <2>3, <2>4 DEF StageInv, ArtIsSound, Published
<1>2. ASSUME NEW a \in Actors, NEW status \in Statuses, commit_stage(a, status)
      PROVE StageInv' /\ Kept
  BY <1>2, CommitKeepsInv, CommitPublishes
<1>3. ASSUME NEW a \in Actors, fail_stage(a)
      PROVE StageInv' /\ Kept
  BY <1>0, <1>3 DEF fail_stage, StageInv, StageTypes, JobIsSound, ArtIsSound, Published
<1>4. ASSUME NEW id \in Ids, NEW what \in SUBSET Damages, damage_files(id, what)
      PROVE StageInv' /\ Kept
  <2>1. damage' = [damage EXCEPT ![id] = what] /\ id \notin InUse /\ UNCHANGED <<art, job, tainted>>
    BY <1>4 DEF damage_files
  <2>2. StageTypes'
    BY <1>4, <2>1 DEF StageInv, StageTypes, Published
  <2>3. ASSUME NEW b \in Actors PROVE JobIsSound(b)'
    BY <2>1 DEF StageInv, StageTypes, JobIsSound, InUse
  <2> QED BY <1>0, <2>1, <2>2, <2>3 DEF StageInv, ArtIsSound, Published
<1>5. CASE UNCHANGED stageVars
  BY <1>0, <1>5 DEF stageVars, StageInv, StageTypes, JobIsSound, ArtIsSound, Published
<1> QED BY <1>1, <1>2, <1>3, <1>4, <1>5 DEF StageStep

\* The artifacts there are at the start are sound.
LEMMA StageInitInv ==
    ASSUME StageInit
    PROVE StageInv
BY StagesAssumption DEF StageInit, StageInv, StageTypes, ArtIsSound, JobIsSound, Published

\* The invariant is what the packages' lineage needs.
LEMMA StageInvSound ==
    ASSUME StageInv
    PROVE LineageIsSound
<1> SUFFICES ASSUME NEW p \in OfStage("package")
             PROVE \E t \in OfStage("transformation"), q \in OfStage("qc"),
                      c \in OfStage("cleaning"), s \in OfStage("synchronization") :
                    /\ art[p].parents = {t, q}
                    /\ art[q].parents = {t} /\ Accepted(q)
                    /\ art[t].parents = {c} /\ art[c].status = "completed"
                    /\ art[c].parents = {s}
                    /\ \A n \in art[s].parents : art[n].session = art[p].session
  BY DEF LineageIsSound, StageInv
<1>0. \A id \in Published : ArtIsSound(id)
  BY DEF StageInv
<1>1. p \in Published /\ StageOf(p) = "package"
  BY DEF OfStage
<1>2. /\ Fits(art, "package", art[p].parents)
      /\ \A x \in art[p].parents : art[x].session = art[p].session
  BY <1>0, <1>1 DEF ArtIsSound
<1>3. PICK t \in art[p].parents, q \in art[p].parents :
        /\ art[p].parents = {t, q} /\ StageOf(t) = "transformation" /\ StageOf(q) = "qc"
        /\ art[q].parents = {t} /\ art[q].status = "passed"
  BY <1>2 DEF Fits
<1>4. t \in Published /\ q \in Published
  BY <1>2, <1>3 DEF Fits, Published
<1>5. Fits(art, "transformation", art[t].parents) /\ \A x \in art[t].parents : art[x].session = art[t].session
  BY <1>0, <1>3, <1>4 DEF ArtIsSound
<1>6. PICK c \in art[t].parents :
        art[t].parents = {c} /\ StageOf(c) = "cleaning" /\ art[c].status = "completed" /\ c \in Published
  BY <1>5 DEF Fits, Published
<1>7. Fits(art, "cleaning", art[c].parents) /\ \A x \in art[c].parents : art[x].session = art[c].session
  BY <1>0, <1>6 DEF ArtIsSound
<1>8. PICK s \in art[c].parents :
        art[c].parents = {s} /\ StageOf(s) = "synchronization" /\ s \in Published
  BY <1>7 DEF Fits, Published
<1>9. \A x \in art[s].parents : art[x].session = art[s].session
  BY <1>0, <1>8 DEF ArtIsSound
<1>10. art[s].session = art[p].session
  BY <1>2, <1>3, <1>5, <1>6, <1>7, <1>8
<1> QED BY <1>3, <1>4, <1>6, <1>8, <1>9, <1>10 DEF OfStage, Accepted

-----------------------------------------------------------------------------
(***************************************************************************)
(* The invariant of the executions.  An execution's plan is about known    *)
(* artifacts; a step that has been made, or is being made, has its         *)
(* replaced parents behind it for good, so that what they were resolved to *)
(* is final.                                                               *)
(***************************************************************************)

RebuildPlans == [old : Ids, new : Ids, steps : SUBSET Ids]
StepResults == {"skipped_upstream_not_rebuilt", "skipped_manual_configuration_required",
                "rebuilt", "failed"}
Maps(S) == UNION {[D -> S] : D \in SUBSET Ids}

Execs == [step : {"resting", "checked", "executing"}, plan : RebuildPlans \union {NoPlan},
          todo : SUBSET Ids, resolved : Maps(Ids), unavailable : SUBSET Ids,
          current : Ids \union {Idle}, results : Maps(SUBSET StepResults)]

PlanIsSound(plan) ==
    /\ plan \in RebuildPlans
    /\ {plan.old, plan.new} \subseteq known /\ plan.steps \subseteq known \ {plan.old}
    /\ StageOf(plan.old) = StageOf(plan.new)
    /\ art[plan.old].session = art[plan.new].session

\* Step s comes after the steps that make its parents, and these have not failed.
ParentsAreDone(w, s) ==
    Replaced(exec[w].plan, s) \cap (exec[w].todo \union exec[w].unavailable) = {}

\* What x was resolved to may take its place.
IsReplacement(w, x) ==
    /\ exec[w].resolved[x] \in Published
    /\ StageOf(exec[w].resolved[x]) = StageOf(x)
    /\ art[exec[w].resolved[x]].session = art[x].session

\* Step s has been made.
IsMade(w, s) ==
    /\ s \in exec[w].todo => s = exec[w].current /\ job[w] = Idle
    /\ exec[w].resolved[s] # s
    /\ art[exec[w].resolved[s]].parents = ResolvedParents(w, s)
    /\ ParentsAreDone(w, s)

\* Step s is being made or marked.
IsCurrent(w, s) ==
    /\ s \in exec[w].todo /\ ParentsAreDone(w, s)
    /\ job[w] = Idle => s \in DOMAIN exec[w].resolved
    /\ job[w] # Idle =>
        /\ s \notin DOMAIN exec[w].resolved
        /\ job[w].stage = StageOf(s) /\ job[w].parents = ResolvedParents(w, s)

Executing(w) ==
    /\ exec[w].todo \subseteq exec[w].plan.steps
    /\ exec[w].plan.old \in DOMAIN exec[w].resolved
    /\ DOMAIN exec[w].resolved \subseteq exec[w].plan.steps \union {exec[w].plan.old}
    /\ exec[w].plan.steps \ (exec[w].todo \union exec[w].unavailable) \subseteq DOMAIN exec[w].resolved
    /\ \A x \in DOMAIN exec[w].resolved : IsReplacement(w, x)
    /\ \A s \in DOMAIN exec[w].resolved \ {exec[w].plan.old} : IsMade(w, s)
    /\ exec[w].current # Idle => IsCurrent(w, exec[w].current)

ExecIsSound(w) ==
    /\ exec[w].step # "resting" => PlanIsSound(exec[w].plan)
    /\ exec[w].step # "executing" => exec[w].current = Idle /\ exec[w].unavailable = {}
    /\ exec[w].step = "executing" => Executing(w)

Inv ==
    /\ StageInv
    /\ known \subseteq Published
    /\ exec \in [Workers -> Execs]
    /\ \A w \in Workers : ExecIsSound(w)
    /\ SuccessorsAreRealReplacements

-----------------------------------------------------------------------------
(* Executions.                                                             *)

\* The steps of others leave an execution as sound as it was.
LEMMA ExecStays ==
    ASSUME Inv, Kept, known \subseteq known', NEW w \in Workers,
           exec'[w] = exec[w], job'[w] = job[w]
    PROVE ExecIsSound(w)'
<1>1. ExecIsSound(w) /\ exec[w] \in Execs /\ known \subseteq Published
  BY DEF Inv
<1>2. exec[w].step # "resting" => PlanIsSound(exec[w].plan)'
  BY <1>1 DEF ExecIsSound, PlanIsSound, Kept
<1>3. ASSUME exec[w].step = "executing"
      PROVE Executing(w)'
  <2>1. /\ Executing(w)
        /\ exec[w].plan.steps \union {exec[w].plan.old} \subseteq Published
    BY <1>1, <1>3 DEF ExecIsSound, PlanIsSound
  <2>2. ASSUME NEW x \in DOMAIN exec[w].resolved
        PROVE IsReplacement(w, x)'
    BY <2>1 DEF Executing, IsReplacement, Kept
  <2>3. ASSUME NEW s \in exec[w].plan.steps
        PROVE /\ ResolvedParents(w, s)' = ResolvedParents(w, s)
              /\ ParentsAreDone(w, s)' = ParentsAreDone(w, s)
    BY <2>1 DEF ResolvedParents, ParentsAreDone, Replaced, Kept
  <2>4. ASSUME NEW s \in DOMAIN exec[w].resolved \ {exec[w].plan.old}
        PROVE IsMade(w, s)'
    <3>1. IsMade(w, s) /\ IsReplacement(w, s) /\ s \in exec[w].plan.steps
      BY <2>1 DEF Executing
    <3>2. art'[exec[w].resolved[s]] = art[exec[w].resolved[s]]
      BY <3>1 DEF IsReplacement, Kept
    <3> QED BY <2>3, <3>1, <3>2 DEF IsMade
  <2>5. ASSUME exec[w].current # Idle
        PROVE IsCurrent(w, exec[w].current)'
    <3>1. IsCurrent(w, exec[w].current) /\ exec[w].current \in exec[w].plan.steps
      BY <2>1, <2>5 DEF Executing, IsCurrent
    <3> QED BY <2>3, <3>1 DEF IsCurrent
  <2> QED BY <2>1, <2>2, <2>4, <2>5 DEF Executing
<1> QED BY <1>1, <1>2, <1>3 DEF ExecIsSound

\* So do they leave what the governance rows say.
LEMMA SuccessorsStay ==
    ASSUME Inv, Kept, known \subseteq known', successor' = successor
    PROVE SuccessorsAreRealReplacements'
BY DEF Inv, SuccessorsAreRealReplacements, Kept

\* A step of w that the stages take as one of theirs keeps the invariant when it
\* leaves the execution of w sound.
LEMMA StepOfOne ==
    ASSUME Inv, StageStep, known \subseteq known', known' \subseteq Published', NEW w,
           exec' \in [Workers -> Execs],
           \A v \in Workers \ {w} : exec'[v] = exec[v] /\ job'[v] = job[v],
           w \in Workers => ExecIsSound(w)',
           SuccessorsAreRealReplacements'
    PROVE Inv'
<1>1. StageInv' /\ Kept
  BY StageStepInv DEF Inv
<1>2. ASSUME NEW v \in Workers PROVE ExecIsSound(v)'
  BY <1>1, ExecStays
<1> QED BY <1>1, <1>2 DEF Inv

\* A step that is over without an artifact.
LEMMA GiveUpFields ==
    ASSUME exec \in [Workers -> Execs], NEW w \in Workers, NEW s \in Ids,
           NEW status \in StepResults, GiveUp(w, s, status)
    PROVE /\ exec' \in [Workers -> Execs]
          /\ \A v \in Workers \ {w} : exec'[v] = exec[v]
          /\ exec'[w].step = exec[w].step /\ exec'[w].plan = exec[w].plan
          /\ exec'[w].todo = exec[w].todo \ {s} /\ exec'[w].current = Idle
          /\ exec'[w].unavailable = exec[w].unavailable \union {s}
          /\ exec'[w].resolved = exec[w].resolved
<1>1. exec[w] \in Execs
  OBVIOUS
<1> DEFINE results == [exec[w].results EXCEPT ![s] = @ \union {status}]
           e == [exec[w] EXCEPT !.todo = @ \ {s}, !.current = Idle,
                    !.unavailable = @ \union {s}, !.results[s] = @ \union {status}]
<1>2. results \in Maps(SUBSET StepResults)
  <2>1. PICK D \in SUBSET Ids : exec[w].results \in [D -> SUBSET StepResults]
    BY <1>1 DEF Execs, Maps
  <2>2. results \in [D -> SUBSET StepResults]
    BY <2>1
  <2> QED BY <2>2 DEF Maps
<1>3. exec' = [exec EXCEPT ![w] = e]
  BY DEF GiveUp
<1>4. e.results = results
  BY <1>1 DEF Execs
<1> HIDE DEF results
<1>5. e \in Execs
  BY <1>1, <1>2, <1>4 DEF Execs
<1>6. /\ e.step = exec[w].step /\ e.plan = exec[w].plan
      /\ e.todo = exec[w].todo \ {s} /\ e.current = Idle
      /\ e.unavailable = exec[w].unavailable \union {s}
      /\ e.resolved = exec[w].resolved
  BY <1>1 DEF Execs
<1> HIDE DEF e
<1> QED BY <1>3, <1>5, <1>6

\* Step s of an execution, which may come next or is current, is given up.
LEMMA GiveUpInv ==
    ASSUME Inv, StageStep, NEW w \in Workers, NEW s \in exec[w].todo,
           NEW status \in StepResults, GiveUp(w, s, status),
           exec[w].step = "executing", exec[w].current \in {s, Idle},
           \A v \in Workers \ {w} : job'[v] = job[v],
           known' = known, successor' = successor
    PROVE Inv'
<1>0. /\ exec \in [Workers -> Execs] /\ exec[w] \in Execs /\ s \in Ids
      /\ ExecIsSound(w) /\ Executing(w) /\ PlanIsSound(exec[w].plan) /\ known \subseteq Published
  BY DEF Inv, Execs, ExecIsSound
<1>1. /\ exec' \in [Workers -> Execs]
      /\ \A v \in Workers \ {w} : exec'[v] = exec[v]
      /\ exec'[w].step = exec[w].step /\ exec'[w].plan = exec[w].plan
      /\ exec'[w].todo = exec[w].todo \ {s} /\ exec'[w].current = Idle
      /\ exec'[w].unavailable = exec[w].unavailable \union {s}
      /\ exec'[w].resolved = exec[w].resolved
  BY <1>0, GiveUpFields
<1>2. StageInv' /\ Kept
  BY StageStepInv DEF Inv
<1>3. PlanIsSound(exec[w].plan)'
  BY <1>0, <1>1, <1>2 DEF PlanIsSound, Kept
<1>4. ASSUME NEW x \in DOMAIN exec[w].resolved
      PROVE IsReplacement(w, x)'
  <2>1. x \in Published
    BY <1>0 DEF Executing, PlanIsSound
  <2> QED BY <1>0, <1>1, <1>2, <2>1 DEF Executing, IsReplacement, Kept
<1>5. ASSUME NEW x \in DOMAIN exec[w].resolved \ {exec[w].plan.old}
      PROVE IsMade(w, x)'
  <2>1. IsMade(w, x) /\ IsReplacement(w, x) /\ x \in Published
    BY <1>0 DEF Executing, PlanIsSound
  <2>2. Replaced(exec[w].plan, x)' = Replaced(exec[w].plan, x)
    BY <1>1, <1>2, <2>1 DEF Replaced, Kept
  <2>3. ParentsAreDone(w, x)'
    BY <1>1, <2>1, <2>2 DEF IsMade, ParentsAreDone
  <2>4. ResolvedParents(w, x)' = ResolvedParents(w, x)
    BY <1>1, <1>2, <2>1, <2>2 DEF ResolvedParents, Kept
  <2>5. x \notin exec'[w].todo
    BY <1>0, <1>1, <2>1, StagesAssumption DEF IsMade, Execs
  <2>6. art'[exec[w].resolved[x]] = art[exec[w].resolved[x]]
    BY <1>2, <2>1 DEF IsReplacement, Kept
  <2> QED BY <1>1, <2>1, <2>3, <2>4, <2>5, <2>6 DEF IsMade
<1>6. Executing(w)'
  BY <1>0, <1>1, <1>4, <1>5 DEF Executing
<1>7. ExecIsSound(w)'
  BY <1>1, <1>3, <1>6 DEF ExecIsSound
<1> QED BY <1>0, <1>1, <1>2, <1>7, StepOfOne, SuccessorsStay DEF Kept

\* Resting is a state of an execution.
LEMMA RestingType == Resting \in Execs
<1>1. << >> \in [{} -> Ids] /\ << >> \in [{} -> SUBSET StepResults]
  OBVIOUS
<1>2. << >> \in Maps(Ids) /\ << >> \in Maps(SUBSET StepResults)
  BY <1>1 DEF Maps
<1> QED BY <1>2 DEF Resting, Execs

\* An execution that ends, whichever way, is sound.
LEMMA RestingInv ==
    ASSUME Inv, StageStep, NEW w \in Workers, exec' = [exec EXCEPT ![w] = Resting],
           \A v \in Workers \ {w} : job'[v] = job[v],
           known' = known, successor' = successor
    PROVE Inv'
<1>1. exec' \in [Workers -> Execs] /\ exec'[w] = Resting /\ \A v \in Workers \ {w} : exec'[v] = exec[v]
  BY RestingType DEF Inv
<1>2. ExecIsSound(w)'
  BY <1>1 DEF ExecIsSound, Resting
<1>3. StageInv' /\ Kept
  BY StageStepInv DEF Inv
<1> QED BY <1>1, <1>2, <1>3, StepOfOne, SuccessorsStay DEF Inv, Kept

\* A plan that has just been computed is about known artifacts.
LEMMA PlanSound ==
    ASSUME Inv, NEW old, NEW new, Compatible(old, new)
    PROVE PlanIsSound(Plan(old, new))
<1>1. known \subseteq Ids
  BY DEF Inv, StageInv, StageTypes
<1>2. \A S \in SUBSET known : Extend(S) \in SUBSET known
  BY DEF Extend
<1>3. {old} \in SUBSET known
  BY DEF Compatible
<1>4. Downstream(old) \in SUBSET known
  BY <1>2, <1>3 DEF Downstream
<1> QED BY <1>1, <1>4 DEF PlanIsSound, Plan, RebuildPlans, Compatible

\* execute_rebuild checks its plan ...
LEMMA CheckPlanInv ==
    ASSUME Inv, NEW w \in Workers, NEW plan, check_plan(w, plan)
    PROVE Inv'
<1>1. PlanIsSound(plan)
  BY PlanSound DEF check_plan
<1> DEFINE e == [Resting EXCEPT !.step = "checked", !.plan = plan]
<1>2. exec' = [exec EXCEPT ![w] = e] /\ UNCHANGED <<stageVars, known, successor>>
  BY DEF check_plan
<1>3. /\ e \in Execs /\ e.step = "checked" /\ e.plan = plan /\ e.current = Idle
      /\ e.unavailable = {}
  BY <1>1, RestingType DEF Execs, PlanIsSound, Resting
<1> HIDE DEF e
<1>4. exec' \in [Workers -> Execs] /\ exec'[w] = e /\ \A v \in Workers \ {w} : exec'[v] = exec[v]
  BY <1>2, <1>3 DEF Inv
<1>5. ExecIsSound(w)'
  BY <1>1, <1>2, <1>3, <1>4 DEF ExecIsSound, PlanIsSound, stageVars
<1>6. StageStep
  BY <1>2 DEF StageStep
<1>7. StageInv' /\ Kept
  BY <1>6, StageStepInv DEF Inv
<1> QED BY <1>2, <1>4, <1>5, <1>6, <1>7, StepOfOne, SuccessorsStay DEF Inv, Kept, stageVars

\* ... and takes the lock, or does not get it.
LEMMA AcquireInv ==
    ASSUME Inv, NEW w \in Workers, acquire(w)
    PROVE Inv'
<1> DEFINE plan == exec[w].plan
<1>1. UNCHANGED <<stageVars, known, successor>> /\ exec[w].step = "checked"
  BY DEF acquire
<1>2. StageStep
  BY <1>1 DEF StageStep
<1>3. CASE exec' = [exec EXCEPT ![w] = Resting]
  BY <1>1, <1>2, <1>3, RestingInv DEF stageVars
<1>4. ASSUME exec' = [exec EXCEPT ![w] = [exec[w] EXCEPT !.step = "executing", !.todo = plan.steps,
                              !.resolved = [x \in {plan.old} |-> plan.new],
                              !.results = [x \in plan.steps |-> {}]]]
      PROVE Inv'
  <2>1. exec[w] \in Execs /\ ExecIsSound(w) /\ known \subseteq Published
    BY DEF Inv
  <2>2. PlanIsSound(plan) /\ exec[w].current = Idle /\ exec[w].unavailable = {}
    BY <1>1, <2>1 DEF ExecIsSound
  <2> DEFINE resolved == [x \in {plan.old} |-> plan.new]
             results == [x \in plan.steps |-> {}]
             e == [exec[w] EXCEPT !.step = "executing", !.todo = plan.steps,
                        !.resolved = resolved, !.results = results]
  <2>3. resolved \in Maps(Ids) /\ results \in Maps(SUBSET StepResults)
    <3>1. resolved \in [{plan.old} -> Ids] /\ results \in [plan.steps -> SUBSET StepResults]
      BY <2>2 DEF PlanIsSound, RebuildPlans
    <3>2. {plan.old} \in SUBSET Ids /\ plan.steps \in SUBSET Ids
      BY <2>2 DEF PlanIsSound, RebuildPlans
    <3> QED BY <3>1, <3>2 DEF Maps
  <2>4. exec' = [exec EXCEPT ![w] = e]
    BY <1>4
  <2>5. DOMAIN resolved = {plan.old} /\ resolved[plan.old] = plan.new
    OBVIOUS
  <2> HIDE DEF resolved, results
  <2>6. /\ e \in Execs /\ e.step = "executing" /\ e.plan = plan /\ e.todo = plan.steps
        /\ e.resolved = resolved /\ e.current = Idle /\ e.unavailable = {}
    BY <2>1, <2>2, <2>3 DEF Execs, PlanIsSound, RebuildPlans
  <2> HIDE DEF e
  <2>7. exec' \in [Workers -> Execs] /\ exec'[w] = e /\ \A v \in Workers \ {w} : exec'[v] = exec[v]
    BY <2>4, <2>6 DEF Inv
  <2>8. PlanIsSound(exec[w].plan)'
    BY <1>1, <2>2, <2>6, <2>7 DEF PlanIsSound, stageVars
  <2>9. IsReplacement(w, plan.old)'
    BY <1>1, <2>1, <2>2, <2>5, <2>6, <2>7 DEF IsReplacement, PlanIsSound, stageVars, Published
  <2>10. Executing(w)'
    BY <2>5, <2>6, <2>7, <2>9 DEF Executing
  <2>11. ExecIsSound(w)'
    BY <2>6, <2>7, <2>8, <2>10 DEF ExecIsSound
  <2>12. StageInv' /\ Kept
    BY <1>2, StageStepInv DEF Inv
  <2> QED BY <1>1, <1>2, <2>7, <2>11, <2>12, StepOfOne, SuccessorsStay DEF Inv, Kept, stageVars
<1> QED BY <1>3, <1>4 DEF acquire

\* _execute_step starts a stage.
LEMMA ExecuteStepInv ==
    ASSUME Inv, NEW w \in Workers, NEW s \in exec[w].todo, execute_step(w, s)
    PROVE Inv'
<1> DEFINE ps == ResolvedParents(w, s)
<1>0. /\ exec[w] \in Execs /\ ExecIsSound(w) /\ known \subseteq Published /\ w \in Actors
      /\ s \in NextSteps(w) /\ ~Blocked(w, s)
  BY RebuildAssumption DEF Inv, execute_step
<1>1. exec[w].step = "executing" /\ exec[w].current = Idle /\ Replaced(exec[w].plan, s) \cap exec[w].todo = {}
  BY <1>0 DEF NextSteps
<1>2. Executing(w) /\ PlanIsSound(exec[w].plan)
  BY <1>0, <1>1 DEF ExecIsSound
<1>3. /\ begin_stage(w, StageOf(s), ps) /\ UNCHANGED <<known, successor>>
      /\ exec' = [exec EXCEPT ![w] = [exec[w] EXCEPT !.current = s]]
  BY DEF execute_step
<1>4. /\ exec' \in [Workers -> Execs] /\ \A v \in Workers \ {w} : exec'[v] = exec[v]
      /\ exec'[w].step = exec[w].step /\ exec'[w].plan = exec[w].plan
      /\ exec'[w].todo = exec[w].todo /\ exec'[w].unavailable = exec[w].unavailable
      /\ exec'[w].resolved = exec[w].resolved /\ exec'[w].current = s
  <2>1. [exec[w] EXCEPT !.current = s] \in Execs
    BY <1>0 DEF Execs
  <2> QED BY <1>0, <1>3, <2>1 DEF Inv, Execs
<1>5. StageOf(s) \in StageNames /\ ps \in SUBSET Ids
  <2>1. Fits(art, StageOf(s), ps)
    BY <1>3, GateFits DEF begin_stage
  <2> QED BY <1>0, <2>1 DEF Fits, Inv, StageInv, StageTypes, Published, Execs, Ids, StageOf
<1>6. StageStep
  BY <1>0, <1>3, <1>5 DEF StageStep
<1>7. /\ job' = [job EXCEPT ![w] = [stage |-> StageOf(s), parents |-> ps]]
      /\ job[w] = Idle /\ art' = art /\ job \in [Actors -> Jobs \union {Idle}]
  BY <1>3 DEF begin_stage, Inv, StageInv, StageTypes
<1>8. /\ job'[w].stage = StageOf(s) /\ job'[w].parents = ps /\ job'[w] # Idle
      /\ \A v \in Workers \ {w} : job'[v] = job[v]
  <2>1. job'[w] = [stage |-> StageOf(s), parents |-> ps] /\ \A v \in Workers \ {w} : job'[v] = job[v]
    BY <1>0, <1>7, RebuildAssumption
  <2>2. job'[w] \in Jobs
    BY <1>5, <2>1 DEF Jobs
  <2> QED BY <2>1, <2>2, StagesAssumption
<1> HIDE DEF ps
<1>9. /\ \A x : ResolvedParents(w, x)' = ResolvedParents(w, x)
      /\ \A x : ParentsAreDone(w, x)' = ParentsAreDone(w, x)
  BY <1>4, <1>7 DEF ResolvedParents, ParentsAreDone, Replaced
<1>10. \A x \in DOMAIN exec[w].resolved : IsReplacement(w, x)'
  BY <1>2, <1>4, <1>7 DEF Executing, IsReplacement, Published
<1>11. ASSUME NEW x \in DOMAIN exec[w].resolved \ {exec[w].plan.old} PROVE IsMade(w, x)'
  <2>1. IsMade(w, x) /\ x \in Ids
    BY <1>0, <1>2 DEF Executing, PlanIsSound, RebuildPlans
  <2>2. x \notin exec[w].todo
    BY <1>1, <2>1, StagesAssumption DEF IsMade
  <2> QED BY <1>4, <1>7, <1>9, <2>1, <2>2 DEF IsMade
<1>12. s \notin DOMAIN exec[w].resolved
  <2>1. s # exec[w].plan.old
    BY <1>2 DEF Executing, PlanIsSound
  <2>2. s \in Ids
    BY <1>0 DEF Execs
  <2> QED BY <1>1, <1>2, <2>1, <2>2, StagesAssumption DEF Executing, IsMade
<1>13. IsCurrent(w, s)'
  <2>1. ParentsAreDone(w, s)
    BY <1>0, <1>1 DEF Blocked, ParentsAreDone
  <2> QED BY <1>4, <1>8, <1>9, <1>12, <2>1 DEF IsCurrent, ps
<1>14. Executing(w)'
  BY <1>2, <1>4, <1>10, <1>11, <1>13 DEF Executing
<1>15. ExecIsSound(w)'
  BY <1>1, <1>2, <1>3, <1>4, <1>7, <1>14 DEF ExecIsSound, PlanIsSound
<1>16. StageInv' /\ Kept
  BY <1>6, StageStepInv DEF Inv
<1> QED BY <1>3, <1>4, <1>6, <1>8, <1>15, <1>16, StepOfOne, SuccessorsStay DEF Inv, Kept

\* The parents of a step that can be made lead to its session.
LEMMA ResolvedSession ==
    ASSUME Inv, NEW w \in Workers, exec[w].step = "executing", NEW s \in exec[w].plan.steps,
           ParentsAreDone(w, s), StageOf(s) # "normalization"
    PROVE \E p \in ResolvedParents(w, s) : art[p].session = art[s].session
<1>1. Executing(w) /\ s \in Published
  BY DEF Inv, ExecIsSound, PlanIsSound
<1>2. /\ Fits(art, StageOf(s), art[s].parents)
      /\ \A p \in art[s].parents : art[p].session = art[s].session
  BY <1>1 DEF Inv, StageInv, ArtIsSound
<1>3. PICK q \in art[s].parents : art[q].session = art[s].session
  BY <1>2, FitsOneSession DEF Inv
<1>4. CASE q \in Replaced(exec[w].plan, s)
  <2>1. q \in DOMAIN exec[w].resolved
    BY <1>1, <1>4 DEF ParentsAreDone, Replaced, Executing
  <2>2. exec[w].resolved[q] \in ResolvedParents(w, s)
    BY <1>4 DEF ResolvedParents
  <2> QED BY <1>1, <1>3, <2>1, <2>2 DEF Executing, IsReplacement
<1>5. CASE q \notin Replaced(exec[w].plan, s)
  BY <1>3, <1>5 DEF ResolvedParents
<1> QED BY <1>4, <1>5

\* The stage has published what it made of step s.
LEMMA FinishStepInv ==
    ASSUME Inv, NEW w \in Workers, NEW status \in Statuses, finish_step(w, status)
    PROVE Inv'
<1> DEFINE s == exec[w].current
           id == FreshIn(job[w].stage)
<1>0. exec[w] \in Execs /\ ExecIsSound(w) /\ known \subseteq Published /\ w \in Actors
  BY RebuildAssumption DEF Inv
<1>1. s # Idle /\ job[w] # Idle /\ commit_stage(w, status) /\ UNCHANGED <<known, successor>>
  BY DEF finish_step
<1>2. exec[w].step = "executing" /\ Executing(w) /\ PlanIsSound(exec[w].plan)
  BY <1>0, <1>1 DEF ExecIsSound, Execs
<1>3. /\ IsCurrent(w, s) /\ s \in exec[w].todo /\ s \in exec[w].plan.steps
      /\ s \notin DOMAIN exec[w].resolved /\ ParentsAreDone(w, s)
      /\ job[w].stage = StageOf(s) /\ job[w].parents = ResolvedParents(w, s)
  BY <1>1, <1>2 DEF Executing, IsCurrent
<1>4. /\ Kept /\ id \in Ids \ Published /\ StageOf(id) = StageOf(s)
      /\ Published' = Published \union {id}
      /\ art'[id].parents = ResolvedParents(w, s)
      /\ \A p \in ResolvedParents(w, s) : art[p].session = art'[id].session
  BY <1>0, <1>1, <1>3, CommitPublishes DEF Inv
<1>5. /\ exec' = [exec EXCEPT ![w] = [exec[w] EXCEPT !.resolved = Put(@, s, id),
                                         !.results[s] = @ \union {"rebuilt"}]]
      /\ job' = [job EXCEPT ![w] = Idle]
  BY <1>3 DEF finish_step, commit_stage, Publish
<1> DEFINE resolved == Put(exec[w].resolved, s, id)
           results == [exec[w].results EXCEPT ![s] = @ \union {"rebuilt"}]
           e == [exec[w] EXCEPT !.resolved = resolved, !.results[s] = @ \union {"rebuilt"}]
<1>6. e.results = results
  BY <1>0 DEF Execs
<1>7. results \in Maps(SUBSET StepResults)
  <2>1. PICK D \in SUBSET Ids : exec[w].results \in [D -> SUBSET StepResults]
    BY <1>0 DEF Execs, Maps
  <2>2. results \in [D -> SUBSET StepResults]
    BY <2>1 DEF StepResults
  <2> QED BY <2>2 DEF Maps
<1>8. exec' = [exec EXCEPT ![w] = e]
  BY <1>5
<1> HIDE DEF id, results
<1>9. /\ DOMAIN resolved = DOMAIN exec[w].resolved \union {s} /\ resolved[s] = id
      /\ \A x \in DOMAIN exec[w].resolved : resolved[x] = exec[w].resolved[x]
  BY <1>3 DEF Put
<1>10. resolved \in Maps(Ids)
  <2>1. PICK D \in SUBSET Ids : exec[w].resolved \in [D -> Ids]
    BY <1>0 DEF Execs, Maps
  <2>2. D \union {s} \in SUBSET Ids
    BY <1>2, <1>3 DEF PlanIsSound, RebuildPlans
  <2>3. resolved \in [D \union {s} -> Ids]
    BY <1>4, <2>1 DEF Put
  <2> QED BY <2>2, <2>3 DEF Maps
<1> HIDE DEF resolved
<1>11. /\ e \in Execs /\ e.step = exec[w].step /\ e.plan = exec[w].plan /\ e.todo = exec[w].todo
       /\ e.unavailable = exec[w].unavailable /\ e.current = exec[w].current /\ e.resolved = resolved
  BY <1>0, <1>6, <1>7, <1>10 DEF Execs
<1> HIDE DEF e
<1>12. exec' \in [Workers -> Execs] /\ exec'[w] = e /\ \A v \in Workers \ {w} : exec'[v] = exec[v]
  BY <1>8, <1>11 DEF Inv
<1>13. job'[w] = Idle /\ \A v \in Workers \ {w} : job'[v] = job[v]
  BY <1>0, <1>5, RebuildAssumption DEF Inv, StageInv, StageTypes
<1>14. ASSUME NEW x \in exec[w].plan.steps, ParentsAreDone(w, x)
       PROVE ParentsAreDone(w, x)' /\ ResolvedParents(w, x)' = ResolvedParents(w, x)
  <2>1. x \in Published
    BY <1>0, <1>2 DEF PlanIsSound
  <2>2. Replaced(exec[w].plan, x)' = Replaced(exec[w].plan, x) /\ art'[x].parents = art[x].parents
    BY <1>4, <1>11, <1>12, <2>1 DEF Replaced, Kept
  <2>3. Replaced(exec[w].plan, x) \subseteq DOMAIN exec[w].resolved
    BY <1>2, <1>14 DEF ParentsAreDone, Executing, Replaced
  <2>4. \A p \in Replaced(exec[w].plan, x) : exec'[w].resolved[p] = exec[w].resolved[p]
    BY <1>9, <1>11, <1>12, <2>3
  <2> QED BY <1>11, <1>12, <1>14, <2>2, <2>4 DEF ParentsAreDone, ResolvedParents
<1>15. ASSUME NEW x \in DOMAIN resolved PROVE IsReplacement(w, x)'
  <2>1. CASE x = s
    <3>1. StageOf(s) # "normalization"
      BY <1>0, <1>1, <1>3 DEF Inv, StageInv, JobIsSound, Fits
    <3>2. PICK p \in ResolvedParents(w, s) : art[p].session = art[s].session
      BY <1>2, <1>3, <3>1, ResolvedSession
    <3>3. art'[s].session = art[s].session
      BY <1>0, <1>2, <1>3, <1>4 DEF PlanIsSound, Kept
    <3> QED BY <1>4, <1>9, <1>11, <1>12, <2>1, <3>2, <3>3 DEF IsReplacement
  <2>2. CASE x \in DOMAIN exec[w].resolved
    <3>1. IsReplacement(w, x) /\ x \in Published
      BY <1>0, <1>2, <2>2 DEF Executing, PlanIsSound
    <3> QED BY <1>4, <1>9, <1>11, <1>12, <2>2, <3>1 DEF IsReplacement, Kept
  <2> QED BY <1>9, <2>1, <2>2
<1>16. ASSUME NEW x \in DOMAIN resolved \ {exec[w].plan.old} PROVE IsMade(w, x)'
  <2>1. CASE x = s
    <3>1. id # s
      BY <1>0, <1>2, <1>3, <1>4 DEF PlanIsSound
    <3> QED BY <1>3, <1>4, <1>9, <1>11, <1>12, <1>13, <1>14, <2>1, <3>1 DEF IsMade
  <2>2. CASE x \in DOMAIN exec[w].resolved
    <3>1. IsMade(w, x) /\ IsReplacement(w, x) /\ x \in exec[w].plan.steps
      BY <1>2, <2>2 DEF Executing
    <3>2. art'[exec[w].resolved[x]] = art[exec[w].resolved[x]]
      BY <1>4, <3>1 DEF IsReplacement, Kept
    <3>3. x \notin exec[w].todo
      BY <1>1, <3>1 DEF IsMade
    <3>4. ParentsAreDone(w, x)' /\ ResolvedParents(w, x)' = ResolvedParents(w, x)
      BY <1>14, <3>1 DEF IsMade
    <3> QED BY <1>9, <1>11, <1>12, <2>2, <3>1, <3>2, <3>3, <3>4 DEF IsMade
  <2> QED BY <1>9, <2>1, <2>2
<1>17. IsCurrent(w, s)'
  BY <1>3, <1>9, <1>11, <1>12, <1>13, <1>14 DEF IsCurrent
<1>18. Executing(w)'
  BY <1>2, <1>3, <1>9, <1>11, <1>12, <1>15, <1>16, <1>17 DEF Executing
<1>19. PlanIsSound(exec[w].plan)'
  BY <1>0, <1>1, <1>2, <1>4, <1>11, <1>12 DEF PlanIsSound, Kept
<1>20. ExecIsSound(w)'
  BY <1>2, <1>11, <1>12, <1>18, <1>19 DEF ExecIsSound
<1>21. StageStep
  BY <1>0, <1>1 DEF StageStep
<1> QED BY <1>0, <1>1, <1>4, <1>12, <1>13, <1>20, <1>21, StepOfOne, SuccessorsStay DEF Kept

\* Step s is marked superseded by what it became.
LEMMA MarkInv ==
    ASSUME Inv, NEW w \in Workers, mark_superseded(w)
    PROVE Inv'
<1> DEFINE s == exec[w].current
<1>0. exec[w] \in Execs /\ ExecIsSound(w) /\ known \subseteq Published
  BY DEF Inv
<1>1. /\ s # Idle /\ job[w] = Idle /\ UNCHANGED <<stageVars, known>>
      /\ successor' = Put(successor, s, exec[w].resolved[s])
      /\ exec' = [exec EXCEPT ![w] = [exec[w] EXCEPT !.todo = @ \ {s}, !.current = Idle]]
  BY DEF mark_superseded
<1>2. exec[w].step = "executing" /\ Executing(w) /\ PlanIsSound(exec[w].plan)
  BY <1>0, <1>1 DEF ExecIsSound, Execs
<1>3. /\ s \in exec[w].todo /\ s \in DOMAIN exec[w].resolved
      /\ s \in exec[w].plan.steps /\ s # exec[w].plan.old
  BY <1>1, <1>2 DEF Executing, IsCurrent, PlanIsSound
<1>4. s \in known /\ IsReplacement(w, s) /\ exec[w].resolved[s] # s
  BY <1>2, <1>3 DEF Executing, IsMade, PlanIsSound
<1>5. SuccessorsAreRealReplacements'
  <2> SUFFICES ASSUME NEW x \in DOMAIN successor'
               PROVE /\ x \in known' /\ successor'[x] \in Published' \ {x}
                     /\ StageOf(successor'[x]) = StageOf(x)
                     /\ art'[successor'[x]].session = art'[x].session
    BY DEF SuccessorsAreRealReplacements
  <2>1. art' = art /\ known' = known /\ Published' = Published
    BY <1>1 DEF stageVars, Published
  <2>2. CASE x = s
    BY <1>1, <1>4, <2>1, <2>2 DEF Put, IsReplacement
  <2>3. CASE x # s
    BY <1>1, <2>1, <2>3 DEF Put, Inv, SuccessorsAreRealReplacements
  <2> QED BY <2>2, <2>3
<1> DEFINE e == [exec[w] EXCEPT !.todo = @ \ {s}, !.current = Idle]
<1>6. /\ e \in Execs /\ e.step = exec[w].step /\ e.plan = exec[w].plan /\ e.todo = exec[w].todo \ {s}
      /\ e.unavailable = exec[w].unavailable /\ e.current = Idle /\ e.resolved = exec[w].resolved
  BY <1>0 DEF Execs
<1>7. exec' = [exec EXCEPT ![w] = e]
  BY <1>1
<1> HIDE DEF e
<1>8. exec' \in [Workers -> Execs] /\ exec'[w] = e /\ \A v \in Workers \ {w} : exec'[v] = exec[v]
  BY <1>6, <1>7 DEF Inv
<1>9. art' = art /\ job' = job /\ Published' = Published
  BY <1>1 DEF stageVars, Published
<1>10. \A x \in DOMAIN exec[w].resolved : IsReplacement(w, x)'
  BY <1>2, <1>6, <1>8, <1>9 DEF Executing, IsReplacement
<1>11. ASSUME NEW x \in DOMAIN exec[w].resolved \ {exec[w].plan.old} PROVE IsMade(w, x)'
  <2>1. IsMade(w, x)
    BY <1>2 DEF Executing
  <2>2. ParentsAreDone(w, x)' /\ ResolvedParents(w, x)' = ResolvedParents(w, x)
    BY <1>6, <1>8, <1>9, <2>1 DEF IsMade, ParentsAreDone, ResolvedParents, Replaced
  <2> QED BY <1>6, <1>8, <1>9, <2>1, <2>2 DEF IsMade
<1>12. Executing(w)'
  BY <1>2, <1>3, <1>6, <1>8, <1>10, <1>11 DEF Executing
<1>13. ExecIsSound(w)'
  BY <1>1, <1>2, <1>6, <1>8, <1>9, <1>12 DEF ExecIsSound, PlanIsSound
<1>14. StageStep
  BY <1>1 DEF StageStep
<1> QED BY <1>0, <1>1, <1>5, <1>8, <1>9, <1>13, <1>14, StepOfOne

\* A worker that executes keeps the invariant.
LEMMA ExecuteInv ==
    ASSUME Inv, NEW w \in Workers, Execute(w)
    PROVE Inv'
<1>0. /\ exec[w] \in Execs /\ ExecIsSound(w) /\ w \in Actors
      /\ StepResults = {"skipped_upstream_not_rebuilt", "skipped_manual_configuration_required",
                        "rebuilt", "failed"}
  BY RebuildAssumption DEF Inv, StepResults
<1>1. UNCHANGED stageVars => StageStep /\ job' = job
  BY DEF StageStep, stageVars
<1>2. \A s : s \in NextSteps(w) => exec[w].step = "executing" /\ exec[w].current = Idle
  BY DEF NextSteps
<1>3. exec[w].current # Idle => exec[w].step = "executing" /\ exec[w].current \in exec[w].todo
  BY <1>0 DEF ExecIsSound, Execs, Executing, IsCurrent
<1>4. ASSUME NEW s \in exec[w].todo, skip_blocked(w, s) PROVE Inv'
  BY <1>0, <1>1, <1>2, <1>4, GiveUpInv DEF skip_blocked
<1>5. ASSUME NEW s \in exec[w].todo, skip_unconfigured(w, s) PROVE Inv'
  BY <1>0, <1>1, <1>2, <1>5, GiveUpInv DEF skip_unconfigured
<1>6. ASSUME NEW s \in exec[w].todo, refuse_step(w, s) PROVE Inv'
  BY <1>0, <1>1, <1>2, <1>6, GiveUpInv DEF refuse_step
<1>7. CASE fail_step(w)
  <2>1. StageStep
    BY <1>0, <1>7 DEF fail_step, StageStep
  <2>2. \A v \in Workers \ {w} : job'[v] = job[v]
    BY <1>7, RebuildAssumption DEF fail_step, fail_stage, Inv, StageInv, StageTypes
  <2> QED BY <1>0, <1>3, <1>7, <2>1, <2>2, GiveUpInv DEF fail_step
<1>8. CASE mark_superseded_busy(w)
  BY <1>0, <1>1, <1>3, <1>8, GiveUpInv DEF mark_superseded_busy
<1>9. CASE finish_rebuild(w)
  BY <1>1, <1>9, RestingInv DEF finish_rebuild
<1> QED BY <1>4, <1>5, <1>6, <1>7, <1>8, <1>9, AcquireInv, ExecuteStepInv, FinishStepInv, MarkInv
        DEF Execute

\* The invariant is inductive.
LEMMA NextInv ==
    ASSUME Inv, [Next]_vars
    PROVE Inv'
<1>0. /\ \A v \in Workers : exec' = exec => exec'[v] = exec[v]
      /\ UNCHANGED stageVars => StageStep /\ Kept /\ job' = job /\ Published' = Published
      /\ exec \in [Workers -> Execs] /\ known \subseteq Published
  BY DEF StageStep, stageVars, Kept, Published, Inv
<1>1. ASSUME StageStep, known' = known, successor' = successor, exec' = exec,
             \A w \in Workers : job'[w] = job[w]
      PROVE Inv'
  <2>1. StageInv' /\ Kept
    BY <1>1, StageStepInv DEF Inv
  <2>2. \A w \in Workers : ExecIsSound(w)'
    BY <1>1, <2>1, ExecStays
  <2>3. SuccessorsAreRealReplacements'
    BY <1>1, <2>1, SuccessorsStay
  <2> QED BY <1>0, <1>1, <2>1, <2>2, <2>3 DEF Inv, Kept
<1>2. ASSUME NEW c \in Clients, Client(c)
      PROVE Inv'
  <2>0. c \in Actors /\ c \notin Workers /\ job \in [Actors -> Jobs \union {Idle}]
    BY DEF Clients, Inv, StageInv, StageTypes
  <2>1. ASSUME NEW call \in Calls, client_begins(c, call[1], call[2])
        PROVE Inv'
    <3>1. call[1] \in StageNames /\ call[2] \in SUBSET Ids
      BY RebuildAssumption
    <3>2. StageStep
      BY <2>0, <2>1, <3>1 DEF client_begins, StageStep
    <3>3. \A w \in Workers : job'[w] = job[w]
      BY <2>0, <2>1 DEF client_begins, begin_stage
    <3> QED BY <1>1, <2>1, <3>2, <3>3 DEF client_begins
  <2>2. ASSUME NEW status \in Statuses, client_commits(c, status)
        PROVE Inv'
    <3>1. StageStep
      BY <2>0, <2>2 DEF client_commits, StageStep
    <3>2. \A w \in Workers : job'[w] = job[w]
      BY <2>0, <2>2 DEF client_commits, commit_stage, Publish
    <3> QED BY <1>1, <2>2, <3>1, <3>2 DEF client_commits
  <2>3. CASE client_fails(c)
    <3>1. StageStep
      BY <2>0, <2>3 DEF client_fails, StageStep
    <3>2. \A w \in Workers : job'[w] = job[w]
      BY <2>0, <2>3 DEF client_fails, fail_stage
    <3> QED BY <1>1, <2>3, <3>1, <3>2 DEF client_fails, rebuildVars
  <2> QED BY <1>2, <2>1, <2>2, <2>3 DEF Client
<1>3. ASSUME NEW ask \in Replacements, build_rebuild_plan(ask[1], ask[2], ask[3])
      PROVE Inv'
  BY <1>0, <1>1, <1>3 DEF build_rebuild_plan
<1>4. ASSUME NEW w \in Workers, worker_dies(w)
      PROVE Inv'
  <2>0. w \in Actors /\ job \in [Actors -> Jobs \union {Idle}]
    BY RebuildAssumption DEF Inv, StageInv, StageTypes
  <2>1. StageStep
    <3>1. CASE job[w] = Idle
      <4>1. job' = job
        BY <1>4, <2>0, <3>1 DEF worker_dies
      <4> QED BY <1>4, <4>1 DEF worker_dies, StageStep, stageVars
    <3>2. CASE job[w] # Idle
      BY <1>4, <2>0, <3>2 DEF worker_dies, StageStep, fail_stage
    <3> QED BY <3>1, <3>2
  <2>2. \A v \in Workers \ {w} : job'[v] = job[v]
    BY <1>4, <2>0, RebuildAssumption DEF worker_dies
  <2> QED BY <1>4, <2>1, <2>2, RestingInv DEF worker_dies
<1>5. ASSUME NEW m \in Mishaps, files_change(m[1], m[2])
      PROVE Inv'
  <2>1. m[1] \in Ids /\ m[2] \in SUBSET Damages
    BY RebuildAssumption
  <2>2. StageStep /\ job' = job
    BY <1>5, <2>1 DEF files_change, StageStep, damage_files
  <2> QED BY <1>1, <1>5, <2>2 DEF files_change
<1>6. CASE Scan
  <2>1. StageStep /\ Kept /\ job' = job /\ Published' = Published
    BY <1>0, <1>6 DEF Scan
  <2>2. known \subseteq known' /\ known' \subseteq Published' /\ exec' = exec /\ successor' = successor
    BY <1>0, <1>6, <2>1 DEF Scan
  <2>3. \A w \in Workers : ExecIsSound(w)'
    BY <2>1, <2>2, ExecStays
  <2> QED BY <1>0, <2>1, <2>2, <2>3, StageStepInv, SuccessorsStay DEF Inv
<1>7. CASE UNCHANGED vars
  BY <1>0, <1>1, <1>7 DEF vars, rebuildVars
<1> QED BY <1>2, <1>3, <1>4, <1>5, <1>6, <1>7, ExecuteInv, CheckPlanInv DEF Next

\* It holds before the first plan.
LEMMA InitInv ==
    ASSUME Init
    PROVE Inv
<1>1. StageInv
  BY StageInitInv DEF Init
<1>2. exec \in [Workers -> Execs] /\ \A w \in Workers : ExecIsSound(w)
  BY RestingType DEF Init, ExecIsSound, Resting
<1>3. known \subseteq Published /\ SuccessorsAreRealReplacements
  BY DEF Init, StageInit, Published, SuccessorsAreRealReplacements
<1> QED BY <1>1, <1>2, <1>3 DEF Inv

\* The execution's invariant is what the plan asks for.
LEMMA InvFollowsThePlan ==
    ASSUME Inv
    PROVE RebuildFollowsThePlan
<1> SUFFICES ASSUME NEW w \in Workers, exec[w].step = "executing"
             PROVE LET plan == exec[w].plan
                       made == DOMAIN exec[w].resolved \ {plan.old}
                   IN  /\ made \subseteq plan.steps
                       /\ \A s \in made :
                            /\ StageOf(exec[w].resolved[s]) = StageOf(s)
                            /\ art[exec[w].resolved[s]].parents =
                                    {IF p \in plan.steps \union {plan.old} THEN exec[w].resolved[p] ELSE p :
                                        p \in art[s].parents}
                            /\ Replaced(plan, s) \cap exec[w].unavailable = {}
                       /\ \A s \in plan.steps \ (exec[w].todo \union exec[w].unavailable) : s \in made
  BY DEF RebuildFollowsThePlan
<1>1. Executing(w) /\ PlanIsSound(exec[w].plan)
  BY DEF Inv, ExecIsSound
<1>2. ASSUME NEW s \in DOMAIN exec[w].resolved \ {exec[w].plan.old}
      PROVE ResolvedParents(w, s) =
                {IF p \in exec[w].plan.steps \union {exec[w].plan.old} THEN exec[w].resolved[p] ELSE p :
                    p \in art[s].parents}
  BY DEF ResolvedParents, Replaced
<1> QED BY <1>1, <1>2 DEF Executing, IsReplacement, IsMade, ParentsAreDone, PlanIsSound

-----------------------------------------------------------------------------
(* Theorems.                                                               *)

\* Every behaviour keeps the invariant.
THEOREM Invariance == Spec => []Inv
BY InitInv, NextInv, PTL DEF Spec

\* Every package rests on an accepted QC report of its own transformation, on a completed
\* cleaning and on streams of one session, and nothing is derived from altered input,
\* whatever clients, rebuilds and mishaps there are.
THEOREM LineageSound == Spec => []LineageIsSound
<1>1. Inv => LineageIsSound
  BY StageInvSound DEF Inv
<1> QED BY <1>1, Invariance, PTL

\* What a rebuild has made has the parents its plan says, at every moment.
THEOREM RebuildsFollowPlans == Spec => []RebuildFollowsThePlan
BY InvFollowsThePlan, Invariance, PTL

\* Artifacts are only ever superseded by published ones of their type and session.
THEOREM SuccessorsAreReplacements == Spec => []SuccessorsAreRealReplacements
<1>1. Inv => SuccessorsAreRealReplacements
  BY DEF Inv
<1> QED BY <1>1, Invariance, PTL

\* The verifier and the stages agree on every state of an artifact's files.
THEOREM VerifierAgrees == Spec => []VerifierAgreesWithGates
<1>1. VerifierAgreesWithGates
  BY DEF VerifierAgreesWithGates, Readable, Located, Verify, OverallStatus, Checks
<1> QED BY <1>1, PTL
=============================================================================
