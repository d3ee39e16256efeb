-------------------------- MODULE ReviewPipeline ---------------------------
(***************************************************************************)
(* The review pipeline orchestrator of packages/core, for one run (runId): *)
(* PipelineOrchestratorUseCase.execute takes a ReviewPipelineState and a   *)
(* PipelineDefinition, validates and pins the definition, resolves the     *)
(* stage to start at and drives the stages one by one.  Around each stage  *)
(* it awaits a chain of side effects (checkpoint, event, log); the first   *)
(* one that rejects ends the execution with Result.fail.                   *)
(*                                                                         *)
(* Each await is an action.  A side effect that rejects may or may not     *)
(* have reached its store (a lost reply), and the process may die at any   *)
(* await.  What survives is the latest checkpoint and the published        *)
(* events.  The caller of execute is the retry handler the orchestrator is *)
(* written for: it resumes from the checkpoint when there is one, from the *)
(* context of a failed result when it still holds it, from a new state     *)
(* otherwise, and it may name a stage to start from (startFromStageId).    *)
(*                                                                         *)
(* Every disturbance (failed stage, rejected side effect, crash, start     *)
(* from a named stage) takes one unit of MaxDisturbances.                  *)
(***************************************************************************)
EXTENDS Naturals, Sequences

CONSTANTS StageIds,         \* stage identifiers
          Registered,       \* those with a stage use case in the container
          Versions,         \* definition versions
          Definition,       \* the stages of each version, in order
          ManualStages,     \* stages an operator may pass as startFromStageId
          NoStage, NoState, NoCheckpoint, NoVersion, \* null
          MaxDisturbances   \* bound: disturbances in a behaviour

ASSUME StagesAssumption ==
    /\ NoStage \notin StageIds
    /\ Registered \subseteq StageIds
    /\ ManualStages \subseteq StageIds

ASSUME DefinitionAssumption == Definition \in [Versions -> Seq(StageIds)]

ASSUME BoundAssumption == MaxDisturbances \in Nat

VARIABLES
    pc,           \* the await the execution stands at, "idle" when none runs
    defn,         \* version of the definition passed to execute
    index,        \* position of the stage being executed
    state,        \* the ReviewPipelineState the execution carries
    results,      \* stageResults accumulated so far
    recoverable,  \* the stage error's flag while a failure is handled
    outcome,      \* what execute last returned
    returned,     \* context of the failed result, while the caller holds it
    checkpoint,   \* the latest checkpoint in the store
    events,       \* events the bus has accepted
    completions,  \* how many PipelineCompleted events it has accepted
    done,         \* history: stages with a "completed" checkpoint
    manual,       \* history: a named stage was started from
    disturbances

local   == <<defn, index, state, results, recoverable>>
durable == <<checkpoint, events, completions, done>>
caller  == <<outcome, returned>>
vars    == <<pc, local, caller, durable, manual, disturbances>>

-----------------------------------------------------------------------------
(* Definitions, positions and states *)

Position(d, s) == IF \E i \in DOMAIN d : d[i] = s
                  THEN CHOOSE i \in DOMAIN d : d[i] = s
                  ELSE 0

StagesOf(d, n) == {d[i] : i \in 1..n}

\* validateDefinition: some stage, no duplicate, an implementation for each.
ValidDefinition(d) ==
    /\ d # <<>>
    /\ \A i, j \in DOMAIN d : d[i] = d[j] => i = j
    /\ \A i \in DOMAIN d : d[i] \in Registered

PipelineStates == [version  : Versions,
                   current  : StageIds \union {NoStage},
                   last     : StageIds \union {NoStage},
                   attempts : [StageIds -> Nat]]

Checkpoints == [version : Versions,
                current : StageIds,
                last    : StageIds \union {NoStage},
                attempt : Nat,
                status  : {"started", "completed", "failed"}]

\* The null values are told apart from states and checkpoints.
ASSUME NullAssumption == NoState \notin PipelineStates /\ NoCheckpoint \notin Checkpoints

NoAttempts == [s \in StageIds |-> 0]

PipelineState(v, current, last, attempts) ==
    [version |-> v, current |-> current, last |-> last, attempts |-> attempts]

HasProgress(st) == \/ st.last # NoStage
                   \/ st.current # NoStage
                   \/ st.attempts # NoAttempts

\* Mutants: progress does not matter; a run in flight cannot be resumed.
CanPinAnything(st, v) == TRUE
CanPinFresh(st, v) == ~HasProgress(st)

\* pinDefinitionVersion accepts the version, or the state has none of its own yet.
CanPin(st, v) == st.version = v \/ ~HasProgress(st)

\* Mutants: no check for a run with no stage left; the current stage is executed
\* again even when completed; the current stage is taken to be completed.
ImplicitStartUnchecked(st, d) ==
    IF st.current \notin {NoStage, st.last} THEN Position(d, st.current)
    ELSE Position(d, st.last) + 1
ImplicitStartAtCurrent(st, d) ==
    IF st.current # NoStage THEN Position(d, st.current) ELSE 1
ImplicitStartPastCurrent(st, d) ==
    IF st.current = NoStage THEN 1
    ELSE IF Position(d, st.current) = Len(d) THEN 0
    ELSE Position(d, st.current) + 1

\* resolveImplicitStartIndex; 0 stands for its failures.
ImplicitStart(st, d) ==
    IF st.current \notin {NoStage, st.last} THEN Position(d, st.current)
    ELSE IF st.last = NoStage THEN 1
    ELSE IF Position(d, st.last) \in 1..(Len(d) - 1) THEN Position(d, st.last) + 1
    ELSE 0

StartIndex(st, d, from) ==
    IF from = NoStage THEN ImplicitStart(st, d) ELSE Position(d, from)

Accepted(st, v, from) == /\ ValidDefinition(Definition[v])
                         /\ CanPin(st, v)
                         /\ StartIndex(st, Definition[v], from) # 0

Stage == Definition[defn][index]

Event(type, s, attempt) == [type |-> type, stage |-> s, attempt |-> attempt]

Publish(type) == events' = events \union {Event(type, Stage, state.attempts[Stage])}

\* Mutant: the attempt before this one is saved.
CheckpointStaleAttempt(st, status) ==
    [version |-> st.version, current |-> Stage, last |-> st.last,
     attempt |-> st.attempts[Stage] - 1, status |-> status]

\* saveCheckpoint
Checkpoint(st, status) ==
    [version |-> st.version, current |-> Stage, last |-> st.last,
     attempt |-> st.attempts[Stage], status |-> status]

Record(status) == Append(results, [stage |-> Stage, status |-> status])

-----------------------------------------------------------------------------
(* The caller *)

Fresh == {PipelineState(v, NoStage, NoStage, NoAttempts) : v \in Versions}

\* A checkpoint keeps the attempt of its current stage only; the caller may
\* leave currentStageId out once the stage is completed.
Restored(cp) ==
    {PipelineState(cp.version, current, cp.last,
                   [NoAttempts EXCEPT ![cp.current] = cp.attempt]) :
        current \in {cp.current} \union IF cp.status = "completed" THEN {NoStage} ELSE {}}

Inputs == (IF checkpoint = NoCheckpoint THEN Fresh ELSE Restored(checkpoint))
            \union (IF returned = NoState THEN {} ELSE {returned})

\* execute up to its first await.
Execute(st, v, from) ==
    /\ pc = "idle"
    /\ Accepted(st, v, from)
    /\ IF from = NoStage
       THEN UNCHANGED <<manual, disturbances>>
       ELSE /\ disturbances < MaxDisturbances
            /\ disturbances' = disturbances + 1
            /\ manual' = TRUE
    /\ pc' = "publishPipelineStarted"
    /\ defn' = v
    /\ index' = StartIndex(st, Definition[v], from)
    /\ state' = [st EXCEPT !.version = v]
    /\ results' = [i \in 1..(index' - 1) |->
                      [stage |-> Definition[v][i], status |-> "skipped"]]
    /\ outcome' = "running"
    /\ returned' = NoState
    /\ UNCHANGED <<recoverable, durable>>

Start    == \E st \in Inputs, v \in Versions : Execute(st, v, NoStage)
Override == \E st \in Inputs, v \in Versions, s \in ManualStages : Execute(st, v, s)

Reject ==
    /\ pc = "idle"
    /\ \E st \in Inputs, v \in Versions, from \in ManualStages \union {NoStage} :
          ~Accepted(st, v, from)
    /\ outcome' = "error"
    /\ UNCHANGED <<pc, local, returned, durable, manual, disturbances>>

-----------------------------------------------------------------------------
(* Side effects *)

\* The effect of the action took place.  Either the await resolves and the
\* execution goes on to the next one, or it rejects all the same.
Then(next) == \/ /\ pc' = next
                 /\ UNCHANGED <<caller, disturbances>>
              \/ /\ disturbances < MaxDisturbances
                 /\ disturbances' = disturbances + 1
                 /\ pc' = "idle"
                 /\ outcome' = "error"
                 /\ UNCHANGED returned

\* execute returns after its last side effect.
ThenReturn(result, context) ==
    \/ /\ pc' = "idle"
       /\ outcome' = result
       /\ returned' = context
       /\ UNCHANGED disturbances
    \/ /\ disturbances < MaxDisturbances
       /\ disturbances' = disturbances + 1
       /\ pc' = "idle"
       /\ outcome' = "error"
       /\ UNCHANGED returned

\* A side effect rejects and did not take place.
SideEffectFails ==
    /\ pc \notin {"idle", "executeStage"}
    /\ disturbances < MaxDisturbances
    /\ disturbances' = disturbances + 1
    /\ pc' = "idle"
    /\ outcome' = "error"
    /\ UNCHANGED <<local, returned, durable, manual>>

Crash ==
    /\ disturbances < MaxDisturbances
    /\ disturbances' = disturbances + 1
    /\ pc # "idle" \/ returned # NoState
    /\ pc' = "idle"
    /\ outcome' = "none"
    /\ returned' = NoState
    /\ UNCHANGED <<local, durable, manual>>

PublishPipelineStarted ==
    /\ pc = "publishPipelineStarted"
    /\ Then("saveStarted")
    /\ UNCHANGED <<local, durable, manual>>

-----------------------------------------------------------------------------
(* One stage: executeOneStage *)

IncrementStageAttempt(st, s) == [st.attempts EXCEPT ![s] = @ + 1]

SaveStartedCheckpoint ==
    LET started == [state EXCEPT !.attempts = IncrementStageAttempt(state, Stage),
                                 !.current = Stage]
    IN  /\ pc = "saveStarted"
        /\ state' = started
        /\ checkpoint' = Checkpoint(started, "started")
        /\ Then("publishStageStarted")
        /\ UNCHANGED <<defn, index, results, recoverable, events, completions, done, manual>>

PublishStageStarted ==
    /\ pc = "publishStageStarted"
    /\ Publish("StageStarted")
    /\ Then("executeStage")
    /\ UNCHANGED <<local, checkpoint, completions, done, manual>>

\* Mutant: the completed checkpoint is forgotten.
StageSucceedsUnsaved ==
    /\ pc = "executeStage"
    /\ pc' = "publishStageCompleted"
    /\ state' = [state EXCEPT !.version = defn, !.current = Stage, !.last = Stage]
    /\ UNCHANGED <<defn, index, results, recoverable, caller, durable, manual, disturbances>>

\* The stage use case returns a new state: it leaves the progress of the run
\* alone, the orchestrator moves it.
StageSucceeds ==
    /\ pc = "executeStage"
    /\ pc' = "saveCompleted"
    /\ state' = [state EXCEPT !.version = defn, !.current = Stage, !.last = Stage]
    /\ UNCHANGED <<defn, index, results, recoverable, caller, durable, manual, disturbances>>

\* It fails with an error that says whether it is recoverable, or throws.
StageFails ==
    /\ pc = "executeStage"
    /\ disturbances < MaxDisturbances
    /\ disturbances' = disturbances + 1
    /\ pc' = "saveFailed"
    /\ recoverable' \in BOOLEAN
    /\ UNCHANGED <<defn, index, state, results, caller, durable, manual>>

SaveCompletedCheckpoint ==
    /\ pc = "saveCompleted"
    /\ checkpoint' = Checkpoint(state, "completed")
    /\ done' = done \union {Stage}
    /\ Then("publishStageCompleted")
    /\ UNCHANGED <<local, events, completions, manual>>

PublishStageCompleted ==
    /\ pc = "publishStageCompleted"
    /\ Publish("StageCompleted")
    /\ Then("logStageCompleted")
    /\ UNCHANGED <<local, checkpoint, completions, done, manual>>

\* The last side effect of a stage; runStages goes on with the next one.
LogStageCompleted ==
    /\ pc = "logStageCompleted"
    /\ results' = Record("ok")
    /\ IF index < Len(Definition[defn])
       THEN index' = index + 1 /\ Then("saveStarted")
       ELSE index' = index /\ Then("publishPipelineCompleted")
    /\ UNCHANGED <<defn, state, recoverable, durable, manual>>

-----------------------------------------------------------------------------
(* The two ends of an execution: handleStageFailure and                    *)
(* buildCompletedPipelineResult                                            *)

SaveFailedCheckpoint ==
    /\ pc = "saveFailed"
    /\ checkpoint' = Checkpoint(state, "failed")
    /\ Then("publishStageFailed")
    /\ UNCHANGED <<local, events, completions, done, manual>>

\* Mutant: PipelineFailed is not published.
PublishStageFailedOnly ==
    /\ pc = "publishStageFailed"
    /\ Publish("StageFailed")
    /\ Then("logStageFailed")
    /\ UNCHANGED <<local, checkpoint, completions, done, manual>>

PublishStageFailed ==
    /\ pc = "publishStageFailed"
    /\ Publish("StageFailed")
    /\ Then("publishPipelineFailed")
    /\ UNCHANGED <<local, checkpoint, completions, done, manual>>

\* PipelineFailed is terminal when the error is not recoverable.
PublishPipelineFailed ==
    /\ pc = "publishPipelineFailed"
    /\ Publish(IF recoverable THEN "PipelineFailed" ELSE "PipelineFailedTerminal")
    /\ Then("logStageFailed")
    /\ UNCHANGED <<local, checkpoint, completions, done, manual>>

LogStageFailed ==
    /\ pc = "logStageFailed"
    /\ results' = Record("fail")
    /\ ThenReturn("failed", state)
    /\ UNCHANGED <<defn, index, state, recoverable, durable, manual>>

PublishPipelineCompleted ==
    /\ pc = "publishPipelineCompleted"
    /\ completions' = completions + 1
    /\ Then("logPipelineCompleted")
    /\ UNCHANGED <<local, checkpoint, events, done, manual>>

LogPipelineCompleted ==
    /\ pc = "logPipelineCompleted"
    /\ ThenReturn("completed", NoState)
    /\ UNCHANGED <<local, durable, manual>>

-----------------------------------------------------------------------------

Init ==
    /\ pc = "idle"
    /\ defn \in Versions
    /\ index = 0
    /\ state = NoState
    /\ results = <<>>
    /\ recoverable = FALSE
    /\ outcome = "none"
    /\ returned = NoState
    /\ checkpoint = NoCheckpoint
    /\ events = {}
    /\ completions = 0
    /\ done = {}
    /\ manual = FALSE
    /\ disturbances = 0

\* The steps that carry an execution on.
Proceed ==
    \/ PublishPipelineStarted
    \/ SaveStartedCheckpoint
    \/ PublishStageStarted
    \/ StageSucceeds
    \/ StageFails
    \/ SaveCompletedCheckpoint
    \/ PublishStageCompleted
    \/ LogStageCompleted
    \/ SaveFailedCheckpoint
    \/ PublishStageFailed
    \/ PublishPipelineFailed
    \/ LogStageFailed
    \/ PublishPipelineCompleted
    \/ LogPipelineCompleted

Next == Start \/ Override \/ Reject \/ Proceed \/ SideEffectFails \/ Crash

Spec == Init /\ [][Next]_vars

\* The event loop carries a started execution on, and the retry handler keeps
\* resuming the run.  Crashes and rejected side effects are not fair.
FairSpec == Spec /\ WF_vars(Proceed) /\ WF_vars(Start)

-----------------------------------------------------------------------------
(* Properties *)

StageResults == [stage : StageIds, status : {"skipped", "ok", "fail"}]

EventTypes == {"StageStarted", "StageCompleted", "StageFailed",
               "PipelineFailed", "PipelineFailedTerminal"}

EffectSteps == {"publishPipelineStarted", "saveStarted", "publishStageStarted",
                "saveCompleted", "publishStageCompleted", "logStageCompleted",
                "saveFailed", "publishStageFailed", "publishPipelineFailed",
                "logStageFailed", "publishPipelineCompleted", "logPipelineCompleted"}

\* The type invariant; a running execution stands at a stage of its definition.
TypeOK ==
    /\ pc \in EffectSteps \union {"idle", "executeStage"}
    /\ defn \in Versions
    /\ index \in Nat
    /\ state \in PipelineStates \union {NoState}
    /\ results \in Seq(StageResults)
    /\ recoverable \in BOOLEAN
    /\ outcome \in {"none", "running", "error", "failed", "completed"}
    /\ returned \in PipelineStates \union {NoState}
    /\ checkpoint \in Checkpoints \union {NoCheckpoint}
    /\ events \subseteq [type : EventTypes, stage : StageIds, attempt : Nat]
    /\ completions \in Nat
    /\ done \subseteq StageIds
    /\ manual \in BOOLEAN
    /\ disturbances \in 0..MaxDisturbances
    /\ pc # "idle" => /\ state \in PipelineStates
                      /\ index \in 1..Len(Definition[defn])

\* A resumed run continues exactly where it stopped: a stage is executed when
\* the stages before it in the pinned definition have completed checkpoints and
\* no other stage has, so none is skipped and none is executed again after its
\* checkpoint (resolveImplicitStartIndex).  Only an operator who names the stage
\* to start from can break the order.
ResumesWhereItStopped ==
    pc \in {"publishStageStarted", "executeStage"} /\ ~manual =>
        done = StagesOf(Definition[defn], index - 1)

\* The stage trace of the result follows the definition, reports a stage as
\* executed or skipped only when its completed checkpoint is stored, and a
\* successful result covers every stage, whatever execution each of them ran in
\* (createSkippedResults, runStages).
TraceIsTrue ==
    LET d == Definition[defn] IN
    /\ Len(results) <= Len(d)
    /\ \A i \in DOMAIN results :
          /\ results[i].stage = d[i]
          /\ results[i].status = "ok" => d[i] \in done
          /\ results[i].status = "skipped" => d[i] \in done \/ manual
          /\ results[i].status = "fail" => i = Len(results) /\ outcome # "completed"
    /\ outcome = "completed" => Len(results) = Len(d)

\* PipelineCompleted is published once at most, and only for a run all of whose
\* stages have completed under the definition it is pinned to.
CompletionIsEarned ==
    completions > 0 /\ ~manual =>
        /\ completions = 1
        /\ checkpoint # NoCheckpoint
        /\ done = StagesOf(Definition[checkpoint.version],
                           Len(Definition[checkpoint.version]))

\* (stage, attempt) names one execution of a stage: StageStarted is never
\* published twice for it, although the checkpoint keeps the attempt of one stage
\* only (incrementStageAttempt).
AttemptsAreNew ==
    pc = "publishStageStarted" /\ ~manual =>
        Event("StageStarted", Stage, state.attempts[Stage]) \notin events

\* StageCompleted is published after the completed checkpoint is stored: a
\* listener never learns of a stage that a resume would execute again.
CompletedEventsAreDurable ==
    \A e \in events : e.type = "StageCompleted" => e.stage \in done

\* A failed result the caller gets to see is already in the checkpoint store
\* and on the bus, for the stage and the attempt it reports (handleStageFailure).
FailureIsAnnounced ==
    outcome = "failed" =>
        LET attempt == returned.attempts[Stage] IN
        /\ results[Len(results)] = [stage |-> Stage, status |-> "fail"]
        /\ checkpoint = Checkpoint(returned, "failed")
        /\ Event("StageFailed", Stage, attempt) \in events
        /\ \E type \in {"PipelineFailed", "PipelineFailedTerminal"} :
              Event(type, Stage, attempt) \in events

\* The definition version of a run that has a checkpoint never changes, not even
\* when an operator restarts it (pinDefinitionVersion).
VersionStaysPinned ==
    [][checkpoint # NoCheckpoint => /\ checkpoint' # NoCheckpoint
                                    /\ checkpoint'.version = checkpoint.version]_vars

AllDone == /\ checkpoint # NoCheckpoint
           /\ checkpoint.status = "completed"
           /\ done = StagesOf(Definition[checkpoint.version],
                              Len(Definition[checkpoint.version]))

\* A run that is resumed as long as it can be completes all of its stages, after
\* any number of crashes and failures that ends.
EveryStageCompletes == <>(AllDone \/ manual)

\* A run that has completed all of its stages is announced as completed.
CompletionIsAnnounced == AllDone ~> completions > 0

-----------------------------------------------------------------------------
(* The orchestrator implements RunProgress *)

RunPinned == IF checkpoint = NoCheckpoint THEN NoVersion ELSE checkpoint.version

RunDone == IF checkpoint = NoCheckpoint \/ checkpoint.last = NoStage THEN 0
           ELSE Position(Definition[checkpoint.version], checkpoint.last)

Run == INSTANCE RunProgress WITH
          StageCount <- [v \in Versions |-> Len(Definition[v])],
          pinned <- RunPinned, progress <- RunDone, announced <- completions

\* Seen through its checkpoints and its PipelineCompleted events, a run nobody
\* starts at a named stage is a RunProgress: the stages of one version complete
\* one by one in order, and completion is announced at most once at the end.
RunIsProgress == Run!FairSpec
=============================================================================
