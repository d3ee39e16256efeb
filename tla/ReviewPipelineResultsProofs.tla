-------------------- MODULE ReviewPipelineResultsProofs ---------------------
(***************************************************************************)
(* Theorems about what ReviewPipeline tells others of a run: the events on *)
(* the bus, the results it returns, and the run an observer sees.  They    *)
(* rest on the invariant of ReviewPipelineProofs.                          *)
(***************************************************************************)
EXTENDS ReviewPipelineProofs

-----------------------------------------------------------------------------
(* Events of completed stages are durable *)

\* The stage of an execution past its completed checkpoint is done.
DoneInv == pc \in CompletedSteps => Stage \in done

DurableInv == DoneInv /\ CompletedEventsAreDurable

\* What Publish adds to the bus.
LEMMA PublishAdds ==
    ASSUME NEW type, Publish(type)
    PROVE  \A e \in events' : e \in events \/ (e.type = type /\ e.stage = Stage)
  BY DEF Publish, Event

LEMMA DurableProceed ==
    ASSUME TypeOK, DurableInv, Proceed
    PROVE  DurableInv'
  <1> USE DEF local, durable, CompletedSteps, DurableInv, DoneInv
  <1>1. CASE \/ PublishPipelineStarted \/ SaveStartedCheckpoint \/ StageSucceeds
             \/ StageFails \/ SaveFailedCheckpoint \/ LogStageFailed
    <2>1. /\ UNCHANGED <<events, done>>
          /\ pc' \notin CompletedSteps
      BY <1>1 DEF PublishPipelineStarted, SaveStartedCheckpoint, StageSucceeds, StageFails,
         SaveFailedCheckpoint, LogStageFailed, Then, ThenReturn
    <2> QED
      BY <2>1 DEF CompletedEventsAreDurable
  <1>2. CASE PublishStageStarted \/ PublishStageFailed \/ PublishPipelineFailed
    <2>1. /\ done' = done
          /\ pc' \notin CompletedSteps
      BY <1>2 DEF PublishStageStarted, PublishStageFailed, PublishPipelineFailed, Then
    <2>2. \A e \in events' : e.type = "StageCompleted" => e \in events
      BY <1>2, PublishAdds DEF PublishStageStarted, PublishStageFailed, PublishPipelineFailed
    <2> QED
      BY <2>1, <2>2 DEF CompletedEventsAreDurable
  <1>3. CASE SaveCompletedCheckpoint
    BY <1>3 DEF SaveCompletedCheckpoint, Then, Stage, CompletedEventsAreDurable
  <1>4. CASE PublishStageCompleted
    <2>1. Stage' = Stage /\ done' = done /\ Stage \in done
      BY <1>4 DEF PublishStageCompleted, Stage
    <2>2. \A e \in events' : e \in events \/ e.stage = Stage
      BY <1>4, PublishAdds DEF PublishStageCompleted
    <2> QED
      BY <2>1, <2>2 DEF CompletedEventsAreDurable
  <1>5. CASE LogStageCompleted
    BY <1>5 DEF LogStageCompleted, Then, Stage, CompletedEventsAreDurable
  <1>6. CASE PublishPipelineCompleted \/ LogPipelineCompleted
    BY <1>6 DEF PublishPipelineCompleted, LogPipelineCompleted, Then, ThenReturn, Stage,
       CompletedEventsAreDurable
  <1> QED
    BY <1>1, <1>2, <1>3, <1>4, <1>5, <1>6 DEF Proceed

LEMMA DurableStep == TypeOK /\ DurableInv /\ [Next]_vars => DurableInv'
  <1> SUFFICES ASSUME TypeOK, DurableInv, [Next]_vars PROVE DurableInv'
    OBVIOUS
  <1>1. CASE Start \/ Override \/ Reject \/ SideEffectFails \/ Crash
    <2>1. UNCHANGED <<events, done>> /\ pc' \in {"idle", "publishPipelineStarted"}
      BY <1>1 DEF Start, Override, Execute, Reject, SideEffectFails, Crash, local, durable
    <2> QED
      BY <2>1 DEF DurableInv, DoneInv, CompletedSteps, CompletedEventsAreDurable
  <1>2. CASE UNCHANGED vars
    BY <1>2 DEF vars, local, durable, DurableInv, DoneInv, Stage, CompletedEventsAreDurable
  <1> QED
    BY <1>1, <1>2, DurableProceed DEF Next

\* A listener that hears of a completed stage can rely on its checkpoint.
THEOREM DurableCorrect == Spec => []CompletedEventsAreDurable
  <1>1. Init => DurableInv
    BY DEF Init, DurableInv, DoneInv, CompletedSteps, CompletedEventsAreDurable
  <1>2. DurableInv => CompletedEventsAreDurable
    BY DEF DurableInv
  <1> QED
    BY <1>1, <1>2, DurableStep, TypeCorrect, PTL DEF Spec

-----------------------------------------------------------------------------
(* A failed result is announced *)

\* Where an execution that handles a failure stands, the checkpoint and the
\* events before that point are there.
HandlingInv ==
    LET attempt == state.attempts[Stage] IN
    /\ pc # "idle" => outcome = "running"
    /\ pc \in FailedSteps => checkpoint = Checkpoint(state, "failed")
    /\ pc \in {"publishPipelineFailed", "logStageFailed"} =>
          Event("StageFailed", Stage, attempt) \in events
    /\ pc = "logStageFailed" =>
          \E type \in {"PipelineFailed", "PipelineFailedTerminal"} :
             Event(type, Stage, attempt) \in events

AnnouncedInv == HandlingInv /\ FailureIsAnnounced

LEMMA AnnouncedProceed ==
    ASSUME TypeOK, AnnouncedInv, Proceed
    PROVE  AnnouncedInv'
  <1> USE DEF local, durable, caller, FailedSteps
  <1>0. outcome = "running" /\ outcome' # "none"
    BY DEF Proceed, PublishPipelineStarted, SaveStartedCheckpoint, PublishStageStarted,
           StageSucceeds, StageFails, SaveCompletedCheckpoint, PublishStageCompleted,
           LogStageCompleted, SaveFailedCheckpoint, PublishStageFailed,
           PublishPipelineFailed, LogStageFailed, PublishPipelineCompleted,
           LogPipelineCompleted, Then, ThenReturn, AnnouncedInv, HandlingInv
  <1>1. CASE ~LogStageFailed
    <2>1. outcome' # "failed" /\ (pc' # "idle" => outcome' = "running")
      BY <1>0, <1>1
      DEF Proceed, PublishPipelineStarted, SaveStartedCheckpoint, PublishStageStarted,
          StageSucceeds, StageFails, SaveCompletedCheckpoint, PublishStageCompleted,
          LogStageCompleted, SaveFailedCheckpoint, PublishStageFailed,
          PublishPipelineFailed, PublishPipelineCompleted,
          LogPipelineCompleted, Then, ThenReturn
    <2>2. CASE SaveFailedCheckpoint
      BY <2>1, <2>2
      DEF SaveFailedCheckpoint, Then, Checkpoint, Stage, AnnouncedInv, HandlingInv,
          FailureIsAnnounced
    <2>3. CASE PublishStageFailed \/ PublishPipelineFailed
      <3>1. /\ UNCHANGED <<state, checkpoint, Stage>>
            /\ checkpoint = Checkpoint(state, "failed")
        BY <2>3 DEF PublishStageFailed, PublishPipelineFailed, Stage, AnnouncedInv, HandlingInv
      <3>2. Checkpoint(state, "failed")' = Checkpoint(state, "failed")
        BY <3>1 DEF Checkpoint
      <3>3. CASE PublishStageFailed
        BY <2>1, <3>1, <3>2, <3>3
        DEF PublishStageFailed, Publish, Then, AnnouncedInv, HandlingInv, FailureIsAnnounced
      <3>4. CASE PublishPipelineFailed
        <4>1. /\ pc = "publishPipelineFailed" /\ pc' \in {"idle", "logStageFailed"}
              /\ Event("StageFailed", Stage, state.attempts[Stage]) \in events
          BY <3>4 DEF PublishPipelineFailed, Then, AnnouncedInv, HandlingInv
        <4>2. \E type \in {"PipelineFailed", "PipelineFailedTerminal"} :
                 events' = events \union {Event(type, Stage, state.attempts[Stage])}
          <5>1. CASE recoverable
            BY <3>4, <5>1 DEF PublishPipelineFailed, Publish
          <5>2. CASE ~recoverable
            BY <3>4, <5>2 DEF PublishPipelineFailed, Publish
          <5> QED
            BY <5>1, <5>2
        <4> QED
          BY <2>1, <3>1, <3>2, <4>1, <4>2 DEF AnnouncedInv, HandlingInv, FailureIsAnnounced
      <3> QED
        BY <2>3, <3>3, <3>4
    <2>4. CASE ~SaveFailedCheckpoint /\ ~PublishStageFailed /\ ~PublishPipelineFailed
      <3>1. pc' \notin FailedSteps
        BY <1>1, <2>4
        DEF Proceed, PublishPipelineStarted, SaveStartedCheckpoint, PublishStageStarted,
            StageSucceeds, StageFails, SaveCompletedCheckpoint, PublishStageCompleted,
            LogStageCompleted, PublishPipelineCompleted, LogPipelineCompleted, Then, ThenReturn
      <3> QED
        BY <2>1, <3>1 DEF AnnouncedInv, HandlingInv, FailureIsAnnounced
    <2> QED
      BY <2>2, <2>3, <2>4
  <1>2. CASE LogStageFailed
    <2>1. /\ pc = "logStageFailed" /\ pc' = "idle"
          /\ UNCHANGED <<state, checkpoint, events, Stage>>
          /\ results' = Append(results, [stage |-> Stage, status |-> "fail"])
          /\ outcome' = "failed" => returned' = state
      BY <1>2 DEF LogStageFailed, ThenReturn, Stage, Record
    <2>2. results'[Len(results')] = [stage |-> Stage, status |-> "fail"]
      BY <2>1 DEF TypeOK
    <2>3. ASSUME outcome' = "failed"
          PROVE  Checkpoint(returned, "failed")' = Checkpoint(state, "failed")
      BY <2>1, <2>3 DEF Checkpoint
    <2> QED
      BY <2>1, <2>2, <2>3 DEF AnnouncedInv, HandlingInv, FailureIsAnnounced
  <1> QED
    BY <1>1, <1>2

LEMMA AnnouncedStep == TypeOK /\ AnnouncedInv /\ [Next]_vars => AnnouncedInv'
  <1> SUFFICES ASSUME TypeOK, AnnouncedInv, [Next]_vars PROVE AnnouncedInv'
    OBVIOUS
  <1>1. CASE Start \/ Override \/ Reject \/ SideEffectFails \/ Crash
    <2>1. /\ pc' \in {"idle", "publishPipelineStarted"}
          /\ outcome' # "failed"
          /\ pc' # "idle" => outcome' = "running"
      BY <1>1 DEF Start, Override, Execute, Reject, SideEffectFails, Crash
    <2> QED
      BY <2>1 DEF AnnouncedInv, HandlingInv, FailureIsAnnounced, FailedSteps
  <1>2. CASE UNCHANGED vars
    BY <1>2 DEF vars, local, durable, caller, AnnouncedInv, HandlingInv, FailureIsAnnounced,
       Stage, Checkpoint
  <1> QED
    BY <1>1, <1>2, AnnouncedProceed DEF Next

\* Whoever is told that the run failed finds the failure in the checkpoint store
\* and on the bus.
THEOREM FailureCorrect == Spec => []FailureIsAnnounced
  <1>1. Init => AnnouncedInv
    BY DEF Init, AnnouncedInv, HandlingInv, FailureIsAnnounced, FailedSteps
  <1>2. AnnouncedInv => FailureIsAnnounced
    BY DEF AnnouncedInv
  <1> QED
    BY <1>1, <1>2, AnnouncedStep, TypeCorrect, PTL DEF Spec

-----------------------------------------------------------------------------
(* Attempts are new *)

\* All StageStarted events of the stage have a smaller attempt, or at most n.
StartedUpTo(s, n) ==
    \A e \in events : e.type = "StageStarted" /\ e.stage = s => e.attempt <= n

\* The checkpoint holds the attempt of the stage an execution stands at, and so
\* does the context of a failed result.
AttemptInv ==
    /\ pc \in StageSteps => /\ checkpoint.current = Stage
                            /\ checkpoint.attempt = state.attempts[Stage]
    /\ returned # NoState => returned.attempts[checkpoint.current] = checkpoint.attempt

\* A stage that was started is done, or it is the one whose attempt the
\* checkpoint holds; none of its starts is newer than that.
StartedInv ==
    \A e \in events : e.type = "StageStarted" /\ e.stage \notin done =>
        /\ checkpoint # NoCheckpoint
        /\ e.stage = checkpoint.current
        /\ e.attempt <= checkpoint.attempt

\* The next attempt of the stage an execution stands at is new.
NextAttemptInv ==
    /\ pc \in {"publishPipelineStarted", "saveStarted"} =>
          StartedUpTo(Stage, state.attempts[Stage])
    /\ pc = "publishStageStarted" =>
          StartedUpTo(Stage, state.attempts[Stage] - 1)

FreshInv == AttemptInv /\ (~manual => StartedInv /\ NextAttemptInv)

\* The stage after the first k is not among them.
LEMMA StageAfter ==
    ASSUME NEW d \in Seq(StageIds), ValidDefinition(d), NEW k \in Nat, k < Len(d)
    PROVE  d[k + 1] \notin StagesOf(d, k)
  BY DEF ValidDefinition, StagesOf

LEMMA AttemptExecute ==
    ASSUME TypeOK, PinnedInv, StoreInv, FreshInv, ~manual,
           NEW st \in Inputs, NEW v \in Versions, Execute(st, v, NoStage)
    PROVE  StartedInv' /\ NextAttemptInv'
  <1> DEFINE d == Definition[v]
  <1>1. /\ pc' = "publishPipelineStarted" /\ defn' = v
        /\ UNCHANGED <<checkpoint, done, events>>
    BY DEF Execute, durable
  <1>2. PICK k \in Nat : k < Len(d) /\ index' = k + 1 /\ done = StagesOf(d, k)
    BY StartsAfterDone
  <1>3. d \in Seq(StageIds) /\ ValidDefinition(d)
    BY DefinitionAssumption DEF Execute, Accepted
  <1>4. Stage' = d[k + 1] /\ d[k + 1] \notin done
    BY <1>1, <1>2, <1>3, StageAfter DEF Stage
  <1>5. st \in PipelineStates /\ state'.attempts = st.attempts
    BY InputsAreStates DEF Execute, PipelineStates
  <1>6. ASSUME checkpoint # NoCheckpoint
        PROVE  st.attempts[checkpoint.current] = checkpoint.attempt
    <2>1. CASE st \in Restored(checkpoint)
      <3>1. checkpoint \in Checkpoints
        BY <1>6 DEF TypeOK
      <3>2. st.attempts = [NoAttempts EXCEPT ![checkpoint.current] = checkpoint.attempt]
        BY <2>1 DEF Restored, PipelineState
      <3> QED
        BY <3>1, <3>2 DEF NoAttempts, Checkpoints
    <2>2. CASE st = returned /\ returned # NoState
      BY <2>2 DEF FreshInv, AttemptInv
    <2> QED
      BY <1>6, <2>1, <2>2 DEF Inputs
  <1>7. ASSUME NEW e \in events, e.type = "StageStarted", e.stage = d[k + 1]
        PROVE  e.attempt <= st.attempts[d[k + 1]]
    BY <1>4, <1>6, <1>7 DEF FreshInv, StartedInv
  <1> HIDE DEF d
  <1> QED
    BY <1>1, <1>4, <1>5, <1>7 DEF FreshInv, StartedInv, NextAttemptInv, StartedUpTo

\* With or without an operator: the attempt that is executed is the stored one.
LEMMA AttemptStep ==
    TypeOK /\ PinnedInv /\ AttemptInv /\ [Next]_vars => AttemptInv'
  <1> SUFFICES ASSUME TypeOK, PinnedInv, AttemptInv, [Next]_vars PROVE AttemptInv'
    OBVIOUS
  <1> USE DEF local, durable, caller, StageSteps, CompletedSteps, FailedSteps
  <1>1. CASE Start \/ Override \/ Reject \/ SideEffectFails \/ Crash
    <2>1. /\ pc' \in {"idle", "publishPipelineStarted"}
          /\ checkpoint' = checkpoint
          /\ returned' \in {returned, NoState}
      BY <1>1 DEF Start, Override, Execute, Reject, SideEffectFails, Crash
    <2> QED
      BY <2>1 DEF AttemptInv
  <1>2. CASE SaveStartedCheckpoint
    <2>1. /\ checkpoint' = Checkpoint(state', "started") /\ Stage' = Stage
          /\ returned = NoState /\ returned' = returned
      BY <1>2 DEF SaveStartedCheckpoint, Stage, Then, PinnedInv
    <2> QED
      BY <2>1 DEF AttemptInv, Checkpoint
  <1>3. CASE SaveCompletedCheckpoint \/ SaveFailedCheckpoint
    <2>1. /\ \E status \in {"completed", "failed"} : checkpoint' = Checkpoint(state, status)
          /\ Stage' = Stage /\ state' = state
          /\ returned = NoState /\ returned' = returned
      BY <1>3 DEF SaveCompletedCheckpoint, SaveFailedCheckpoint, Stage, Then, PinnedInv
    <2> QED
      BY <2>1 DEF AttemptInv, Checkpoint
  <1>4. CASE StageSucceeds
    <2>1. /\ state \in PipelineStates /\ state'.attempts = state.attempts
      BY <1>4 DEF StageSucceeds, TypeOK, PipelineStates
    <2> QED
      BY <1>4, <2>1 DEF StageSucceeds, Stage, AttemptInv
  <1>5. CASE LogStageFailed
    <2>1. pc = "logStageFailed" /\ pc' = "idle" /\ checkpoint' = checkpoint
          /\ returned' \in {returned, state}
      BY <1>5 DEF LogStageFailed, ThenReturn
    <2> QED
      BY <2>1 DEF AttemptInv
  <1>6. CASE \/ PublishPipelineStarted \/ PublishStageStarted \/ StageFails
             \/ PublishStageCompleted \/ PublishStageFailed \/ PublishPipelineFailed
             \/ PublishPipelineCompleted \/ LogPipelineCompleted
    <2>1. /\ UNCHANGED <<state, Stage, checkpoint>> /\ returned' \in {returned, NoState}
          /\ pc' \in StageSteps => pc \in StageSteps
      BY <1>6 DEF PublishPipelineStarted, PublishStageStarted, StageFails,
         PublishStageCompleted, PublishStageFailed, PublishPipelineFailed,
         PublishPipelineCompleted, LogPipelineCompleted, Then, ThenReturn, Stage
    <2> QED
      BY <2>1 DEF AttemptInv
  <1>7. CASE LogStageCompleted
    BY <1>7 DEF LogStageCompleted, Then, Stage, AttemptInv
  <1>8. CASE UNCHANGED vars
    BY <1>8 DEF vars, Stage, AttemptInv
  <1> QED
    BY <1>1, <1>2, <1>3, <1>4, <1>5, <1>6, <1>7, <1>8 DEF Next, Proceed

LEMMA AttemptProceed ==
    ASSUME TypeOK, PinnedInv, StoreInv, ExecutionInv, FreshInv, ~manual, Proceed
    PROVE  StartedInv' /\ NextAttemptInv'
  <1> USE DEF local, durable
  <1> DEFINE d == Definition[defn]
             attempt == state.attempts[Stage]
  <1>1. /\ pc # "idle" /\ defn' = defn
    BY DEF Proceed, PublishPipelineStarted, SaveStartedCheckpoint, PublishStageStarted,
           StageSucceeds, StageFails, SaveCompletedCheckpoint, PublishStageCompleted,
           LogStageCompleted, SaveFailedCheckpoint, PublishStageFailed,
           PublishPipelineFailed, LogStageFailed, PublishPipelineCompleted,
           LogPipelineCompleted
  <1>2. /\ d \in Seq(StageIds) /\ ValidDefinition(d) /\ index \in 1..Len(d)
        /\ state \in PipelineStates /\ Stage = d[index] /\ Stage \in StageIds
        /\ attempt \in Nat
    BY <1>1, DefinitionAssumption, StageExists
    DEF TypeOK, ExecutionInv, Stage, PipelineStates
  <1>3. \A e \in events : e.attempt \in Nat
    BY DEF TypeOK
  <1>4. StartedInv /\ NextAttemptInv /\ AttemptInv
    BY DEF FreshInv
  <1> HIDE DEF d, attempt
  <1>5. CASE PublishPipelineStarted
    <2>1. pc = "publishPipelineStarted" /\ pc' \in {"idle", "saveStarted"}
          /\ UNCHANGED <<state, Stage, events, done, checkpoint>>
      BY <1>5 DEF PublishPipelineStarted, Then, Stage
    <2> QED
      BY <1>4, <2>1 DEF StartedInv, NextAttemptInv, StartedUpTo
  <1>6. CASE SaveStartedCheckpoint
    <2>1. /\ pc = "saveStarted" /\ pc' \in {"idle", "publishStageStarted"}
          /\ UNCHANGED <<Stage, events, done>>
          /\ state' = [state EXCEPT !.attempts = IncrementStageAttempt(state, Stage),
                                    !.current = Stage]
          /\ checkpoint' = Checkpoint(state', "started")
          /\ checkpoint' # NoCheckpoint
      BY <1>6, CheckpointSaved DEF SaveStartedCheckpoint, Then, Stage
    <2>2. state'.attempts[Stage] = attempt + 1
      BY <1>2, <2>1 DEF PipelineStates, IncrementStageAttempt, attempt
    <2>3. checkpoint'.current = Stage /\ checkpoint'.attempt = attempt + 1
      BY <2>1, <2>2 DEF Checkpoint
    <2>4. \A e \in events : e.type = "StageStarted" /\ e.stage = Stage => e.attempt <= attempt
      BY <1>4, <2>1 DEF NextAttemptInv, StartedUpTo, attempt
    <2>5. ASSUME NEW e \in events, e.type = "StageStarted", e.stage \notin done
          PROVE  e.stage = Stage
      <3>1. checkpoint # NoCheckpoint /\ e.stage = checkpoint.current
        BY <1>4, <2>5 DEF StartedInv
      <3>2. checkpoint.version = defn
        BY <1>1, <3>1 DEF PinnedInv
      <3>3. PICK k \in Nat : Marks(checkpoint, k) /\ done = StagesOf(d, k)
        BY <3>1, <3>2 DEF StoreInv, d
      <3>4. done = StagesOf(d, index - 1)
        BY <1>1, <2>1 DEF ExecutionInv, CompletedSteps, d
      <3>5. k = index - 1
        <4>1. k \in 0..Len(d) /\ index - 1 \in 0..Len(d)
          BY <1>2, <3>2, <3>3 DEF Marks, d
        <4> QED
          BY <1>2, <3>3, <3>4, <4>1, StagesOfInjective
      <3>6. CASE checkpoint.status = "completed"
        <4>1. k \in 1..Len(d) /\ checkpoint.current = d[k]
          BY <3>2, <3>3, <3>6 DEF Marks, d
        <4>2. checkpoint.current \in done
          BY <3>3, <4>1 DEF StagesOf
        <4> QED
          BY <2>5, <3>1, <4>2
      <3>7. CASE checkpoint.status # "completed"
        <4>1. checkpoint.current = d[k + 1]
          BY <3>2, <3>3, <3>7 DEF Marks, d
        <4> QED
          BY <1>2, <3>1, <3>5, <4>1
      <3> QED
        BY <3>6, <3>7
    <2>6. StartedInv'
      BY <1>2, <1>3, <2>1, <2>3, <2>4, <2>5 DEF StartedInv
    <2>7. (attempt + 1) - 1 = attempt
      BY <1>2
    <2>8. NextAttemptInv'
      BY <2>1, <2>2, <2>4, <2>7 DEF NextAttemptInv, StartedUpTo
    <2> QED
      BY <2>6, <2>8
  <1>7. CASE PublishStageStarted
    <2>1. /\ pc = "publishStageStarted" /\ pc' \in {"idle", "executeStage"}
          /\ UNCHANGED <<done, checkpoint>>
          /\ events' = events \union {Event("StageStarted", Stage, attempt)}
      BY <1>7 DEF PublishStageStarted, Publish, Then, attempt
    <2>2. /\ checkpoint.current = Stage /\ checkpoint.attempt = attempt
          /\ checkpoint # NoCheckpoint
      BY <1>4, <2>1 DEF AttemptInv, PinnedInv, StageSteps, attempt
    <2> QED
      BY <1>2, <1>4, <2>1, <2>2 DEF StartedInv, NextAttemptInv, Event
  <1>8. CASE PublishStageCompleted \/ PublishStageFailed \/ PublishPipelineFailed
    <2>1. /\ pc' \notin {"publishPipelineStarted", "saveStarted", "publishStageStarted"}
          /\ UNCHANGED <<done, checkpoint>>
          /\ \A e \in events' : e.type = "StageStarted" => e \in events
      BY <1>8, PublishAdds DEF PublishStageCompleted, PublishStageFailed,
         PublishPipelineFailed, Then
    <2> QED
      BY <1>4, <2>1 DEF StartedInv, NextAttemptInv
  <1>9. CASE SaveCompletedCheckpoint \/ SaveFailedCheckpoint
    <2>1. /\ pc \in {"saveCompleted", "saveFailed"}
          /\ pc' \notin {"publishPipelineStarted", "saveStarted", "publishStageStarted"}
          /\ \E status \in {"completed", "failed"} : checkpoint' = Checkpoint(state, status)
          /\ done \subseteq done' /\ events' = events
          /\ checkpoint' # NoCheckpoint
      BY <1>9, CheckpointSaved DEF SaveCompletedCheckpoint, SaveFailedCheckpoint, Then
    <2>2. checkpoint'.current = checkpoint.current /\ checkpoint'.attempt = checkpoint.attempt
      BY <1>4, <2>1 DEF AttemptInv, StageSteps, Checkpoint
    <2> QED
      BY <1>4, <2>1, <2>2 DEF StartedInv, NextAttemptInv
  <1>10. CASE LogStageCompleted
    <2>1. /\ pc = "logStageCompleted"
          /\ UNCHANGED <<state, checkpoint, done, events>>
          /\ pc' \in {"idle", "saveStarted", "publishPipelineCompleted"}
          /\ pc' = "saveStarted" => index < Len(d) /\ index' = index + 1
      BY <1>10 DEF LogStageCompleted, Then, d
    <2>2. checkpoint.current \in done
      <3>1. done = StagesOf(d, index)
        BY <1>1, <2>1 DEF ExecutionInv, CompletedSteps, d
      <3>2. checkpoint.current = d[index]
        BY <1>2, <1>4, <2>1 DEF AttemptInv, StageSteps, CompletedSteps
      <3> QED
        BY <1>2, <3>1, <3>2 DEF StagesOf
    <2>3. ASSUME pc' = "saveStarted"
          PROVE  Stage' = d[index + 1] /\ d[index + 1] \notin done
      <3>1. done = StagesOf(d, index)
        BY <1>1, <2>1 DEF ExecutionInv, CompletedSteps, d
      <3> QED
        BY <1>1, <1>2, <2>1, <2>3, <3>1, StageAfter DEF Stage, d
    <2>4. \A e \in events : e.type = "StageStarted" => e.stage \in done
      BY <1>4, <2>2 DEF StartedInv
    <2> QED
      BY <2>1, <2>3, <2>4 DEF StartedInv, NextAttemptInv, StartedUpTo
  <1>11. CASE \/ StageSucceeds \/ StageFails \/ LogStageFailed
              \/ PublishPipelineCompleted \/ LogPipelineCompleted
    <2>1. /\ pc' \notin {"publishPipelineStarted", "saveStarted", "publishStageStarted"}
          /\ UNCHANGED <<done, checkpoint, events>>
      BY <1>11 DEF StageSucceeds, StageFails, LogStageFailed, PublishPipelineCompleted,
         LogPipelineCompleted, Then, ThenReturn
    <2> QED
      BY <1>4, <2>1 DEF StartedInv, NextAttemptInv
  <1> QED
    BY <1>5, <1>6, <1>7, <1>8, <1>9, <1>10, <1>11 DEF Proceed

LEMMA FreshStep == Inv /\ FreshInv /\ [Next]_vars => FreshInv'
  <1> SUFFICES ASSUME Inv, FreshInv, [Next]_vars PROVE FreshInv'
    OBVIOUS
  <1>1. AttemptInv'
    BY AttemptStep DEF Inv, FreshInv
  <1>2. ASSUME ~manual' PROVE StartedInv' /\ NextAttemptInv'
    <2>1. CASE Start
      BY <1>2, <2>1, AttemptExecute DEF Start, Execute, Inv, ResumeInv
    <2>2. CASE Override
      <3>1. PICK s \in ManualStages : \E st \in Inputs, v \in Versions : Execute(st, v, s)
        BY <2>2 DEF Override
      <3> QED
        BY <1>2, <3>1, StagesAssumption DEF Execute
    <2>3. CASE Proceed
      <3>1. manual' = manual
        BY <2>3
        DEF Proceed, PublishPipelineStarted, SaveStartedCheckpoint, PublishStageStarted,
            StageSucceeds, StageFails, SaveCompletedCheckpoint, PublishStageCompleted,
            LogStageCompleted, SaveFailedCheckpoint, PublishStageFailed,
            PublishPipelineFailed, LogStageFailed, PublishPipelineCompleted,
            LogPipelineCompleted
      <3> QED
        BY <1>2, <2>3, <3>1, AttemptProceed DEF Inv, ResumeInv
    <2>4. CASE Reject \/ SideEffectFails \/ Crash
      <3>1. UNCHANGED <<checkpoint, done, events, manual>> /\ pc' = "idle"
        BY <2>4 DEF Reject, SideEffectFails, Crash, durable
      <3> QED
        BY <1>2, <3>1 DEF FreshInv, StartedInv, NextAttemptInv
    <2>5. CASE UNCHANGED vars
      BY <1>2, <2>5 DEF vars, local, durable, Stage, FreshInv, StartedInv, NextAttemptInv,
         StartedUpTo
    <2> QED
      BY <2>1, <2>2, <2>3, <2>4, <2>5 DEF Next
  <1> QED
    BY <1>1, <1>2 DEF FreshInv

\* No two executions of a stage are announced under one attempt number.
THEOREM AttemptsCorrect == Spec => []AttemptsAreNew
  <1>1. Init => FreshInv
    BY DEF Init, FreshInv, AttemptInv, StartedInv, NextAttemptInv, StageSteps,
           CompletedSteps, FailedSteps
  <1>2. Inv /\ FreshInv => AttemptsAreNew
    <2> SUFFICES ASSUME Inv, FreshInv, pc = "publishStageStarted", ~manual,
                        Event("StageStarted", Stage, state.attempts[Stage]) \in events
                 PROVE  FALSE
      BY DEF AttemptsAreNew
    <2>1. state.attempts[Stage] \in Nat
      BY StageExists DEF Inv, TypeOK, PipelineStates
    <2>2. state.attempts[Stage] <= state.attempts[Stage] - 1
      BY DEF FreshInv, NextAttemptInv, StartedUpTo, Event
    <2> QED
      BY <2>1, <2>2
  <1> QED
    BY <1>1, <1>2, FreshStep, Invariance, PTL DEF Spec

-----------------------------------------------------------------------------
(* The trace is true *)

\* A running execution has a result for each stage before the one it stands at,
\* none of them a failure, and for all stages when it ends well.
LengthInv ==
    pc # "idle" =>
        /\ outcome = "running"
        /\ Len(results) = IF pc \in {"publishPipelineCompleted", "logPipelineCompleted"}
                          THEN Len(Definition[defn]) ELSE index - 1
        /\ \A i \in DOMAIN results : results[i].status # "fail"

TraceInv == LengthInv /\ TraceIsTrue

LEMMA PositionBelow ==
    ASSUME NEW n \in Nat, NEW k \in 1..n
    PROVE  k - 1 \in Nat /\ k - 1 <= n
  OBVIOUS

LEMMA TraceExecute ==
    ASSUME Inv, NEW st \in Inputs, NEW v \in Versions,
           NEW from \in ManualStages \union {NoStage}, Execute(st, v, from)
    PROVE  TraceInv'
  <1> DEFINE d == Definition[v]
  <1>1. TypeOK /\ PinnedInv /\ TypeOK'
    BY TypeExecute DEF Inv
  <1>2. /\ pc' = "publishPipelineStarted" /\ defn' = v /\ outcome' = "running"
        /\ done' = done
        /\ results' = [i \in 1..(index' - 1) |-> [stage |-> d[i], status |-> "skipped"]]
        /\ index' \in 1..Len(d)
    BY <1>1 DEF Execute, durable, TypeOK
  <1>3. Len(d) \in Nat
    BY DefinitionAssumption
  <1> HIDE DEF d
  <1>4. /\ index' - 1 \in Nat /\ index' - 1 <= Len(d)
        /\ Len(results') = index' - 1 /\ DOMAIN results' = 1..(index' - 1)
        /\ \A i \in 1..(index' - 1) : results'[i].stage = d[i] /\ results'[i].status = "skipped"
    <2>1. index' - 1 \in Nat /\ index' - 1 <= Len(d)
      BY <1>2, <1>3, PositionBelow
    <2>2. DOMAIN results' = 1..(index' - 1) /\ results' \in Seq(StageResults)
      BY <1>1, <1>2 DEF TypeOK
    <2>3. Len(results') = index' - 1
      BY <2>1, <2>2
    <2> QED
      BY <1>2, <2>1, <2>2, <2>3
  <1>5. ASSUME NEW i \in 1..(index' - 1) PROVE d[i] \in done \/ manual'
    <2>1. CASE from # NoStage
      BY <2>1 DEF Execute
    <2>2. CASE manual
      BY <2>2 DEF Execute
    <2>3. CASE from = NoStage /\ ~manual
      <3>1. PICK k \in Nat : index' = k + 1 /\ done = StagesOf(d, k)
        BY <1>1, <2>3, StartsAfterDone DEF Inv, ResumeInv, d
      <3> QED
        BY <3>1 DEF StagesOf
    <2> QED
      BY <2>1, <2>2, <2>3
  <1>6. LengthInv'
    BY <1>2, <1>4 DEF LengthInv
  <1>7. TraceIsTrue'
    BY <1>2, <1>3, <1>4, <1>5 DEF TraceIsTrue, d
  <1> QED
    BY <1>6, <1>7 DEF TraceInv

\* Record adds one result, for the stage the execution stands at.
LEMMA RecordAdds ==
    ASSUME TypeOK, NEW status, results' = Record(status)
    PROVE  /\ Len(results') = Len(results) + 1
           /\ DOMAIN results' = 1..(Len(results) + 1)
           /\ results'[Len(results) + 1] = [stage |-> Stage, status |-> status]
           /\ \A i \in DOMAIN results : i \in 1..Len(results) /\ results'[i] = results[i]
  BY DEF TypeOK, Record

LEMMA TraceProceed ==
    ASSUME Inv, DurableInv, TraceInv, Proceed
    PROVE  TraceInv'
  <1> USE DEF local, durable, caller
  <1> DEFINE d == Definition[defn]
  <1>1. /\ pc # "idle" /\ defn' = defn /\ manual' = manual /\ done \subseteq done'
    BY DEF Proceed, PublishPipelineStarted, SaveStartedCheckpoint, PublishStageStarted,
           StageSucceeds, StageFails, SaveCompletedCheckpoint, PublishStageCompleted,
           LogStageCompleted, SaveFailedCheckpoint, PublishStageFailed,
           PublishPipelineFailed, LogStageFailed, PublishPipelineCompleted,
           LogPipelineCompleted
  <1>2. /\ Len(d) \in Nat /\ index \in 1..Len(d) /\ Stage = d[index]
        /\ Len(results) \in Nat /\ TypeOK
    BY <1>1, DefinitionAssumption DEF Inv, TypeOK, Stage
  <1>3. LengthInv /\ TraceIsTrue
    BY DEF TraceInv
  <1> HIDE DEF d
  <1>4. CASE LogStageCompleted
    <2>1. /\ pc = "logStageCompleted" /\ Stage \in done /\ done' = done
          /\ results' = Record("ok")
          /\ pc' # "idle" => outcome' = outcome
          /\ outcome' \in {outcome, "error"}
          /\ \/ index' = index + 1 /\ pc' \in {"idle", "saveStarted"}
             \/ index = Len(d) /\ pc' \in {"idle", "publishPipelineCompleted"}
      BY <1>2, <1>4 DEF LogStageCompleted, Then, DurableInv, DoneInv, CompletedSteps, d
    <2>2. Len(results) = index - 1
      BY <1>1, <1>3, <2>1 DEF LengthInv
    <2>3. /\ Len(results') = index /\ DOMAIN results' = 1..index
          /\ results'[index] = [stage |-> Stage, status |-> "ok"]
          /\ \A i \in 1..(index - 1) : i \in DOMAIN results /\ results'[i] = results[i]
      BY <1>2, <2>1, <2>2, RecordAdds DEF TypeOK
    <2>4. ASSUME NEW i \in 1..index
          PROVE  /\ results'[i].stage = d[i] /\ results'[i].status # "fail"
                 /\ results'[i].status = "ok" => d[i] \in done'
                 /\ results'[i].status = "skipped" => d[i] \in done' \/ manual'
      <3>1. CASE i = index
        BY <1>2, <2>1, <2>3, <3>1
      <3>2. CASE i # index
        <4>1. i \in 1..(index - 1)
          BY <1>2, <3>2
        <4>2. i \in DOMAIN results /\ results'[i] = results[i]
          BY <2>3, <4>1
        <4> QED
          BY <1>1, <1>3, <4>2 DEF LengthInv, TraceIsTrue, d
      <3> QED
        BY <3>1, <3>2
    <2>5. outcome = "running"
      BY <1>1, <1>3 DEF LengthInv
    <2>6. LengthInv'
      BY <1>1, <1>2, <2>1, <2>3, <2>4, <2>5 DEF LengthInv, d
    <2>7. TraceIsTrue'
      BY <1>1, <1>2, <2>1, <2>3, <2>4, <2>5 DEF TraceIsTrue, d
    <2> QED
      BY <2>6, <2>7 DEF TraceInv
  <1>5. CASE LogStageFailed
    <2>1. /\ pc = "logStageFailed" /\ pc' = "idle" /\ done' = done
          /\ results' = Record("fail") /\ outcome' \in {"failed", "error"}
      BY <1>5 DEF LogStageFailed, ThenReturn
    <2>2. Len(results) = index - 1
      BY <1>1, <1>3, <2>1 DEF LengthInv
    <2>3. /\ Len(results') = index /\ DOMAIN results' = 1..index
          /\ results'[index] = [stage |-> Stage, status |-> "fail"]
          /\ \A i \in 1..(index - 1) : i \in DOMAIN results /\ results'[i] = results[i]
      BY <1>2, <2>1, <2>2, RecordAdds DEF TypeOK
    <2>4. ASSUME NEW i \in 1..index
          PROVE  /\ results'[i].stage = d[i]
                 /\ results'[i].status = "fail" => i = index
                 /\ results'[i].status = "ok" => d[i] \in done'
                 /\ results'[i].status = "skipped" => d[i] \in done' \/ manual'
      <3>1. CASE i = index
        BY <1>2, <2>1, <2>3, <3>1
      <3>2. CASE i # index
        <4>1. i \in 1..(index - 1)
          BY <1>2, <3>2
        <4>2. i \in DOMAIN results /\ results'[i] = results[i]
          BY <2>3, <4>1
        <4> QED
          BY <1>1, <1>3, <2>1, <4>2 DEF LengthInv, TraceIsTrue, d
      <3> QED
        BY <3>1, <3>2
    <2>5. TraceIsTrue'
      BY <1>1, <1>2, <2>1, <2>3, <2>4 DEF TraceIsTrue, d
    <2> QED
      BY <2>1, <2>5 DEF TraceInv, LengthInv
  <1>6. CASE ~LogStageCompleted /\ ~LogStageFailed
    <2>1. /\ results' = results /\ index' = index
          /\ pc' # "idle" => outcome' = outcome
          /\ outcome' = "completed" => pc = "logPipelineCompleted"
          /\ pc \in {"publishPipelineCompleted", "logPipelineCompleted"} /\ pc' # "idle"
                => pc' = "logPipelineCompleted"
          /\ pc' \in {"publishPipelineCompleted", "logPipelineCompleted"}
                => pc = "publishPipelineCompleted"
      BY <1>1, <1>3, <1>6
      DEF LengthInv, Proceed, PublishPipelineStarted, SaveStartedCheckpoint,
          PublishStageStarted, StageSucceeds, StageFails, SaveCompletedCheckpoint,
          PublishStageCompleted, SaveFailedCheckpoint, PublishStageFailed,
          PublishPipelineFailed, PublishPipelineCompleted, LogPipelineCompleted,
          Then, ThenReturn
    <2>2. LengthInv'
      BY <1>1, <1>3, <2>1 DEF LengthInv
    <2>3. outcome' = "completed" => Len(results) = Len(d)
      BY <1>1, <1>3, <2>1 DEF LengthInv, d
    <2>4. TraceIsTrue'
      BY <1>1, <1>3, <2>1, <2>3 DEF LengthInv, TraceIsTrue, d
    <2> QED
      BY <2>2, <2>4 DEF TraceInv
  <1> QED
    BY <1>4, <1>5, <1>6

LEMMA TraceStep == Inv /\ DurableInv /\ TraceInv /\ [Next]_vars => TraceInv'
  <1> SUFFICES ASSUME Inv, DurableInv, TraceInv, [Next]_vars PROVE TraceInv'
    OBVIOUS
  <1>1. CASE Start \/ Override
    BY <1>1, TraceExecute DEF Start, Override
  <1>2. CASE Reject \/ SideEffectFails \/ Crash
    <2>1. /\ UNCHANGED <<defn, results, done, manual>> /\ pc' = "idle"
          /\ outcome' \in {"error", "none"}
      BY <1>2 DEF Reject, SideEffectFails, Crash, local, durable
    <2> QED
      BY <2>1 DEF TraceInv, LengthInv, TraceIsTrue
  <1>3. CASE UNCHANGED vars
    BY <1>3 DEF vars, local, durable, caller, TraceInv, LengthInv, TraceIsTrue
  <1> QED
    BY <1>1, <1>2, <1>3, TraceProceed DEF Next

\* The trace a caller is given never claims more than the run has achieved.
THEOREM TraceCorrect == Spec => []TraceIsTrue
  <1>1. Init => DurableInv /\ TraceInv
    <2> SUFFICES ASSUME Init PROVE DurableInv /\ TraceInv
      OBVIOUS
    <2>1. Len(Definition[defn]) \in Nat
      BY DefinitionAssumption DEF Init
    <2> QED
      BY <2>1 DEF Init, DurableInv, DoneInv, CompletedSteps, CompletedEventsAreDurable,
         TraceInv, LengthInv, TraceIsTrue
  <1>2. Inv /\ DurableInv /\ [Next]_vars => DurableInv'
    BY DurableStep DEF Inv
  <1>3. TraceInv => TraceIsTrue
    BY DEF TraceInv
  <1> QED
    BY <1>1, <1>2, <1>3, TraceStep, Invariance, PTL DEF Spec

-----------------------------------------------------------------------------
(* The orchestrator implements RunProgress, as far as safety goes *)

\* The progress an observer reads off the checkpoint counts the stages done.
CountedInv ==
    /\ checkpoint = NoCheckpoint => RunDone = 0 /\ done = {}
    /\ checkpoint # NoCheckpoint =>
          LET d == Definition[checkpoint.version] IN
          /\ checkpoint.version \in Versions
          /\ d \in Seq(StageIds) /\ ValidDefinition(d)
          /\ RunDone \in 0..Len(d)
          /\ done = StagesOf(d, RunDone)

LEMMA ProgressCounts == TypeOK /\ StoreInv => CountedInv
  <1> SUFFICES ASSUME TypeOK, StoreInv PROVE CountedInv
    OBVIOUS
  <1>1. CASE checkpoint = NoCheckpoint
    BY <1>1 DEF CountedInv, StoreInv, RunDone
  <1>2. CASE checkpoint # NoCheckpoint
    <2> DEFINE d == Definition[checkpoint.version]
    <2>1. checkpoint.version \in Versions /\ d \in Seq(StageIds)
      BY <1>2, DefinitionAssumption DEF TypeOK, Checkpoints
    <2>2. PICK k \in Nat : Marks(checkpoint, k) /\ done = StagesOf(d, k)
      BY <1>2 DEF StoreInv
    <2>3. ValidDefinition(d) /\ k \in 0..Len(d) /\ checkpoint.last = LastOf(d, k)
      BY <2>2 DEF Marks
    <2>4. RunDone = IF checkpoint.last = NoStage THEN 0 ELSE Position(d, checkpoint.last)
      BY <1>2 DEF RunDone
    <2> HIDE DEF d
    <2>5. RunDone = k
      <3>1. CASE k = 0
        BY <2>3, <2>4, <3>1 DEF LastOf
      <3>2. CASE k # 0
        <4>1. k \in 1..Len(d)
          BY <2>1, <2>3, <3>2
        <4>2. d[k] \in StageIds
          BY <2>1, <4>1, SeqElement
        <4>3. checkpoint.last = d[k] /\ checkpoint.last # NoStage
          BY <2>3, <3>2, <4>2, StagesAssumption DEF LastOf
        <4> QED
          BY <2>1, <2>3, <2>4, <4>1, <4>3, PositionUnique
      <3> QED
        BY <3>1, <3>2
    <2> QED
      BY <1>2, <2>1, <2>2, <2>3, <2>5 DEF CountedInv, d
  <1> QED
    BY <1>1, <1>2

\* As long as the set of completed stages does not change, neither does the
\* progress of a pinned run; a run that is pinned has made none.
LEMMA ProgressKept ==
    ASSUME TypeOK, TypeOK', StoreInv, StoreInv', done' = done, checkpoint' # NoCheckpoint,
           checkpoint # NoCheckpoint => checkpoint'.version = checkpoint.version
    PROVE  RunDone' = RunDone
  <1> CountedInv /\ CountedInv'
    BY ProgressCounts, PTL
  <1>1. CASE checkpoint = NoCheckpoint
    <2> DEFINE d == Definition[checkpoint'.version]
    <2>1. /\ RunDone = 0 /\ done = {}
          /\ d \in Seq(StageIds) /\ ValidDefinition(d)
          /\ RunDone' \in 0..Len(d) /\ done' = StagesOf(d, RunDone')
      BY <1>1 DEF CountedInv
    <2> HIDE DEF d
    <2>2. StagesOf(d, 0) = StagesOf(d, RunDone') /\ 0 \in 0..Len(d)
      BY <2>1 DEF StagesOf
    <2> QED
      BY <2>1, <2>2, StagesOfInjective
  <1>2. CASE checkpoint # NoCheckpoint
    <2> DEFINE d == Definition[checkpoint.version]
    <2>1. /\ d \in Seq(StageIds) /\ ValidDefinition(d)
          /\ RunDone \in 0..Len(d) /\ done = StagesOf(d, RunDone)
          /\ RunDone' \in 0..Len(d) /\ done' = StagesOf(d, RunDone')
      BY <1>2 DEF CountedInv
    <2> HIDE DEF d
    <2> QED
      BY <2>1, StagesOfInjective
  <1> QED
    BY <1>1, <1>2

LEMMA RunStep ==
    ASSUME Inv, Inv', ~manual, ~manual', [Next]_vars
    PROVE  [Run!Next]_(Run!vars)
  <1> USE DEF local, durable, Run!vars
  <1> DEFINE d == Definition[defn]
  <1>1. /\ TypeOK /\ TypeOK' /\ PinnedInv /\ PinnedInv'
        /\ StoreInv /\ StoreInv' /\ ExecutionInv /\ CompletionInv
    BY DEF Inv, ResumeInv
  <1> CountedInv /\ CountedInv'
    BY <1>1, ProgressCounts, PTL
  <1>2. ASSUME pc # "idle"
        PROVE  /\ d \in Seq(StageIds) /\ ValidDefinition(d) /\ index \in 1..Len(d)
               /\ defn \in Versions /\ state.version = defn
               /\ checkpoint # NoCheckpoint => checkpoint.version = defn
               /\ Stage = d[index]
    BY <1>1, <1>2, DefinitionAssumption DEF TypeOK, PinnedInv, ExecutionInv, Stage
  <1>3. CASE SaveStartedCheckpoint \/ SaveFailedCheckpoint
    <2>1. /\ pc # "idle" /\ done' = done /\ completions' = completions
          /\ checkpoint' # NoCheckpoint /\ checkpoint'.version = defn
      BY <1>1, <1>2, <1>3, CheckpointSaved DEF SaveStartedCheckpoint, SaveFailedCheckpoint
    <2>2. RunDone' = RunDone
      BY <1>1, <1>2, <2>1, ProgressKept
    <2>3. CASE checkpoint = NoCheckpoint
      BY <1>2, <2>1, <2>2, <2>3 DEF Run!Next, Run!Pin, RunPinned
    <2>4. CASE checkpoint # NoCheckpoint
      BY <1>2, <2>1, <2>2, <2>4 DEF RunPinned
    <2> QED
      BY <2>3, <2>4
  <1>4. CASE SaveCompletedCheckpoint
    <2>1. /\ pc = "saveCompleted" /\ completions' = completions
          /\ done' = done \union {Stage}
          /\ checkpoint' # NoCheckpoint /\ checkpoint'.version = defn
          /\ checkpoint # NoCheckpoint
      BY <1>1, <1>2, <1>4, CheckpointSaved DEF SaveCompletedCheckpoint, PinnedInv, StageSteps
    <2>2. /\ RunDone \in 0..Len(d) /\ done = StagesOf(d, RunDone)
          /\ RunDone' \in 0..Len(d) /\ done' = StagesOf(d, RunDone')
          /\ checkpoint.version = defn
      BY <1>2, <2>1 DEF CountedInv
    <2>3. done = StagesOf(d, index - 1)
      BY <1>1, <2>1 DEF ExecutionInv, CompletedSteps
    <2>4. /\ d \in Seq(StageIds) /\ ValidDefinition(d) /\ index \in 1..Len(d)
          /\ Stage = d[index] /\ Len(d) \in Nat /\ defn \in Versions
      BY <1>2, <2>1
    <2>5. Len(d) = [v \in Versions |-> Len(Definition[v])][defn]
      BY <2>4
    <2> HIDE DEF d
    <2>6. index - 1 \in 0..Len(d) /\ index \in 0..Len(d)
      BY <2>4
    <2>7. RunDone = index - 1
      BY <2>2, <2>3, <2>4, <2>6, StagesOfInjective
    <2>8. RunDone' = index
      BY <2>1, <2>2, <2>3, <2>4, <2>6, StagesOfNext, StagesOfInjective
    <2>9. RunDone < Len(d) /\ RunDone' = RunDone + 1
      BY <2>4, <2>7, <2>8
    <2> QED
      BY <2>1, <2>2, <2>4, <2>5, <2>9 DEF Run!Next, Run!CompleteStage, RunPinned
  <1>5. CASE PublishPipelineCompleted
    <2>1. /\ pc = "publishPipelineCompleted" /\ checkpoint # NoCheckpoint
          /\ checkpoint' = checkpoint /\ completions' = completions + 1
      BY <1>1, <1>5 DEF PublishPipelineCompleted, PinnedInv, StageSteps, CompletedSteps
    <2>2. completions = 0
      BY <1>1, <2>1 DEF CompletionInv, TypeOK
    <2>3. /\ d \in Seq(StageIds) /\ ValidDefinition(d) /\ defn \in Versions
          /\ checkpoint.version = defn
          /\ RunDone \in 0..Len(d) /\ done = StagesOf(d, RunDone)
          /\ done = StagesOf(d, Len(d))
      BY <1>1, <1>2, <2>1 DEF CountedInv, ExecutionInv, CompletedSteps
    <2>4. Len(d) = [v \in Versions |-> Len(Definition[v])][defn]
      BY <2>3
    <2> HIDE DEF d
    <2>5. RunDone = Len(d)
      <3>1. Len(d) \in 0..Len(d)
        BY <2>3
      <3> QED
        BY <2>3, <3>1, StagesOfInjective
    <2>6. RunDone' = RunDone /\ RunPinned' = RunPinned /\ RunPinned = defn
      BY <2>1, <2>3 DEF RunDone, RunPinned
    <2> QED
      BY <2>1, <2>2, <2>3, <2>4, <2>5, <2>6 DEF Run!Next, Run!Announce
  <1>6. CASE /\ ~SaveStartedCheckpoint /\ ~SaveFailedCheckpoint
             /\ ~SaveCompletedCheckpoint /\ ~PublishPipelineCompleted
    <2>1. checkpoint' = checkpoint /\ completions' = completions
      BY <1>6
      DEF Next, Start, Override, Execute, Reject, SideEffectFails, Crash, Proceed,
          PublishPipelineStarted, PublishStageStarted, StageSucceeds, StageFails,
          PublishStageCompleted, LogStageCompleted, PublishStageFailed,
          PublishPipelineFailed, LogStageFailed, LogPipelineCompleted, vars
    <2> QED
      BY <2>1 DEF RunPinned, RunDone
  <1> QED
    BY <1>3, <1>4, <1>5, <1>6

\* Nobody names a stage to start from.
LEMMA NeverManual ==
    ASSUME ManualStages = {}
    PROVE  Spec => []~manual
  <1>1. Init => ~manual
    BY DEF Init
  <1>2. ~manual /\ [Next]_vars => ~manual'
    BY DEF Next, Start, Override, Execute, Reject, SideEffectFails, Crash, Proceed,
       PublishPipelineStarted, SaveStartedCheckpoint, PublishStageStarted,
       StageSucceeds, StageFails, SaveCompletedCheckpoint, PublishStageCompleted,
       LogStageCompleted, SaveFailedCheckpoint, PublishStageFailed,
       PublishPipelineFailed, LogStageFailed, PublishPipelineCompleted,
       LogPipelineCompleted, vars
  <1> QED
    BY <1>1, <1>2, PTL DEF Spec

\* The safety part of RunIsProgress: whatever fails and however often the run is
\* resumed, an observer of its checkpoints and of PipelineCompleted sees the
\* stages of one version complete one by one, in order, and completion announced
\* at most once, after the last.
THEOREM ImplementsRunProgress ==
    ASSUME ManualStages = {}
    PROVE  Spec => Run!Spec
  <1>1. Init => Run!Init
    BY DEF Init, Run!Init, RunPinned, RunDone
  <1>2. Inv /\ Inv' /\ ~manual /\ ~manual' /\ [Next]_vars => [Run!Next]_(Run!vars)
    BY RunStep
  <1>3. Spec => []~manual
    BY NeverManual
  <1> QED
    BY <1>1, <1>2, <1>3, Invariance, PTL DEF Spec, Run!Spec

-----------------------------------------------------------------------------
(* A run can always be resumed, and each execution ends *)

\* Whatever the caller holds, execute accepts a run that has begun exactly under
\* the version it is pinned to and until its stages are done, and a new run
\* exactly under a valid definition.
AlwaysResumable ==
    \A st \in Inputs, v \in Versions :
        /\ checkpoint = NoCheckpoint =>
              (Accepted(st, v, NoStage) <=> ValidDefinition(Definition[v]))
        /\ checkpoint # NoCheckpoint /\ ~manual =>
              (Accepted(st, v, NoStage) <=> v = checkpoint.version /\ ~AllDone)

LEMMA FreshIsAccepted ==
    ASSUME PinnedInv, checkpoint = NoCheckpoint, NEW st \in Inputs, NEW v \in Versions
    PROVE  Accepted(st, v, NoStage) <=> ValidDefinition(Definition[v])
  <1>1. st \in Fresh
    BY DEF Inputs, PinnedInv
  <1>2. st.last = NoStage /\ st.current = NoStage /\ st.attempts = NoAttempts
    BY <1>1 DEF Fresh, PipelineState
  <1>3. StartIndex(st, Definition[v], NoStage) = 1
    BY <1>2 DEF StartIndex, ImplicitStart
  <1>4. CanPin(st, v)
    BY <1>2 DEF CanPin, HasProgress
  <1> QED
    BY <1>3, <1>4 DEF Accepted

LEMMA PinnedIsAccepted ==
    ASSUME TypeOK, PinnedInv, StoreInv, checkpoint # NoCheckpoint,
           NEW st \in Inputs, NEW v \in Versions
    PROVE  Accepted(st, v, NoStage) <=> v = checkpoint.version /\ ~AllDone
  <1>1. CanPin(st, v) <=> v = checkpoint.version
    BY InputsArePinned DEF CanPin
  <1>2. CASE v = checkpoint.version
    <2> DEFINE d == Definition[v]
    <2>1. PICK k \in Nat : Marks(checkpoint, k) /\ done = StagesOf(d, k)
      BY <1>2 DEF StoreInv
    <2>2. /\ d \in Seq(StageIds) /\ ValidDefinition(d) /\ k \in 0..Len(d)
          /\ k = Len(d) => checkpoint.status = "completed"
      BY <1>2, <2>1, DefinitionAssumption DEF Marks
    <2>3. /\ st.last = LastOf(d, k)
          /\ \/ st.current \in {NoStage, LastOf(d, k)}
             \/ k < Len(d) /\ st.current = d[k + 1]
      BY <1>2, <2>1, InputsStandAtCheckpoint
    <2>4. AllDone <=> checkpoint.status = "completed" /\ done = StagesOf(d, Len(d))
      BY <1>2 DEF AllDone
    <2>5. Accepted(st, v, NoStage) <=> ValidDefinition(d) /\ ImplicitStart(st, d) # 0
      BY <1>1, <1>2 DEF Accepted, StartIndex
    <2> HIDE DEF d
    <2>6. ImplicitStart(st, d) = IF k < Len(d) THEN k + 1 ELSE 0
      BY <2>2, <2>3, ImplicitStartAfter
    <2>7. AllDone <=> k = Len(d)
      <3>1. Len(d) \in 0..Len(d)
        BY <2>2
      <3> QED
        BY <2>1, <2>2, <2>4, <3>1, StagesOfInjective
    <2> QED
      BY <1>2, <2>2, <2>5, <2>6, <2>7
  <1> QED
    BY <1>1, <1>2 DEF Accepted

\* No crash, lost reply or failure at any await leaves a run that its caller
\* cannot resume, nor one that runs again when it is done.
THEOREM ResumableCorrect == Spec => []AlwaysResumable
  <1>1. Inv => AlwaysResumable
    BY FreshIsAccepted, PinnedIsAccepted DEF Inv, ResumeInv, AlwaysResumable
  <1> QED
    BY <1>1, Invariance, PTL

\* The order of the side effects of one stage.
StepNumber ==
    [publishPipelineStarted |-> 1, saveStarted |-> 2, publishStageStarted |-> 3,
     executeStage |-> 4, saveCompleted |-> 5, publishStageCompleted |-> 6,
     logStageCompleted |-> 7, saveFailed |-> 8, publishStageFailed |-> 9,
     publishPipelineFailed |-> 10, logStageFailed |-> 11,
     publishPipelineCompleted |-> 12, logPipelineCompleted |-> 13]

\* Each step of an execution ends it or leads on, to a later side effect of the
\* stage or to the next stage of the definition; and one that ends without having
\* been disturbed has returned its result, the completed one with all stages done.
ExecutionsEnd ==
    [][Proceed =>
         /\ \/ pc' = "idle"
            \/ index' = index /\ StepNumber[pc] < StepNumber[pc']
            \/ index' = index + 1 /\ index < Len(Definition[defn])
         /\ pc' = "idle" /\ disturbances' = disturbances =>
               \/ outcome' = "failed"
               \/ outcome' = "completed" /\ (manual \/ AllDone')]_vars

\* An execution past its last stage has stored that it completed.
StoredInv == pc \in CompletedSteps => checkpoint.status = "completed"

LEMMA StoredStep == StoredInv /\ [Next]_vars => StoredInv'
  <1> SUFFICES ASSUME StoredInv, [Next]_vars PROVE StoredInv'
    OBVIOUS
  <1> USE DEF StoredInv, CompletedSteps, local, durable
  <1>1. CASE Start \/ Override \/ Reject \/ SideEffectFails \/ Crash
    <2>1. pc' \in {"idle", "publishPipelineStarted"}
      BY <1>1 DEF Start, Override, Execute, Reject, SideEffectFails, Crash
    <2> QED
      BY <2>1
  <1>2. CASE SaveCompletedCheckpoint
    BY <1>2 DEF SaveCompletedCheckpoint, Checkpoint
  <1>3. CASE PublishStageCompleted \/ LogStageCompleted \/ PublishPipelineCompleted
    <2>1. pc \in CompletedSteps /\ checkpoint' = checkpoint
      BY <1>3 DEF PublishStageCompleted, LogStageCompleted, PublishPipelineCompleted
    <2> QED
      BY <2>1
  <1>4. CASE \/ PublishPipelineStarted \/ SaveStartedCheckpoint \/ PublishStageStarted
             \/ StageSucceeds \/ StageFails \/ SaveFailedCheckpoint \/ PublishStageFailed
             \/ PublishPipelineFailed \/ LogStageFailed \/ LogPipelineCompleted
    <2>1. pc' \notin CompletedSteps
      BY <1>4
      DEF PublishPipelineStarted, SaveStartedCheckpoint, PublishStageStarted, StageSucceeds,
          StageFails, SaveFailedCheckpoint, PublishStageFailed, PublishPipelineFailed,
          LogStageFailed, LogPipelineCompleted, Then, ThenReturn
    <2> QED
      BY <2>1
  <1>5. CASE UNCHANGED vars
    BY <1>5 DEF vars
  <1> QED
    BY <1>1, <1>2, <1>3, <1>4, <1>5 DEF Next, Proceed

\* A step that goes on to a later side effect of the same stage, or is disturbed.
LEMMA ThenLeadsOn ==
    ASSUME MaxDisturbances \in Nat, disturbances \in 0..MaxDisturbances, NEW step, Then(step)
    PROVE  pc' = step \/ (pc' = "idle" /\ disturbances' # disturbances)
  <1>1. disturbances + 1 # disturbances
    OBVIOUS
  <1> QED
    BY <1>1 DEF Then

LEMMA StepLeadsOn ==
    ASSUME TypeOK, Proceed
    PROVE  /\ \/ pc' = "idle"
              \/ index' = index /\ StepNumber[pc] < StepNumber[pc']
              \/ index' = index + 1 /\ index < Len(Definition[defn])
           /\ pc' = "idle" /\ disturbances' = disturbances =>
                 LogStageFailed \/ LogPipelineCompleted
  <1> USE BoundAssumption, ThenLeadsOn DEF TypeOK, StepNumber, local
  <1>1. CASE PublishPipelineStarted \/ SaveStartedCheckpoint \/ PublishStageStarted
    BY <1>1 DEF PublishPipelineStarted, SaveStartedCheckpoint, PublishStageStarted
  <1>2. CASE StageSucceeds \/ StageFails
    BY <1>2 DEF StageSucceeds, StageFails
  <1>3. CASE SaveCompletedCheckpoint \/ PublishStageCompleted
    BY <1>3 DEF SaveCompletedCheckpoint, PublishStageCompleted
  <1>4. CASE LogStageCompleted
    BY <1>4 DEF LogStageCompleted
  <1>5. CASE SaveFailedCheckpoint \/ PublishStageFailed \/ PublishPipelineFailed
    BY <1>5 DEF SaveFailedCheckpoint, PublishStageFailed, PublishPipelineFailed
  <1>6. CASE PublishPipelineCompleted
    BY <1>6 DEF PublishPipelineCompleted
  <1>7. CASE LogStageFailed \/ LogPipelineCompleted
    BY <1>7 DEF LogStageFailed, LogPipelineCompleted, ThenReturn
  <1> QED
    BY <1>1, <1>2, <1>3, <1>4, <1>5, <1>6, <1>7 DEF Proceed

\* The result "completed" of an execution is that of a run whose stages are done.
LEMMA CompletedIsDone ==
    ASSUME TypeOK, PinnedInv, ExecutionInv, StoredInv, LogPipelineCompleted
    PROVE  AllDone'
  <1>1. /\ pc = "logPipelineCompleted" /\ checkpoint' = checkpoint /\ done' = done
    BY DEF LogPipelineCompleted, durable
  <1>2. checkpoint # NoCheckpoint /\ checkpoint.version = defn
    BY <1>1 DEF PinnedInv, StageSteps, CompletedSteps
  <1>3. checkpoint.status = "completed"
    BY <1>1 DEF StoredInv, CompletedSteps
  <1>4. done = StagesOf(Definition[defn], Len(Definition[defn]))
    BY <1>1 DEF ExecutionInv, CompletedSteps
  <1> QED
    BY <1>1, <1>2, <1>3, <1>4 DEF AllDone

\* An execution takes a bounded number of steps, and what it returns is true.
THEOREM ExecutionsEndCorrect == Spec => ExecutionsEnd
  <1> DEFINE LeadsOn == \/ pc' = "idle"
                        \/ index' = index /\ StepNumber[pc] < StepNumber[pc']
                        \/ index' = index + 1 /\ index < Len(Definition[defn])
             Returns == pc' = "idle" /\ disturbances' = disturbances =>
                           \/ outcome' = "failed"
                           \/ outcome' = "completed" /\ (manual \/ AllDone')
  <1>1. ASSUME Inv, StoredInv, [Next]_vars
        PROVE  [Proceed => LeadsOn /\ Returns]_vars
    <2> SUFFICES ASSUME Proceed PROVE LeadsOn /\ Returns
      OBVIOUS
    <2>1. LeadsOn
      BY <1>1, StepLeadsOn DEF Inv
    <2>2. ASSUME pc' = "idle", disturbances' = disturbances
          PROVE  \/ outcome' = "failed"
                 \/ outcome' = "completed" /\ (manual \/ AllDone')
      <3>1. LogStageFailed \/ LogPipelineCompleted
        BY <1>1, <2>2, StepLeadsOn DEF Inv
      <3>2. /\ LogStageFailed => outcome' = "failed"
            /\ LogPipelineCompleted => outcome' = "completed"
        BY <1>1, <2>2, BoundAssumption
        DEF LogStageFailed, LogPipelineCompleted, ThenReturn, Inv, TypeOK
      <3>3. LogPipelineCompleted => manual \/ AllDone'
        BY <1>1, CompletedIsDone DEF Inv, ResumeInv
      <3> QED
        BY <3>1, <3>2, <3>3
    <2> QED
      BY <2>1, <2>2
  <1>2. Init => StoredInv
    BY DEF Init, StoredInv, CompletedSteps
  <1> QED
    BY <1>1, <1>2, StoredStep, Invariance, PTL DEF Spec, ExecutionsEnd

=============================================================================
