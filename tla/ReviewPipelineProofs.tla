------------------------ MODULE ReviewPipelineProofs -----------------------
(***************************************************************************)
(* Theorems about ReviewPipeline, for every set of stages and versions,    *)
(* every definition of them and every number of disturbances.              *)
(***************************************************************************)
EXTENDS ReviewPipeline, TLAPS

-----------------------------------------------------------------------------
(* Sequences *)

LEMMA SeqElement ==
    ASSUME NEW T, NEW q \in Seq(T), NEW i \in 1..Len(q)
    PROVE  q[i] \in T
  OBVIOUS

LEMMA SeqAppend ==
    ASSUME NEW T, NEW q \in Seq(T), NEW e \in T
    PROVE  Append(q, e) \in Seq(T)
  OBVIOUS

LEMMA SeqFromFunction ==
    ASSUME NEW T, NEW n \in Nat, NEW f \in [1..n -> T]
    PROVE  f \in Seq(T)
  OBVIOUS

LEMMA RangeBelow ==
    ASSUME NEW n \in Nat, NEW k \in 1..n
    PROVE  k - 1 \in Nat /\ \A i \in 1..(k - 1) : i \in 1..n
  OBVIOUS

-----------------------------------------------------------------------------
(* Positions in a definition *)

\* findIndex returns a position of the stage it is given, or the absent value.
LEMMA PositionRange ==
    ASSUME NEW d \in Seq(StageIds), NEW s
    PROVE  /\ Position(d, s) \in 0..Len(d)
           /\ Position(d, s) # 0 => d[Position(d, s)] = s
  BY DEF Position

\* In a definition without duplicates it is the only one.
LEMMA PositionUnique ==
    ASSUME NEW d \in Seq(StageIds), ValidDefinition(d), NEW k \in 1..Len(d)
    PROVE  Position(d, d[k]) = k
  BY DEF Position, ValidDefinition

\* resolveStartIndex stays within the definition.
LEMMA StartIndexRange ==
    ASSUME NEW d \in Seq(StageIds), ValidDefinition(d),
           NEW st \in PipelineStates, NEW from
    PROVE  StartIndex(st, d, from) \in 0..Len(d)
  <1>1. Len(d) \in Nat \ {0}
    BY DEF ValidDefinition
  <1>2. CASE from # NoStage
    BY <1>2, PositionRange DEF StartIndex
  <1>3. CASE from = NoStage
    <2>1. Position(d, st.current) \in 0..Len(d) /\ Position(d, st.last) \in 0..Len(d)
      BY PositionRange
    <2> QED
      BY <1>1, <1>3, <2>1 DEF StartIndex, ImplicitStart
  <1> QED
    BY <1>2, <1>3

\* What the caller passes to execute is a pipeline state.
LEMMA InputsAreStates ==
    ASSUME TypeOK
    PROVE  Inputs \subseteq PipelineStates
  <1>1. Fresh \subseteq PipelineStates
    BY DEF Fresh, PipelineState, PipelineStates, NoAttempts
  <1>2. ASSUME checkpoint # NoCheckpoint
        PROVE  Restored(checkpoint) \subseteq PipelineStates
    <2>1. checkpoint \in Checkpoints
      BY <1>2 DEF TypeOK
    <2>2. [NoAttempts EXCEPT ![checkpoint.current] = checkpoint.attempt] \in [StageIds -> Nat]
      BY <2>1 DEF Checkpoints, NoAttempts
    <2> SUFFICES ASSUME NEW current \in StageIds \union {NoStage}
                 PROVE  PipelineState(checkpoint.version, current, checkpoint.last,
                           [NoAttempts EXCEPT ![checkpoint.current] = checkpoint.attempt])
                         \in PipelineStates
      BY <2>1 DEF Restored, Checkpoints
    <2> QED
      BY <2>1, <2>2 DEF PipelineState, PipelineStates, Checkpoints
  <1> QED
    BY <1>1, <1>2 DEF Inputs, TypeOK

-----------------------------------------------------------------------------
(* Type correctness *)

\* The stage an execution stands at exists.
LEMMA StageExists ==
    ASSUME TypeOK, pc # "idle"
    PROVE  Stage \in StageIds
  BY DefinitionAssumption DEF TypeOK, Stage

\* saveCheckpoint stores a checkpoint with the version the execution runs.
LEMMA CheckpointSaved ==
    ASSUME TypeOK, SaveStartedCheckpoint \/ SaveCompletedCheckpoint \/ SaveFailedCheckpoint
    PROVE  /\ checkpoint' \in Checkpoints
           /\ checkpoint' # NoCheckpoint
           /\ checkpoint'.version = state.version
  <1>1. Stage \in StageIds /\ state \in PipelineStates
    BY StageExists
    DEF SaveStartedCheckpoint, SaveCompletedCheckpoint, SaveFailedCheckpoint, TypeOK
  <1>2. ASSUME NEW st \in PipelineStates, st.version = state.version,
               NEW status \in {"started", "completed", "failed"},
               checkpoint' = Checkpoint(st, status)
        PROVE  /\ checkpoint' \in Checkpoints
               /\ checkpoint' # NoCheckpoint
               /\ checkpoint'.version = state.version
    <2>1. checkpoint' \in Checkpoints
      BY <1>1, <1>2 DEF Checkpoint, Checkpoints, PipelineStates
    <2> QED
      BY <1>2, <2>1, NullAssumption DEF Checkpoint
  <1>3. CASE SaveStartedCheckpoint
    <2> DEFINE attempts == IncrementStageAttempt(state, Stage)
    <2>1. attempts \in [StageIds -> Nat]
      BY <1>1 DEF PipelineStates, IncrementStageAttempt
    <2> HIDE DEF attempts
    <2> DEFINE started == [state EXCEPT !.attempts = attempts, !.current = Stage]
    <2>2. started \in PipelineStates /\ started.version = state.version
      BY <1>1, <2>1 DEF PipelineStates
    <2>3. checkpoint' = Checkpoint(started, "started")
      BY <1>3 DEF SaveStartedCheckpoint, attempts
    <2> HIDE DEF started
    <2> QED
      BY <1>2, <2>2, <2>3
  <1>4. CASE SaveCompletedCheckpoint \/ SaveFailedCheckpoint
    BY <1>1, <1>2, <1>4 DEF SaveCompletedCheckpoint, SaveFailedCheckpoint
  <1> QED
    BY <1>3, <1>4

LEMMA TypeInit == Init => TypeOK
  <1> SUFFICES ASSUME Init PROVE TypeOK
    OBVIOUS
  <1>1. <<>> \in Seq(StageResults)
    OBVIOUS
  <1>2. 0 \in 0..MaxDisturbances
    BY BoundAssumption
  <1> QED
    BY <1>1, <1>2 DEF Init, TypeOK

LEMMA TypeExecute ==
    ASSUME TypeOK, NEW st \in Inputs, NEW v \in Versions, NEW from, Execute(st, v, from)
    PROVE  TypeOK'
  <1> DEFINE d == Definition[v]
  <1>1. d \in Seq(StageIds)
    BY DefinitionAssumption
  <1>2. st \in PipelineStates
    BY InputsAreStates
  <1>3. index' \in 1..Len(d)
    BY <1>1, <1>2, StartIndexRange DEF Execute, Accepted
  <1>4. state' \in PipelineStates
    BY <1>2 DEF Execute, PipelineStates
  <1>5. results' \in Seq(StageResults)
    <2> HIDE DEF d
    <2>0. Len(d) \in Nat
      BY <1>1
    <2>1. index' - 1 \in Nat /\ \A i \in 1..(index' - 1) : i \in 1..Len(d)
      BY <1>3, <2>0, RangeBelow
    <2>2. \A i \in 1..(index' - 1) : [stage |-> d[i], status |-> "skipped"] \in StageResults
      BY <1>1, <2>1, SeqElement DEF StageResults
    <2>3. results' = [i \in 1..(index' - 1) |-> [stage |-> d[i], status |-> "skipped"]]
      BY DEF Execute, d
    <2>4. results' \in [1..(index' - 1) -> StageResults]
      BY <2>2, <2>3
    <2> QED
      BY <2>1, <2>4, SeqFromFunction
  <1>6. disturbances' \in 0..MaxDisturbances
    BY BoundAssumption DEF Execute, TypeOK
  <1>7. manual' = manual \/ manual' = TRUE
    BY DEF Execute
  <1>8. /\ pc' = "publishPipelineStarted" /\ defn' = v /\ outcome' = "running"
        /\ returned' = NoState /\ UNCHANGED <<recoverable, durable>>
    BY DEF Execute
  <1>9. index' \in Nat
    BY <1>1, <1>3
  <1> HIDE DEF d
  <1>10. index' \in 1..Len(Definition[defn'])
    BY <1>3, <1>8 DEF d
  <1> QED
    BY <1>4, <1>5, <1>6, <1>7, <1>8, <1>9, <1>10 DEF TypeOK, durable, EffectSteps

LEMMA TypeStep == TypeOK /\ [Next]_vars => TypeOK'
  <1> SUFFICES ASSUME TypeOK, [Next]_vars PROVE TypeOK'
    OBVIOUS
  <1> USE BoundAssumption DEF EffectSteps, local, durable, caller
  <1>1. CASE Start \/ Override
    BY <1>1, TypeExecute DEF Start, Override
  <1>2. CASE Reject
    BY <1>2 DEF Reject, TypeOK
  <1>3. CASE SideEffectFails \/ Crash
    BY <1>3 DEF SideEffectFails, Crash, TypeOK
  <1>4. CASE Proceed
    <2>1. CASE PublishPipelineStarted
      BY <2>1 DEF PublishPipelineStarted, Then, TypeOK
    <2>2. CASE SaveStartedCheckpoint
      <3> DEFINE attempts == IncrementStageAttempt(state, Stage)
                 started == [state EXCEPT !.attempts = attempts, !.current = Stage]
      <3>1. Stage \in StageIds /\ state \in PipelineStates
        BY <2>2, StageExists DEF SaveStartedCheckpoint, TypeOK
      <3>2. attempts \in [StageIds -> Nat]
        BY <3>1 DEF PipelineStates, IncrementStageAttempt
      <3> HIDE DEF attempts
      <3>3. started \in PipelineStates
        BY <3>1, <3>2 DEF PipelineStates
      <3>4. state' = started
        BY <2>2 DEF SaveStartedCheckpoint, attempts
      <3> HIDE DEF started
      <3>5. checkpoint' \in Checkpoints
        BY <2>2, CheckpointSaved
      <3> QED
        BY <2>2, <3>3, <3>4, <3>5 DEF SaveStartedCheckpoint, Then, TypeOK
    <2>3. CASE PublishStageStarted \/ PublishStageCompleted
                \/ PublishStageFailed \/ PublishPipelineFailed
      <3>1. Stage \in StageIds /\ state \in PipelineStates
        BY <2>3, StageExists
        DEF PublishStageStarted, PublishStageCompleted, PublishStageFailed,
            PublishPipelineFailed, TypeOK
      <3>2. \A type \in EventTypes :
               Event(type, Stage, state.attempts[Stage])
                  \in [type : EventTypes, stage : StageIds, attempt : Nat]
        BY <3>1 DEF Event, PipelineStates
      <3>3. \E type \in EventTypes :
               events' = events \union {Event(type, Stage, state.attempts[Stage])}
        <4>1. CASE PublishPipelineFailed
          <5>1. CASE recoverable
            BY <4>1, <5>1 DEF PublishPipelineFailed, Publish, EventTypes
          <5>2. CASE ~recoverable
            BY <4>1, <5>2 DEF PublishPipelineFailed, Publish, EventTypes
          <5> QED
            BY <5>1, <5>2
        <4>2. CASE ~PublishPipelineFailed
          BY <2>3, <4>2
          DEF PublishStageStarted, PublishStageCompleted, PublishStageFailed, Publish,
              EventTypes
        <4> QED
          BY <4>1, <4>2
      <3>4. events' \subseteq [type : EventTypes, stage : StageIds, attempt : Nat]
        BY <3>2, <3>3 DEF TypeOK
      <3> QED
        BY <2>3, <3>4
        DEF PublishStageStarted, PublishStageCompleted, PublishStageFailed,
            PublishPipelineFailed, Then, TypeOK
    <2>4. CASE StageSucceeds
      <3>1. Stage \in StageIds /\ state \in PipelineStates
        BY <2>4, StageExists DEF StageSucceeds, TypeOK
      <3>2. state' \in PipelineStates
        BY <2>4, <3>1 DEF StageSucceeds, PipelineStates, TypeOK
      <3> QED
        BY <2>4, <3>2 DEF StageSucceeds, TypeOK
    <2>5. CASE StageFails
      BY <2>5 DEF StageFails, TypeOK
    <2>6. CASE SaveCompletedCheckpoint \/ SaveFailedCheckpoint
      <3>1. Stage \in StageIds /\ state \in PipelineStates
        BY <2>6, StageExists DEF SaveCompletedCheckpoint, SaveFailedCheckpoint, TypeOK
      <3>2. checkpoint' \in Checkpoints
        BY <2>6, CheckpointSaved
      <3> QED
        BY <2>6, <3>1, <3>2 DEF SaveCompletedCheckpoint, SaveFailedCheckpoint, Then, TypeOK
    <2>7. CASE LogStageCompleted \/ LogStageFailed
      <3>1. Stage \in StageIds /\ state \in PipelineStates
        BY <2>7, StageExists DEF LogStageCompleted, LogStageFailed, TypeOK
      <3>2. results' \in Seq(StageResults)
        <4>1. \A status \in {"ok", "fail"} : [stage |-> Stage, status |-> status] \in StageResults
          BY <3>1 DEF StageResults
        <4>2. results \in Seq(StageResults)
          BY DEF TypeOK
        <4>3. PICK status \in {"ok", "fail"} : results' = Record(status)
          BY <2>7 DEF LogStageCompleted, LogStageFailed
        <4> QED
          BY <4>1, <4>2, <4>3, SeqAppend DEF Record
      <3>3. Len(Definition[defn]) \in Nat
        BY DefinitionAssumption DEF TypeOK
      <3> QED
        BY <2>7, <3>1, <3>2, <3>3
        DEF LogStageCompleted, LogStageFailed, Then, ThenReturn, TypeOK
    <2>8. CASE PublishPipelineCompleted
      BY <2>8 DEF PublishPipelineCompleted, Then, TypeOK
    <2>9. CASE LogPipelineCompleted
      BY <2>9 DEF LogPipelineCompleted, ThenReturn, TypeOK
    <2> QED
      BY <1>4, <2>1, <2>2, <2>3, <2>4, <2>5, <2>6, <2>7, <2>8, <2>9 DEF Proceed
  <1>5. CASE UNCHANGED vars
    BY <1>5 DEF vars, TypeOK
  <1> QED
    BY <1>1, <1>2, <1>3, <1>4, <1>5 DEF Next

\* Type correctness; in particular an execution never leaves the definition it
\* runs: resolveStartIndex and runStages only reach existing stages.
THEOREM TypeCorrect == Spec => []TypeOK
  BY TypeInit, TypeStep, PTL DEF Spec

-----------------------------------------------------------------------------
(* The inductive invariant *)

CompletedSteps == {"publishStageCompleted", "logStageCompleted",
                   "publishPipelineCompleted", "logPipelineCompleted"}

FailedSteps == {"publishStageFailed", "publishPipelineFailed", "logStageFailed"}

StageSteps == {"publishStageStarted", "executeStage", "saveCompleted", "saveFailed"}
                \union CompletedSteps \union FailedSteps

\* The execution, the context the caller holds and the checkpoint agree on the
\* version, and the last two on where the run stands.
PinnedInv ==
    /\ pc # "idle" =>
          /\ state.version = defn
          /\ checkpoint # NoCheckpoint => checkpoint.version = defn
    /\ pc \in StageSteps => checkpoint # NoCheckpoint /\ state.current = Stage
    /\ pc \in FailedSteps => /\ checkpoint.current = state.current
                             /\ checkpoint.last = state.last
    /\ pc = "saveCompleted" => state.last = state.current
    /\ checkpoint # NoCheckpoint =>
          (checkpoint.status = "completed" => checkpoint.last = checkpoint.current)
    /\ returned # NoState =>
          /\ pc = "idle"
          /\ checkpoint # NoCheckpoint
          /\ returned.version = checkpoint.version
          /\ returned.current = checkpoint.current
          /\ returned.last = checkpoint.last

LastOf(d, k) == IF k = 0 THEN NoStage ELSE d[k]

\* The checkpoint cp stands for the first k stages of its definition.
Marks(cp, k) ==
    LET d == Definition[cp.version] IN
    /\ ValidDefinition(d)
    /\ k \in 0..Len(d)
    /\ cp.last = LastOf(d, k)
    /\ cp.status = "completed" => k > 0 /\ cp.current = d[k]
    /\ cp.status # "completed" => k < Len(d) /\ cp.current = d[k + 1]

StoreInv ==
    /\ checkpoint = NoCheckpoint => done = {}
    /\ checkpoint # NoCheckpoint =>
          \E k \in Nat : /\ Marks(checkpoint, k)
                         /\ done = StagesOf(Definition[checkpoint.version], k)

\* An execution that stands at a stage has completed the stages before it.
ExecutionInv ==
    pc # "idle" =>
        LET d == Definition[defn] IN
        /\ ValidDefinition(d)
        /\ done = StagesOf(d, IF pc \in CompletedSteps THEN index ELSE index - 1)
        /\ state.last = IF pc \in CompletedSteps \union {"saveCompleted"}
                        THEN d[index] ELSE LastOf(d, index - 1)
        /\ pc \in {"publishPipelineCompleted", "logPipelineCompleted"} => index = Len(d)

CompletionInv ==
    completions > 0 =>
        /\ completions = 1
        /\ pc \in {"idle", "logPipelineCompleted"}
        /\ checkpoint # NoCheckpoint
        /\ done = StagesOf(Definition[checkpoint.version],
                           Len(Definition[checkpoint.version]))

ResumeInv == ~manual => StoreInv /\ ExecutionInv /\ CompletionInv

Inv == TypeOK /\ PinnedInv /\ ResumeInv

-----------------------------------------------------------------------------
(* Version pinning *)

\* Whatever context the caller resumes with has progress and the version of the
\* checkpoint, so that no other version can be pinned.
LEMMA InputsArePinned ==
    ASSUME TypeOK, PinnedInv, checkpoint # NoCheckpoint, NEW st \in Inputs
    PROVE  st.version = checkpoint.version /\ HasProgress(st)
  <1> USE StagesAssumption
  <1>1. checkpoint \in Checkpoints
    BY DEF TypeOK
  <1>2. checkpoint.current # NoStage
    BY <1>1 DEF Checkpoints
  <1>3. CASE st \in Restored(checkpoint)
    BY <1>1, <1>2, <1>3 DEF Restored, PipelineState, HasProgress, PinnedInv
  <1>4. CASE returned # NoState /\ st = returned
    BY <1>2, <1>4 DEF HasProgress, PinnedInv
  <1> QED
    BY <1>3, <1>4 DEF Inputs

LEMMA PinnedExecute ==
    ASSUME TypeOK, PinnedInv, NEW st \in Inputs, NEW v \in Versions, NEW from,
           Execute(st, v, from)
    PROVE  PinnedInv'
  <1>1. st \in PipelineStates
    BY InputsAreStates
  <1>2. pc' = "publishPipelineStarted" /\ defn' = v /\ returned' = NoState
        /\ checkpoint' = checkpoint
    BY DEF Execute, durable
  <1>3. state'.version = v
    BY <1>1 DEF Execute, PipelineStates
  <1>4. checkpoint # NoCheckpoint => checkpoint.version = v
    BY InputsArePinned DEF Execute, Accepted, CanPin
  <1> QED
    BY <1>2, <1>3, <1>4 DEF PinnedInv, StageSteps, CompletedSteps, FailedSteps

LEMMA PinnedStep == TypeOK /\ TypeOK' /\ PinnedInv /\ [Next]_vars => PinnedInv'
  <1> SUFFICES ASSUME TypeOK, TypeOK', PinnedInv, [Next]_vars PROVE PinnedInv'
    OBVIOUS
  <1> USE DEF local, durable, caller, StageSteps, CompletedSteps, FailedSteps
  <1>1. CASE Start \/ Override
    BY <1>1, PinnedExecute DEF Start, Override
  <1>2. CASE Reject \/ SideEffectFails \/ Crash
    BY <1>2 DEF Reject, SideEffectFails, Crash, PinnedInv
  <1>3. CASE UNCHANGED vars
    BY <1>3 DEF vars, PinnedInv, Stage
  <1>4. CASE Proceed
    <2> SUFFICES ASSUME state \in PipelineStates, pc # "idle" PROVE PinnedInv'
      BY <1>4
      DEF Proceed, PublishPipelineStarted, SaveStartedCheckpoint, PublishStageStarted,
          StageSucceeds, StageFails, SaveCompletedCheckpoint, PublishStageCompleted,
          LogStageCompleted, SaveFailedCheckpoint, PublishStageFailed,
          PublishPipelineFailed, LogStageFailed, PublishPipelineCompleted,
          LogPipelineCompleted, TypeOK
    <2>1. returned = NoState
      BY DEF PinnedInv
    <2>2. CASE PublishPipelineStarted
      BY <2>1, <2>2 DEF PublishPipelineStarted, Then, PinnedInv
    <2>3. CASE SaveStartedCheckpoint
      <3> DEFINE attempts == IncrementStageAttempt(state, Stage)
                 started == [state EXCEPT !.attempts = attempts, !.current = Stage]
      <3> HIDE DEF attempts
      <3>1. started.version = state.version /\ started.current = Stage
        BY DEF PipelineStates
      <3>2. state' = started /\ checkpoint' = Checkpoint(started, "started")
        BY <2>3 DEF SaveStartedCheckpoint, attempts
      <3> HIDE DEF started
      <3>3. checkpoint'.version = defn /\ checkpoint'.status = "started"
        BY <3>1, <3>2 DEF Checkpoint, PinnedInv
      <3>4. Stage' = Stage /\ defn' = defn
        BY <2>3 DEF SaveStartedCheckpoint, Stage
      <3>5. state'.version = defn /\ state'.current = Stage
        BY <3>1, <3>2 DEF PinnedInv
      <3>6. /\ returned' = NoState
            /\ pc' \in {"publishStageStarted", "idle"}
        BY <2>1, <2>3 DEF SaveStartedCheckpoint, Then
      <3>7. checkpoint' # NoCheckpoint
        BY <2>3, CheckpointSaved
      <3> QED
        BY <3>3, <3>4, <3>5, <3>6, <3>7 DEF PinnedInv
    <2>4. CASE SaveCompletedCheckpoint \/ SaveFailedCheckpoint
      <3>1. checkpoint'.version = defn /\ checkpoint'.current = Stage
            /\ checkpoint'.last = state.last
        BY <2>4 DEF SaveCompletedCheckpoint, SaveFailedCheckpoint, Checkpoint, PinnedInv
      <3>2. checkpoint'.status = "completed" => SaveCompletedCheckpoint
        BY <2>4 DEF SaveCompletedCheckpoint, SaveFailedCheckpoint, Checkpoint
      <3>4. checkpoint' # NoCheckpoint
        BY <2>4, CheckpointSaved
      <3>5. pc' \in {"publishStageCompleted", "publishStageFailed", "idle"}
        BY <2>4 DEF SaveCompletedCheckpoint, SaveFailedCheckpoint, Then
      <3>6. state' = state /\ defn' = defn /\ Stage' = Stage /\ returned' = NoState
        BY <2>1, <2>4 DEF SaveCompletedCheckpoint, SaveFailedCheckpoint, Then, Stage
      <3>7. state.current = Stage /\ (SaveCompletedCheckpoint => state.last = Stage)
        BY <2>4 DEF SaveCompletedCheckpoint, SaveFailedCheckpoint, PinnedInv
      <3> QED
        BY <3>1, <3>2, <3>4, <3>5, <3>6, <3>7 DEF PinnedInv
    <2>5. CASE PublishStageStarted \/ PublishStageCompleted \/ PublishStageFailed
                 \/ PublishPipelineFailed \/ PublishPipelineCompleted
      BY <2>1, <2>5
      DEF PublishStageStarted, PublishStageCompleted, PublishStageFailed,
          PublishPipelineFailed, PublishPipelineCompleted, Then, PinnedInv, Stage
    <2>6. CASE StageSucceeds
      <3>1. state'.version = defn /\ state'.current = Stage /\ state'.last = Stage
        BY <2>6 DEF StageSucceeds, PipelineStates
      <3> QED
        BY <2>1, <2>6, <3>1 DEF StageSucceeds, PinnedInv, Stage
    <2>7. CASE StageFails
      BY <2>1, <2>7 DEF StageFails, PinnedInv, Stage
    <2>8. CASE LogStageCompleted
      <3>1. CASE index < Len(Definition[defn])
        BY <2>1, <2>8, <3>1 DEF LogStageCompleted, Then, PinnedInv
      <3>2. CASE ~(index < Len(Definition[defn]))
        BY <2>1, <2>8, <3>2 DEF LogStageCompleted, Then, PinnedInv, Stage
      <3> QED
        BY <3>1, <3>2
    <2>9. CASE LogStageFailed
      <3>1. /\ pc = "logStageFailed" /\ pc' = "idle" /\ checkpoint' = checkpoint
            /\ returned' \in {state, NoState}
        BY <2>1, <2>9 DEF LogStageFailed, ThenReturn
      <3>2. /\ checkpoint # NoCheckpoint
            /\ state.version = checkpoint.version
            /\ state.current = checkpoint.current
            /\ state.last = checkpoint.last
            /\ checkpoint.status = "completed" => checkpoint.last = checkpoint.current
        BY <3>1 DEF PinnedInv
      <3> QED
        BY <3>1, <3>2 DEF PinnedInv
    <2>10. CASE LogPipelineCompleted
      BY <2>1, <2>10 DEF LogPipelineCompleted, ThenReturn, PinnedInv
    <2> QED
      BY <1>4, <2>2, <2>3, <2>4, <2>5, <2>6, <2>7, <2>8, <2>9, <2>10 DEF Proceed
  <1> QED
    BY <1>1, <1>2, <1>3, <1>4 DEF Next

LEMMA PinnedInit == Init => PinnedInv
  BY DEF Init, PinnedInv, StageSteps, CompletedSteps, FailedSteps

\* The checkpoints of a run all carry the version of its first one.
THEOREM VersionPinned == Spec => VersionStaysPinned
  <1>1. TypeOK /\ PinnedInv /\ [Next]_vars =>
          [checkpoint # NoCheckpoint => /\ checkpoint' # NoCheckpoint
                                        /\ checkpoint'.version = checkpoint.version]_vars
    <2> SUFFICES ASSUME TypeOK, PinnedInv, [Next]_vars, checkpoint # NoCheckpoint
                 PROVE  checkpoint' # NoCheckpoint
                        /\ checkpoint'.version = checkpoint.version
      OBVIOUS
    <2>1. CASE SaveStartedCheckpoint \/ SaveCompletedCheckpoint \/ SaveFailedCheckpoint
      <3>1. state.version = checkpoint.version
        BY <2>1
        DEF SaveStartedCheckpoint, SaveCompletedCheckpoint, SaveFailedCheckpoint, PinnedInv
      <3> QED
        BY <2>1, <3>1, CheckpointSaved
    <2>2. CASE ~SaveStartedCheckpoint /\ ~SaveCompletedCheckpoint /\ ~SaveFailedCheckpoint
      <3>1. checkpoint' = checkpoint
        <4>1. CASE Start \/ Override \/ Reject \/ SideEffectFails \/ Crash
          BY <4>1 DEF Start, Override, Execute, Reject, SideEffectFails, Crash, durable
        <4>2. CASE Proceed
          BY <2>2, <4>2
          DEF Proceed, PublishPipelineStarted, PublishStageStarted, StageSucceeds,
              StageFails, PublishStageCompleted, LogStageCompleted, PublishStageFailed,
              PublishPipelineFailed, LogStageFailed, PublishPipelineCompleted,
              LogPipelineCompleted, durable
        <4>3. CASE UNCHANGED vars
          BY <4>3 DEF vars, durable
        <4> QED
          BY <4>1, <4>2, <4>3 DEF Next
      <3> QED
        BY <3>1
    <2> QED
      BY <2>1, <2>2
  <1> QED
    BY <1>1, TypeInit, TypeStep, PinnedInit, PinnedStep, PTL DEF Spec, VersionStaysPinned

-----------------------------------------------------------------------------
(* Where an execution resumes *)

\* One more stage.
LEMMA StagesOfNext ==
    ASSUME NEW d \in Seq(StageIds), NEW k \in 1..Len(d)
    PROVE  StagesOf(d, k) = StagesOf(d, k - 1) \union {d[k]}
  BY DEF StagesOf

\* Without duplicates, the set of the first k stages determines k.
LEMMA StagesOfInjective ==
    ASSUME NEW d \in Seq(StageIds), ValidDefinition(d), NEW j \in 0..Len(d),
           NEW k \in 0..Len(d), StagesOf(d, j) = StagesOf(d, k)
    PROVE  j = k
  <1>1. ASSUME NEW m \in 0..Len(d), NEW n \in 0..Len(d), m < n
        PROVE  StagesOf(d, m) # StagesOf(d, n)
    <2>1. d[n] \in StagesOf(d, n)
      BY <1>1 DEF StagesOf
    <2>2. d[n] \notin StagesOf(d, m)
      BY <1>1 DEF StagesOf, ValidDefinition
    <2> QED
      BY <2>1, <2>2
  <1> QED
    BY <1>1

\* resolveImplicitStartIndex: a state whose last completed stage is the k-th one,
\* and whose current stage is none, that one or the next one, is resumed at the
\* stage after it, or refused when there is none.
LEMMA ImplicitStartAfter ==
    ASSUME NEW d \in Seq(StageIds), ValidDefinition(d), NEW k \in 0..Len(d), NEW st,
           st.last = LastOf(d, k),
           \/ st.current \in {NoStage, LastOf(d, k)}
           \/ k < Len(d) /\ st.current = d[k + 1]
    PROVE  ImplicitStart(st, d) = IF k < Len(d) THEN k + 1 ELSE 0
  <1> USE StagesAssumption
  <1>1. Len(d) \in Nat \ {0}
    BY DEF ValidDefinition
  <1>2. \A i \in 1..Len(d) : d[i] # NoStage
    BY SeqElement
  <1>3. CASE st.current \in {NoStage, LastOf(d, k)}
    <2>1. CASE k = 0
      BY <1>1, <1>3, <2>1 DEF ImplicitStart, LastOf
    <2>2. CASE k # 0
      <3>1. k \in 1..Len(d) /\ st.last = d[k] /\ st.last # NoStage
        BY <1>2, <2>2 DEF LastOf
      <3>2. Position(d, st.last) = k
        BY <3>1, PositionUnique
      <3> QED
        BY <1>1, <1>3, <3>1, <3>2 DEF ImplicitStart
    <2> QED
      BY <2>1, <2>2
  <1>4. CASE k < Len(d) /\ st.current = d[k + 1]
    <2>1. k + 1 \in 1..Len(d)
      BY <1>1, <1>4
    <2>2. st.current \notin {NoStage, st.last}
      BY <1>2, <1>4, <2>1 DEF LastOf, ValidDefinition
    <2> QED
      BY <1>4, <2>1, <2>2, PositionUnique DEF ImplicitStart
  <1> QED
    BY <1>3, <1>4

\* What the caller passes stands where the checkpoint does.
LEMMA InputsStandAtCheckpoint ==
    ASSUME TypeOK, PinnedInv, checkpoint # NoCheckpoint, NEW st \in Inputs,
           NEW k \in Nat, Marks(checkpoint, k)
    PROVE  LET d == Definition[checkpoint.version] IN
           /\ st.last = LastOf(d, k)
           /\ \/ st.current \in {NoStage, LastOf(d, k)}
              \/ k < Len(d) /\ st.current = d[k + 1]
  <1> DEFINE d == Definition[checkpoint.version]
  <1>1. \/ checkpoint.current = LastOf(d, k)
        \/ k < Len(d) /\ checkpoint.current = d[k + 1]
    BY DEF Marks, LastOf
  <1>2. checkpoint.last = LastOf(d, k)
    BY DEF Marks
  <1> HIDE DEF d
  <1>3. CASE st \in Restored(checkpoint)
    <2>1. st.last = checkpoint.last /\ st.current \in {checkpoint.current, NoStage}
      BY <1>3 DEF Restored, PipelineState
    <2> QED
      BY <1>1, <1>2, <2>1 DEF d
  <1>4. CASE returned # NoState /\ st = returned
    <2>1. st.last = checkpoint.last /\ st.current = checkpoint.current
      BY <1>4 DEF PinnedInv
    <2> QED
      BY <1>1, <1>2, <2>1 DEF d
  <1> QED
    BY <1>3, <1>4 DEF Inputs, d

\* An implicit start is a start after the stages that have completed, and there
\* is none when all of them have.
LEMMA StartsAfterDone ==
    ASSUME TypeOK, PinnedInv, StoreInv, NEW st \in Inputs, NEW v \in Versions,
           Execute(st, v, NoStage)
    PROVE  \E k \in Nat : /\ k < Len(Definition[v])
                          /\ index' = k + 1
                          /\ done = StagesOf(Definition[v], k)
                          /\ st.last = LastOf(Definition[v], k)
  <1> DEFINE d == Definition[v]
  <1>1. d \in Seq(StageIds) /\ ValidDefinition(d)
    BY DefinitionAssumption DEF Execute, Accepted
  <1>2. index' = ImplicitStart(st, d) /\ ImplicitStart(st, d) # 0
    BY DEF Execute, Accepted, StartIndex
  <1>3. CASE checkpoint = NoCheckpoint
    <2>1. st \in Fresh
      BY <1>3 DEF Inputs, PinnedInv
    <2>2. st.last = NoStage /\ st.current = NoStage
      BY <2>1 DEF Fresh, PipelineState
    <2>3. index' = 1
      BY <1>2, <2>2 DEF ImplicitStart
    <2>4. done = StagesOf(d, 0)
      BY <1>3 DEF StoreInv, StagesOf
    <2>5. 0 < Len(d)
      BY <1>1 DEF ValidDefinition
    <2> QED
      BY <2>2, <2>3, <2>4, <2>5 DEF LastOf
  <1>4. CASE checkpoint # NoCheckpoint
    <2>1. v = checkpoint.version
      BY <1>4, InputsArePinned DEF Execute, Accepted, CanPin
    <2>2. PICK k \in Nat : Marks(checkpoint, k) /\ done = StagesOf(d, k)
      BY <1>4, <2>1 DEF StoreInv
    <2>3. k \in 0..Len(d)
      BY <2>1, <2>2 DEF Marks
    <2>4. /\ st.last = LastOf(d, k)
          /\ \/ st.current \in {NoStage, LastOf(d, k)}
             \/ k < Len(d) /\ st.current = d[k + 1]
      BY <1>4, <2>1, <2>2, InputsStandAtCheckpoint
    <2> HIDE DEF d
    <2>5. ImplicitStart(st, d) = IF k < Len(d) THEN k + 1 ELSE 0
      BY <1>1, <2>3, <2>4, ImplicitStartAfter
    <2>6. k < Len(d) /\ index' = k + 1
      BY <1>2, <2>5
    <2> QED
      BY <2>2, <2>4, <2>6 DEF d
  <1> QED
    BY <1>3, <1>4

LEMMA ResumeExecute ==
    ASSUME TypeOK, PinnedInv, StoreInv, CompletionInv,
           NEW st \in Inputs, NEW v \in Versions, Execute(st, v, NoStage)
    PROVE  StoreInv' /\ ExecutionInv' /\ CompletionInv'
  <1> DEFINE d == Definition[v]
  <1>1. PICK k \in Nat : /\ k < Len(d) /\ index' = k + 1
                         /\ done = StagesOf(d, k) /\ st.last = LastOf(d, k)
    BY StartsAfterDone
  <1>2. d \in Seq(StageIds) /\ ValidDefinition(d)
    BY DefinitionAssumption DEF Execute, Accepted
  <1>3. /\ pc' = "publishPipelineStarted" /\ defn' = v
        /\ checkpoint' = checkpoint /\ done' = done /\ completions' = completions
    BY DEF Execute, durable
  <1>4. state'.last = st.last
    BY InputsAreStates DEF Execute, PipelineStates
  <1>5. index' - 1 = k
    BY <1>1
  <1> HIDE DEF d
  <1>6. ExecutionInv'
    <2>1. done' = StagesOf(d, index' - 1) /\ state'.last = LastOf(d, index' - 1)
      BY <1>1, <1>3, <1>4, <1>5
    <2> QED
      BY <1>2, <1>3, <2>1 DEF ExecutionInv, CompletedSteps, d
  <1>7. StoreInv'
    BY <1>3 DEF StoreInv
  <1>8. completions = 0
    <2> SUFFICES ASSUME completions > 0 PROVE FALSE
      BY DEF TypeOK
    <2>1. checkpoint # NoCheckpoint
          /\ done = StagesOf(Definition[checkpoint.version],
                             Len(Definition[checkpoint.version]))
      BY DEF CompletionInv
    <2>2. v = checkpoint.version
      BY <2>1, InputsArePinned DEF Execute, Accepted, CanPin
    <2>3. k = Len(d)
      <3>1. k \in 0..Len(d) /\ Len(d) \in 0..Len(d)
        BY <1>1, <1>2
      <3>2. StagesOf(d, k) = StagesOf(d, Len(d))
        BY <1>1, <2>1, <2>2 DEF d
      <3> QED
        BY <1>2, <3>1, <3>2, StagesOfInjective
    <2> QED
      BY <1>1, <2>3
  <1> QED
    BY <1>3, <1>6, <1>7, <1>8 DEF CompletionInv

LEMMA ResumeProceed ==
    ASSUME TypeOK, PinnedInv, StoreInv, ExecutionInv, CompletionInv, Proceed
    PROVE  StoreInv' /\ ExecutionInv' /\ CompletionInv'
  <1> DEFINE d == Definition[defn]
  <1>1. /\ pc # "idle" /\ defn' = defn
    BY DEF Proceed, PublishPipelineStarted, SaveStartedCheckpoint, PublishStageStarted,
           StageSucceeds, StageFails, SaveCompletedCheckpoint, PublishStageCompleted,
           LogStageCompleted, SaveFailedCheckpoint, PublishStageFailed,
           PublishPipelineFailed, LogStageFailed, PublishPipelineCompleted,
           LogPipelineCompleted, local
  <1>2. /\ d \in Seq(StageIds) /\ ValidDefinition(d)
        /\ index \in 1..Len(d) /\ Len(d) \in Nat
        /\ state \in PipelineStates
        /\ checkpoint # NoCheckpoint => checkpoint.version = defn
        /\ state.version = defn
    BY <1>1, DefinitionAssumption DEF TypeOK, PinnedInv, ExecutionInv
  <1>3. Stage = d[index]
    BY DEF Stage
  <1>4. ExecutionInv => /\ done = StagesOf(d, IF pc \in CompletedSteps THEN index ELSE index - 1)
                        /\ state.last = IF pc \in CompletedSteps \union {"saveCompleted"}
                                        THEN d[index] ELSE LastOf(d, index - 1)
                        /\ pc \in {"publishPipelineCompleted", "logPipelineCompleted"}
                              => index = Len(d)
    BY <1>1 DEF ExecutionInv
  <1>5. index - 1 \in Nat /\ index - 1 < Len(d) /\ (index - 1) + 1 = index
    BY <1>2
  <1> HIDE DEF d
  \* A checkpoint of the execution's stage, saved while it stands there.
  <1>6. ASSUME NEW cp, NEW k \in Nat, cp.version = defn, cp.current = d[index],
               cp.last = LastOf(d, k),
               \/ cp.status = "completed" /\ k = index
               \/ cp.status # "completed" /\ k = index - 1
        PROVE  Marks(cp, k)
    BY <1>2, <1>5, <1>6 DEF Marks, d
  <1>7. CASE PublishPipelineStarted \/ PublishStageStarted \/ StageFails
               \/ PublishStageFailed \/ PublishPipelineFailed \/ LogStageFailed
    <2>1. /\ UNCHANGED <<index, state, checkpoint, completions, done>>
          /\ pc \notin CompletedSteps \union {"idle", "saveCompleted"}
          /\ pc' \notin CompletedSteps \union {"saveCompleted"}
      BY <1>7 DEF PublishPipelineStarted, PublishStageStarted, StageFails,
         PublishStageFailed, PublishPipelineFailed, LogStageFailed, Then, ThenReturn,
         local, durable, CompletedSteps
    <2>2. completions = 0
      BY <1>1, <2>1 DEF CompletionInv, CompletedSteps, TypeOK
    <2> QED
      BY <1>1, <2>1, <2>2 DEF StoreInv, ExecutionInv, CompletionInv, CompletedSteps
  <1>8. CASE StageSucceeds
    <2>1. /\ pc = "executeStage" /\ pc' = "saveCompleted"
          /\ UNCHANGED <<index, checkpoint, completions, done>>
          /\ state'.last = d[index]
      BY <1>2, <1>3, <1>8 DEF StageSucceeds, PipelineStates, durable
    <2>2. completions = 0
      BY <2>1 DEF CompletionInv, TypeOK
    <2>3. ExecutionInv'
      BY <1>1, <2>1 DEF ExecutionInv, CompletedSteps, d
    <2> QED
      BY <2>1, <2>2, <2>3 DEF StoreInv, CompletionInv
  <1>9. CASE PublishStageCompleted
    <2>1. /\ pc = "publishStageCompleted" /\ pc' \in {"idle", "logStageCompleted"}
          /\ UNCHANGED <<index, state, checkpoint, completions, done>>
      BY <1>9 DEF PublishStageCompleted, Then, local
    <2>2. completions = 0
      BY <2>1 DEF CompletionInv, TypeOK
    <2> QED
      BY <1>1, <2>1, <2>2 DEF StoreInv, ExecutionInv, CompletionInv, CompletedSteps
  <1>10. CASE SaveStartedCheckpoint
    <2>1. /\ pc = "saveStarted" /\ pc' \in {"idle", "publishStageStarted"}
          /\ UNCHANGED <<index, completions, done>>
          /\ state' = [state EXCEPT !.attempts = IncrementStageAttempt(state, Stage),
                                    !.current = Stage]
          /\ checkpoint' = Checkpoint(state', "started")
      BY <1>10 DEF SaveStartedCheckpoint, Then
    <2>2. state'.last = state.last /\ state'.version = state.version
      BY <1>2, <2>1 DEF PipelineStates
    <2>3. done = StagesOf(d, index - 1) /\ state.last = LastOf(d, index - 1)
      BY <1>4, <2>1 DEF CompletedSteps
    <2>4. /\ checkpoint'.version = defn /\ checkpoint'.current = d[index]
          /\ checkpoint'.last = LastOf(d, index - 1) /\ checkpoint'.status # "completed"
      BY <1>2, <1>3, <2>1, <2>2, <2>3 DEF Checkpoint
    <2>5. Marks(checkpoint', index - 1)
      BY <1>5, <1>6, <2>4
    <2>6. StoreInv'
      BY <1>5, <1>10, <2>1, <2>3, <2>4, <2>5, CheckpointSaved DEF StoreInv, d
    <2>7. completions = 0
      BY <2>1 DEF CompletionInv, TypeOK
    <2>8. ExecutionInv'
      BY <1>1, <2>1, <2>2 DEF ExecutionInv, CompletedSteps
    <2> QED
      BY <2>1, <2>6, <2>7, <2>8 DEF CompletionInv
  <1>11. CASE SaveCompletedCheckpoint
    <2>1. /\ pc = "saveCompleted" /\ pc' \in {"idle", "publishStageCompleted"}
          /\ UNCHANGED <<index, state, completions>>
          /\ done' = done \union {d[index]}
          /\ checkpoint' = Checkpoint(state, "completed")
      BY <1>3, <1>11 DEF SaveCompletedCheckpoint, Then, local
    <2>2. done = StagesOf(d, index - 1) /\ state.last = d[index]
      BY <1>4, <2>1 DEF CompletedSteps
    <2>3. done' = StagesOf(d, index)
      BY <1>2, <2>1, <2>2, StagesOfNext
    <2>4. /\ checkpoint'.version = defn /\ checkpoint'.current = d[index]
          /\ checkpoint'.last = LastOf(d, index) /\ checkpoint'.status = "completed"
      BY <1>2, <1>3, <2>1, <2>2 DEF Checkpoint, LastOf
    <2>5. Marks(checkpoint', index)
      BY <1>2, <1>6, <2>4
    <2>6. StoreInv'
      BY <1>2, <1>11, <2>3, <2>4, <2>5, CheckpointSaved DEF StoreInv, d
    <2>7. completions = 0
      BY <2>1 DEF CompletionInv, TypeOK
    <2>8. ExecutionInv'
      BY <1>1, <1>2, <2>1, <2>2, <2>3 DEF ExecutionInv, CompletedSteps, d
    <2> QED
      BY <2>1, <2>6, <2>7, <2>8 DEF CompletionInv
  <1>12. CASE SaveFailedCheckpoint
    <2>1. /\ pc = "saveFailed" /\ pc' \in {"idle", "publishStageFailed"}
          /\ UNCHANGED <<index, state, completions, done>>
          /\ checkpoint' = Checkpoint(state, "failed")
      BY <1>12 DEF SaveFailedCheckpoint, Then, local
    <2>2. done = StagesOf(d, index - 1) /\ state.last = LastOf(d, index - 1)
      BY <1>4, <2>1 DEF CompletedSteps
    <2>3. /\ checkpoint'.version = defn /\ checkpoint'.current = d[index]
          /\ checkpoint'.last = LastOf(d, index - 1) /\ checkpoint'.status # "completed"
      BY <1>2, <1>3, <2>1, <2>2 DEF Checkpoint
    <2>4. Marks(checkpoint', index - 1)
      BY <1>5, <1>6, <2>3
    <2>5. StoreInv'
      BY <1>5, <1>12, <2>1, <2>2, <2>3, <2>4, CheckpointSaved DEF StoreInv, d
    <2>6. completions = 0
      BY <2>1 DEF CompletionInv, TypeOK
    <2>7. ExecutionInv'
      BY <1>1, <2>1 DEF ExecutionInv, CompletedSteps
    <2> QED
      BY <2>1, <2>5, <2>6, <2>7 DEF CompletionInv
  <1>13. CASE LogStageCompleted
    <2>1. /\ pc = "logStageCompleted"
          /\ UNCHANGED <<state, checkpoint, completions, done>>
          /\ \/ index < Len(d) /\ index' = index + 1 /\ pc' \in {"idle", "saveStarted"}
             \/ index = Len(d) /\ index' = index
                 /\ pc' \in {"idle", "publishPipelineCompleted"}
      BY <1>2, <1>13 DEF LogStageCompleted, Then, durable, d
    <2>2. done = StagesOf(d, index) /\ state.last = d[index]
      BY <1>4, <2>1 DEF CompletedSteps
    <2>3. completions = 0
      BY <2>1 DEF CompletionInv, TypeOK
    <2>4. (index + 1) - 1 = index /\ index # 0
      BY <1>2
    <2>5. ExecutionInv'
      BY <1>1, <1>2, <2>1, <2>2, <2>4 DEF ExecutionInv, CompletedSteps, LastOf, d
    <2> QED
      BY <2>1, <2>3, <2>5 DEF StoreInv, CompletionInv
  <1>14. CASE PublishPipelineCompleted
    <2>1. /\ pc = "publishPipelineCompleted" /\ pc' \in {"idle", "logPipelineCompleted"}
          /\ UNCHANGED <<index, state, checkpoint, done>>
          /\ completions' = completions + 1
      BY <1>14 DEF PublishPipelineCompleted, Then, local
    <2>2. done = StagesOf(d, Len(d))
      BY <1>4, <2>1 DEF CompletedSteps
    <2>3. completions = 0
      BY <2>1 DEF CompletionInv, TypeOK
    <2>4. checkpoint # NoCheckpoint /\ checkpoint.version = defn
      BY <1>2, <2>1 DEF PinnedInv, StageSteps, CompletedSteps
    <2>5. CompletionInv'
      BY <2>1, <2>2, <2>3, <2>4 DEF CompletionInv, d
    <2> QED
      BY <1>1, <2>1, <2>5 DEF StoreInv, ExecutionInv, CompletedSteps
  <1>15. CASE LogPipelineCompleted
    <2>1. /\ pc' = "idle" /\ UNCHANGED <<checkpoint, completions, done>>
      BY <1>15 DEF LogPipelineCompleted, ThenReturn, durable
    <2> QED
      BY <2>1 DEF StoreInv, ExecutionInv, CompletionInv
  <1> QED
    BY <1>7, <1>8, <1>9, <1>10, <1>11, <1>12, <1>13, <1>14, <1>15 DEF Proceed

-----------------------------------------------------------------------------
(* Theorems *)

LEMMA InvInit == Init => Inv
  <1> SUFFICES ASSUME Init PROVE Inv
    OBVIOUS
  <1>1. TypeOK /\ PinnedInv
    BY TypeInit, PinnedInit
  <1>2. ResumeInv
    BY DEF Init, ResumeInv, StoreInv, ExecutionInv, CompletionInv
  <1> QED
    BY <1>1, <1>2 DEF Inv

LEMMA InvStep == Inv /\ [Next]_vars => Inv'
  <1> SUFFICES ASSUME Inv, [Next]_vars PROVE Inv'
    OBVIOUS
  <1>1. TypeOK' /\ PinnedInv'
    BY TypeStep, PinnedStep DEF Inv
  <1>2. ResumeInv'
    <2> SUFFICES ASSUME ~manual' PROVE StoreInv' /\ ExecutionInv' /\ CompletionInv'
      BY DEF ResumeInv
    <2>1. CASE Start
      BY <2>1, ResumeExecute DEF Start, Execute, Inv, ResumeInv
    <2>2. CASE Override
      <3>1. PICK s \in ManualStages : \E st \in Inputs, v \in Versions : Execute(st, v, s)
        BY <2>2 DEF Override
      <3>2. manual'
        BY <3>1, StagesAssumption DEF Execute
      <3> QED
        BY <3>2
    <2>3. CASE Proceed
      <3>1. manual' = manual
        BY <2>3
        DEF Proceed, PublishPipelineStarted, SaveStartedCheckpoint, PublishStageStarted,
            StageSucceeds, StageFails, SaveCompletedCheckpoint, PublishStageCompleted,
            LogStageCompleted, SaveFailedCheckpoint, PublishStageFailed,
            PublishPipelineFailed, LogStageFailed, PublishPipelineCompleted,
            LogPipelineCompleted
      <3> QED
        BY <2>3, <3>1, ResumeProceed DEF Inv, ResumeInv
    <2>4. CASE Reject \/ SideEffectFails \/ Crash
      <3>1. /\ UNCHANGED <<defn, index, state, checkpoint, done, completions, manual>>
            /\ pc' = "idle"
        BY <2>4 DEF Reject, SideEffectFails, Crash, local, durable
      <3> QED
        BY <3>1 DEF Inv, ResumeInv, StoreInv, ExecutionInv, CompletionInv
    <2>5. CASE UNCHANGED vars
      BY <2>5 DEF vars, local, durable, Inv, ResumeInv, StoreInv, ExecutionInv, CompletionInv
    <2> QED
      BY <2>1, <2>2, <2>3, <2>4, <2>5 DEF Next
  <1> QED
    BY <1>1, <1>2 DEF Inv

LEMMA Invariance == Spec => []Inv
  BY InvInit, InvStep, PTL DEF Spec

\* A stage is executed when exactly the stages before it have completed: across
\* any number of executions of the run, none is skipped or repeated.
THEOREM ResumeCorrect == Spec => []ResumesWhereItStopped
  <1>1. Inv => ResumesWhereItStopped
    BY DEF Inv, ResumeInv, ExecutionInv, CompletedSteps, ResumesWhereItStopped
  <1> QED
    BY <1>1, Invariance, PTL

\* PipelineCompleted is published once at most, for a run whose stages have all
\* completed.
THEOREM CompletionCorrect == Spec => []CompletionIsEarned
  <1>1. Inv => CompletionIsEarned
    BY DEF Inv, ResumeInv, CompletionInv, CompletionIsEarned
  <1> QED
    BY <1>1, Invariance, PTL
=============================================================================
