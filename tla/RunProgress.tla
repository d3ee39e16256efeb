---------------------------- MODULE RunProgress ----------------------------
(***************************************************************************)
(* What a review pipeline run promises to whoever watches its checkpoints  *)
(* and its PipelineCompleted event, whatever stages fail, whatever process *)
(* dies and however often the run is resumed:                              *)
(*   - the run is pinned to one definition version and stays there;        *)
(*   - the stages of that version complete one after the other, in order,  *)
(*     each of them once;                                                  *)
(*   - completion is announced at most once, after the last stage.         *)
(***************************************************************************)
EXTENDS Naturals

CONSTANTS Versions,    \* definition versions
          StageCount,  \* number of stages of each version, a function
          NoVersion    \* the run is not pinned yet

VARIABLES pinned,      \* the version the run is pinned to
          progress,    \* how many stages of it have completed
          announced    \* how many PipelineCompleted events were published

vars == <<pinned, progress, announced>>

Init == pinned = NoVersion /\ progress = 0 /\ announced = 0

Pin == /\ pinned = NoVersion
       /\ pinned' \in Versions
       /\ UNCHANGED <<progress, announced>>

CompleteStage == /\ pinned \in Versions
                 /\ progress < StageCount[pinned]
                 /\ progress' = progress + 1
                 /\ UNCHANGED <<pinned, announced>>

Announce == /\ pinned \in Versions
            /\ progress = StageCount[pinned]
            /\ announced = 0
            /\ announced' = 1
            /\ UNCHANGED <<pinned, progress>>

Next == Pin \/ CompleteStage \/ Announce

Spec == Init /\ [][Next]_vars

\* Announce is not fair: a process that dies between the last checkpoint and
\* the event leaves a run that is complete and never announced.
FairSpec == Spec /\ WF_vars(Pin) /\ WF_vars(CompleteStage)
=============================================================================
