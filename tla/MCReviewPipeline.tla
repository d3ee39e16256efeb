-------------------------- MODULE MCReviewPipeline -------------------------
(***************************************************************************)
(* An instance of ReviewPipeline: three stages; two versions that order    *)
(* them differently, one of them shorter, and a third that names a stage   *)
(* without an implementation.                                              *)
(***************************************************************************)
EXTENDS ReviewPipeline, TLC

CONSTANTS a, b, c, x, v1, v2, v3

MCStageIds == {a, b, c, x}
MCRegistered == {a, b, c}
MCVersions == {v1, v2, v3}
MCDefinition == (v1 :> <<a, b, c>>) @@ (v2 :> <<c, a>>) @@ (v3 :> <<a, x>>)
=============================================================================
