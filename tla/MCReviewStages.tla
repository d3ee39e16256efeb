--------------------------- MODULE MCReviewStages ---------------------------
(***************************************************************************)
(* An instance of ReviewStages: a suggestion that blocks by default, one   *)
(* that does not, and settings that turn this round.                       *)
(***************************************************************************)
EXTENDS ReviewStages, TLC

CONSTANTS critical, minor, design

MCSuggestions == {critical, minor}
MCSeverity == (critical :> "CRITICAL") @@ (minor :> "LOW")
MCCategories == {design}
MCBlockingSettings == {{"LOW"}}
=============================================================================
