---------------------------- MODULE ReviewStages ----------------------------
(***************************************************************************)
(* The review stages with effects outside the process, under the           *)
(* orchestrator of ReviewPipeline: the check run, the comments and the     *)
(* decision at the git provider.                                           *)
(*                                                                         *)
(* A call of a provider succeeds, fails, or takes effect although its      *)
(* reply is lost.  A stage that fails leaves its input state to the        *)
(* caller, which executes it again from there.  Whatever ends the          *)
(* execution otherwise (a crash, a rejected checkpoint or event, another   *)
(* process that takes the run over) leaves the checkpoint only: position   *)
(* and attempt, none of the stage data.  The caller passes mergeRequest    *)
(* and config again; the rest starts with the defaults of                  *)
(* ReviewPipelineState.create.                                             *)
(*                                                                         *)
(* Stages that only prepare or read data are left out.                     *)
(***************************************************************************)
EXTENDS Naturals, FiniteSets

CONSTANTS Suggestions,        \* file-level suggestions the LLM may make
          Severity,           \* the severity of each
          Categories,         \* categories of CCR-level suggestions
          DiscardBudget,      \* falsePositiveBudget
          BlockingSettings,   \* sets of severities the settings may hold
          MaxCheckUpdateAttempts,
          MaxDisturbances     \* bound: failed calls, lost replies, lost states

\* DEFAULT_BLOCKING_SEVERITIES
DefaultBlocking == {"CRITICAL", "HIGH"}

\* What a run posts once, the check and the decision included.
RunPosts == {"check", "initial", "summary", "decision"}

Posts == RunPosts \union Suggestions \union Categories

ASSUME PostsAssumption ==
    /\ RunPosts \intersect (Suggestions \union Categories) = {}
    /\ Suggestions \intersect Categories = {}

ASSUME BoundsAssumption ==
    /\ MaxCheckUpdateAttempts \in Nat \ {0}
    /\ MaxDisturbances \in Nat

\* The stages, in the order of their numbers.
CreateCheckStage == 1
FetchChangedFilesStage == 2
InitialCommentStage == 3
ProcessCcrLevelReviewStage == 4
ProcessFilesReviewStage == 5
CreateCcrLevelCommentsStage == 6
ValidateSuggestionsStage == 7
CreateFileCommentsStage == 8
GenerateSummaryStage == 9
RequestChangesOrApproveStage == 10
FinalizeCheckStage == 11

\* Those that fail for good when the rules or the prompt are refused.
PromptStages == {ProcessCcrLevelReviewStage, ProcessFilesReviewStage, GenerateSummaryStage}

VARIABLES
    at,            \* the stage the run stands at, in the process and in its checkpoint
    pc,            \* "run", "saving" (completed), "failed", "terminal", "done"
    data,          \* the stage data of ReviewPipelineState
    posted,        \* what this execution of the stage has posted
    attempt,       \* of updateCheckRunWithRetry
    autoApprove,   \* config.autoApprove
    effects,       \* how often the provider has accepted each post
    lastDecision,  \* the decision it has accepted last
    conclusions,   \* the conclusions it has accepted for checks
    disturbances

provider == <<effects, lastDecision, conclusions>>
vars == <<at, pc, data, posted, attempt, autoApprove, provider, disturbances>>

-----------------------------------------------------------------------------

\* checkId 0 is null; "none" stands for no reviewDecision in externalContext.
NoData == [checkId |-> 0, files |-> FALSE, suggestions |-> {}, ccr |-> {},
           decision |-> "none"]

Executing(stage) == pc = "run" /\ at = stage

Disturb == /\ disturbances < MaxDisturbances
           /\ disturbances' = disturbances + 1

\* The stage returns Result.ok with the new state.
Succeed(new) == /\ pc' = "saving"
                /\ data' = new
                /\ posted' = {}
                /\ attempt' = 1
                /\ UNCHANGED <<at, disturbances>>

\* It returns Result.fail, recoverable: the caller gets the input state back.
Fail == /\ Disturb
        /\ pc' = "failed"
        /\ posted' = {}
        /\ attempt' = 1
        /\ UNCHANGED <<at, data>>

Accept(post) == effects' = [effects EXCEPT ![post] = @ + 1]

\* The provider accepts a post.  The stage goes on, or the reply is lost.
SucceedAfter(post, new) == /\ Accept(post)
                           /\ Succeed(new) \/ Fail
                           /\ UNCHANGED <<autoApprove, conclusions>>

\* Mutant: a comment whose reply is lost is posted again at once.
PostEachUntilAnswered(posts) ==
    \E post \in posts \ posted :
        /\ Accept(post)
        /\ \/ posted' = posted \union {post}
           \/ posted' = posted
        /\ UNCHANGED <<at, pc, data, attempt, disturbances, autoApprove, lastDecision, conclusions>>

\* A loop that posts one comment after the other, in any order.
PostEach(posts) ==
    \E post \in posts \ posted :
        /\ Accept(post)
        /\ \/ /\ posted' = posted \union {post}
              /\ UNCHANGED <<at, pc, data, attempt, disturbances>>
           \/ Fail
        /\ UNCHANGED <<autoApprove, lastDecision, conclusions>>

AllPosted(posts) == /\ posts \subseteq posted
                    /\ Succeed(data)
                    /\ UNCHANGED <<autoApprove, provider>>

Compute(new) == Succeed(new) /\ UNCHANGED <<autoApprove, provider>>

-----------------------------------------------------------------------------
(* The stages *)

CreateCheck ==
    /\ Executing(CreateCheckStage)
    /\ SucceedAfter("check", [data EXCEPT !.checkId = effects["check"] + 1])
    /\ UNCHANGED lastDecision

FetchChangedFiles ==
    /\ Executing(FetchChangedFilesStage)
    /\ Compute([data EXCEPT !.files = TRUE])

InitialComment ==
    /\ Executing(InitialCommentStage)
    /\ SucceedAfter("initial", data)
    /\ UNCHANGED lastDecision

ProcessCcrLevelReview ==
    /\ Executing(ProcessCcrLevelReviewStage)
    /\ \E found \in SUBSET Categories : Compute([data EXCEPT !.ccr = found])

\* A file whose analysis fails or times out has no suggestions; without files
\* there are none at all.  The stage succeeds in every case.
ProcessFilesReview ==
    /\ Executing(ProcessFilesReviewStage)
    /\ \E found \in SUBSET Suggestions :
          /\ data.files \/ found = {}
          /\ Compute([data EXCEPT !.suggestions = found])

CreateCcrLevelComments ==
    /\ Executing(CreateCcrLevelCommentsStage)
    /\ PostEach(data.ccr) \/ AllPosted(data.ccr)

\* The filters discard some of the suggestions, within the budget.
ValidateSuggestions ==
    /\ Executing(ValidateSuggestionsStage)
    /\ \E kept \in SUBSET data.suggestions :
          /\ Cardinality(data.suggestions \ kept) <= DiscardBudget
          /\ Compute([data EXCEPT !.suggestions = kept])

\* Mutant: a review without suggestions does not get past this stage.
CreateSomeFileComments ==
    /\ Executing(CreateFileCommentsStage)
    /\ data.suggestions # {}
    /\ PostEach(data.suggestions) \/ AllPosted(data.suggestions)

CreateFileComments ==
    /\ Executing(CreateFileCommentsStage)
    /\ PostEach(data.suggestions) \/ AllPosted(data.suggestions)

GenerateSummary ==
    /\ Executing(GenerateSummaryStage)
    /\ SucceedAfter("summary", data)
    /\ UNCHANGED lastDecision

\* Mutant: one suggestion that does not block is enough.
VerdictOfSome(suggestions, blocking) ==
    IF /\ autoApprove
       /\ suggestions = {} \/ \E s \in suggestions : Severity[s] \notin blocking
    THEN "approved" ELSE "changes_requested"

Verdict(suggestions, blocking) ==
    IF autoApprove /\ \A s \in suggestions : Severity[s] \notin blocking
    THEN "approved" ELSE "changes_requested"

\* resolveBlockingSeverities reads the settings every time and falls back to
\* the default.
RequestChangesOrApprove ==
    /\ Executing(RequestChangesOrApproveStage)
    /\ \E blocking \in BlockingSettings \union {DefaultBlocking} :
          LET verdict == Verdict(data.suggestions, blocking)
          IN  /\ SucceedAfter("decision", [data EXCEPT !.decision = verdict])
              /\ lastDecision' = [verdict |-> verdict, blocking |-> blocking]

\* resolveConclusion
Conclusion(decision) == IF decision = "approved" THEN "success" ELSE "failure"

\* Mutant: one update too many.
UpdateFailsOnceMore == /\ attempt <= MaxCheckUpdateAttempts
                       /\ Disturb
                       /\ attempt' = attempt + 1
                       /\ UNCHANGED <<at, pc, data, posted>>

\* One update of the loop fails and is not the last one.
UpdateFails == /\ attempt < MaxCheckUpdateAttempts
               /\ Disturb
               /\ attempt' = attempt + 1
               /\ UNCHANGED <<at, pc, data, posted>>

LastUpdateFails == attempt = MaxCheckUpdateAttempts /\ Fail

\* updateCheckRunWithRetry; the update may take effect although it fails.
FinalizeCheck ==
    /\ Executing(FinalizeCheckStage)
    /\ data.checkId # 0
    /\ \/ /\ conclusions' = conclusions \union
                [check : {data.checkId}, conclusion : {Conclusion(data.decision)}]
          /\ Succeed(data) \/ UpdateFails \/ LastUpdateFails
       \/ /\ UpdateFails \/ LastUpdateFails
          /\ UNCHANGED conclusions
    /\ UNCHANGED <<autoApprove, effects, lastDecision>>

Terminate == /\ pc' = "terminal"
             /\ UNCHANGED <<at, data, posted, attempt, autoApprove, provider>>

\* "Missing check id": not recoverable.
CheckIsMissing ==
    /\ Executing(FinalizeCheckStage)
    /\ data.checkId = 0
    /\ Terminate
    /\ UNCHANGED disturbances

\* The rules or the prompt are refused: not recoverable.
PromptIsRefused ==
    /\ pc = "run"
    /\ at \in PromptStages
    /\ Disturb
    /\ Terminate

\* A call of the stage fails without an effect.
CallFails ==
    /\ pc = "run"
    /\ at # FinalizeCheckStage
    /\ Fail
    /\ UNCHANGED <<autoApprove, provider>>

-----------------------------------------------------------------------------
(* The orchestrator and its caller *)

SaveCompletedCheckpoint ==
    /\ pc = "saving"
    /\ IF at = FinalizeCheckStage
       THEN pc' = "done" /\ at' = at
       ELSE pc' = "run" /\ at' = at + 1
    /\ UNCHANGED <<data, posted, attempt, autoApprove, provider, disturbances>>

Retry ==
    /\ pc = "failed"
    /\ pc' = "run"
    /\ UNCHANGED <<at, data, posted, attempt, autoApprove, provider, disturbances>>

\* Mutant: a run that is resumed finds its check again, and nothing else.
LoseAllButTheCheck ==
    /\ pc \in {"run", "saving", "failed"}
    /\ Disturb
    /\ pc' = "run"
    /\ data' = [NoData EXCEPT !.checkId = data.checkId]
    /\ posted' = {}
    /\ attempt' = 1
    /\ UNCHANGED <<at, autoApprove, provider>>

\* The run is resumed from its checkpoint.
Lose ==
    /\ pc \in {"run", "saving", "failed"}
    /\ Disturb
    /\ pc' = "run"
    /\ data' = NoData
    /\ posted' = {}
    /\ attempt' = 1
    /\ UNCHANGED <<at, autoApprove, provider>>

Init ==
    /\ at = CreateCheckStage
    /\ pc = "run"
    /\ data = NoData
    /\ posted = {}
    /\ attempt = 1
    /\ autoApprove \in BOOLEAN
    /\ effects = [p \in Posts |-> 0]
    /\ lastDecision = [verdict |-> "none", blocking |-> {}]
    /\ conclusions = {}
    /\ disturbances = 0

Proceed ==
    \/ CreateCheck
    \/ FetchChangedFiles
    \/ InitialComment
    \/ ProcessCcrLevelReview
    \/ ProcessFilesReview
    \/ CreateCcrLevelComments
    \/ ValidateSuggestions
    \/ CreateFileComments
    \/ GenerateSummary
    \/ RequestChangesOrApprove
    \/ FinalizeCheck
    \/ CheckIsMissing
    \/ SaveCompletedCheckpoint
    \/ Retry

Next == Proceed \/ PromptIsRefused \/ CallFails \/ Lose

Spec == Init /\ [][Next]_vars

\* The event loop carries an execution on and the caller retries a failed one.
FairSpec == Spec /\ WF_vars(Proceed)

-----------------------------------------------------------------------------
(* Properties *)

\* Types of the variables; an update of the check is tried at most
\* MAX_CHECK_UPDATE_ATTEMPTS times in one execution.
TypeOK ==
    /\ at \in CreateCheckStage..FinalizeCheckStage
    /\ pc \in {"run", "saving", "failed", "terminal", "done"}
    /\ data \in [checkId : Nat, files : BOOLEAN, suggestions : SUBSET Suggestions,
                 ccr : SUBSET Categories,
                 decision : {"none", "approved", "changes_requested"}]
    /\ posted \subseteq Posts
    /\ attempt \in 1..MaxCheckUpdateAttempts
    /\ autoApprove \in BOOLEAN
    /\ effects \in [Posts -> Nat]
    /\ lastDecision \in [verdict  : {"none", "approved", "changes_requested"},
                        blocking : BlockingSettings \union {DefaultBlocking, {}}]
    /\ conclusions \subseteq [check : Nat, conclusion : {"success", "failure"}]
    /\ disturbances \in 0..MaxDisturbances

Commented == {s \in Suggestions : effects[s] > 0}

\* The run was resumed from its checkpoint after it had created its check.
DataLost == at > CreateCheckStage /\ data.checkId = 0

BlockingCommented == \E s \in Commented : Severity[s] \in lastDecision.blocking

\* A decision "approved" stands at the merge request although a comment of the
\* run is blocking only if the run was resumed without its data: the decision
\* of the retried stages sees every suggestion that was commented.
ApprovalIsEarned ==
    lastDecision.verdict = "approved" => ~BlockingCommented \/ DataLost

\* A check concluded "success" is one of a run whose last decision was
\* "approved", with no blocking comment, resumed or not, and whose suggestions
\* (those it still knows) were all commented; a check concluded "failure" is one
\* of a run that asked for changes.
SuccessIsEarned ==
    \A c \in conclusions :
        IF c.conclusion = "success"
        THEN /\ lastDecision.verdict = "approved"
             /\ ~BlockingCommented
             /\ data.suggestions \subseteq Commented
        ELSE lastDecision.verdict = "changes_requested"

\* Whatever is posted again at the provider was posted again because of a
\* disturbance: at most once more for each, also the first comments of a loop
\* that fails half way.
RepeatsAreEarned == \A p \in Posts : effects[p] <= disturbances + 1

\* A run concludes its check, or ends for one of two reasons: its prompt was
\* refused, or it was resumed without its check id.
ReviewConcludes ==
    <>(\/ pc = "done"
       \/ pc = "terminal" /\ (DataLost \/ at \in PromptStages))
=============================================================================
