------------------------ MODULE ReviewStagesProofs ------------------------
(***************************************************************************)
(* Theorems about ReviewStages, for any suggestions, categories, severities *)
(* and settings, and any number of disturbances.                           *)
(***************************************************************************)
EXTENDS ReviewStages, TLAPS

USE DEF CreateCheckStage, FetchChangedFilesStage, InitialCommentStage,
        ProcessCcrLevelReviewStage, ProcessFilesReviewStage, CreateCcrLevelCommentsStage,
        ValidateSuggestionsStage, CreateFileCommentsStage, GenerateSummaryStage,
        RequestChangesOrApproveStage, FinalizeCheckStage

\* The stage that posts p.
StageOf(p) ==
    IF p = "check" THEN CreateCheckStage
    ELSE IF p = "initial" THEN InitialCommentStage
    ELSE IF p = "summary" THEN GenerateSummaryStage
    ELSE IF p = "decision" THEN RequestChangesOrApproveStage
    ELSE IF p \in Categories THEN CreateCcrLevelCommentsStage
    ELSE CreateFileCommentsStage

\* The run has still to post p, since its last disturbance.
Pending(p) == \/ at < StageOf(p)
              \/ at = StageOf(p) /\ pc # "saving" /\ p \notin posted

CountsInv ==
    \A p \in Posts : effects[p] <= disturbances + (IF Pending(p) THEN 0 ELSE 1)

\* What the run has commented is what its data says, as long as it has them.
CommentsInv ==
    /\ posted \subseteq Suggestions \union Categories
    /\ \A p \in posted : effects[p] > 0
    /\ at < CreateFileCommentsStage => Commented = {}
    /\ at >= CreateFileCommentsStage => DataLost \/ Commented \subseteq data.suggestions
    /\ at > CreateFileCommentsStage \/ (at = CreateFileCommentsStage /\ pc = "saving")
            => data.suggestions \subseteq Commented

\* The decision in the data is the one at the provider.
DecisionInv ==
    /\ at < RequestChangesOrApproveStage => lastDecision.verdict = "none"
    /\ at < RequestChangesOrApproveStage => data.decision = "none"
    /\ /\ at > RequestChangesOrApproveStage
             \/ (at = RequestChangesOrApproveStage /\ pc = "saving")
       /\ ~DataLost
       => data.decision = lastDecision.verdict /\ data.decision # "none"
    /\ at < FinalizeCheckStage => conclusions = {}

Inv == TypeOK /\ CountsInv /\ CommentsInv /\ DecisionInv /\ ApprovalIsEarned /\ SuccessIsEarned

\* Adding one to a count.
LEMMA AcceptFacts ==
    ASSUME TypeOK, NEW p \in Posts, Accept(p)
    PROVE  /\ effects' \in [Posts -> Nat]
           /\ effects'[p] = effects[p] + 1
           /\ \A q \in Posts \ {p} : effects'[q] = effects[q]
  BY DEF TypeOK, Accept

LEMMA FilesFacts ==
    ASSUME TypeOK
    PROVE  LET new == [data EXCEPT !.files = TRUE]
           IN  /\ new \in [checkId : Nat, files : BOOLEAN, suggestions : SUBSET Suggestions,
                           ccr : SUBSET Categories,
                           decision : {"none", "approved", "changes_requested"}]
               /\ new.checkId = data.checkId /\ new.suggestions = data.suggestions
  BY DEF TypeOK

LEMMA CheckIdFacts ==
    ASSUME TypeOK, NEW n \in Nat
    PROVE  LET new == [data EXCEPT !.checkId = n]
           IN  /\ new \in [checkId : Nat, files : BOOLEAN, suggestions : SUBSET Suggestions,
                           ccr : SUBSET Categories,
                           decision : {"none", "approved", "changes_requested"}]
               /\ new.checkId = n /\ new.suggestions = data.suggestions
  BY DEF TypeOK

\* The comments do not change unless a suggestion is posted.
LEMMA CommentedStays ==
    ASSUME TypeOK, NEW p \in Posts \ Suggestions, Accept(p)
    PROVE  Commented' = Commented
  BY PostsAssumption DEF TypeOK, Accept, Commented, Posts

LEMMA InitInv == Init => Inv
  BY PostsAssumption, BoundsAssumption
  DEF Init, Inv, TypeOK, CountsInv, CommentsInv, DecisionInv, ApprovalIsEarned, SuccessIsEarned,
      NoData, Pending, Commented, DataLost, BlockingCommented, Posts

-----------------------------------------------------------------------------
LEMMA CreateCheckStep ==
    ASSUME Inv, CreateCheck
    PROVE  Inv'
  <1> USE PostsAssumption, BoundsAssumption DEF Inv, TypeOK
  <1>1. TypeOK'
    <2>1. effects' \in [Posts -> Nat] /\ effects["check"] \in Nat
      BY AcceptFacts DEF CreateCheck, SucceedAfter, Posts, RunPosts
    <2>2. [data EXCEPT !.checkId = effects["check"] + 1] \in
            [checkId : Nat, files : BOOLEAN, suggestions : SUBSET Suggestions, ccr : SUBSET Categories,
             decision : {"none", "approved", "changes_requested"}]
      BY <2>1, CheckIdFacts
    <2> QED
      BY <2>1, <2>2 DEF CreateCheck, SucceedAfter, Succeed, Fail, Disturb, Executing
  <1>2. CountsInv'
    BY DEF CreateCheck, SucceedAfter, Accept, Succeed, Fail, Disturb, Executing, CountsInv, Pending, StageOf, CommentsInv, Posts, RunPosts
  <1>3. CommentsInv'
    BY DEF CreateCheck, SucceedAfter, Accept, Succeed, Fail, Disturb, Executing, CommentsInv, Commented, DataLost, Posts, RunPosts
  <1>4. DecisionInv'
    BY DEF CreateCheck, SucceedAfter, Accept, Succeed, Fail, Disturb, Executing, DecisionInv, DataLost
  <1>5. ApprovalIsEarned'
    BY DEF CreateCheck, SucceedAfter, Accept, Succeed, Fail, Disturb, Executing, ApprovalIsEarned, BlockingCommented, Commented, DataLost, DecisionInv, CommentsInv, Posts, RunPosts
  <1>6. SuccessIsEarned'
    BY DEF CreateCheck, SucceedAfter, Accept, Succeed, Fail, Disturb, Executing, SuccessIsEarned, BlockingCommented, Commented, DecisionInv, CommentsInv, Posts, RunPosts
  <1> QED
    BY <1>1, <1>2, <1>3, <1>4, <1>5, <1>6 DEF Inv

LEMMA FetchChangedFilesStep ==
    ASSUME Inv, FetchChangedFiles
    PROVE  Inv'
  <1> USE PostsAssumption, BoundsAssumption DEF Inv, TypeOK
  <1>1. TypeOK'
    BY FilesFacts DEF FetchChangedFiles, Compute, Succeed, Executing, provider
  <1>2. CountsInv'
    BY DEF FetchChangedFiles, Compute, Succeed, Executing, provider, CountsInv, Pending, StageOf, CommentsInv
  <1>3. CommentsInv'
    BY DEF FetchChangedFiles, Compute, Succeed, Executing, provider, CommentsInv, Commented, DataLost
  <1>4. DecisionInv'
    BY DEF FetchChangedFiles, Compute, Succeed, Executing, provider, DecisionInv, DataLost
  <1>5. ApprovalIsEarned'
    BY DEF FetchChangedFiles, Compute, Succeed, Executing, provider, ApprovalIsEarned, BlockingCommented, Commented, DataLost, DecisionInv, CommentsInv
  <1>6. SuccessIsEarned'
    BY DEF FetchChangedFiles, Compute, Succeed, Executing, provider, SuccessIsEarned, BlockingCommented, Commented, DecisionInv, CommentsInv
  <1> QED
    BY <1>1, <1>2, <1>3, <1>4, <1>5, <1>6 DEF Inv

LEMMA InitialCommentStep ==
    ASSUME Inv, InitialComment
    PROVE  Inv'
  <1> USE PostsAssumption, BoundsAssumption DEF Inv, TypeOK
  <1>1. TypeOK'
    <2>1. effects' \in [Posts -> Nat] /\ effects["initial"] \in Nat
      BY AcceptFacts DEF InitialComment, SucceedAfter, Posts, RunPosts
    <2> QED
      BY <2>1 DEF InitialComment, SucceedAfter, Succeed, Fail, Disturb, Executing
  <1>2. CountsInv'
    BY DEF InitialComment, SucceedAfter, Accept, Succeed, Fail, Disturb, Executing, CountsInv, Pending, StageOf, CommentsInv, Posts, RunPosts
  <1>3. CommentsInv'
    BY DEF InitialComment, SucceedAfter, Accept, Succeed, Fail, Disturb, Executing, CommentsInv, Commented, DataLost, Posts, RunPosts
  <1>4. DecisionInv'
    BY DEF InitialComment, SucceedAfter, Accept, Succeed, Fail, Disturb, Executing, DecisionInv, DataLost
  <1>5. ApprovalIsEarned'
    BY DEF InitialComment, SucceedAfter, Accept, Succeed, Fail, Disturb, Executing, ApprovalIsEarned, BlockingCommented, Commented, DataLost, DecisionInv, CommentsInv, Posts, RunPosts
  <1>6. SuccessIsEarned'
    BY DEF InitialComment, SucceedAfter, Accept, Succeed, Fail, Disturb, Executing, SuccessIsEarned, BlockingCommented, Commented, DecisionInv, CommentsInv, Posts, RunPosts
  <1> QED
    BY <1>1, <1>2, <1>3, <1>4, <1>5, <1>6 DEF Inv

LEMMA ProcessCcrLevelReviewStep ==
    ASSUME Inv, ProcessCcrLevelReview
    PROVE  Inv'
  <1> USE PostsAssumption, BoundsAssumption DEF Inv, TypeOK
  <1>1. TypeOK'
    BY DEF ProcessCcrLevelReview, Compute, Succeed, Executing, provider
  <1>2. CountsInv'
    BY DEF ProcessCcrLevelReview, Compute, Succeed, Executing, provider, CountsInv, Pending, StageOf, CommentsInv
  <1>3. CommentsInv'
    BY DEF ProcessCcrLevelReview, Compute, Succeed, Executing, provider, CommentsInv, Commented, DataLost
  <1>4. DecisionInv'
    BY DEF ProcessCcrLevelReview, Compute, Succeed, Executing, provider, DecisionInv, DataLost
  <1>5. ApprovalIsEarned'
    BY DEF ProcessCcrLevelReview, Compute, Succeed, Executing, provider, ApprovalIsEarned, BlockingCommented, Commented, DataLost, DecisionInv, CommentsInv
  <1>6. SuccessIsEarned'
    BY DEF ProcessCcrLevelReview, Compute, Succeed, Executing, provider, SuccessIsEarned, BlockingCommented, Commented, DecisionInv, CommentsInv
  <1> QED
    BY <1>1, <1>2, <1>3, <1>4, <1>5, <1>6 DEF Inv

LEMMA ProcessFilesReviewStep ==
    ASSUME Inv, ProcessFilesReview
    PROVE  Inv'
  <1> USE PostsAssumption, BoundsAssumption DEF Inv, TypeOK
  <1>1. TypeOK'
    BY DEF ProcessFilesReview, Compute, Succeed, Executing, provider
  <1>2. CountsInv'
    BY DEF ProcessFilesReview, Compute, Succeed, Executing, provider, CountsInv, Pending, StageOf, CommentsInv
  <1>3. CommentsInv'
    BY DEF ProcessFilesReview, Compute, Succeed, Executing, provider, CommentsInv, Commented, DataLost
  <1>4. DecisionInv'
    BY DEF ProcessFilesReview, Compute, Succeed, Executing, provider, DecisionInv, DataLost
  <1>5. ApprovalIsEarned'
    BY DEF ProcessFilesReview, Compute, Succeed, Executing, provider, ApprovalIsEarned, BlockingCommented, Commented, DataLost, DecisionInv, CommentsInv
  <1>6. SuccessIsEarned'
    BY DEF ProcessFilesReview, Compute, Succeed, Executing, provider, SuccessIsEarned, BlockingCommented, Commented, DecisionInv, CommentsInv
  <1> QED
    BY <1>1, <1>2, <1>3, <1>4, <1>5, <1>6 DEF Inv

LEMMA ValidateSuggestionsStep ==
    ASSUME Inv, ValidateSuggestions
    PROVE  Inv'
  <1> USE PostsAssumption, BoundsAssumption DEF Inv, TypeOK
  <1>1. TypeOK'
    BY DEF ValidateSuggestions, Compute, Succeed, Executing, provider
  <1>2. CountsInv'
    BY DEF ValidateSuggestions, Compute, Succeed, Executing, provider, CountsInv, Pending, StageOf, CommentsInv
  <1>3. CommentsInv'
    BY DEF ValidateSuggestions, Compute, Succeed, Executing, provider, CommentsInv, Commented, DataLost
  <1>4. DecisionInv'
    BY DEF ValidateSuggestions, Compute, Succeed, Executing, provider, DecisionInv, DataLost
  <1>5. ApprovalIsEarned'
    BY DEF ValidateSuggestions, Compute, Succeed, Executing, provider, ApprovalIsEarned, BlockingCommented, Commented, DataLost, DecisionInv, CommentsInv
  <1>6. SuccessIsEarned'
    BY DEF ValidateSuggestions, Compute, Succeed, Executing, provider, SuccessIsEarned, BlockingCommented, Commented, DecisionInv, CommentsInv
  <1> QED
    BY <1>1, <1>2, <1>3, <1>4, <1>5, <1>6 DEF Inv

LEMMA GenerateSummaryStep ==
    ASSUME Inv, GenerateSummary
    PROVE  Inv'
  <1> USE PostsAssumption, BoundsAssumption DEF Inv, TypeOK
  <1>1. TypeOK'
    <2>1. effects' \in [Posts -> Nat] /\ effects["summary"] \in Nat
      BY AcceptFacts DEF GenerateSummary, SucceedAfter, Posts, RunPosts
    <2> QED
      BY <2>1 DEF GenerateSummary, SucceedAfter, Succeed, Fail, Disturb, Executing
  <1>2. CountsInv'
    BY DEF GenerateSummary, SucceedAfter, Accept, Succeed, Fail, Disturb, Executing, CountsInv, Pending, StageOf, CommentsInv, Posts, RunPosts
  <1>3. CommentsInv'
    BY DEF GenerateSummary, SucceedAfter, Accept, Succeed, Fail, Disturb, Executing, CommentsInv, Commented, DataLost, Posts, RunPosts
  <1>4. DecisionInv'
    BY DEF GenerateSummary, SucceedAfter, Accept, Succeed, Fail, Disturb, Executing, DecisionInv, DataLost
  <1>5. ApprovalIsEarned'
    BY DEF GenerateSummary, SucceedAfter, Accept, Succeed, Fail, Disturb, Executing, ApprovalIsEarned, BlockingCommented, Commented, DataLost, DecisionInv, CommentsInv, Posts, RunPosts
  <1>6. SuccessIsEarned'
    BY DEF GenerateSummary, SucceedAfter, Accept, Succeed, Fail, Disturb, Executing, SuccessIsEarned, BlockingCommented, Commented, DecisionInv, CommentsInv, Posts, RunPosts
  <1> QED
    BY <1>1, <1>2, <1>3, <1>4, <1>5, <1>6 DEF Inv

LEMMA CheckIsMissingStep ==
    ASSUME Inv, CheckIsMissing
    PROVE  Inv'
  <1> USE PostsAssumption, BoundsAssumption DEF Inv, TypeOK
  <1>1. TypeOK'
    BY DEF CheckIsMissing, Terminate, Executing, provider
  <1>2. CountsInv'
    BY DEF CheckIsMissing, Terminate, Executing, provider, CountsInv, Pending, StageOf, CommentsInv
  <1>3. CommentsInv'
    BY DEF CheckIsMissing, Terminate, Executing, provider, CommentsInv, Commented, DataLost
  <1>4. DecisionInv'
    BY DEF CheckIsMissing, Terminate, Executing, provider, DecisionInv, DataLost
  <1>5. ApprovalIsEarned'
    BY DEF CheckIsMissing, Terminate, Executing, provider, ApprovalIsEarned, BlockingCommented, Commented, DataLost, DecisionInv, CommentsInv
  <1>6. SuccessIsEarned'
    BY DEF CheckIsMissing, Terminate, Executing, provider, SuccessIsEarned, BlockingCommented, Commented, DecisionInv, CommentsInv
  <1> QED
    BY <1>1, <1>2, <1>3, <1>4, <1>5, <1>6 DEF Inv

LEMMA PromptIsRefusedStep ==
    ASSUME Inv, PromptIsRefused
    PROVE  Inv'
  <1> USE PostsAssumption, BoundsAssumption DEF Inv, TypeOK
  <1>1. TypeOK'
    BY DEF PromptIsRefused, Terminate, Disturb, provider, PromptStages
  <1>2. CountsInv'
    BY DEF PromptIsRefused, Terminate, Disturb, provider, PromptStages, CountsInv, Pending, StageOf, CommentsInv
  <1>3. CommentsInv'
    BY DEF PromptIsRefused, Terminate, Disturb, provider, PromptStages, CommentsInv, Commented, DataLost
  <1>4. DecisionInv'
    BY DEF PromptIsRefused, Terminate, Disturb, provider, PromptStages, DecisionInv, DataLost
  <1>5. ApprovalIsEarned'
    BY DEF PromptIsRefused, Terminate, Disturb, provider, PromptStages, ApprovalIsEarned, BlockingCommented, Commented, DataLost, DecisionInv, CommentsInv
  <1>6. SuccessIsEarned'
    BY DEF PromptIsRefused, Terminate, Disturb, provider, PromptStages, SuccessIsEarned, BlockingCommented, Commented, DecisionInv, CommentsInv
  <1> QED
    BY <1>1, <1>2, <1>3, <1>4, <1>5, <1>6 DEF Inv

LEMMA CallFailsStep ==
    ASSUME Inv, CallFails
    PROVE  Inv'
  <1> USE PostsAssumption, BoundsAssumption DEF Inv, TypeOK
  <1>1. TypeOK'
    BY DEF CallFails, Fail, Disturb, provider
  <1>2. CountsInv'
    BY DEF CallFails, Fail, Disturb, provider, CountsInv, Pending, StageOf, CommentsInv
  <1>3. CommentsInv'
    BY DEF CallFails, Fail, Disturb, provider, CommentsInv, Commented, DataLost
  <1>4. DecisionInv'
    BY DEF CallFails, Fail, Disturb, provider, DecisionInv, DataLost
  <1>5. ApprovalIsEarned'
    BY DEF CallFails, Fail, Disturb, provider, ApprovalIsEarned, BlockingCommented, Commented, DataLost, DecisionInv, CommentsInv
  <1>6. SuccessIsEarned'
    BY DEF CallFails, Fail, Disturb, provider, SuccessIsEarned, BlockingCommented, Commented, DecisionInv, CommentsInv
  <1> QED
    BY <1>1, <1>2, <1>3, <1>4, <1>5, <1>6 DEF Inv

LEMMA SaveCompletedCheckpointStep ==
    ASSUME Inv, SaveCompletedCheckpoint
    PROVE  Inv'
  <1> USE PostsAssumption, BoundsAssumption DEF Inv, TypeOK
  <1>1. TypeOK'
    BY DEF SaveCompletedCheckpoint, provider
  <1>2. CountsInv'
    BY DEF SaveCompletedCheckpoint, provider, CountsInv, Pending, StageOf, CommentsInv
  <1>3. CommentsInv'
    BY DEF SaveCompletedCheckpoint, provider, CommentsInv, Commented, DataLost
  <1>4. DecisionInv'
    BY DEF SaveCompletedCheckpoint, provider, DecisionInv, DataLost
  <1>5. ApprovalIsEarned'
    BY DEF SaveCompletedCheckpoint, provider, ApprovalIsEarned, BlockingCommented, Commented, DataLost, DecisionInv, CommentsInv
  <1>6. SuccessIsEarned'
    BY DEF SaveCompletedCheckpoint, provider, SuccessIsEarned, BlockingCommented, Commented, DecisionInv, CommentsInv
  <1> QED
    BY <1>1, <1>2, <1>3, <1>4, <1>5, <1>6 DEF Inv

LEMMA RetryStep ==
    ASSUME Inv, Retry
    PROVE  Inv'
  <1> USE PostsAssumption, BoundsAssumption DEF Inv, TypeOK
  <1>1. TypeOK'
    BY DEF Retry, provider
  <1>2. CountsInv'
    BY DEF Retry, provider, CountsInv, Pending, StageOf, CommentsInv
  <1>3. CommentsInv'
    BY DEF Retry, provider, CommentsInv, Commented, DataLost
  <1>4. DecisionInv'
    BY DEF Retry, provider, DecisionInv, DataLost
  <1>5. ApprovalIsEarned'
    BY DEF Retry, provider, ApprovalIsEarned, BlockingCommented, Commented, DataLost, DecisionInv, CommentsInv
  <1>6. SuccessIsEarned'
    BY DEF Retry, provider, SuccessIsEarned, BlockingCommented, Commented, DecisionInv, CommentsInv
  <1> QED
    BY <1>1, <1>2, <1>3, <1>4, <1>5, <1>6 DEF Inv

LEMMA LoseStep ==
    ASSUME Inv, Lose
    PROVE  Inv'
  <1> USE PostsAssumption, BoundsAssumption DEF Inv, TypeOK
  <1>1. TypeOK'
    BY DEF Lose, Disturb, NoData, provider
  <1>2. CountsInv'
    BY DEF Lose, Disturb, NoData, provider, CountsInv, Pending, StageOf, CommentsInv
  <1>3. CommentsInv'
    BY DEF Lose, Disturb, NoData, provider, CommentsInv, Commented, DataLost
  <1>4. DecisionInv'
    BY DEF Lose, Disturb, NoData, provider, DecisionInv, DataLost
  <1>5. ApprovalIsEarned'
    BY DEF Lose, Disturb, NoData, provider, ApprovalIsEarned, BlockingCommented, Commented, DataLost, DecisionInv, CommentsInv
  <1>6. SuccessIsEarned'
    BY DEF Lose, Disturb, NoData, provider, SuccessIsEarned, BlockingCommented, Commented, DecisionInv, CommentsInv
  <1> QED
    BY <1>1, <1>2, <1>3, <1>4, <1>5, <1>6 DEF Inv

\* A loop posts something it has not posted yet, or has posted everything.
LEMMA PostEachStep ==
    ASSUME Inv, NEW posts \in SUBSET (Suggestions \union Categories), pc = "run",
           \A p \in posts : StageOf(p) = at,
           at = CreateCcrLevelCommentsStage => posts \intersect Suggestions = {},
           at = CreateFileCommentsStage => posts \subseteq data.suggestions,
           at \in {CreateCcrLevelCommentsStage, CreateFileCommentsStage},
           PostEach(posts)
    PROVE  Inv'
  <1> USE PostsAssumption, BoundsAssumption DEF Inv, TypeOK
  <1>1. PICK post \in posts \ posted :
            /\ Accept(post)
            /\ \/ /\ posted' = posted \union {post}
                  /\ UNCHANGED <<at, pc, data, attempt, disturbances>>
               \/ Fail
            /\ UNCHANGED <<autoApprove, lastDecision, conclusions>>
    BY DEF PostEach
  <1>2. /\ effects' \in [Posts -> Nat]
        /\ effects'[post] = effects[post] + 1
        /\ \A q \in Posts \ {post} : effects'[q] = effects[q]
        /\ post \in Posts
    BY <1>1, AcceptFacts DEF Posts
  <1>3. /\ at' = at /\ data' = data
        /\ attempt' \in 1..MaxCheckUpdateAttempts
        /\ \/ pc' = pc /\ posted' = posted \union {post} /\ disturbances' = disturbances
           \/ /\ pc' = "failed" /\ posted' = {} /\ disturbances' = disturbances + 1
              /\ disturbances < MaxDisturbances
        /\ UNCHANGED <<autoApprove, lastDecision, conclusions>>
    BY <1>1 DEF Fail, Disturb
  <1>4. TypeOK'
    BY <1>2, <1>3
  <1>5. CountsInv'
    <2> SUFFICES ASSUME NEW p \in Posts
                 PROVE  effects'[p] <= disturbances' + (IF Pending(p)' THEN 0 ELSE 1)
      BY DEF CountsInv
    <2>1. effects[p] <= disturbances + (IF Pending(p) THEN 0 ELSE 1)
      BY DEF CountsInv
    <2>2. CASE p = post
      <3>1. Pending(p)
        BY <2>2 DEF Pending
      <3> QED
        BY <1>2, <1>3, <2>1, <2>2, <3>1 DEF Pending
    <2>3. CASE p # post
      BY <1>2, <1>3, <2>1, <2>3 DEF Pending, StageOf
    <2> QED
      BY <2>2, <2>3
  <1>6. Commented' \subseteq Commented \union (posts \intersect Suggestions) /\ Commented \subseteq Commented'
    BY <1>2 DEF Commented, Posts
  <1>7. CommentsInv'
    BY <1>2, <1>3, <1>6 DEF CommentsInv, DataLost, Posts
  <1>8. DecisionInv' /\ lastDecision'.verdict = "none" /\ conclusions' = {}
    BY <1>3 DEF DecisionInv, DataLost
  <1>9. ApprovalIsEarned' /\ SuccessIsEarned'
    BY <1>8 DEF ApprovalIsEarned, SuccessIsEarned
  <1> QED
    BY <1>4, <1>5, <1>7, <1>8, <1>9 DEF Inv

LEMMA AllPostedStep ==
    ASSUME Inv, NEW posts \in SUBSET (Suggestions \union Categories), pc = "run",
           at \in {CreateCcrLevelCommentsStage, CreateFileCommentsStage},
           at = CreateFileCommentsStage => posts = data.suggestions,
           AllPosted(posts)
    PROVE  Inv'
  <1> USE PostsAssumption, BoundsAssumption DEF Inv, TypeOK
  <1>1. /\ at' = at /\ data' = data /\ pc' = "saving" /\ posted' = {} /\ attempt' = 1
        /\ posts \subseteq posted
        /\ UNCHANGED <<disturbances, autoApprove, effects, lastDecision, conclusions>>
    BY DEF AllPosted, Succeed, provider
  <1>2. TypeOK'
    BY <1>1
  <1>3. CountsInv'
    BY <1>1 DEF CountsInv, Pending, StageOf
  <1>4. CommentsInv'
    BY <1>1 DEF CommentsInv, Commented, DataLost
  <1>5. DecisionInv' /\ lastDecision'.verdict = "none" /\ conclusions' = {}
    BY <1>1 DEF DecisionInv, DataLost
  <1>6. ApprovalIsEarned' /\ SuccessIsEarned'
    BY <1>5 DEF ApprovalIsEarned, SuccessIsEarned
  <1> QED
    BY <1>2, <1>3, <1>4, <1>5, <1>6 DEF Inv

LEMMA CreateCcrLevelCommentsStep ==
    ASSUME Inv, CreateCcrLevelComments
    PROVE  Inv'
  <1>1. /\ pc = "run" /\ at = CreateCcrLevelCommentsStage
        /\ data.ccr \in SUBSET Categories
        /\ PostEach(data.ccr) \/ AllPosted(data.ccr)
    BY DEF CreateCcrLevelComments, Executing, Inv, TypeOK
  <1>2. \A p \in data.ccr : StageOf(p) = at
    BY <1>1, PostsAssumption DEF StageOf, RunPosts
  <1>3. data.ccr \intersect Suggestions = {}
    BY <1>1, PostsAssumption
  <1> QED
    BY <1>1, <1>2, <1>3, PostEachStep, AllPostedStep

LEMMA CreateFileCommentsStep ==
    ASSUME Inv, CreateFileComments
    PROVE  Inv'
  <1>1. /\ pc = "run" /\ at = CreateFileCommentsStage
        /\ data.suggestions \in SUBSET Suggestions
        /\ PostEach(data.suggestions) \/ AllPosted(data.suggestions)
    BY DEF CreateFileComments, Executing, Inv, TypeOK
  <1>2. \A p \in data.suggestions : StageOf(p) = at
    BY <1>1, PostsAssumption DEF StageOf, RunPosts
  <1> QED
    BY <1>1, <1>2, PostEachStep, AllPostedStep

LEMMA RequestChangesOrApproveStep ==
    ASSUME Inv, RequestChangesOrApprove
    PROVE  Inv'
  <1> USE PostsAssumption, BoundsAssumption DEF Inv, TypeOK
  <1> DEFINE new(verdict) == [data EXCEPT !.decision = verdict]
  <1>1. PICK blocking \in BlockingSettings \union {DefaultBlocking} :
            LET verdict == Verdict(data.suggestions, blocking)
            IN  /\ SucceedAfter("decision", new(verdict))
                /\ lastDecision' = [verdict |-> verdict, blocking |-> blocking]
    BY DEF RequestChangesOrApprove
  <1> DEFINE verdict == Verdict(data.suggestions, blocking)
  <1>2. /\ verdict \in {"approved", "changes_requested"}
        /\ verdict = "approved" => \A s \in data.suggestions : Severity[s] \notin blocking
    BY DEF Verdict
  <1>3. pc = "run" /\ at = RequestChangesOrApproveStage
    BY DEF RequestChangesOrApprove, Executing
  <1>4. /\ effects' \in [Posts -> Nat]
        /\ effects'["decision"] = effects["decision"] + 1
        /\ \A q \in Posts \ {"decision"} : effects'[q] = effects[q]
        /\ Commented' = Commented
    BY <1>1, AcceptFacts, CommentedStays DEF SucceedAfter, Posts, RunPosts
  <1>5. /\ new(verdict) \in [checkId : Nat, files : BOOLEAN, suggestions : SUBSET Suggestions,
                           ccr : SUBSET Categories,
                           decision : {"none", "approved", "changes_requested"}]
        /\ new(verdict).checkId = data.checkId
        /\ new(verdict).suggestions = data.suggestions
        /\ new(verdict).decision = verdict
    BY <1>2
  <1> HIDE DEF verdict, new
  <1>6. /\ lastDecision' = [verdict |-> verdict, blocking |-> blocking]
        /\ at' = at /\ posted' = {} /\ attempt' = 1
        /\ \/ pc' = "saving" /\ data' = new(verdict) /\ disturbances' = disturbances
           \/ /\ pc' = "failed" /\ data' = data /\ disturbances' = disturbances + 1
              /\ disturbances < MaxDisturbances
        /\ UNCHANGED <<autoApprove, conclusions>>
    BY <1>1 DEF SucceedAfter, Succeed, Fail, Disturb, verdict
  <1>7. /\ data'.checkId = data.checkId /\ data'.suggestions = data.suggestions
        /\ pc' = "saving" => data'.decision = verdict
    BY <1>5, <1>6
  <1>8. TypeOK'
    BY <1>2, <1>4, <1>5, <1>6
  <1>9. CountsInv'
    <2> SUFFICES ASSUME NEW p \in Posts
                 PROVE  effects'[p] <= disturbances' + (IF Pending(p)' THEN 0 ELSE 1)
      BY DEF CountsInv
    <2>1. effects[p] <= disturbances + (IF Pending(p) THEN 0 ELSE 1)
      BY DEF CountsInv
    <2>2. CASE p = "decision"
      <3>1. Pending(p)
        BY <1>3, <2>2 DEF Pending, StageOf, CommentsInv, RunPosts
      <3> QED
        BY <1>3, <1>4, <1>6, <2>1, <2>2, <3>1 DEF Pending, StageOf
    <2>3. CASE p # "decision"
      BY <1>4, <1>6, <2>1, <2>3 DEF Pending, StageOf
    <2> QED
      BY <2>2, <2>3
  <1>10. CommentsInv'
    BY <1>3, <1>4, <1>6, <1>7 DEF CommentsInv, DataLost
  <1>11. DecisionInv'
    BY <1>2, <1>3, <1>6, <1>7 DEF DecisionInv, DataLost
  <1>12. ApprovalIsEarned'
    BY <1>2, <1>3, <1>4, <1>6, <1>7 DEF ApprovalIsEarned, BlockingCommented, CommentsInv, DataLost
  <1>13. SuccessIsEarned'
    BY <1>3, <1>6 DEF SuccessIsEarned, DecisionInv
  <1> QED
    BY <1>8, <1>9, <1>10, <1>11, <1>12, <1>13 DEF Inv

LEMMA FinalizeCheckStep ==
    ASSUME Inv, FinalizeCheck
    PROVE  Inv'
  <1> USE PostsAssumption, BoundsAssumption DEF Inv, TypeOK
  <1>1. /\ pc = "run" /\ at = FinalizeCheckStage /\ data.checkId # 0
        /\ UNCHANGED <<at, data, autoApprove, effects, lastDecision>>
        /\ attempt' \in 1..MaxCheckUpdateAttempts
        /\ \/ posted' = {} /\ pc' = "saving" /\ disturbances' = disturbances
           \/ posted' \in {{}, posted} /\ pc' \in {"run", "failed"}
              /\ disturbances' = disturbances + 1 /\ disturbances < MaxDisturbances
    BY DEF FinalizeCheck, Executing, Succeed, UpdateFails, LastUpdateFails, Fail, Disturb
  <1>2. \/ conclusions' = conclusions
        \/ conclusions' = conclusions \union
              {[check |-> data.checkId, conclusion |-> Conclusion(data.decision)]}
    BY DEF FinalizeCheck
  <1>3. TypeOK'
    BY <1>1, <1>2 DEF Conclusion
  <1>4. CountsInv'
    BY <1>1 DEF CountsInv, Pending, StageOf
  <1>5. CommentsInv'
    BY <1>1 DEF CommentsInv, Commented, DataLost
  <1>6. DecisionInv'
    BY <1>1 DEF DecisionInv, DataLost
  <1>7. ApprovalIsEarned'
    BY <1>1 DEF ApprovalIsEarned, BlockingCommented, Commented, DataLost
  <1>8. SuccessIsEarned'
    <2>1. /\ data.decision = lastDecision.verdict /\ data.decision # "none"
          /\ data.suggestions \subseteq Commented
          /\ lastDecision.verdict = "approved" => ~BlockingCommented
      BY <1>1 DEF DecisionInv, CommentsInv, ApprovalIsEarned, DataLost
    <2>2. BlockingCommented' = BlockingCommented /\ Commented' = Commented
      BY <1>1 DEF BlockingCommented, Commented
    <2> QED
      BY <1>1, <1>2, <2>1, <2>2 DEF SuccessIsEarned, Conclusion
  <1> QED
    BY <1>3, <1>4, <1>5, <1>6, <1>7, <1>8 DEF Inv

-----------------------------------------------------------------------------
(* Theorems *)

LEMMA StepInv == Inv /\ [Next]_vars => Inv'
  <1> SUFFICES ASSUME Inv, [Next]_vars PROVE Inv'
    OBVIOUS
  <1>1. CASE UNCHANGED vars
    BY <1>1 DEF vars, provider, Inv, TypeOK, CountsInv, Pending, CommentsInv, DecisionInv,
                ApprovalIsEarned, SuccessIsEarned, BlockingCommented, Commented, DataLost
  <1>2. CASE Proceed
    BY <1>2, CreateCheckStep, FetchChangedFilesStep, InitialCommentStep, ProcessCcrLevelReviewStep,
       ProcessFilesReviewStep, CreateCcrLevelCommentsStep, ValidateSuggestionsStep,
       CreateFileCommentsStep, GenerateSummaryStep, RequestChangesOrApproveStep, FinalizeCheckStep,
       CheckIsMissingStep, SaveCompletedCheckpointStep, RetryStep
    DEF Proceed
  <1>3. CASE PromptIsRefused \/ CallFails \/ Lose
    BY <1>3, PromptIsRefusedStep, CallFailsStep, LoseStep
  <1> QED
    BY <1>1, <1>2, <1>3 DEF Next

LEMMA Invariance == Spec => []Inv
  BY InitInv, StepInv, PTL DEF Spec

\* Type correctness, the bound on the updates of a check included.
THEOREM TypeCorrect == Spec => []TypeOK
  <1>1. Inv => TypeOK
    BY DEF Inv
  <1> QED
    BY <1>1, Invariance, PTL

\* No decision "approved" stands above a blocking comment of a run that kept its
\* stage data.
THEOREM ApprovalCorrect == Spec => []ApprovalIsEarned
  <1>1. Inv => ApprovalIsEarned
    BY DEF Inv
  <1> QED
    BY <1>1, Invariance, PTL

\* The conclusion of a check is that of the last decision, and "success" never
\* stands above a blocking comment.
THEOREM SuccessCorrect == Spec => []SuccessIsEarned
  <1>1. Inv => SuccessIsEarned
    BY DEF Inv
  <1> QED
    BY <1>1, Invariance, PTL

\* No post is repeated more often than there were disturbances.
THEOREM RepeatsCorrect == Spec => []RepeatsAreEarned
  <1>1. Inv => RepeatsAreEarned
    BY DEF Inv, TypeOK, CountsInv, RepeatsAreEarned
  <1> QED
    BY <1>1, Invariance, PTL
-----------------------------------------------------------------------------
(* A run ends, and for a reason.  ReviewConcludes is the liveness property    *)
(* TLC checks; these are what it rests on besides fairness.                   *)

\* A run that is ended for good had its prompt refused or was resumed without
\* its check id, and a run that is done has a check that it concluded.
EndIsEarned ==
    /\ pc = "terminal" => DataLost \/ at \in PromptStages
    /\ pc = "done" => /\ at = FinalizeCheckStage
                      /\ \E c \in conclusions : c.check = data.checkId

\* The stage that concludes the check has concluded it when it is completed.
ConcludedInv ==
    at = FinalizeCheckStage /\ pc = "saving" => \E c \in conclusions : c.check = data.checkId

\* How far the execution of a stage has come.
StepNumber(p) == CASE p = "failed" -> 1
                   [] p = "run" -> 2
                   [] p = "saving" -> 3
                   [] p = "terminal" -> 4
                   [] p = "done" -> 4

\* The run gets on: to a later stage, a later step of its stage, or one more
\* comment of its loop.
Advance ==
    \/ at' > at
    \/ /\ at' = at
       /\ StepNumber(pc') > StepNumber(pc)
    \/ /\ at' = at
       /\ pc' = pc
       /\ \E p \in Posts \ posted : posted' = posted \union {p}

\* Every step uses up a disturbance or gets the run on.  There are finitely many
\* stages, steps, posts and disturbances: no retry and no resume leads round in
\* circles.
StagesAdvance ==
    [][\/ disturbances' = disturbances + 1
       \/ disturbances' = disturbances /\ Advance]_vars

EndInv == EndIsEarned /\ ConcludedInv

LEMMA EndInit == Init => EndInv
  BY DEF Init, EndInv, EndIsEarned, ConcludedInv

\* The conclusion that Conclusion and the check's id make.
LEMMA FinalizeCheckConcludes ==
    ASSUME FinalizeCheck
    PROVE  /\ UNCHANGED <<at, data>>
           /\ pc' \in {"run", "saving", "failed"}
           /\ pc' = "saving" => \E c \in conclusions' : c.check = data.checkId
  <1> DEFINE c == [check |-> data.checkId, conclusion |-> Conclusion(data.decision)]
  <1>1. /\ UNCHANGED <<at, data>>
        /\ pc' \in {"run", "saving", "failed"}
        /\ pc' = "saving" => conclusions' = conclusions \union {c}
    BY DEF FinalizeCheck, Executing, Succeed, UpdateFails, LastUpdateFails, Fail
  <1>2. c.check = data.checkId
    OBVIOUS
  <1> QED
    BY <1>1, <1>2

LEMMA EndStep == EndInv /\ [Next]_vars => EndInv'
  <1> SUFFICES ASSUME EndInv, [Next]_vars PROVE EndInv'
    OBVIOUS
  <1> USE DEF EndInv, EndIsEarned, ConcludedInv
  <1>1. CASE UNCHANGED vars
    BY <1>1 DEF vars, provider, DataLost
  <1>2. CASE \/ CreateCheck \/ FetchChangedFiles \/ InitialComment \/ ProcessCcrLevelReview
             \/ ProcessFilesReview \/ CreateCcrLevelComments \/ ValidateSuggestions
             \/ CreateFileComments \/ GenerateSummary \/ RequestChangesOrApprove
    <2>1. pc = "run" /\ at # FinalizeCheckStage
      BY <1>2 DEF CreateCheck, FetchChangedFiles, InitialComment, ProcessCcrLevelReview,
                  ProcessFilesReview, CreateCcrLevelComments, ValidateSuggestions,
                  CreateFileComments, GenerateSummary, RequestChangesOrApprove, Executing
    <2>2. CASE CreateCcrLevelComments \/ CreateFileComments
      BY <2>1, <2>2 DEF CreateCcrLevelComments, CreateFileComments, PostEach, AllPosted, Succeed,
                        Fail
    <2>3. CASE ~(CreateCcrLevelComments \/ CreateFileComments)
      <3>1. \E new : Succeed(new) \/ Fail
        BY <1>2, <2>3 DEF CreateCheck, FetchChangedFiles, InitialComment, ProcessCcrLevelReview,
                    ProcessFilesReview, ValidateSuggestions, GenerateSummary,
                    RequestChangesOrApprove, SucceedAfter, Compute
      <3> QED
        BY <2>1, <3>1 DEF Succeed, Fail
    <2> QED
      BY <2>2, <2>3
  <1>3. CASE FinalizeCheck
    BY <1>3, FinalizeCheckConcludes
  <1>4. CASE CheckIsMissing
    BY <1>4 DEF CheckIsMissing, Terminate, Executing, DataLost
  <1>5. CASE SaveCompletedCheckpoint
    BY <1>5 DEF SaveCompletedCheckpoint, provider
  <1>6. CASE Retry \/ CallFails \/ Lose
    BY <1>6 DEF Retry, CallFails, Fail, Lose
  <1>7. CASE PromptIsRefused
    BY <1>7 DEF PromptIsRefused, Terminate
  <1> QED
    BY <1>1, <1>2, <1>3, <1>4, <1>5, <1>6, <1>7 DEF Next, Proceed

\* A run ends for good only when its prompt is refused or it has lost its check
\* id, and whenever it is done its check is concluded.
THEOREM EndCorrect == Spec => []EndIsEarned
  <1>1. EndInv => EndIsEarned
    BY DEF EndInv
  <1> QED
    BY <1>1, EndInit, EndStep, PTL DEF Spec

\* What a run posts in its loops are posts.
LEMMA LoopPosts == TypeOK => data.ccr \subseteq Posts /\ data.suggestions \subseteq Posts
  BY DEF TypeOK, Posts

LEMMA SucceedAdvances ==
    ASSUME NEW new, pc = "run", Succeed(new) \/ Fail
    PROVE  \/ disturbances' = disturbances + 1
           \/ disturbances' = disturbances /\ Advance
  BY DEF Succeed, Fail, Disturb, Advance, StepNumber

LEMMA PostEachAdvances ==
    ASSUME NEW posts \in SUBSET Posts, PostEach(posts)
    PROVE  \/ disturbances' = disturbances + 1
           \/ disturbances' = disturbances /\ Advance
  BY DEF PostEach, Fail, Disturb, Advance

LEMMA StepAdvances ==
    ASSUME TypeOK, Next
    PROVE  \/ disturbances' = disturbances + 1
           \/ disturbances' = disturbances /\ Advance
  <1>1. CASE \/ CreateCheck \/ FetchChangedFiles \/ InitialComment \/ ProcessCcrLevelReview
             \/ ProcessFilesReview \/ ValidateSuggestions \/ GenerateSummary
             \/ RequestChangesOrApprove
    <2>1. pc = "run" /\ \E new : Succeed(new) \/ Fail
      BY <1>1 DEF CreateCheck, FetchChangedFiles, InitialComment, ProcessCcrLevelReview,
                  ProcessFilesReview, ValidateSuggestions, GenerateSummary,
                  RequestChangesOrApprove, Executing, SucceedAfter, Compute
    <2> QED
      BY <2>1, SucceedAdvances
  <1>2. CASE CreateCcrLevelComments
    BY <1>2, LoopPosts, PostEachAdvances, SucceedAdvances
    DEF CreateCcrLevelComments, AllPosted, Executing
  <1>3. CASE CreateFileComments
    BY <1>3, LoopPosts, PostEachAdvances, SucceedAdvances
    DEF CreateFileComments, AllPosted, Executing
  <1>4. CASE FinalizeCheck
    <2>1. pc = "run" /\ (Succeed(data) \/ Fail \/ disturbances' = disturbances + 1)
      BY <1>4 DEF FinalizeCheck, Executing, UpdateFails, LastUpdateFails, Disturb
    <2> QED
      BY <2>1, SucceedAdvances
  <1>5. CASE CheckIsMissing
    BY <1>5 DEF CheckIsMissing, Terminate, Executing, Advance, StepNumber
  <1>6. CASE SaveCompletedCheckpoint
    <2>1. at \in Nat
      BY DEF TypeOK
    <2>2. /\ disturbances' = disturbances /\ pc = "saving"
          /\ \/ pc' = "done" /\ at' = at
             \/ at' = at + 1
      BY <1>6 DEF SaveCompletedCheckpoint
    <2> QED
      BY <2>1, <2>2 DEF Advance, StepNumber
  <1>7. CASE Retry
    BY <1>7 DEF Retry, Advance, StepNumber
  <1>8. CASE PromptIsRefused \/ CallFails \/ Lose
    BY <1>8 DEF PromptIsRefused, CallFails, Fail, Lose, Disturb
  <1> QED
    BY <1>1, <1>2, <1>3, <1>4, <1>5, <1>6, <1>7, <1>8 DEF Next, Proceed

\* Every step of a run uses up a disturbance or gets it on.
THEOREM AdvanceCorrect == Spec => StagesAdvance
  <1>1. TypeOK /\ [Next]_vars =>
            [\/ disturbances' = disturbances + 1
             \/ disturbances' = disturbances /\ Advance]_vars
    BY StepAdvances
  <1> QED
    BY <1>1, TypeCorrect, PTL DEF Spec, StagesAdvance
=============================================================================
