------------------------------ MODULE PostStart ------------------------------
(***************************************************************************)
(* orchestration/implementation/post-start.ts: what follows when the       *)
(* patches of a run are in the primary worktree.  Final verification, the  *)
(* fix loop when it fails, code review, and the completion of the          *)
(* workflow, each recorded in run.json as it is done.                      *)
(*                                                                         *)
(* Times are compared only to tell a record that is older than what it     *)
(* speaks of, so each such comparison is one flag.  The verification       *)
(* command and the reviewers are external.  No caller passes a fixHandler, *)
(* skipVerification or skipReview, so these are left out.                  *)
(***************************************************************************)
EXTENDS Naturals, FiniteSets

CONSTANTS
    Group,          \* execution groups of the plan
    MaxWork,        \* bound: patches made for one group
    Commands        \* where a verification command may come from

ASSUME PostStartAssumption ==
    /\ IsFiniteSet(Group)
    /\ MaxWork \in Nat \ {0}
    /\ Commands \subseteq {"repo", "plan", "none"}

VARIABLES
    command,    \* "repo": settings or auto-detected, "plan": verification.md only
    phase,      \* run.json: phase
    applyBack,  \* ... applyBack.status
    verified,   \* ... verification.status
    verStale,   \* it is older than applyBack.completedAt
    review,     \* ... codeReview: "none", "pass" or "fail"
    revStale,   \* it is older than verification.completedAt
    closed,     \* plan-state.json: lifecycleState is completed
    tree,       \* the primary worktree: which patch of each group it holds
    pc,         \* where the command under way is
    passedOn,   \* ghost: the tree that the recorded verification has passed on, if it has
    waved,      \* ghost: that record is a fix loop's that had no command to run
    reviewedOn, \* ghost: the tree as it was at the last review that passed
    shipped,    \* ghost: the tree as it was at completion
    torn        \* ghost: an apply-back was cut short after the last verification

recordVars == <<phase, applyBack, verified, verStale, review, revStale, closed>>
postGhosts == <<passedOn, waved, reviewedOn, shipped, torn>>
postVars == <<command, recordVars, tree, pc, postGhosts>>

Versions == 0..MaxWork
Trees == [Group -> Versions]
Empty == [g \in Group |-> 0]
NoTree == [g \in Group |-> MaxWork + 1]

Phases == {"executing", "partial", "applying", "completed", "failed",
           "apply-back-conflicted", "verification-failed",
           "verification-skipped", "review-failed"}
Points == {"idle", "wave", "applying", "mark", "rerun", "rerunDone", "decide",
           "post", "verify", "fixLoop", "review", "reviewOnly", "complete"}

PostTypeOK ==
    /\ command \in Commands
    /\ phase \in Phases
    /\ applyBack \in {"pending", "in-progress", "completed", "conflicted", "rolled-back"}
    /\ verified \in {"none", "passed", "failed", "skipped"}
    /\ verStale \in BOOLEAN
    /\ review \in {"none", "pass", "fail"}
    /\ revStale \in BOOLEAN
    /\ closed \in BOOLEAN
    /\ tree \in Trees
    /\ pc \in Points
    /\ passedOn \in Trees \cup {NoTree}
    /\ waved \in BOOLEAN
    /\ reviewedOn \in Trees \cup {NoTree}
    /\ shipped \in Trees \cup {NoTree}
    /\ torn \in BOOLEAN

PostInit ==
    /\ command \in Commands
    /\ phase = "executing" /\ applyBack = "pending"
    /\ verified = "none" /\ verStale = FALSE
    /\ review = "none" /\ revStale = FALSE
    /\ closed = FALSE
    /\ tree = Empty
    /\ passedOn = NoTree /\ waved = FALSE
    /\ reviewedOn = NoTree /\ shipped = NoTree /\ torn = FALSE

Goto(p) == pc' = p

\* An apply-back, or the completion, records its completedAt.
VerificationStays == UNCHANGED verStale
NewerApplyBack == verStale' = (verified \in {"passed", "failed"})

UndoneApplyBack == applyBack \in {"conflicted", "rolled-back"}

\* runImplementationPostStartSequence: not on top of a failed apply-back.
PostBegin ==
    /\ pc = "post"
    /\ IF UndoneApplyBack
       THEN phase' = "apply-back-conflicted" /\ Goto("idle")
       ELSE phase' = "executing" /\ Goto("verify")
    /\ UNCHANGED <<command, applyBack, verified, verStale, review, revStale, closed,
                   tree, postGhosts>>

\* resolveVerificationCommand: a repo setting, the plan's verification.md, and
\* what the repository lets one guess.
NoCommand == command = "none"

\* A passing verification forgets the review of what was there before.
RecordPass ==
    /\ verified' = "passed" /\ verStale' = FALSE
    /\ review' = "none" /\ revStale' = FALSE
RecordFailure ==
    /\ verified' = "failed" /\ verStale' = FALSE
    /\ revStale' = (review # "none") /\ UNCHANGED review

\* finalizeVerification.  Without any command the run waits for the user.
SkipVerify ==
    /\ pc = "verify" /\ NoCommand
    /\ verified' = "skipped" /\ verStale' = FALSE /\ revStale' = FALSE
    /\ phase' = "verification-skipped"
    /\ Goto("idle")
    /\ UNCHANGED <<command, applyBack, review, closed, tree, postGhosts>>

VerifyPasses ==
    /\ pc = "verify" /\ ~NoCommand
    /\ RecordPass
    /\ passedOn' = tree /\ waved' = FALSE /\ torn' = FALSE
    /\ Goto("review")
    /\ UNCHANGED <<command, phase, applyBack, closed, tree, reviewedOn, shipped>>

VerifyFails ==
    /\ pc = "verify" /\ ~NoCommand
    /\ RecordFailure
    /\ Goto("fixLoop")
    /\ passedOn' = NoTree /\ waved' = FALSE
    /\ UNCHANGED <<command, phase, applyBack, closed, tree, reviewedOn, shipped, torn>>

\* runVerificationFixLoop resolves its command without the plan's, and without
\* any it counts as passed.
LoopHasCommand == command = "repo"

LoopPasses ==
    /\ pc = "fixLoop"
    /\ RecordPass
    /\ passedOn' = tree /\ waved' = ~LoopHasCommand /\ torn' = FALSE
    /\ Goto("review")
    /\ UNCHANGED <<command, phase, applyBack, closed, tree, reviewedOn, shipped>>

\* Three verifications or a quarter of an hour later: the fix handler is the
\* default one, which fixes nothing.
LoopFails ==
    /\ pc = "fixLoop" /\ LoopHasCommand
    /\ RecordFailure
    /\ phase' = "verification-failed"
    /\ Goto("idle")
    /\ passedOn' = NoTree /\ waved' = FALSE
    /\ UNCHANGED <<command, applyBack, closed, tree, reviewedOn, shipped, torn>>

\* finalizeCodeReview.  Without a review service it passes and records nothing,
\* and a record that cannot be written is not missed.
ReviewPasses ==
    /\ pc \in {"review", "reviewOnly"}
    /\ \/ review' = "pass" /\ revStale' = FALSE
       \/ UNCHANGED <<review, revStale>>
    /\ reviewedOn' = tree
    /\ phase' = IF pc = "review" THEN "completed" ELSE phase
    /\ Goto("complete")
    /\ UNCHANGED <<command, applyBack, verified, verStale, closed, tree, passedOn,
                   waved, shipped, torn>>

\* A critical or major finding, a required reviewer that failed, a NO-GO, or an
\* error of the service, which records nothing.
ReviewFails ==
    /\ pc \in {"review", "reviewOnly"}
    /\ \/ review' = "fail" /\ revStale' = FALSE
       \/ UNCHANGED <<review, revStale>>
    /\ phase' = "review-failed"
    /\ Goto("idle")
    /\ UNCHANGED <<command, applyBack, verified, verStale, closed, tree, postGhosts>>

\* completeWorkflow: run.json, plan-state.json and the index.
Complete ==
    /\ pc = "complete"
    /\ Goto("idle")
    /\ IF UndoneApplyBack
       THEN UNCHANGED <<phase, applyBack, verStale, closed, shipped>>
       ELSE /\ phase' = "completed" /\ closed' = TRUE /\ shipped' = tree
            /\ IF applyBack = "completed" THEN UNCHANGED <<applyBack, verStale>>
               ELSE applyBack' = "completed" /\ NewerApplyBack
    /\ UNCHANGED <<command, verified, review, revStale, tree, passedOn, waved, reviewedOn,
                   torn>>

PostNext ==
    \/ PostBegin \/ SkipVerify \/ VerifyPasses \/ VerifyFails
    \/ LoopPasses \/ LoopFails \/ ReviewPasses \/ ReviewFails \/ Complete

-----------------------------------------------------------------------------
(* Properties                                                              *)

\* A workflow is completed on a worktree that a verification was recorded as passed
\* for and a review has passed, both as it is then: neither an apply-back nor a worker
\* touched it in between, however often the run was resumed, a process that died within
\* an apply-back excepted.  And a command did pass on it: only of one that the plan
\* alone names can the record be a fix loop's that had none to run.
CompletedIsVouchedFor ==
    closed => torn \/ /\ shipped = passedOn /\ shipped = reviewedOn
                      /\ waved => command = "plan"
=============================================================================
