------------------------------ MODULE PlanReview ------------------------------
(***************************************************************************)
(* The plan review (pi-zflow-review, plan-review.ts): reviewers chosen by  *)
(* the review tags of the plan's groups read it in parallel, each tried    *)
(* again when it fails; their findings decide whether the plan is          *)
(* approved, sent back as a new version, or put before the user.           *)
(* The reviewers and what resolves their lanes are external.               *)
(***************************************************************************)
EXTENDS Naturals, SequencesExt, Sublists

CONSTANTS
    PlanReviewers,  \* the reviewers there are, in the order of their tiers
    Core,           \* the required ones, which every tier has
    MaxRetries,     \* retryPolicy.maxRetries
    MaxVersion      \* bound: versions of the plan

ASSUME PlanReviewAssumption ==
    /\ PlanReviewers \in Seq(ToSet(PlanReviewers)) /\ PlanReviewers # <<>> /\ IsInjective(PlanReviewers)
    /\ Core \subseteq ToSet(PlanReviewers) /\ Core # {}
    /\ MaxRetries \in Nat /\ MaxVersion \in Nat \ {0}

VARIABLES
    planReview,     \* where the review is
    version,        \* the plan's version
    tags,           \* its groups have review tags
    tries,          \* of each reviewer
    answers,        \* what each reviewer came to: "open", "failed", "skipped", or
                    \* the worst thing it found
    manifest,       \* the status of each reviewer
    blamed,         \* the reviewer that each one's failure is put down to
    outputs,        \* reviewerOutputs: the worst thing in the output of each
    toRerun,        \* requiredFailures not tried again yet
    resolved,       \* allResolved
    verdict         \* of the last review: "none", "approve", "revise", "ask"

planReviewVars ==
    <<planReview, version, tags, tries, answers, manifest, blamed, outputs, toRerun, resolved,
      verdict>>

Names == ToSet(PlanReviewers)
Grades == {"nothing", "minor", "major", "critical"}

PlanReviewTypeOK ==
    /\ planReview \in {"no", "readers", "record", "rerun", "judge"}
    /\ version \in 1..MaxVersion /\ tags \in BOOLEAN
    /\ tries \in [Names -> 0..MaxRetries + 1]
    /\ answers \in [Names -> Grades \cup {"open", "failed", "skipped"}]
    /\ manifest \in [Names -> {"absent", "requested", "executed", "skipped", "failed"}]
    /\ blamed \in [Names -> Names]
    /\ outputs \in [Names -> Grades \cup {"none"}]
    /\ toRerun \in Seq(Names) /\ resolved \in BOOLEAN
    /\ verdict \in {"none", "approve", "revise", "ask"}

Same(x) == [n \in Names |-> x]
Itself == [n \in Names |-> n]

PlanReviewInit ==
    /\ planReview = "no" /\ version = 1 /\ tags \in BOOLEAN
    /\ tries = Same(0) /\ answers = Same("open") /\ manifest = Same("absent")
    /\ blamed = Itself /\ outputs = Same("none") /\ toRerun = <<>> /\ resolved = TRUE
    /\ verdict = "none"

\* incrementVersion
Revise ==
    /\ version < MaxVersion
    /\ version' = version + 1 /\ tags' \in BOOLEAN
    /\ verdict' = "revise"

\* A plan that failed its validation is sent back, one without review tags approved
\* as it is; otherwise the reviewers of its tier are asked.
BeginPlanReview ==
    /\ planReview = "no"
    /\ tries' = Same(0) /\ answers' = Same("open") /\ blamed' = Itself /\ outputs' = Same("none")
    /\ toRerun' = <<>> /\ resolved' = TRUE
    /\ \/ /\ Revise
          /\ manifest' = Same("absent") /\ UNCHANGED planReview
       \/ /\ ~tags /\ verdict' = "approve"
          /\ manifest' = Same("absent") /\ UNCHANGED <<planReview, version, tags>>
       \/ /\ tags /\ verdict' = "none"
          /\ \E tier \in {S \in SUBSET Names : Core \subseteq S} :
               manifest' = [n \in Names |-> IF n \in tier THEN "requested" ELSE "absent"]
          /\ planReview' = "readers" /\ UNCHANGED <<version, tags>>

\* runReviewerWithRetry
Read(n) ==
    /\ planReview = "readers" /\ manifest[n] = "requested" /\ answers[n] = "open"
    /\ tries' = [tries EXCEPT ![n] = @ + 1]
    /\ \/ \E g \in Grades : answers' = [answers EXCEPT ![n] = g]
       \/ tries[n] < MaxRetries /\ UNCHANGED answers
       \/ /\ tries[n] = MaxRetries
          /\ answers' = [answers EXCEPT ![n] = IF n \in Core THEN "failed" ELSE "skipped"]
    /\ UNCHANGED <<planReview, version, tags, manifest, blamed, outputs, toRerun, resolved, verdict>>

PlanAsked == {n \in Names : manifest[n] = "requested"}
PlanFinished == \A n \in PlanAsked : answers[n] # "open"
InOrder(S) == Picked(PlanReviewers, {i \in DOMAIN PlanReviewers : PlanReviewers[i] \in S})

\* extractRejectedReviewerName: a failure is put down to the first reviewer of the tier
\* whose name its message contains, or to the first of all.
Attributions ==
    {b \in [Names -> Names] :
        \A n \in Names : IF n \in PlanAsked /\ answers[n] = "failed" THEN b[n] \in PlanAsked
                         ELSE b[n] = n}

Place(n) == CHOOSE i \in DOMAIN PlanReviewers : PlanReviewers[i] = n

\* Each answer is recorded in turn; what a later one says of a reviewer stands.
RecordAnswers ==
    /\ planReview = "readers" /\ PlanFinished
    /\ blamed' \in Attributions
    /\ LET failed    == {n \in PlanAsked : answers[n] = "failed"}
           failures  == InOrder(failed)
           named     == [i \in DOMAIN failures |-> blamed'[failures[i]]]
           Failed(n) == \E m \in failed : blamed'[m] = n /\ (n \in failed \/ Place(n) < Place(m))
           Status(n) == CASE n \notin PlanAsked -> "absent"
                          [] Failed(n) -> "failed"
                          [] n \in failed -> "requested"
                          [] answers[n] = "skipped" -> "skipped"
                          [] OTHER -> "executed"
       IN  /\ manifest' = [n \in Names |-> Status(n)]
           /\ toRerun' = Picked(named, {i \in DOMAIN named : named[i] \in Core})
    /\ outputs' = [n \in Names |-> IF answers[n] \in Grades THEN answers[n] ELSE "none"]
    /\ planReview' = IF toRerun' = <<>> THEN "judge" ELSE "rerun"
    /\ UNCHANGED <<version, tags, tries, answers, resolved, verdict>>

\* A required reviewer that a failure was put down to is run again, with its retries,
\* when its lane can be resolved anew, and its output replaces one it had.
RerunSucceeds ==
    /\ \E g \in Grades : outputs' = [outputs EXCEPT ![Head(toRerun)] = g]
    /\ manifest' = [manifest EXCEPT ![Head(toRerun)] = "executed"]
    /\ toRerun' = Tail(toRerun)
    /\ UNCHANGED resolved

\* A failing rerun of which only a note is left.
RerunFailsQuietly ==
    /\ toRerun' = Tail(toRerun)
    /\ UNCHANGED <<manifest, outputs, resolved>>

\* One that throws again, or has nothing to resolve its lane, is passed over; a lane
\* that is not resolved ends the loop.
RerunFails ==
    /\ toRerun' \in {Tail(toRerun), <<>>}
    /\ resolved' = FALSE
    /\ UNCHANGED <<manifest, outputs>>

Rerun ==
    /\ planReview = "rerun"
    /\ RerunSucceeds \/ RerunFails
    /\ planReview' = IF toRerun' # <<>> THEN "rerun" ELSE IF resolved' THEN "judge" ELSE "no"
    /\ verdict' = IF toRerun' = <<>> /\ ~resolved' THEN "ask" ELSE verdict
    /\ UNCHANGED <<version, tags, tries, answers, blamed>>

\* synthesiseFindings keeps the higher severity of findings with one title, which is
\* all the gate looks at: evaluateGating.
Blocks(f) == f \cap {"critical", "major"} # {}

Found == {outputs[n] : n \in Names} \cap Grades

JudgePlan ==
    /\ planReview = "judge"
    /\ IF Blocks(Found) THEN Revise
       ELSE verdict' = "approve" /\ UNCHANGED <<version, tags>>
    /\ planReview' = "no"
    /\ UNCHANGED <<tries, answers, manifest, blamed, outputs, toRerun, resolved>>

\* Anything else that is thrown fails the review.
PlanReviewBreaks ==
    /\ planReview # "no" /\ planReview' = "no" /\ verdict' = "ask" /\ toRerun' = <<>>
    /\ UNCHANGED <<version, tags, tries, answers, manifest, blamed, outputs, resolved>>

PlanReviewStep == (\E n \in Names : Read(n)) \/ RecordAnswers \/ Rerun \/ JudgePlan

PlanReviewNext == BeginPlanReview \/ PlanReviewStep \/ PlanReviewBreaks

PlanReviewSpec == PlanReviewInit /\ [][PlanReviewNext]_planReviewVars

-----------------------------------------------------------------------------
(* Properties                                                              *)

\* A plan with review tags is approved only when every required reviewer has read it,
\* on its first tries or after its lane was resolved anew -- but for one whose failure
\* was put down to another reviewer -- and no output that is left, of anybody, is
\* critical or major.  What a reviewer found at first may only be gone when the failure
\* of another was put down to it, so that it was run again.
ApprovedWasReviewed ==
    planReview = "no" /\ verdict = "approve" /\ tags =>
        /\ \A n \in Core : blamed[n] = n => manifest[n] = "executed" /\ outputs[n] # "none"
        /\ \A n \in Names : outputs[n] \notin {"critical", "major"}
        /\ \A n \in Names : answers[n] \in {"critical", "major"} =>
                              \E m \in Names \ {n} : blamed[m] = n
=============================================================================
