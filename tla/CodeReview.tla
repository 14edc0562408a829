------------------------------ MODULE CodeReview ------------------------------
(***************************************************************************)
(* Code reviews (pi-zflow-review, runCodeReview) and the gate a run passes *)
(* through after its implementation (finalizeCodeReview).  Reviews of      *)
(* different runs, and those a user asks for, may go on at the same time;  *)
(* all write one report, code-review-findings.md, and the gate reads its   *)
(* severities back from there; when it cannot, it takes those the review   *)
(* returned, which are the synthesizer's if it gave any.                   *)
(*                                                                         *)
(* Severities are numbers, 1 critical and 2 major being those that block;  *)
(* 0 is no finding.  Findings of one canonical key are one concern; those  *)
(* whose key is in Remarks only say what the reviewer looked at, and are   *)
(* left out of the report (isNoiseFinding).  The dispatched reviewers and  *)
(* the synthesizer are external.                                           *)
(***************************************************************************)
EXTENDS Naturals, FiniteSetsExt

CONSTANTS
    Reviews,        \* reviews that may be going on
    Gated,          \* those the gate waits for; the others a user asked for
    Required,       \* reviewers, see isRequiredCodeReviewer
    OnDemand,       \* reviewers of the wider tiers
    Keys, Remarks,  \* canonical keys, and those of mere remarks
    Severities      \* the severities reported, among 1..4

ASSUME CodeReviewAssumption ==
    /\ Gated \subseteq Reviews /\ Remarks \subseteq Keys
    /\ Required \cap OnDemand = {} /\ Severities \subseteq 1..4

VARIABLES
    reviewing,      \* where each review is
    standing,         \* its manifest: the status of each of its reviewers
    canonical,      \* its consolidated findings: the severity of each key
    noGo,           \* it recommends NO-GO
    advice,         \* the severities the synthesizer gave it, if any
    reportBlocks,   \* the severity table of the report has a critical or major
    gate,           \* what the gate made of it
    reported,       \* ghost: a reviewer found something that blocks
    overtaken,      \* ghost: another review wrote the report since this one did
    trusted         \* ghost: the gate could not read the report, and went by the advice

ghostsOfReviews == <<reported, overtaken, trusted>>
reviewVars == <<reviewing, standing, canonical, noGo, advice, reportBlocks, gate,
                ghostsOfReviews>>

Statuses == {"none", "requested", "executed", "failed", "skipped"}
Reviewers == Required \cup OnDemand
NoReviewers == [n \in Reviewers |-> "none"]
NoFindings == [k \in Keys |-> 0]

ReviewTypeOK ==
    /\ reviewing \in [Reviews -> {"no", "reviewers", "synthesis", "report", "gate"}]
    /\ standing \in [Reviews -> [Reviewers -> Statuses]]
    /\ canonical \in [Reviews -> [Keys -> Severities \cup {0}]]
    /\ noGo \in [Reviews -> BOOLEAN]
    /\ reportBlocks \in BOOLEAN
    /\ gate \in [Reviews -> {"open", "passed", "skipped", "blocked"}]
    /\ advice \in [Reviews -> {"none", "blocks", "clean"}]
    /\ reported \in [Reviews -> BOOLEAN] /\ overtaken \in [Reviews -> BOOLEAN]
    /\ trusted \in [Reviews -> BOOLEAN]
    \* a review gets as far as its findings with every reviewer accounted for
    /\ \A r \in Reviews : reviewing[r] \in {"synthesis", "report", "gate"} =>
            \A n \in Required : standing[r][n] # "none"

ReviewInit ==
    /\ reviewing = [r \in Reviews |-> "no"]
    /\ standing = [r \in Reviews |-> NoReviewers]
    /\ canonical = [r \in Reviews |-> NoFindings]
    /\ noGo = [r \in Reviews |-> FALSE]
    /\ reportBlocks = FALSE
    /\ gate = [r \in Reviews |-> "open"]
    /\ advice = [r \in Reviews |-> "none"]
    /\ reported = [r \in Reviews |-> FALSE] /\ overtaken = [r \in Reviews |-> FALSE]
    /\ trusted = [r \in Reviews |-> FALSE]

To(r, s) == reviewing' = [reviewing EXCEPT ![r] = s]

\* chooseCodeReviewTier and buildManifestFromTier: tags, words, files and directories
\* of the change may each ask for a reviewer more.  Without a review service the gate
\* lets the run through.
BeginReview(r) ==
    /\ reviewing[r] = "no"
    /\ \/ /\ To(r, "reviewers")
          /\ \E tier \in SUBSET OnDemand :
               standing' = [standing EXCEPT ![r] = [n \in Reviewers |->
                            IF n \in Required \cup tier THEN "requested" ELSE "none"]]
          /\ gate' = [gate EXCEPT ![r] = "open"]
       \/ r \in Gated /\ gate' = [gate EXCEPT ![r] = "skipped"] /\ UNCHANGED <<reviewing, standing>>
    /\ canonical' = [canonical EXCEPT ![r] = NoFindings]
    /\ noGo' = [noGo EXCEPT ![r] = FALSE]
    /\ advice' = [advice EXCEPT ![r] = "none"]
    /\ reported' = [reported EXCEPT ![r] = FALSE]
    /\ overtaken' = [overtaken EXCEPT ![r] = FALSE]
    /\ trusted' = [trusted EXCEPT ![r] = FALSE]
    /\ UNCHANGED reportBlocks

Asked(r) == {n \in Reviewers : standing[r][n] = "requested"}

\* How the reviewers end: executed; failed (not installed, no model, not dispatched, or
\* its dispatch failed); or as it was, when its call throws (its prompt, its progress
\* callback).  Without a dispatch service all are skipped.
Outcomes(S) == [S -> {"executed", "failed", "requested"}] \cup {[n \in S |-> "skipped"]}

\* consolidateCodeReviewFindings: of the findings with one key the most severe counts.
Said(said, k) == {said[n][k] : n \in DOMAIN said} \ {0}
ConsolidateMildly(said) ==
    [k \in Keys |-> IF Said(said, k) = {} THEN 0 ELSE Max(Said(said, k))]
ConsolidateFindings(said) ==
    [k \in Keys |-> IF Said(said, k) = {} THEN 0 ELSE Min(Said(said, k))]

Blocking(s) == s \in {1, 2}

SettleReviewers(r) ==
    /\ reviewing[r] = "reviewers"
    /\ \E o \in Outcomes(Asked(r)) :
       \E said \in [{n \in Asked(r) : o[n] = "executed"} -> [Keys -> Severities \cup {0}]] :
          /\ standing' = [standing EXCEPT ![r] = [n \in Reviewers |->
                            IF n \in Asked(r) THEN o[n] ELSE standing[r][n]]]
          /\ canonical' = [canonical EXCEPT ![r] = ConsolidateFindings(said)]
          /\ reported' = [reported EXCEPT ![r] =
                \E n \in DOMAIN said, k \in Keys \ Remarks : Blocking(said[n][k])]
    /\ To(r, "synthesis")
    /\ UNCHANGED <<noGo, advice, reportBlocks, gate, overtaken, trusted>>

Executed(r) == {n \in Reviewers : standing[r][n] = "executed"}
FailedReviewers(r) == {n \in Reviewers : standing[r][n] = "failed"}

LocalNoGo(c) == \E k \in Keys : c[k] = 1
LocalBlocks(c) == \E k \in Keys : Blocking(c[k])

FailsClosed(r) == FailedReviewers(r) \cap Required # {} \/ Executed(r) = {}

\* evaluateRecommendation; or severities and recommendation as the synthesizer gives
\* them, when there are findings to ask it about and its answer can be read.
Synthesize(r) ==
    /\ reviewing[r] = "synthesis"
    /\ \E a \in {"none", "blocks", "clean"}, n \in BOOLEAN :
          /\ IF a = "none" THEN n = LocalNoGo(canonical[r]) ELSE canonical[r] # NoFindings
          /\ advice' = [advice EXCEPT ![r] = a]
          /\ noGo' = [noGo EXCEPT ![r] = n \/ FailsClosed(r)]
    /\ To(r, "report")
    /\ UNCHANGED <<standing, canonical, reportBlocks, gate, ghostsOfReviews>>

TableBlocks(c) == \E k \in Keys \ Remarks : Blocking(c[k])

\* persistCodeReviewFindings replaces the report, also after a focused review.
WriteReport(r) ==
    /\ reviewing[r] = "report"
    /\ reportBlocks' = TableBlocks(canonical[r])
    /\ overtaken' = [q \in Reviews |-> q # r /\ (overtaken[q] \/ reviewing[q] = "gate")]
    /\ To(r, IF r \in Gated THEN "gate" ELSE "no")
    /\ advice' = [advice EXCEPT ![r] = IF r \in Gated THEN @ ELSE "none"]
    /\ UNCHANGED <<standing, canonical, noGo, gate, reported, trusted>>

\* The severities the review returned
ReturnedBlocks(r) ==
    advice[r] = "blocks" \/ (advice[r] = "none" /\ LocalBlocks(canonical[r]))

\* finalizeCodeReview after the review; a failed reviewer blocks, required or not.
PassGate(r) ==
    /\ reviewing[r] = "gate"
    /\ \E readable \in BOOLEAN :
          LET blocks == IF readable THEN reportBlocks ELSE ReturnedBlocks(r)
          IN  /\ gate' = [gate EXCEPT ![r] =
                    IF ~blocks /\ FailedReviewers(r) = {} /\ ~noGo[r] THEN "passed" ELSE "blocked"]
              /\ trusted' = [trusted EXCEPT ![r] = ~readable /\ advice[r] # "none"]
    /\ advice' = [advice EXCEPT ![r] = "none"]
    /\ To(r, "no")
    /\ UNCHANGED <<standing, canonical, noGo, reportBlocks, reported, overtaken>>

\* An error anywhere in the review blocks the run.
ReviewBreaks(r) ==
    /\ reviewing[r] # "no"
    /\ gate' = [gate EXCEPT ![r] = IF r \in Gated THEN "blocked" ELSE @]
    /\ advice' = [advice EXCEPT ![r] = "none"]
    /\ To(r, "no")
    /\ UNCHANGED <<standing, canonical, noGo, reportBlocks, ghostsOfReviews>>

ReviewStep(r) == SettleReviewers(r) \/ Synthesize(r) \/ WriteReport(r) \/ PassGate(r)

ReviewNext == \E r \in Reviews : BeginReview(r) \/ ReviewStep(r) \/ ReviewBreaks(r)

ReviewSpec == ReviewInit /\ [][ReviewNext]_reviewVars

-----------------------------------------------------------------------------
(* Properties                                                              *)

\* A run passes its code review only when a reviewer has executed, no required one has
\* failed or been skipped, and none of those that executed has found anything critical
\* or major: findings that are merged keep the worse severity, and reviewers that are
\* missing do not count as reviewers without findings.  What no reviewer can be sure of
\* is left out: a required reviewer whose own call threw, which the manifest goes on
\* calling requested and no check sees; another review that wrote the shared report
\* between this one's report and its gate; and a report that the gate could not read,
\* when the synthesizer had said that nothing is critical or major.
PassIsEarned ==
    \A r \in Reviews : gate[r] = "passed" =>
        /\ Executed(r) # {} /\ Required \subseteq Executed(r) \cup Asked(r)
        /\ reported[r] => overtaken[r] \/ trusted[r]
=============================================================================
