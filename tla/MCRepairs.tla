------------------------------ MODULE MCRepairs ------------------------------
(* What follows a dispatch: a run that is stopped and resumed, the resolver  *)
(* of an apply-back that conflicted, and the fixes of a review.  The three   *)
(* commands work on different runs: focus chooses the one a behaviour is     *)
(* about, and the others stand still in one of their first states.           *)
EXTENDS MCResume, ConflictResolver, FixWorkflow

VARIABLE focus

mcVars == <<focus, resumeVars, resolverVars, fixVars>>

Families == <<"x", "y", "x">>
FilesOfFindings == <<"p", "p", "none">>
ReviewReports == {<<1, 2, 3>>, <<2, 3>>}

MCInit ==
    /\ focus \in {"resume", "resolve", "fix"}
    /\ ResumeInit /\ (focus # "resume" => command = "none")
    /\ ResolverInit /\ (focus # "resolve" =>
                            branches = WithPatches /\ integrated = Nothing /\ markers = "none")
    /\ FixInit /\ (focus # "fix" => report = <<1, 2, 3>>)

Resolves(A) == focus = "resolve" /\ A /\ UNCHANGED <<focus, resumeVars, fixVars>>
Fixes(A) == focus = "fix" /\ A /\ UNCHANGED <<focus, resumeVars, resolverVars>>

MCNext ==
    \/ focus = "resume" /\ ResumeNext /\ UNCHANGED <<focus, resolverVars, fixVars>>
    \/ Resolves(ResolverNext)
    \/ Fixes(FixNext)

MCSpec ==
    /\ MCInit /\ [][MCNext]_mcVars
    /\ WF_mcVars(Resolves(ResolverStep)) /\ WF_mcVars(Fixes(FixStep))

\* Both repairs end, however often a resolver is asked or a worker retried: the passes
\* over the branches and the rounds of fixes are counted, and the counts are bounded.
RepairsEnd == ResolveEnds /\ FixEnds
=============================================================================
