--------------------------- MODULE MCChangeLifecycle ---------------------------
(* The commands on one change, with its runs made interchangeable; and two     *)
(* parts of the runtime state directory they use, on their own: the            *)
(* descriptions of the repository that planners read, and the cleanup.  focus  *)
(* chooses what a behaviour is about; the others stand still.                  *)
EXTENDS ChangeLifecycle, AnalysisCache, Cleaning, TLC

VARIABLE focus

RunSymmetry == Permutations(Run)

\* Two runs of two changes; a child named after the first, as a failed worktree.
ChangeOfRun == [r \in {1, 2} |-> r]
Mentioned == {<<"failed", 1>>}

mcVars == <<focus, vars, analysisVars, cleaningVars>>

MCInit ==
    /\ focus \in {"commands", "analysis", "cleaning"}
    /\ Init
    /\ AnalysisInit /\ (focus # "analysis" => structure = "main")
    /\ CleaningInit

MCNext ==
    \/ focus = "commands" /\ Next /\ UNCHANGED <<focus, analysisVars, cleaningVars>>
    \/ focus = "analysis" /\ AnalysisNext /\ UNCHANGED <<focus, vars, cleaningVars>>
    \/ focus = "cleaning" /\ CleaningNext /\ UNCHANGED <<focus, vars, analysisVars>>

MCSpec == MCInit /\ [][MCNext]_mcVars
=============================================================================
