------------------------------ MODULE MCPlanning -----------------------------
(* What comes before a dispatch: the installation of the agents, profiles    *)
(* and the wizard that writes them, the preparation of a plan, its review,   *)
(* and the hooks of the session.                                             *)
(* They share nothing but files that are inputs to each: focus chooses the   *)
(* one a behaviour is about, and the others stand still in one of their      *)
(* first states.                                                             *)
EXTENDS Profiles, ProfileWizard, PlanPreparation, PlanReview, SessionHooks, AgentInstall

VARIABLE focus

mcVars == <<focus, profileVars, wizardVars, preparationVars, planReviewVars, hookVars, installVars>>

\* Three lanes, of which all agents use the first and the third may go without a model;
\* the third model, listed at two levels (3 and 4), and a registry without the others
\* make activations and fallbacks go wrong.
WorkLane == [l \in {"hard"} |-> "work"]
LaneSet == {"work", "scout", "spare"}
AllFit == LaneSet \X {1, 2, 3, 4}
\* The first session asks as the commands do, for all lanes, with the registry; the second
\* names one.
WantedLanes == [s \in 1..2 |-> IF s = 2 THEN {{"scout"}} ELSE {{}}]
PlainModel == [m \in 0..4 |-> IF m = 4 THEN 3 ELSE m]
Lists(work) ==
    [l \in LaneSet |-> CASE l = "work" -> work [] l = "scout" -> <<2, 3>> [] OTHER -> <<2>>]
\* One names a model twice, which no check of a profile file minds.  The sessions begin
\* with one each.
FirstFiles == [s \in 1..2 |-> Lists(IF s = 1 THEN <<1, 3, 4>> ELSE <<3, 1, 1>>)]
ProfileFiles == {Lists(<<1, 3, 4>>), Lists(<<3, 1, 1>>)}
Registered3 == {{1, 2}, {3}}

\* The wizard: one lane of each kind, and a model that lacks a login.
WizardLaneNames == <<"work", "logic">>
WizardAgentNames == <<"hard">>
WizardModels == <<"m1", "m2">>
WizardProvider == [m \in {"m1", "m2"} |-> IF m = "m2" THEN "q" ELSE "p"]
WizardSuited == {<<"work", "m2">>}

\* The tier of a plan with review tags.
Tiers == <<"correctness", "integration", "feasibility">>

\* Two copies of the compaction extension have one version.
ExtensionVersion == [c \in 1..3 |-> IF c = 2 THEN 20 ELSE 10]

\* Two versions of the package of agents: one file changes and one is new.
PackageVersions == <<[f \in {"planner", "scout"} |-> 1],
                     [f \in {"planner", "scout", "fixer"} |-> IF f = "planner" THEN 2 ELSE 1]>>

Idle(part, still) == focus # part => still

MCInit ==
    /\ focus \in {"profiles", "wizard", "preparation", "review", "session", "install"}
    /\ ProfilesInit /\ profiles = FirstFiles
    /\ Idle("profiles", usable = {3})
    /\ WizardInit /\ Idle("wizard", file = None)
    /\ PreparationInit /\ Idle("preparation", doc.body = Missing)
    /\ PlanReviewInit /\ Idle("review", ~tags)
    /\ HooksInit
    /\ InstallInit

MCNext ==
    \/ /\ focus = "profiles" /\ ProfilesNext
       /\ UNCHANGED <<focus, wizardVars, preparationVars, planReviewVars, hookVars, installVars>>
    \/ /\ focus = "wizard" /\ WizardNext
       /\ UNCHANGED <<focus, profileVars, preparationVars, planReviewVars, hookVars, installVars>>
    \/ /\ focus = "preparation" /\ PreparationNext
       /\ UNCHANGED <<focus, profileVars, wizardVars, planReviewVars, hookVars, installVars>>
    \/ /\ focus = "review" /\ PlanReviewNext
       /\ UNCHANGED <<focus, profileVars, wizardVars, preparationVars, hookVars, installVars>>
    \/ /\ focus = "session" /\ HooksNext
       /\ UNCHANGED <<focus, profileVars, wizardVars, preparationVars, planReviewVars, installVars>>
    \/ /\ focus = "install" /\ InstallNext
       /\ UNCHANGED <<focus, profileVars, wizardVars, preparationVars, planReviewVars, hookVars>>

MCSpec == MCInit /\ [][MCNext]_mcVars
=============================================================================
