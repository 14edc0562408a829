--------------------------- MODULE PlanPreparation ---------------------------
(***************************************************************************)
(* How /zflow-change-prepare gets a plan it may offer for approval.  It    *)
(* resets the plan to a draft of v1, lets a RuneContext change fill the    *)
(* artifacts, dispatches the planner with retries on transport errors,     *)
(* rewrites role labels, synthesizes the task list when it is missing,     *)
(* validates, lets the planner repair what failed, and then passes three   *)
(* gates: markers, formats, publication.  The durable plan.md of the       *)
(* change is read first: an unfilled one makes the command refuse.         *)
(*                                                                         *)
(* The planner writes artifacts one by one and may end at any point.  Its  *)
(* artifacts survive the command: a later preparation of the same change   *)
(* finds them in v1.                                                       *)
(***************************************************************************)
EXTENDS Naturals, FiniteSets

CONSTANTS
    Simple,       \* artifacts that are checked on their own: design, standards, ...
    GroupNames,   \* what a list may have: a group, with its files
    MaxPlannerRetries, \* bound of the code: retries of the planner
    MaxRepairs,   \* bound of the code: repair passes
    MaxPrepares,  \* bound: preparations of the change
    Missing       \* what a file that is not there is

ASSUME PreparationAssumption ==
    /\ {"groups", "tasks"} \cap Simple = {}
    /\ MaxPlannerRetries \in Nat /\ MaxRepairs \in Nat /\ MaxPrepares \in Nat

VARIABLES
    groups,       \* execution-groups.md
    tasks,        \* implementation-tasks.md
    simple,       \* the artifacts of Simple
    notes,        \* have repo-map.md and reconnaissance.md been written
    doc,          \* plan.md of the change: its body and what it announces
    plan,         \* plan-state.json: lifecycle state, version, approved version
    prepare,      \* the command: where it is and its counters
    refused       \* ghost: the body of plan.md when the command last refused it

artifactVars == <<groups, tasks, simple, notes>>
preparationVars == <<artifactVars, doc, plan, prepare, refused>>

\* A list of groups names its groups (shape), may break the format, names agents
\* that are known, are not, or are labels of roles, and may leave overlapping groups
\* unordered.  One without groups breaks the format, and of one that breaks it
\* the rest is not read.  A list of tasks has sections of its own for groups.
GroupLists ==
    {l \in [shape : SUBSET GroupNames, sound : BOOLEAN,
            agent : {"known", "label", "unknown"}, ordered : BOOLEAN] :
        IF l.sound THEN l.shape # {} ELSE l.agent = "known" /\ l.ordered}
TaskLists ==
    {l \in [shape : SUBSET GroupNames, sound : BOOLEAN, synthesized : BOOLEAN] :
        l.sound \/ l.shape = {}}

Artifacts == Simple \cup {"groups", "tasks"}
Present ==
    {a \in Simple : simple[a] # Missing}
        \cup {a \in {"groups"} : groups # Missing} \cup {a \in {"tasks"} : tasks # Missing}

PrepareSteps == {"idle", "context", "planner", "synthesize", "validate", "repair",
                 "repairing", "markers", "formats", "review", "publish", "decide"}
NotPreparing == [at |-> "idle", service |-> "none", dispatched |-> FALSE, listed |-> FALSE,
                 retries |-> 0, repairs |-> 0, failed |-> {}]

PreparationInit ==
    /\ groups = Missing /\ tasks = Missing /\ simple = [a \in Simple |-> Missing]
    /\ notes = FALSE
    /\ doc \in [body : {Missing, "whole"}, status : {"draft"}]
    /\ plan = [state |-> Missing, version |-> 0, approved |-> 0, count |-> 0]
    /\ prepare = NotPreparing
    /\ refused = Missing

PrepareGoes(l) == prepare' = [prepare EXCEPT !.at = l]

-----------------------------------------------------------------------------
(***************************************************************************)
(* The validators.                                                         *)
(***************************************************************************)

\* Agents are looked at when the dispatch service lists some, which it may fail to
\* do at any validation.
Listings == {l \in BOOLEAN : l => prepare.service = "dispatch"}

GroupsValid(listed) ==
    groups # Missing /\ groups.sound /\ (listed => groups.agent = "known")

\* The task list is checked against the groups on disk, when there are any: each
\* has a section.
TasksValid ==
    /\ tasks # Missing
    /\ tasks.sound /\ ~tasks.synthesized
    /\ groups # Missing => groups.shape \subseteq tasks.shape

SingleValid(a, listed) ==
    CASE a = "groups" -> GroupsValid(listed)
      [] a = "tasks" -> TasksValid
      [] OTHER -> simple[a] = "good"

SingleFailures(listed) == {a \in Artifacts : ~SingleValid(a, listed)}

\* Ownership is only looked at in a list of groups whose format is right.
AllFailures(listed) ==
    SingleFailures(listed) \cup {a \in {"groups"} : GroupsValid(listed) /\ ~groups.ordered}

\* The marker check reads each artifact for itself.
Marked ==
    {a \in Artifacts : a \notin Present \/ (a = "tasks" /\ tasks # Missing /\ tasks.synthesized)
                       \/ (a \in Simple /\ simple[a] = "marked")}

-----------------------------------------------------------------------------
(***************************************************************************)
(* plan.md.                                                                *)
(***************************************************************************)

\* /zflow-change-plan: a drafted body that meets the contract replaces the old.
DraftDurablePlan ==
    /\ prepare.at = "idle" /\ doc.body # "whole"
    /\ doc' = [doc EXCEPT !.body = "whole"]
    /\ UNCHANGED <<artifactVars, plan, prepare, refused>>

\* writeDurablePlanDoc: a plan.md that is not there is made from the scaffold.
Announced(status) ==
    [body |-> IF doc.body = Missing THEN "scaffold" ELSE doc.body, status |-> status]

-----------------------------------------------------------------------------
(***************************************************************************)
(* The command up to the planner.                                          *)
(***************************************************************************)

RefusePrepare ==
    /\ prepare.at = "idle" /\ plan.count < MaxPrepares
    /\ doc.body = "scaffold"
    /\ refused' = doc.body
    /\ UNCHANGED <<artifactVars, doc, plan, prepare>>

StartPrepare ==
    /\ prepare.at = "idle" /\ plan.count < MaxPrepares
    /\ doc.body # "scaffold"
    /\ plan' = [state |-> "draft", version |-> 1, approved |-> 0, count |-> plan.count + 1]
    /\ \E service \in {"dispatch", "other", "none"} :
          prepare' = [prepare EXCEPT !.at = "context", !.service = service]
    /\ UNCHANGED <<artifactVars, doc, refused>>

\* The documents of a RuneContext change: groups whose files are still to be
\* decided, a task list for one group.
FromRuneContext ==
    /\ simple' \in [Simple -> {"good", "marked"}]
    /\ groups' \in {l \in GroupLists : ~l.sound}
    /\ tasks' \in {l \in TaskLists : ~l.sound /\ ~l.synthesized}

GatherContext ==
    /\ prepare.at = "context"
    /\ \/ FromRuneContext
       \/ UNCHANGED <<groups, tasks, simple>>
    /\ notes' = TRUE
    /\ PrepareGoes("planner")
    /\ UNCHANGED <<doc, plan, refused>>

\* No service to dispatch through: the command goes on without a planner.
NoPlanner ==
    /\ prepare.at = "planner" /\ prepare.service = "none"
    /\ PrepareGoes("synthesize")
    /\ UNCHANGED <<artifactVars, doc, plan, refused>>

\* Another service is called once: its call counts when it does not throw.
OtherServiceEnds ==
    /\ prepare.at = "planner" /\ prepare.service = "other"
    /\ \E returned \in BOOLEAN :
          prepare' = [prepare EXCEPT !.at = "synthesize", !.dispatched = returned]
    /\ UNCHANGED <<artifactVars, doc, plan, refused>>

PlannerWrites ==
    /\ prepare.at \in {"planner", "repairing"} /\ prepare.service # "none"
    /\ \/ /\ groups' \in GroupLists
          /\ UNCHANGED <<tasks, simple>>
       \/ /\ tasks' \in {t \in TaskLists : ~t.synthesized}
          /\ UNCHANGED <<groups, simple>>
       \/ /\ \E a \in Simple, c \in {"good", "marked", "short"} : simple' = [simple EXCEPT ![a] = c]
          /\ UNCHANGED <<groups, tasks>>
    /\ UNCHANGED <<notes, doc, plan, prepare, refused>>

\* Three files on disk make an attempt a success, whoever wrote them.
Enough == Cardinality(Present) + (IF notes THEN 2 ELSE 0) >= 3

\* canonicalizePreparedArtifacts: role labels give way to an agent, which is found
\* among those listed or is the default.
Canonical ==
    IF groups = Missing \/ groups.agent # "label" THEN {groups}
    ELSE {[groups EXCEPT !.agent = a] : a \in {"known", "unknown"}}

PlannerServed ==
    /\ prepare.at = "planner"
    /\ groups' \in Canonical
    /\ prepare' = [prepare EXCEPT !.at = "synthesize", !.dispatched = TRUE]
    /\ UNCHANGED <<tasks, simple, notes, doc, plan, refused>>

RetryPlanner ==
    /\ prepare.at = "planner" /\ ~Enough
    /\ prepare.retries < MaxPlannerRetries
    /\ prepare' = [prepare EXCEPT !.retries = @ + 1]
    /\ UNCHANGED <<artifactVars, doc, plan, refused>>

PlannerFails ==
    /\ prepare.at = "planner" /\ ~Enough
    /\ PrepareGoes("synthesize")
    /\ UNCHANGED <<artifactVars, doc, plan, refused>>

\* The planner returns or throws; what it left on disk goes before what it says.
PlannerEnds(outcome) ==
    /\ prepare.service = "dispatch"
    /\ \/ outcome = "ok" /\ PlannerServed
       \/ outcome # "ok" /\ Enough /\ PlannerServed
       \/ outcome = "transport" /\ RetryPlanner
       \/ outcome = "transport" /\ prepare.retries = MaxPlannerRetries /\ PlannerFails
       \/ outcome = "other" /\ PlannerFails

-----------------------------------------------------------------------------
(***************************************************************************)
(* Synthesis, validation and repair.                                       *)
(***************************************************************************)

SynthesizeTasks ==
    /\ prepare.at = "synthesize"
    /\ tasks' = IF tasks = Missing /\ groups # Missing /\ groups.shape # {}
                THEN [shape |-> groups.shape, sound |-> TRUE, synthesized |-> TRUE]
                ELSE tasks
    /\ PrepareGoes("validate")
    /\ UNCHANGED <<groups, simple, notes, doc, plan, refused>>

ValidatePlan ==
    /\ prepare.at = "validate"
    /\ \E listed \in Listings :
          prepare' = [prepare EXCEPT !.at = "repair", !.failed = AllFailures(listed)]
    /\ UNCHANGED <<artifactVars, doc, plan, refused>>

StartRepair ==
    /\ prepare.at = "repair"
    /\ prepare.failed # {} /\ prepare.repairs < MaxRepairs /\ prepare.service = "dispatch"
    /\ prepare' = [prepare EXCEPT !.at = "repairing", !.repairs = @ + 1]
    /\ UNCHANGED <<artifactVars, doc, plan, refused>>

\* Only an attempt that reports success is looked at, each artifact by itself.
RepairEnds ==
    /\ prepare.at = "repairing"
    /\ \/ \E listed \in Listings :
             prepare' = [prepare EXCEPT !.at = "repair",
                                        !.failed = {a \in @ : ~SingleValid(a, listed)}]
       \/ prepare' = [prepare EXCEPT !.at = "repair"]
    /\ UNCHANGED <<artifactVars, doc, plan, refused>>

EndRepair ==
    /\ prepare.at = "repair"
    /\ prepare.failed = {} \/ prepare.repairs = MaxRepairs \/ prepare.service # "dispatch"
    /\ prepare' = IF prepare.dispatched THEN [prepare EXCEPT !.at = "markers"] ELSE NotPreparing
    /\ UNCHANGED <<artifactVars, doc, plan, refused>>

-----------------------------------------------------------------------------
(***************************************************************************)
(* The gates, the review and the decision.                                 *)
(***************************************************************************)

CheckMarkers ==
    /\ prepare.at = "markers"
    /\ \/ /\ Marked = {}
          /\ plan' = [plan EXCEPT !.state = "validated"]
          /\ PrepareGoes("formats")
       \/ /\ Marked # {}
          /\ prepare' = NotPreparing
          /\ UNCHANGED plan
    /\ UNCHANGED <<artifactVars, doc, refused>>

\* The report of the repair pass taken at its word.
CheckFormatsByReport ==
    /\ prepare.at = "formats"
    /\ \E listed \in Listings :
          prepare' = IF prepare.failed = {} THEN [prepare EXCEPT !.at = "review", !.listed = listed]
                     ELSE NotPreparing
    /\ UNCHANGED <<artifactVars, doc, plan, refused>>

CheckFormats ==
    /\ prepare.at = "formats"
    /\ \E listed \in Listings :
          prepare' = IF AllFailures(listed) = {}
                     THEN [prepare EXCEPT !.at = "review", !.listed = listed] ELSE NotPreparing
    /\ UNCHANGED <<artifactVars, doc, plan, refused>>

\* The review is advisory: its outcome is announced, and the plan is offered.
ReviewPreparedPlan ==
    /\ prepare.at = "review"
    /\ \E passes \in BOOLEAN :
          plan' = IF passes THEN [plan EXCEPT !.state = "reviewed"] ELSE plan
    /\ PrepareGoes("publish")
    /\ UNCHANGED <<artifactVars, doc, refused>>

PublishPlan ==
    /\ prepare.at = "publish"
    /\ IF Present = Artifacts
       THEN doc' = Announced(plan.state) /\ PrepareGoes("decide")
       ELSE doc' = Announced(doc.status) /\ prepare' = NotPreparing
    /\ UNCHANGED <<artifactVars, plan, refused>>

DecidePlan ==
    /\ prepare.at = "decide"
    /\ \/ /\ plan' = [plan EXCEPT !.state = "approved", !.approved = 1]
          /\ doc' = Announced("approved")
       \/ /\ plan' = [plan EXCEPT !.state = "draft", !.version = @ + 1]
          /\ doc' = Announced("draft")
       \/ /\ plan' = [plan EXCEPT !.state = "cancelled"]
          /\ doc' = Announced("cancelled")
       \/ UNCHANGED <<plan, doc>>
    /\ prepare' = NotPreparing
    /\ UNCHANGED <<artifactVars, refused>>

PrepareStep ==
    \/ GatherContext \/ NoPlanner \/ OtherServiceEnds
    \/ (\E outcome \in {"ok", "transport", "other"} : PlannerEnds(outcome))
    \/ SynthesizeTasks \/ ValidatePlan \/ StartRepair \/ RepairEnds \/ EndRepair
    \/ CheckMarkers \/ CheckFormats \/ ReviewPreparedPlan \/ PublishPlan \/ DecidePlan

PreparationNext ==
    \/ DraftDurablePlan \/ RefusePrepare \/ StartPrepare
    \/ PlannerWrites
    \/ PrepareStep

PreparationSpec == PreparationInit /\ [][PreparationNext]_preparationVars

-----------------------------------------------------------------------------
PrepareCommands ==
    [at : PrepareSteps, service : {"dispatch", "other", "none"}, dispatched : BOOLEAN,
     listed : BOOLEAN, retries : 0..MaxPlannerRetries, repairs : 0..MaxRepairs,
     failed : SUBSET Artifacts]

PreparationTypeOK ==
    /\ groups \in GroupLists \cup {Missing}
    /\ tasks \in TaskLists \cup {Missing}
    /\ simple \in [Simple -> {Missing, "good", "marked", "short"}]
    /\ notes \in BOOLEAN
    /\ doc \in [body : {Missing, "scaffold", "whole"},
                status : {"draft", "validated", "reviewed", "approved", "cancelled"}]
    /\ plan \in [state : {Missing, "draft", "validated", "reviewed", "approved", "cancelled"},
                 version : 0..2, approved : 0..1, count : 0..MaxPrepares]
    /\ prepare \in PrepareCommands
    /\ refused \in {Missing, "scaffold", "whole"}

\* The user is asked about a plan only when it can be run: its groups and its
\* task list are the planner's, each group has its tasks, no two groups share a
\* file without an order, every agent is one of those listed at the last gate, if
\* any were, and no artifact is missing or a placeholder -- whatever the planner or
\* another service wrote, in whichever attempt, and whatever the repair pass said
\* of its own work, which it judges artifact by artifact.
OfferedPlanIsWhole ==
    prepare.at = "decide" =>
        /\ groups # Missing /\ groups.sound /\ groups.ordered
        /\ prepare.listed => groups.agent = "known"
        /\ tasks # Missing /\ tasks.sound /\ ~tasks.synthesized
        /\ groups.shape \subseteq tasks.shape
        /\ \A a \in Simple : simple[a] = "good"

\* The command refuses the plan.md somebody left unfinished, never the one an
\* earlier preparation of the same change has written itself.
RefusesOnlyDrafts == refused # "scaffold"
=============================================================================
