--------------------------- MODULE PlanningProofs ---------------------------
(***************************************************************************)
(* Theorems about what comes before a dispatch: the hooks of a session,    *)
(* the installation of the agents, the preparation of a plan, its review,  *)
(* profiles and the wizard that writes them, for any copies, packages,     *)
(* artifacts, reviewers, lanes and models.                                 *)
(***************************************************************************)
EXTENDS Profiles, ProfileWizard, PlanPreparation, PlanReview, SessionHooks, AgentInstall,
        SublistsProofs, TLAPS

-----------------------------------------------------------------------------
(* The hooks of a session                                                  *)

\* Only the copy that owns the capability has hooks, and reminds.
OneCopyInv ==
    /\ hooked \subseteq {owner} /\ reminding \subseteq hooked
    /\ owner = NoCopy => hooked = {}

\* A reminder that is owed is pending in every copy with hooks until the next
\* agent starts; that agent is the one it is due to.
OwedInv ==
    /\ owed => hooked # {} /\ \A c \in hooked : pendingHandoff[c]
    /\ due => reminding # {}

HooksInv == HooksTypeOK /\ OneCopyInv /\ OwedInv

LEMMA HooksInitInv == HooksInit => HooksInv
<1> SUFFICES ASSUME HooksInit PROVE HooksInv
  OBVIOUS
<1>1. tokens \in 0..Window /\ base \in 0..Window /\ lastTokens \in [Copies -> 0..Window]
  BY HooksAssumption DEF HooksInit
<1>2. inProgress \in [Copies -> BOOLEAN] /\ pendingHandoff \in [Copies -> BOOLEAN]
  BY DEF HooksInit
<1> QED
  BY <1>1, <1>2 DEF HooksInit, HooksInv, HooksTypeOK, OneCopyInv, OwedInv

LEMMA ActivateKeepsHooksInv ==
    ASSUME HooksInv, NEW c \in Copies, ActivateExtension(c)
    PROVE  HooksInv'
BY HooksAssumption DEF ActivateExtension, Claimed, Provided, agentVars, owedVars,
   HooksInv, HooksTypeOK, OneCopyInv, OwedInv

LEMMA TurnEndsKeepsHooksInv ==
    ASSUME HooksInv, NEW known \in BOOLEAN, TurnEnds(known)
    PROVE  HooksInv'
<1> USE HooksAssumption
<1>1. tokens' \in 0..Window
  BY DEF TurnEnds, HooksInv, HooksTypeOK
<1>2. /\ inProgress' \in [Copies -> BOOLEAN] /\ lastTokens' \in [Copies -> 0..Window]
      /\ compaction' \in {"none", "asked", "started"}
  BY <1>1 DEF TurnEnds, HooksInv, HooksTypeOK
<1>3. HooksTypeOK'
  BY <1>1, <1>2 DEF TurnEnds, agentVars, owedVars, HooksInv, HooksTypeOK
<1> QED
  BY <1>3 DEF TurnEnds, agentVars, owedVars, HooksInv, OneCopyInv, OwedInv

LEMMA CompactionKeepsHooksInv ==
    ASSUME HooksInv,
           \/ AskedOtherwise \/ CompactionFails
           \/ \E summarized \in BOOLEAN : BeforeCompact(summarized)
           \/ Compacted
    PROVE  HooksInv'
<1> USE HooksAssumption DEF HooksInv
<1>1. CASE AskedOtherwise \/ CompactionFails
  BY <1>1 DEF AskedOtherwise, CompactionFails, agentVars, owedVars, HooksTypeOK, OneCopyInv, OwedInv
<1>2. CASE \E summarized \in BOOLEAN : BeforeCompact(summarized)
  BY <1>2 DEF BeforeCompact, agentVars, owedVars, HooksTypeOK, OneCopyInv, OwedInv
<1>3. CASE Compacted
  <2>1. tokens' \in 0..Window
    BY <1>3 DEF Compacted, HooksTypeOK
  <2>2. HooksTypeOK'
    BY <2>1, <1>3 DEF Compacted, agentVars, HooksTypeOK
  <2> QED
    BY <2>2, <1>3 DEF Compacted, agentVars, HooksTypeOK, OneCopyInv, OwedInv
<1> QED
  BY <1>1, <1>2, <1>3

LEMMA AgentKeepsHooksInv ==
    ASSUME HooksInv, AgentStarts \/ AgentRuns \/ AgentDone
    PROVE  HooksInv'
<1> USE DEF HooksInv
<1>1. CASE AgentStarts
  BY <1>1 DEF AgentStarts, ClearFlag, PlanTools, HooksTypeOK, OneCopyInv, OwedInv
<1>2. CASE AgentRuns
  BY <1>2 DEF AgentRuns, ClearFlag, owedVars, HooksTypeOK, OneCopyInv, OwedInv
<1>3. CASE AgentDone
  BY <1>3 DEF AgentDone, compactVars, HooksTypeOK, OneCopyInv, OwedInv
<1> QED
  BY <1>1, <1>2, <1>3

LEMMA SessionKeepsHooksInv ==
    ASSUME HooksInv, TogglePlanMode \/ Restarts
    PROVE  HooksInv'
<1>1. CASE TogglePlanMode
  BY <1>1 DEF TogglePlanMode, compactVars, owedVars, HooksInv, HooksTypeOK, OneCopyInv, OwedInv
<1>2. CASE Restarts
  <2>1. /\ inProgress' \in [Copies -> BOOLEAN] /\ pendingHandoff' \in [Copies -> BOOLEAN]
        /\ lastTokens' \in [Copies -> 0..Window]
    BY <1>2, HooksAssumption DEF Restarts
  <2> QED
    BY <2>1, <1>2 DEF Restarts, HooksInv, HooksTypeOK, OneCopyInv, OwedInv
<1> QED
  BY <1>1, <1>2

LEMMA HooksStepInv == HooksInv /\ [HooksNext]_hookVars => HooksInv'
<1>1. ASSUME HooksInv, HooksNext PROVE HooksInv'
  BY <1>1, ActivateKeepsHooksInv, TurnEndsKeepsHooksInv, CompactionKeepsHooksInv, AgentKeepsHooksInv,
     SessionKeepsHooksInv DEF HooksNext
<1>2. ASSUME HooksInv, UNCHANGED hookVars PROVE HooksInv'
  BY <1>2 DEF hookVars, compactVars, agentVars, owedVars, HooksInv, HooksTypeOK, OneCopyInv, OwedInv
<1> QED
  BY <1>1, <1>2

LEMMA HooksInvGivesHandoff == HooksInv => HandoffFollows
<1> SUFFICES ASSUME HooksInv PROVE Cardinality(reminding) <= 1 /\ (due => reminding # {})
  BY DEF HandoffFollows
<1>1. reminding \subseteq {owner}
  BY DEF HooksInv, OneCopyInv
<1>2. IsFiniteSet({owner}) /\ Cardinality({owner}) = 1
  BY FS_Singleton
<1>3. Cardinality(reminding) <= 1
  BY <1>1, <1>2, FS_Subset, FS_CardinalityType
<1> QED
  BY <1>3 DEF HooksInv, OwedInv

\* However many copies of the compaction extension Pi loads, of whatever versions,
\* and whatever compactions end while an agent is starting, the agent that starts
\* after a compaction is given the reminder, and by one copy (turn_end,
\* session_compact and before_agent_start of the compaction extension, claim of
\* the registry).
THEOREM HandoffIsGivenOnce == HooksSpec => []HandoffFollows
<1>1. HooksSpec => []HooksInv
  BY HooksInitInv, HooksStepInv, PTL DEF HooksSpec
<1> QED
  BY <1>1, HooksInvGivesHandoff, PTL

\* The flags of every copy, the claims of the registry and the markers of a session stay
\* within their types (zflow-compaction, zflow-plan-mode, capability registry).
THEOREM HooksTypeCorrect == HooksSpec => []HooksTypeOK
<1>1. HooksInv => HooksTypeOK
  BY DEF HooksInv
<1> QED
  BY <1>1, HooksInitInv, HooksStepInv, PTL DEF HooksSpec
-----------------------------------------------------------------------------
(* The installation of the agents                                          *)

\* A command that is under way has told nothing yet, and copies one file at a time.
CommandInv ==
    /\ installer # "idle" => report = "none" /\ todo \cup target \subseteq DOMAIN Source
    /\ installer # "copying" => target = {}
    /\ installer = "copying" => \E f \in Files : target = {f}

\* Of the files it has come to, those that are not as packaged failed, were
\* left with a warning, or were changed by the user since.
PassedInv ==
    installer # "idle" =>
        \A f \in DOMAIN Source \ (todo \cup target \cup failed \cup kept \cup touched) : Identical(f)

InstallInv == InstallTypeOK /\ CommandInv /\ PassedInv /\ SuccessIsComplete

LEMMA FilesOfPackage ==
    ASSUME InstallTypeOK
    PROVE  /\ packaged \in Nat /\ packaged \in 1..Len(Package)
           /\ DOMAIN Source \subseteq Files
           /\ \A f \in DOMAIN Source : Source[f] \in Contents
BY PackageIsNamed DEF InstallTypeOK, Source, Files, Contents

LEMMA InstallInitInv == InstallInit => InstallInv
<1> SUFFICES ASSUME InstallInit PROVE InstallInv
  OBVIOUS
<1>1. installed \in [Files -> Contents \cup {Absent, Edited, Half}]
  BY DEF InstallInit
<1>2. packaged \in DOMAIN Package /\ recorded \in 0..Len(Package)
  BY PackageIsNamed DEF InstallInit
<1> QED
  BY <1>1, <1>2 DEF InstallInit, InstallInv, InstallTypeOK, CommandInv, PassedInv, SuccessIsComplete

LEMMA CommandKeepsInstallInv ==
    ASSUME InstallInv,
           \/ \E force \in BOOLEAN : Setup(force)
           \/ \E force \in BOOLEAN : Update(force)
           \/ WriteManifest \/ InstallStops \/ Upgrade
    PROVE  InstallInv'
<1> USE DEF InstallInv
<1>f. /\ packaged \in Nat /\ packaged \in 1..Len(Package) /\ DOMAIN Source \subseteq Files
  BY FilesOfPackage
<1>1. ASSUME NEW force \in BOOLEAN, NEW update \in BOOLEAN, installer = "idle", Install(force, update)
      PROVE  InstallInv'
  <2>1. Source' = Source
    BY <1>1 DEF Install, Source
  <2>2. InstallTypeOK'
    BY <1>1, <1>f DEF Install, InstallTypeOK
  <2> QED
    BY <1>1, <2>1, <2>2 DEF Install, CommandInv, PassedInv, SuccessIsComplete
<1>2. ASSUME UNCHANGED <<packaged, installed, recorded, installer, forced, updating, todo, target, failed, kept,
                         touched, promised>>,
             report' = "current", installer = "idle"
      PROVE  InstallInv'
  BY <1>2 DEF InstallTypeOK, CommandInv, PassedInv, SuccessIsComplete
<1>3. CASE WriteManifest
  <2>1. Source' = Source /\ \A f : Identical(f)' <=> Identical(f)
    BY <1>3 DEF WriteManifest, Source, Identical
  <2>2. InstallTypeOK'
    BY <1>3, <1>f DEF WriteManifest, InstallTypeOK
  <2>3. SuccessIsComplete'
    BY <1>3, <2>1 DEF WriteManifest, CommandInv, PassedInv, SuccessIsComplete
  <2> QED
    BY <1>3, <2>2, <2>3 DEF WriteManifest, CommandInv, PassedInv
<1>4. CASE InstallStops
  BY <1>4 DEF InstallStops, InstallTypeOK, CommandInv, PassedInv, SuccessIsComplete, Source, Identical
<1>5. CASE Upgrade
  <2>1. InstallTypeOK'
    BY <1>5, <1>f, PackageIsNamed DEF Upgrade, InstallTypeOK
  <2> QED
    BY <1>5, <2>1 DEF Upgrade, CommandInv, PassedInv, SuccessIsComplete
<1> QED
  BY <1>1, <1>2, <1>3, <1>4, <1>5 DEF Setup, Update

LEMMA LoopKeepsInstallInv ==
    ASSUME InstallInv, NEW f \in Files, LeaveFile(f) \/ BeginCopy(f)
    PROVE  InstallInv'
<1> USE DEF InstallInv
<1>1. Source' = Source /\ \A g : Identical(g)' <=> Identical(g)
  BY DEF LeaveFile, BeginCopy, Source, Identical
<1>2. installer = "choosing" /\ report' = "none"
  BY DEF LeaveFile, BeginCopy, CommandInv
<1>3. CASE LeaveFile(f)
  BY <1>1, <1>2, <1>3 DEF LeaveFile, WarnedOf, InstallTypeOK, CommandInv, PassedInv, SuccessIsComplete
<1>4. CASE BeginCopy(f)
  BY <1>1, <1>2, <1>4 DEF BeginCopy, InstallTypeOK, CommandInv, PassedInv, SuccessIsComplete
<1> QED
  BY <1>3, <1>4

LEMMA CopyKeepsInstallInv ==
    ASSUME InstallInv, NEW f \in Files, CopyOpens(f) \/ CopyEnds(f) \/ CopyFails(f)
    PROVE  InstallInv'
<1> USE DEF InstallInv
<1>1. installer = "copying" /\ target = {f} /\ report' = "none"
  BY DEF CopyOpens, CopyEnds, CopyFails, CommandInv
<1>2. Source' = Source /\ \A g \in Files \ {f} : Identical(g)' <=> Identical(g)
  BY DEF CopyOpens, CopyEnds, CopyFails, InstallTypeOK, Source, Identical
<1>f. DOMAIN Source \subseteq Files /\ \A g \in DOMAIN Source : Source[g] \in Contents
  BY FilesOfPackage
<1>3. CASE CopyOpens(f)
  BY <1>1, <1>2, <1>3, <1>f DEF CopyOpens, InstallTypeOK, CommandInv, PassedInv, SuccessIsComplete
<1>4. CASE CopyEnds(f)
  <2>1. Identical(f)' /\ Source[f] = installed'[f] /\ Source[f] \in Contents
    BY <1>1, <1>2, <1>4, <1>f DEF CopyEnds, CommandInv, InstallTypeOK, Identical
  <2> QED
    BY <1>1, <1>2, <1>4, <1>f, <2>1 DEF CopyEnds, InstallTypeOK, CommandInv, PassedInv, SuccessIsComplete
<1>5. CASE CopyFails(f)
  BY <1>1, <1>2, <1>5, <1>f DEF CopyFails, InstallTypeOK, CommandInv, PassedInv, SuccessIsComplete
<1> QED
  BY <1>3, <1>4, <1>5

LEMMA EditKeepsInstallInv ==
    ASSUME InstallInv, NEW f \in Files, UserEdits(f)
    PROVE  InstallInv'
<1> USE DEF InstallInv
<1>1. Source' = Source /\ \A g \in Files \ {f} : Identical(g)' <=> Identical(g)
  BY DEF UserEdits, InstallTypeOK, Source, Identical
<1>2. DOMAIN Source \subseteq Files
  BY FilesOfPackage
<1> QED
  BY <1>1, <1>2 DEF UserEdits, InstallTypeOK, CommandInv, PassedInv, SuccessIsComplete

LEMMA InstallStepInv == InstallInv /\ [InstallNext]_installVars => InstallInv'
<1>1. ASSUME InstallInv, InstallNext PROVE InstallInv'
  BY <1>1, CommandKeepsInstallInv, LoopKeepsInstallInv, CopyKeepsInstallInv, EditKeepsInstallInv
     DEF InstallNext
<1>2. ASSUME InstallInv, UNCHANGED installVars PROVE InstallInv'
  BY <1>2 DEF installVars, InstallInv, InstallTypeOK, CommandInv, PassedInv, SuccessIsComplete, Source, Identical
<1> QED
  BY <1>1, <1>2

\* A setup or update that reports success has installed every file of the package
\* as packaged, but those it warned of and those the user changed meanwhile, for
\* any versions and whatever earlier commands, stopped or failed at any file, and
\* edits have left (installAgents of install.ts and the two commands).
THEOREM SuccessTellsTheFiles == InstallSpec => []SuccessIsComplete
<1>1. InstallSpec => []InstallInv
  BY InstallInitInv, InstallStepInv, PTL DEF InstallSpec
<1>2. InstallInv => SuccessIsComplete
  BY DEF InstallInv
<1> QED
  BY <1>1, <1>2, PTL

\* What is installed and the manifest of it stay within their types: only files of a
\* version of the package are written, recorded or warned of (install.ts).
THEOREM InstallTypeCorrect == InstallSpec => []InstallTypeOK
<1>1. InstallInv => InstallTypeOK
  BY DEF InstallInv
<1> QED
  BY <1>1, InstallInitInv, InstallStepInv, PTL DEF InstallSpec
-----------------------------------------------------------------------------
(* The preparation of a plan                                               *)

\* While the command runs, the plan is the first version and not decided.
PlanInv == prepare.at # "idle" => plan.version = 1 /\ plan.state \in {"draft", "validated", "reviewed"}

\* What the validators look for, given whether agents were listed.
PlanIsWhole(listed) ==
    /\ groups # Missing /\ groups.sound /\ groups.ordered
    /\ listed => groups.agent = "known"
    /\ tasks # Missing /\ tasks.sound /\ ~tasks.synthesized
    /\ groups.shape \subseteq tasks.shape
    /\ \A a \in Simple : simple[a] = "good"

\* Behind the check of the formats nothing they look at is wrong.
PastGatesInv == prepare.at \in {"review", "publish", "decide"} => PlanIsWhole(prepare.listed)

PreparationInv == PreparationTypeOK /\ PlanInv /\ PastGatesInv

LEMMA WholeIsUnchanged ==
    ASSUME PastGatesInv, UNCHANGED <<groups, tasks, simple>>,
           prepare'.at \in {"review", "publish", "decide"} =>
               prepare.at \in {"review", "publish", "decide"} /\ prepare'.listed = prepare.listed
    PROVE  PastGatesInv'
BY DEF PastGatesInv, PlanIsWhole

LEMMA FailuresAreArtifacts ==
    ASSUME NEW l \in BOOLEAN
    PROVE  AllFailures(l) \subseteq Artifacts
BY DEF AllFailures, SingleFailures, Artifacts

LEMMA NoFailuresIsWhole ==
    ASSUME NEW l \in BOOLEAN, AllFailures(l) = {}
    PROVE  PlanIsWhole(l)
<1>1. \A a \in Artifacts : SingleValid(a, l)
  BY DEF AllFailures, SingleFailures
<1>2. GroupsValid(l)
  BY <1>1 DEF Artifacts, SingleValid
<1>3. TasksValid
  BY <1>1 DEF Artifacts, SingleValid
<1>4. ASSUME NEW a \in Simple PROVE simple[a] = "good"
  <2>1. a # "groups" /\ a # "tasks"
    BY PreparationAssumption
  <2> QED
    BY <1>1, <2>1 DEF Artifacts, SingleValid
<1>5. groups.ordered
  BY <1>2 DEF AllFailures
<1> QED
  BY <1>2, <1>3, <1>4, <1>5 DEF GroupsValid, TasksValid, PlanIsWhole

LEMMA NotPreparingIsTyped ==
    /\ NotPreparing \in PrepareCommands
    /\ NotPreparing.at = "idle"
BY PreparationAssumption DEF NotPreparing, PrepareSteps, PrepareCommands

LEMMA PreparationInitInv == PreparationInit => PreparationInv
<1> SUFFICES ASSUME PreparationInit PROVE PreparationInv
  OBVIOUS
<1>1. simple \in [Simple -> {Missing, "good", "marked", "short"}]
  BY DEF PreparationInit
<1>2. /\ prepare \in PrepareCommands
      /\ prepare.at = "idle"
  BY NotPreparingIsTyped DEF PreparationInit
<1>3. plan \in [state : {Missing, "draft", "validated", "reviewed", "approved", "cancelled"},
                version : 0..2, approved : 0..1, count : 0..MaxPrepares]
  BY PreparationAssumption DEF PreparationInit
<1>4. doc \in [body : {Missing, "scaffold", "whole"},
               status : {"draft", "validated", "reviewed", "approved", "cancelled"}]
  BY DEF PreparationInit
<1> QED
  BY <1>1, <1>2, <1>3, <1>4 DEF PreparationInit, PreparationInv, PreparationTypeOK, PrepareCommands, PlanInv, PastGatesInv

LEMMA BeforePrepareKeepsInv ==
    ASSUME PreparationInv, DraftDurablePlan \/ RefusePrepare \/ StartPrepare
    PROVE  PreparationInv'
<1> USE PreparationAssumption DEF PreparationInv
<1>1. UNCHANGED <<groups, tasks, simple, notes>>
  BY DEF DraftDurablePlan, RefusePrepare, StartPrepare, artifactVars
<1>3. CASE DraftDurablePlan
  BY <1>1, <1>3, WholeIsUnchanged DEF DraftDurablePlan, PreparationTypeOK, PlanInv
<1>4. CASE RefusePrepare
  BY <1>1, <1>4, WholeIsUnchanged DEF RefusePrepare, PreparationTypeOK, PlanInv
<1>5. CASE StartPrepare
  <2>1. plan' \in [state : {Missing, "draft", "validated", "reviewed", "approved", "cancelled"},
                   version : 0..2, approved : 0..1, count : 0..MaxPrepares]
    BY <1>5 DEF StartPrepare, PreparationTypeOK
  <2>2. /\ prepare'.at = "context"
        /\ prepare' \in PrepareCommands
    BY <1>5 DEF StartPrepare, PreparationTypeOK, PrepareCommands, PrepareSteps
  <2>3. plan'.version = 1 /\ plan'.state = "draft"
    BY <1>5 DEF StartPrepare
  <2> QED
    BY <1>1, <1>5, <2>1, <2>2, <2>3 DEF StartPrepare, PreparationTypeOK, PlanInv, PastGatesInv
<1> QED
  BY <1>3, <1>4, <1>5

\* Writing artifacts touches neither the command's gates nor the plan.
LEMMA WritesKeepPreparationInv ==
    ASSUME PreparationInv, PlannerWrites \/ GatherContext \/ PlannerServed \/ SynthesizeTasks
    PROVE  PreparationInv'
<1> USE PreparationAssumption DEF PreparationInv
<1>1. groups' \in GroupLists \cup {Missing}
  <2>1. CASE PlannerWrites
    BY <2>1 DEF PlannerWrites, PreparationTypeOK
  <2>2. CASE GatherContext
    BY <2>2 DEF GatherContext, FromRuneContext, PreparationTypeOK
  <2>3. CASE PlannerServed
    <3>1. ASSUME groups \in GroupLists, groups.agent = "label", NEW a \in {"known", "unknown"}
          PROVE  [groups EXCEPT !.agent = a] \in GroupLists
      BY <3>1 DEF GroupLists
    <3> QED
      BY <2>3, <3>1 DEF PlannerServed, Canonical, PreparationTypeOK
  <2>4. CASE SynthesizeTasks
    BY <2>4 DEF SynthesizeTasks, PreparationTypeOK
  <2> QED
    BY <2>1, <2>2, <2>3, <2>4
<1>2. tasks' \in TaskLists \cup {Missing}
  <2>1. CASE PlannerWrites
    BY <2>1 DEF PlannerWrites, PreparationTypeOK
  <2>2. CASE GatherContext
    BY <2>2 DEF GatherContext, FromRuneContext, PreparationTypeOK
  <2>3. CASE PlannerServed
    BY <2>3 DEF PlannerServed, PreparationTypeOK
  <2>4. CASE SynthesizeTasks
    <3>1. ASSUME groups \in GroupLists
          PROVE  [shape |-> groups.shape, sound |-> TRUE, synthesized |-> TRUE] \in TaskLists
      BY <3>1 DEF GroupLists, TaskLists
    <3> QED
      BY <2>4, <3>1 DEF SynthesizeTasks, PreparationTypeOK
  <2> QED
    BY <2>1, <2>2, <2>3, <2>4
<1>3. simple' \in [Simple -> {Missing, "good", "marked", "short"}]
  <2>1. CASE PlannerWrites
    BY <2>1 DEF PlannerWrites, PreparationTypeOK
  <2>2. CASE GatherContext
    BY <2>2 DEF GatherContext, FromRuneContext, PreparationTypeOK
  <2>3. CASE PlannerServed \/ SynthesizeTasks
    BY <2>3 DEF PlannerServed, SynthesizeTasks, PreparationTypeOK
  <2> QED
    BY <2>1, <2>2, <2>3
<1>4. /\ prepare' \in PrepareCommands
      /\ prepare'.at \notin {"review", "publish", "decide"} /\ prepare.at # "idle"
  BY DEF PlannerWrites, GatherContext, PlannerServed, SynthesizeTasks, PrepareGoes, PreparationTypeOK,
     PrepareCommands, PrepareSteps
<1>5. UNCHANGED <<doc, plan, refused>> /\ notes' \in BOOLEAN
  BY DEF PlannerWrites, GatherContext, PlannerServed, SynthesizeTasks, PreparationTypeOK
<1> QED
  BY <1>1, <1>2, <1>3, <1>4, <1>5 DEF PreparationTypeOK, PlanInv, PastGatesInv

LEMMA CommandKeepsPreparationInv ==
    ASSUME PreparationInv,
           \/ NoPlanner \/ OtherServiceEnds \/ RetryPlanner \/ PlannerFails
           \/ ValidatePlan \/ StartRepair \/ RepairEnds \/ EndRepair \/ CheckFormats
    PROVE  PreparationInv'
<1> USE PreparationAssumption DEF PreparationInv
<1>1. UNCHANGED <<groups, tasks, simple, notes, doc, plan, refused>>
  BY DEF NoPlanner, OtherServiceEnds, RetryPlanner, PlannerFails, ValidatePlan, StartRepair, RepairEnds,
     EndRepair, CheckFormats, artifactVars
<1>3. prepare.at # "idle"
  BY DEF NoPlanner, OtherServiceEnds, RetryPlanner, PlannerFails, ValidatePlan, StartRepair, RepairEnds,
     EndRepair, CheckFormats
<1>4. /\ prepare' \in PrepareCommands
      /\ prepare'.at \in {"review", "publish", "decide"} => PlanIsWhole(prepare'.listed)
  <2>1. CASE NoPlanner \/ OtherServiceEnds \/ RetryPlanner \/ PlannerFails
    <3>1. CASE NoPlanner \/ PlannerFails
      BY <3>1 DEF NoPlanner, PlannerFails, PrepareGoes, PreparationTypeOK, PrepareCommands, PrepareSteps
    <3>2. CASE OtherServiceEnds
      BY <3>2 DEF OtherServiceEnds, PreparationTypeOK, PrepareCommands, PrepareSteps
    <3>3. CASE RetryPlanner
      <4>1. prepare.retries + 1 \in 0..MaxPlannerRetries
        BY <3>3 DEF RetryPlanner, PreparationTypeOK, PrepareCommands
      <4> QED
        BY <3>3, <4>1 DEF RetryPlanner, PreparationTypeOK, PrepareCommands
    <3> QED
      BY <2>1, <3>1, <3>2, <3>3
  <2>2. CASE ValidatePlan
    <3>1. PICK listed \in BOOLEAN :
             prepare' = [prepare EXCEPT !.at = "repair", !.failed = AllFailures(listed)]
      BY <2>2 DEF ValidatePlan, Listings
    <3>2. AllFailures(listed) \subseteq Artifacts
      BY FailuresAreArtifacts
    <3> DEFINE F == AllFailures(listed)
    <3>3. F \subseteq Artifacts /\ prepare' = [prepare EXCEPT !.at = "repair", !.failed = F]
      BY <3>1, <3>2
    <3> HIDE DEF F
    <3>4. prepare \in PrepareCommands /\ "repair" \in PrepareSteps
      BY DEF PreparationTypeOK, PrepareSteps
    <3>5. prepare' \in PrepareCommands /\ prepare'.at = "repair"
      BY <3>3, <3>4 DEF PrepareCommands
    <3> QED
      BY <3>5
  <2>3. CASE StartRepair \/ EndRepair
    <3>1. CASE StartRepair
      <4>1. prepare.repairs + 1 \in 0..MaxRepairs /\ "repairing" \in PrepareSteps
        BY <3>1 DEF StartRepair, PreparationTypeOK, PrepareCommands, PrepareSteps
      <4> QED
        BY <3>1, <4>1 DEF StartRepair, PreparationTypeOK, PrepareCommands
    <3>2. CASE EndRepair
      BY <2>3, <3>2, NotPreparingIsTyped DEF EndRepair, PreparationTypeOK, PrepareCommands, PrepareSteps
    <3> QED
      BY <2>3, <3>1, <3>2
  <2>4. CASE RepairEnds
    <3>1. \A l \in BOOLEAN : {a \in prepare.failed : ~SingleValid(a, l)} \subseteq Artifacts
      BY DEF PreparationTypeOK, PrepareCommands
    <3>2. \E F \in SUBSET Artifacts : prepare' = [prepare EXCEPT !.at = "repair", !.failed = F]
      <4>1. CASE prepare' = [prepare EXCEPT !.at = "repair"]
        <5>1. prepare' = [prepare EXCEPT !.at = "repair", !.failed = prepare.failed]
          BY <4>1 DEF PreparationTypeOK, PrepareCommands
        <5> QED
          BY <5>1 DEF PreparationTypeOK, PrepareCommands
      <4>2. ASSUME NEW l \in BOOLEAN,
                   prepare' = [prepare EXCEPT !.at = "repair",
                                              !.failed = {a \in @ : ~SingleValid(a, l)}]
            PROVE  \E F \in SUBSET Artifacts : prepare' = [prepare EXCEPT !.at = "repair", !.failed = F]
        BY <3>1, <4>2
      <4> QED
        BY <2>4, <4>1, <4>2 DEF RepairEnds, Listings
    <3> QED
      BY <3>2 DEF PreparationTypeOK, PrepareCommands, PrepareSteps
  <2>5. CASE CheckFormats
    <3>1. PICK listed \in BOOLEAN :
             prepare' = IF AllFailures(listed) = {}
                        THEN [prepare EXCEPT !.at = "review", !.listed = listed] ELSE NotPreparing
      BY <2>5 DEF CheckFormats, Listings
    <3>2. CASE AllFailures(listed) = {}
      <4>1. PlanIsWhole(listed)
        BY <3>2, NoFailuresIsWhole
      <4>2. prepare' = [prepare EXCEPT !.at = "review", !.listed = listed]
        BY <3>1, <3>2
      <4>3. prepare' \in PrepareCommands /\ prepare'.listed = listed
        BY <4>2 DEF PreparationTypeOK, PrepareCommands, PrepareSteps
      <4> QED
        BY <4>1, <4>3
    <3>3. CASE AllFailures(listed) # {}
      BY <3>1, <3>3, NotPreparingIsTyped
    <3> QED
      BY <3>2, <3>3
  <2> QED
    BY <2>1, <2>2, <2>3, <2>4, <2>5
<1>5. PastGatesInv'
  BY <1>1, <1>4 DEF PastGatesInv, PlanIsWhole
<1> QED
  BY <1>1, <1>3, <1>4, <1>5 DEF PreparationTypeOK, PlanInv

LEMMA GatesKeepPreparationInv ==
    ASSUME PreparationInv, CheckMarkers \/ ReviewPreparedPlan \/ PublishPlan \/ DecidePlan
    PROVE  PreparationInv'
<1> USE PreparationAssumption DEF PreparationInv
<1>1. UNCHANGED <<groups, tasks, simple, notes, refused>>
  BY DEF CheckMarkers, ReviewPreparedPlan, PublishPlan, DecidePlan, artifactVars
<1>3. plan.version = 1 /\ plan.state \in {"draft", "validated", "reviewed"}
  BY DEF CheckMarkers, ReviewPreparedPlan, PublishPlan, DecidePlan, PlanInv
<1>4. plan' \in [state : {Missing, "draft", "validated", "reviewed", "approved", "cancelled"},
                 version : 0..2, approved : 0..1, count : 0..MaxPrepares]
  <2>1. CASE CheckMarkers
    BY <2>1 DEF CheckMarkers, PreparationTypeOK
  <2>2. CASE ReviewPreparedPlan
    BY <2>2 DEF ReviewPreparedPlan, PreparationTypeOK
  <2>3. CASE PublishPlan
    BY <2>3 DEF PublishPlan, PreparationTypeOK
  <2>4. CASE DecidePlan
    <3>1. plan.version + 1 \in 0..2 /\ 1 \in 0..1
      BY <1>3
    <3> QED
      BY <2>4, <3>1 DEF DecidePlan, PreparationTypeOK
  <2> QED
    BY <2>1, <2>2, <2>3, <2>4
<1>5. doc' \in [body : {Missing, "scaffold", "whole"},
                status : {"draft", "validated", "reviewed", "approved", "cancelled"}]
  BY <1>3 DEF CheckMarkers, ReviewPreparedPlan, PublishPlan, DecidePlan, Announced, PreparationTypeOK
<1>6. /\ prepare' \in PrepareCommands
      /\ prepare'.at # "idle" => plan'.version = 1 /\ plan'.state \in {"draft", "validated", "reviewed"}
      /\ prepare'.at \in {"review", "publish", "decide"} =>
             prepare.at \in {"review", "publish", "decide"} /\ prepare'.listed = prepare.listed
  <2>1. CASE CheckMarkers
    <3>1. CASE Marked = {}
      BY <1>3, <2>1, <3>1, NotPreparingIsTyped DEF CheckMarkers, PrepareGoes, PreparationTypeOK, PrepareCommands, PrepareSteps
    <3>2. CASE Marked # {}
      BY <2>1, <3>2, NotPreparingIsTyped DEF CheckMarkers
    <3> QED
      BY <3>1, <3>2
  <2>2. CASE ReviewPreparedPlan
    BY <1>3, <2>2 DEF ReviewPreparedPlan, PrepareGoes, PreparationTypeOK, PrepareCommands, PrepareSteps
  <2>3. CASE PublishPlan
    <3>1. CASE Present = Artifacts
      BY <1>3, <2>3, <3>1 DEF PublishPlan, PrepareGoes, PreparationTypeOK, PrepareCommands, PrepareSteps
    <3>2. CASE Present # Artifacts
      BY <2>3, <3>2, NotPreparingIsTyped DEF PublishPlan
    <3> QED
      BY <3>1, <3>2
  <2>4. CASE DecidePlan
    BY <2>4, NotPreparingIsTyped DEF DecidePlan
  <2> QED
    BY <2>1, <2>2, <2>3, <2>4
<1>7. PastGatesInv'
  BY <1>1, <1>6, WholeIsUnchanged
<1> QED
  BY <1>1, <1>4, <1>5, <1>6, <1>7 DEF PreparationTypeOK, PlanInv

LEMMA PreparationStepInv == PreparationInv /\ [PreparationNext]_preparationVars => PreparationInv'
<1>1. ASSUME PreparationInv, PreparationNext PROVE PreparationInv'
  BY <1>1, BeforePrepareKeepsInv, WritesKeepPreparationInv, CommandKeepsPreparationInv,
     GatesKeepPreparationInv DEF PreparationNext, PrepareStep, PlannerEnds
<1>2. ASSUME PreparationInv, UNCHANGED preparationVars PROVE PreparationInv'
  BY <1>2, WholeIsUnchanged
     DEF preparationVars, artifactVars, PreparationInv, PreparationTypeOK, PlanInv
<1> QED
  BY <1>1, <1>2

\* The user is asked to approve a plan only when its groups, a task list that covers
\* them and every other artifact pass what the validators look for, for any groups,
\* artifacts, retries and repair passes, whatever the planner or another service
\* writes in whichever attempt (runPrepareWorkflow up to the decision).
THEOREM PlansOfferedAreWhole == PreparationSpec => []OfferedPlanIsWhole
<1>1. PreparationSpec => []PreparationInv
  BY PreparationInitInv, PreparationStepInv, PTL DEF PreparationSpec
<1>2. PreparationInv => OfferedPlanIsWhole
  BY DEF PreparationInv, PastGatesInv, PlanIsWhole, OfferedPlanIsWhole
<1> QED
  BY <1>1, <1>2, PTL

\* The artifacts of a plan, its state and the budgets of retries and repairs stay within
\* their types, through failing attempts and repairs (orchestration/prepare/workflow.ts).
THEOREM PreparationTypeCorrect == PreparationSpec => []PreparationTypeOK
<1>1. PreparationInv => PreparationTypeOK
  BY DEF PreparationInv
<1> QED
  BY <1>1, PreparationInitInv, PreparationStepInv, PTL DEF PreparationSpec
-----------------------------------------------------------------------------
(* The plan review                                                         *)

\* Reviewers are asked with tries left, and a required one is never skipped.
ReadersInv ==
    /\ \A n \in Names : answers[n] = "open" => tries[n] <= MaxRetries
    /\ \A n \in Names : answers[n] = "skipped" => n \notin Core
    /\ planReview = "readers" =>
          /\ resolved
          /\ \A n \in Core : manifest[n] = "requested"
          /\ \A n \in Names : answers[n] # "open" => manifest[n] = "requested"

HasRead(n) == manifest[n] = "executed" /\ outputs[n] # "none"
Waits(n) == \E k \in DOMAIN toRerun : toRerun[k] = n

\* An answer is among the outputs unless another one's failure was put down to its
\* reviewer.
KeptInv ==
    \A n \in Names : answers[n] \in Grades =>
        outputs[n] = answers[n] \/ \E m \in Names \ {n} : blamed[m] = n

\* As long as every rerun succeeds, a required reviewer to whom its failure was put
\* down has read the plan or waits to be run again.
RequiredInv == resolved => \A n \in Core : blamed[n] = n => HasRead(n) \/ Waits(n)

\* Who is run again has a failure put down to it.
WaitingInv ==
    \A k \in DOMAIN toRerun : \E m \in Names : blamed[m] = toRerun[k] /\ answers[m] = "failed"

AnsweredInv ==
    planReview \in {"rerun", "judge"} =>
        /\ KeptInv /\ RequiredInv /\ WaitingInv
        /\ planReview = "judge" => resolved /\ toRerun = <<>>
        /\ planReview = "rerun" => toRerun # <<>>

PlanReviewInv == PlanReviewTypeOK /\ ReadersInv /\ AnsweredInv /\ ApprovedWasReviewed

LEMMA ReviewersAreListed ==
    /\ Len(PlanReviewers) \in Nat /\ DOMAIN PlanReviewers = 1..Len(PlanReviewers)
    /\ PlanReviewers \in Seq(Names) /\ Core \subseteq Names
    /\ \A n \in Names : \E i \in DOMAIN PlanReviewers : PlanReviewers[i] = n
BY PlanReviewAssumption DEF Names, ToSet

LEMMA ListedInOrder ==
    ASSUME NEW S \in SUBSET Names
    PROVE  InOrder(S) \in Seq(Names) /\ ToSet(InOrder(S)) = S
<1> DEFINE I == {i \in DOMAIN PlanReviewers : PlanReviewers[i] \in S}
<1>1. I \in SUBSET DOMAIN PlanReviewers /\ I \in SUBSET (1..Len(PlanReviewers)) /\ Len(PlanReviewers) \in Nat
  BY ReviewersAreListed
<1>2. InOrder(S) = Picked(PlanReviewers, I)
  BY DEF InOrder
<1>3. InOrder(S) \in Seq(Names)
  BY <1>1, <1>2, PickedIsSeq, ReviewersAreListed
<1>6. (\A n \in S : \E i \in I : PlanReviewers[i] = n) /\ \A i \in I : PlanReviewers[i] \in S
  BY ReviewersAreListed
<1> HIDE DEF I
<1>4. \A k \in DOMAIN Picked(PlanReviewers, I) : \E i \in I : Picked(PlanReviewers, I)[k] = PlanReviewers[i]
  BY <1>1, PickedElements
<1>5. \A i \in I : \E k \in DOMAIN Picked(PlanReviewers, I) : Picked(PlanReviewers, I)[k] = PlanReviewers[i]
  BY <1>1, PickedElements
<1>7. ToSet(InOrder(S)) \subseteq S
  BY <1>2, <1>4, <1>6 DEF ToSet
<1>8. S \subseteq ToSet(InOrder(S))
  BY <1>2, <1>5, <1>6 DEF ToSet
<1> QED
  BY <1>3, <1>7, <1>8

LEMMA PlanReviewInitInv == PlanReviewInit => PlanReviewInv
<1> SUFFICES ASSUME PlanReviewInit PROVE PlanReviewInv
  OBVIOUS
<1>1. tries \in [Names -> 0..MaxRetries + 1] /\ \A n \in Names : tries[n] = 0
  BY PlanReviewAssumption DEF PlanReviewInit, Same
<1>2. /\ answers \in [Names -> Grades \cup {"open", "failed", "skipped"}]
      /\ \A n \in Names : answers[n] = "open"
      /\ manifest \in [Names -> {"absent", "requested", "executed", "skipped", "failed"}]
      /\ blamed \in [Names -> Names] /\ outputs \in [Names -> Grades \cup {"none"}]
  BY DEF PlanReviewInit, Same, Itself
<1>3. version \in 1..MaxVersion /\ toRerun \in Seq(Names)
  BY PlanReviewAssumption DEF PlanReviewInit
<1> QED
  BY <1>1, <1>2, <1>3, PlanReviewAssumption
     DEF PlanReviewInit, PlanReviewInv, PlanReviewTypeOK, ReadersInv, AnsweredInv, ApprovedWasReviewed

LEMMA BeginKeepsPlanReviewInv ==
    ASSUME PlanReviewInv, BeginPlanReview
    PROVE  PlanReviewInv'
<1> USE DEF PlanReviewInv
<1>1. tries' \in [Names -> 0..MaxRetries + 1] /\ \A n \in Names : tries'[n] = 0
  BY PlanReviewAssumption DEF BeginPlanReview, Same
<1>2. /\ answers' \in [Names -> Grades \cup {"open", "failed", "skipped"}]
      /\ \A n \in Names : answers'[n] = "open"
      /\ blamed' \in [Names -> Names] /\ outputs' \in [Names -> Grades \cup {"none"}]
  BY DEF BeginPlanReview, Same, Itself
<1>3. manifest' \in [Names -> {"absent", "requested", "executed", "skipped", "failed"}]
  BY DEF BeginPlanReview, Same
<1>4. version' \in 1..MaxVersion /\ tags' \in BOOLEAN /\ toRerun' \in Seq(Names) /\ resolved' = TRUE
  BY PlanReviewAssumption DEF BeginPlanReview, Revise, PlanReviewTypeOK
<1>5. /\ planReview' \in {"no", "readers"} /\ verdict' \in {"none", "approve", "revise", "ask"}
      /\ planReview' = "readers" => \A n \in Core : manifest'[n] = "requested"
      /\ planReview' = "no" => verdict' = "revise" \/ ~tags'
  BY ReviewersAreListed DEF BeginPlanReview, Revise
<1>6. PlanReviewTypeOK'
  BY <1>1, <1>2, <1>3, <1>4, <1>5 DEF PlanReviewTypeOK
<1>7. ReadersInv'
  BY <1>1, <1>2, <1>4, <1>5, PlanReviewAssumption DEF ReadersInv
<1>8. AnsweredInv' /\ ApprovedWasReviewed'
  BY <1>5 DEF AnsweredInv, ApprovedWasReviewed
<1> QED
  BY <1>6, <1>7, <1>8

LEMMA ReadKeepsPlanReviewInv ==
    ASSUME PlanReviewInv, NEW n \in Names, Read(n)
    PROVE  PlanReviewInv'
<1> USE PlanReviewAssumption DEF PlanReviewInv
<1>1. tries[n] \in 0..MaxRetries
  BY DEF Read, PlanReviewTypeOK, ReadersInv
<1>2. tries' \in [Names -> 0..MaxRetries + 1]
  BY <1>1 DEF Read, PlanReviewTypeOK
<1>3. answers' \in [Names -> Grades \cup {"open", "failed", "skipped"}]
  BY DEF Read, PlanReviewTypeOK
<1>4. PlanReviewTypeOK'
  BY <1>2, <1>3 DEF Read, PlanReviewTypeOK
<1>5. answers'[n] = "open" => tries'[n] <= MaxRetries
  BY <1>1 DEF Read, PlanReviewTypeOK, Grades
<1>6. answers'[n] = "skipped" => n \notin Core
  BY DEF Read, PlanReviewTypeOK, Grades
<1>7. \A m \in Names \ {n} : answers'[m] = answers[m] /\ tries'[m] = tries[m]
  BY DEF Read, PlanReviewTypeOK
<1>8. ReadersInv'
  BY <1>5, <1>6, <1>7 DEF Read, ReadersInv
<1> QED
  BY <1>4, <1>8 DEF Read, AnsweredInv, ApprovedWasReviewed

LEMMA RecordKeepsPlanReviewInv ==
    ASSUME PlanReviewInv, RecordAnswers
    PROVE  PlanReviewInv'
<1> USE DEF PlanReviewInv
<1> DEFINE F == {n \in PlanAsked : answers[n] = "failed"}
           failures == InOrder(F)
           named == [i \in DOMAIN failures |-> blamed'[failures[i]]]
           I == {i \in DOMAIN named : named[i] \in Core}
           Failed(n) == \E m \in F : blamed'[m] = n /\ (n \in F \/ Place(n) < Place(m))
<1>1. F \in SUBSET Names
  BY DEF PlanAsked
<1>2. failures \in Seq(Names) /\ ToSet(failures) = F
  BY <1>1, ListedInOrder
<1>3. blamed' \in [Names -> Names]
  BY DEF RecordAnswers, Attributions
<1>4. /\ named \in Seq(Names) /\ Len(named) \in Nat /\ DOMAIN named = DOMAIN failures
      /\ \A i \in DOMAIN named : named[i] = blamed'[failures[i]]
  <2> HIDE DEF failures
  <2> QED
    BY <1>2, <1>3
<1>5. /\ toRerun' = Picked(named, I)
      /\ outputs' = [n \in Names |-> IF answers[n] \in Grades THEN answers[n] ELSE "none"]
      /\ planReview' = IF toRerun' = <<>> THEN "judge" ELSE "rerun"
      /\ manifest' = [n \in Names |-> CASE n \notin PlanAsked -> "absent"
                                        [] Failed(n) -> "failed"
                                        [] n \in F -> "requested"
                                        [] answers[n] = "skipped" -> "skipped"
                                        [] OTHER -> "executed"]
      /\ planReview = "readers" /\ PlanFinished
      /\ UNCHANGED <<version, tags, tries, answers, resolved, verdict>>
  BY DEF RecordAnswers
<1>6. I \in SUBSET DOMAIN named /\ I \in SUBSET (1..Len(named))
  <2>1. I \in SUBSET DOMAIN named
    OBVIOUS
  <2>2. named \in Seq(Names)
    BY <1>4
  <2> HIDE DEF named, I
  <2> QED
    BY <2>1, <2>2
<1>7. \A i \in I : i \in DOMAIN named /\ named[i] \in Core
  <2> HIDE DEF named
  <2> QED
    OBVIOUS
<1>8. \A i \in DOMAIN named : named[i] \in Core => i \in I
  <2> HIDE DEF named
  <2> QED
    OBVIOUS
<1> HIDE DEF named, I
<1>9. toRerun' \in Seq(Names)
  BY <1>4, <1>5, <1>6, PickedIsSeq
<1>10. /\ \A i \in I : \E k \in DOMAIN toRerun' : toRerun'[k] = named[i]
       /\ \A k \in DOMAIN toRerun' : \E i \in I : toRerun'[k] = named[i]
  BY <1>4, <1>5, <1>6, PickedElements
<1> HIDE DEF failures
<1>11. \A i \in DOMAIN failures : failures[i] \in F
  BY <1>2 DEF ToSet
<1>12. \A m \in F : \E i \in DOMAIN failures : failures[i] = m
  BY <1>2 DEF ToSet
<1>13. ASSUME NEW m \in F, blamed'[m] \in Core PROVE \E k \in DOMAIN toRerun' : toRerun'[k] = blamed'[m]
  <2>1. PICK i \in DOMAIN failures : failures[i] = m
    BY <1>12
  <2>2. i \in I /\ named[i] = blamed'[m]
    BY <1>4, <1>8, <1>13, <2>1
  <2> QED
    BY <1>10, <2>2
<1>14. WaitingInv'
  <2>1. ASSUME NEW k \in DOMAIN toRerun' PROVE \E m \in F : blamed'[m] = toRerun'[k]
    <3>1. PICK i \in I : toRerun'[k] = named[i]
      BY <1>10
    <3>2. i \in DOMAIN failures /\ toRerun'[k] = blamed'[failures[i]]
      BY <1>4, <1>7, <3>1
    <3> QED
      BY <1>11, <3>2
  <2>2. \A m \in F : m \in Names /\ answers[m] = "failed"
    BY <1>1
  <2>3. answers' = answers
    BY <1>5
  <2> HIDE DEF F
  <2> QED
    BY <2>1, <2>2, <2>3 DEF WaitingInv
<1>15. manifest' \in [Names -> {"absent", "requested", "executed", "skipped", "failed"}]
  <2> HIDE DEF F, Failed
  <2> QED
    BY <1>5
<1>16. outputs' \in [Names -> Grades \cup {"none"}] /\ KeptInv'
  BY <1>5 DEF KeptInv
<1>17. ASSUME NEW n \in Core, blamed'[n] = n PROVE HasRead(n)' \/ Waits(n)'
  <2>1. n \in Names /\ n \in PlanAsked /\ answers[n] \in Grades \cup {"failed"}
    BY <1>5, ReviewersAreListed DEF ReadersInv, PlanAsked, PlanFinished, PlanReviewTypeOK
  <2>2. CASE \E m \in F : blamed'[m] = n
    BY <1>13, <2>2 DEF Waits
  <2>3. CASE \A m \in F : blamed'[m] # n
    <3>1. n \notin F
      BY <1>17, <2>3
    <3>2. answers[n] \in Grades
      BY <2>1, <3>1
    <3>3. ~Failed(n)
      BY <2>3
    <3>4. answers[n] # "skipped" /\ answers[n] # "none"
      BY <3>2 DEF Grades
    <3>5. manifest'[n] = "executed"
      <4> HIDE DEF F, Failed
      <4> QED
        BY <1>5, <2>1, <3>1, <3>3, <3>4
    <3>6. outputs'[n] = answers[n]
      BY <1>5, <2>1, <3>2
    <3> QED
      BY <3>4, <3>5, <3>6 DEF HasRead
  <2> QED
    BY <2>2, <2>3
<1>18. AnsweredInv'
  <2>1. resolved'
    BY <1>5 DEF ReadersInv
  <2>2. RequiredInv'
    BY <1>17 DEF RequiredInv
  <2> QED
    BY <1>5, <1>14, <1>16, <2>1, <2>2 DEF AnsweredInv
<1>19. PlanReviewTypeOK'
  BY <1>3, <1>5, <1>9, <1>15, <1>16 DEF PlanReviewTypeOK
<1> QED
  BY <1>5, <1>18, <1>19 DEF ReadersInv, ApprovedWasReviewed

LEMMA RerunKeepsPlanReviewInv ==
    ASSUME PlanReviewInv, Rerun
    PROVE  PlanReviewInv'
<1> USE DEF PlanReviewInv
<1> DEFINE h == Head(toRerun)
<1>1. toRerun \in Seq(Names) /\ toRerun # <<>>
  BY DEF Rerun, PlanReviewTypeOK, AnsweredInv
<1>2. /\ Tail(toRerun) \in Seq(Names) /\ h \in Names /\ h = toRerun[1]
      /\ Len(toRerun) \in Nat \ {0} /\ 1 \in DOMAIN toRerun
      /\ \A k \in 2..Len(toRerun) : k - 1 \in DOMAIN Tail(toRerun) /\ Tail(toRerun)[k - 1] = toRerun[k]
      /\ \A k \in DOMAIN Tail(toRerun) : k + 1 \in DOMAIN toRerun /\ Tail(toRerun)[k] = toRerun[k + 1]
  BY <1>1
<1>3. planReview = "rerun" /\ KeptInv /\ RequiredInv /\ WaitingInv
  BY DEF Rerun, AnsweredInv
<1>4. /\ planReview' = IF toRerun' # <<>> THEN "rerun" ELSE IF resolved' THEN "judge" ELSE "no"
      /\ verdict' = IF toRerun' = <<>> /\ ~resolved' THEN "ask" ELSE verdict
      /\ UNCHANGED <<version, tags, tries, answers, blamed>>
  BY DEF Rerun
<1>5. ASSUME toRerun' \in {Tail(toRerun), <<>>} PROVE toRerun' \in Seq(Names) /\ WaitingInv'
  <2>1. CASE toRerun' = Tail(toRerun)
    BY <1>2, <1>3, <1>4, <2>1 DEF WaitingInv
  <2>2. CASE toRerun' = <<>>
    BY <2>2 DEF WaitingInv
  <2> QED
    BY <1>5, <2>1, <2>2
<1> HIDE DEF h
<1>6. CASE RerunSucceeds
  <2>1. PICK g \in Grades : outputs' = [outputs EXCEPT ![h] = g]
    BY <1>6 DEF RerunSucceeds, h
  <2>2. manifest' = [manifest EXCEPT ![h] = "executed"] /\ toRerun' = Tail(toRerun) /\ resolved' = resolved
    BY <1>6 DEF RerunSucceeds, h
  <2>3. /\ manifest' \in [Names -> {"absent", "requested", "executed", "skipped", "failed"}]
        /\ outputs' \in [Names -> Grades \cup {"none"}]
        /\ \A n \in Names : manifest'[n] = IF n = h THEN "executed" ELSE manifest[n]
        /\ \A n \in Names : outputs'[n] = IF n = h THEN g ELSE outputs[n]
        /\ g # "none"
    BY <1>2, <2>1, <2>2 DEF PlanReviewTypeOK, Grades
  <2>4. KeptInv'
    <3>1. PICK m \in Names : blamed[m] = h /\ answers[m] = "failed"
      BY <1>2, <1>3 DEF WaitingInv
    <3>2. answers[h] \in Grades => m # h
      BY <3>1 DEF Grades
    <3> QED
      BY <1>3, <1>4, <2>3, <3>1, <3>2 DEF KeptInv
  <2>5. RequiredInv'
    <3> SUFFICES ASSUME resolved, NEW n \in Core, blamed[n] = n PROVE HasRead(n)' \/ Waits(n)'
      BY <1>4, <2>2 DEF RequiredInv
    <3>1. n \in Names /\ (HasRead(n) \/ Waits(n))
      BY <1>3, ReviewersAreListed DEF RequiredInv
    <3>2. CASE n = h
      BY <2>3, <3>1, <3>2 DEF HasRead
    <3>3. CASE n # h /\ HasRead(n)
      BY <2>3, <3>1, <3>3 DEF HasRead
    <3>4. CASE n # h /\ Waits(n)
      <4>1. PICK k \in DOMAIN toRerun : toRerun[k] = n
        BY <3>4 DEF Waits
      <4>2. k \in 2..Len(toRerun)
        BY <1>1, <1>2, <3>4, <4>1
      <4> QED
        BY <1>2, <2>2, <4>1, <4>2 DEF Waits
    <3> QED
      BY <3>1, <3>2, <3>3, <3>4
  <2>6. toRerun' \in Seq(Names) /\ WaitingInv'
    BY <1>5, <2>2
  <2>7. PlanReviewTypeOK'
    BY <1>4, <2>2, <2>3, <2>6 DEF PlanReviewTypeOK
  <2>8. AnsweredInv'
    BY <1>4, <2>4, <2>5, <2>6 DEF AnsweredInv
  <2> QED
    BY <1>3, <1>4, <2>7, <2>8 DEF ReadersInv, ApprovedWasReviewed
<1>7. CASE RerunFails
  <2>1. toRerun' \in Seq(Names) /\ WaitingInv' /\ resolved' = FALSE /\ UNCHANGED <<manifest, outputs>>
    BY <1>5, <1>7 DEF RerunFails
  <2>2. KeptInv' /\ RequiredInv'
    BY <1>3, <1>4, <2>1 DEF KeptInv, RequiredInv
  <2>3. PlanReviewTypeOK'
    BY <1>4, <2>1 DEF PlanReviewTypeOK
  <2>4. AnsweredInv'
    BY <1>4, <2>1, <2>2 DEF AnsweredInv
  <2> QED
    BY <1>3, <1>4, <2>1, <2>3, <2>4 DEF ReadersInv, ApprovedWasReviewed
<1> QED
  BY <1>6, <1>7 DEF Rerun

LEMMA EndKeepsPlanReviewInv ==
    ASSUME PlanReviewInv, JudgePlan \/ PlanReviewBreaks
    PROVE  PlanReviewInv'
<1> USE DEF PlanReviewInv
<1>1. CASE JudgePlan /\ Blocks(Found)
  BY <1>1, PlanReviewAssumption
     DEF JudgePlan, Revise, PlanReviewTypeOK, ReadersInv, AnsweredInv, ApprovedWasReviewed
<1>2. CASE JudgePlan /\ ~Blocks(Found)
  <2>1. planReview = "judge" /\ resolved /\ toRerun = <<>> /\ KeptInv /\ RequiredInv
    BY <1>2 DEF JudgePlan, AnsweredInv
  <2>2. \A n \in Core : blamed[n] = n => HasRead(n)
    BY <2>1 DEF RequiredInv, Waits
  <2>3. \A n \in Names : outputs[n] \notin {"critical", "major"}
    BY <1>2 DEF Found, Blocks, Grades
  <2>4. \A n \in Names : answers[n] \in {"critical", "major"} => \E m \in Names \ {n} : blamed[m] = n
    BY <2>1, <2>3 DEF KeptInv, Grades
  <2>5. ApprovedWasReviewed'
    BY <1>2, <2>2, <2>3, <2>4 DEF JudgePlan, ApprovedWasReviewed, HasRead
  <2> QED
    BY <1>2, <2>1, <2>5 DEF JudgePlan, PlanReviewTypeOK, ReadersInv, AnsweredInv
<1>3. CASE PlanReviewBreaks
  BY <1>3 DEF PlanReviewBreaks, PlanReviewTypeOK, ReadersInv, AnsweredInv, ApprovedWasReviewed
<1> QED
  BY <1>1, <1>2, <1>3

LEMMA PlanReviewStepInv == PlanReviewInv /\ [PlanReviewNext]_planReviewVars => PlanReviewInv'
<1>1. ASSUME PlanReviewInv, PlanReviewNext PROVE PlanReviewInv'
  BY <1>1, BeginKeepsPlanReviewInv, ReadKeepsPlanReviewInv, RecordKeepsPlanReviewInv,
     RerunKeepsPlanReviewInv, EndKeepsPlanReviewInv DEF PlanReviewNext, PlanReviewStep
<1>2. ASSUME PlanReviewInv, UNCHANGED planReviewVars PROVE PlanReviewInv'
  <2>1. PlanReviewTypeOK'
    BY <1>2 DEF planReviewVars, PlanReviewInv, PlanReviewTypeOK
  <2>2. ReadersInv'
    BY <1>2 DEF planReviewVars, PlanReviewInv, ReadersInv
  <2>3. AnsweredInv'
    BY <1>2 DEF planReviewVars, PlanReviewInv, AnsweredInv, KeptInv, RequiredInv, WaitingInv, HasRead, Waits
  <2>4. ApprovedWasReviewed'
    BY <1>2 DEF planReviewVars, PlanReviewInv, ApprovedWasReviewed
  <2> QED
    BY <2>1, <2>2, <2>3, <2>4 DEF PlanReviewInv
<1> QED
  BY <1>1, <1>2

\* A plan with review tags is approved only when every required reviewer has read it,
\* but for one whose failure was put down to another, and nothing that is left of the
\* outputs is critical or major, for any reviewers, tiers, retries and messages of
\* errors, and whoever fails, is skipped or is run again (runPlanReview).
THEOREM ApprovalRestsOnReview == PlanReviewSpec => []ApprovedWasReviewed
<1>1. PlanReviewInv => ApprovedWasReviewed
  BY DEF PlanReviewInv
<1> QED
  BY <1>1, PlanReviewInitInv, PlanReviewStepInv, PTL DEF PlanReviewSpec
-----------------------------------------------------------------------------
(* Profiles                                                                *)

Ensurings == [at : {"idle", "look", "activate", "write", "ready", "failed"},
              of : SUBSET Definitions, env : SUBSET Registries, registry : BOOLEAN,
              wanted : SUBSET (Lanes \ Optional), recheck : SUBSET (Lanes \ Optional), next : Caches]

Runs == [at : {"idle", "run", "refused", "persist", "replace"}, agent : Agents, model : Models \cup {0},
         left : Seq(Models), tried : Seq(Models \cup {0}), buffer : Caches]

ProfilesTypes ==
    /\ profiles \in [Sessions -> Definitions] /\ usable \in Registries /\ changes \in 0..MaxChanges
    /\ cache \in Caches /\ ensuring \in [Sessions -> Ensurings] /\ running \in [Sessions -> Runs]
    /\ unfit \in [Sessions -> SUBSET Lanes]

\* What is promised is looked at again after an activation, if anything is.
Rechecks(e) ==
    e.at \in {"activate", "write"} => e.recheck = {} \/ LanesToPreflight(e.wanted) \subseteq e.recheck

\* A cache that is to be written was made of models that were usable when the
\* activation resolved them.
EnsuredInv ==
    \A s \in Sessions : /\ ensuring[s].at \in {"write", "ready"} => unfit[s] = {}
                        /\ Rechecks(ensuring[s])

\* No entry is repeated, nor the first model at another level of thinking.
AllNew(entries) ==
    IsInjective(entries) /\ \A i \in DOMAIN entries : i > 1 => Plain[entries[i]] # Plain[entries[1]]

\* What a run has tried and has left to try is one list without repetitions.
TriedInv(s) ==
    LET r == running[s] IN
    /\ AllNew(r.tried \o r.left)
    /\ r.at \in {"run", "refused"} /\ Len(r.tried) = 1 => r.tried = <<r.model>>
    /\ r.at = "refused" => Len(r.tried) = 1
    /\ r.at = "replace" => r.left # <<>>

\* Every cache there is, written or in memory, gives the agents of a lane the
\* model of the lane.
OneModel(c) == \A a \in Agents : c.agents[a] = c.lanes[LaneOf[a]]

OneModelInv ==
    /\ OneModel(cache)
    /\ \A s \in Sessions : OneModel(ensuring[s].next) /\ OneModel(running[s].buffer)

ProfilesInv ==
    /\ ProfilesTypes
    /\ EnsuredInv
    /\ \A s \in Sessions : TriedInv(s)
    /\ OneModelInv

LEMMA NoCacheIsCache == NoCache \in Caches /\ OneModel(NoCache)
<1>1. NoModels \in [Lanes -> Models \cup {0}] /\ [a \in Agents |-> 0] \in [Agents -> Models \cup {0}]
  BY DEF NoModels
<1>2. OneModel(NoCache)
  BY ProfilesAssumption DEF NoCache, NoModels, OneModel
<1> QED
  BY <1>1, <1>2 DEF NoCache, Caches

LEMMA NotEnsuringIsTyped == NotEnsuring \in Ensurings /\ NotEnsuring.next = NoCache /\ NotEnsuring.at = "idle"
BY NoCacheIsCache DEF NotEnsuring, Ensurings

LEMMA NotRunningIsTyped ==
    /\ NotRunning \in Runs /\ NotRunning.buffer = NoCache /\ NotRunning.at = "idle"
    /\ NotRunning.tried = <<>> /\ NotRunning.left = <<>>
<1>1. (CHOOSE a \in Agents : TRUE) \in Agents
  BY ProfilesAssumption
<1>2. <<>> \in Seq(Models) /\ <<>> \in Seq(Models \cup {0})
  OBVIOUS
<1> QED
  BY <1>1, <1>2, NoCacheIsCache DEF NotRunning, Runs

LEMMA ProfilesInitInv == ProfilesInit => ProfilesInv
<1> SUFFICES ASSUME ProfilesInit PROVE ProfilesInv
  OBVIOUS
<1>1. ensuring \in [Sessions -> Ensurings] /\ running \in [Sessions -> Runs]
  BY NotEnsuringIsTyped, NotRunningIsTyped DEF ProfilesInit
<1>2. unfit \in [Sessions -> SUBSET Lanes]
  BY DEF ProfilesInit
<1>3. profiles \in [Sessions -> Definitions] /\ changes \in 0..MaxChanges
  BY ProfilesAssumption DEF ProfilesInit
<1>4. ProfilesTypes
  BY <1>1, <1>2, <1>3, NoCacheIsCache DEF ProfilesInit, ProfilesTypes
<1>5. EnsuredInv
  BY NotEnsuringIsTyped DEF ProfilesInit, EnsuredInv, Rechecks
<1>6. AllNew(<<>> \o <<>>)
  BY DEF IsInjective, AllNew
<1>7. \A s \in Sessions : TriedInv(s)
  BY <1>6, NotRunningIsTyped DEF ProfilesInit, TriedInv
<1>8. OneModelInv
  BY NoCacheIsCache, NotEnsuringIsTyped, NotRunningIsTyped DEF ProfilesInit, OneModelInv
<1> QED
  BY <1>4, <1>5, <1>7, <1>8 DEF ProfilesInv

\* A lane is resolved to a model that the registry knows, or to none.
LEMMA ResolvedIsKnown ==
    ASSUME NEW d \in Definitions, NEW known, NEW l \in Lanes
    PROVE  /\ Resolved(d, known)[l] \in Models \cup {0}
           /\ Resolved(d, known)[l] # 0 => Resolved(d, known)[l] \in known
<1>1. d[l] \in Seq(Models)
  BY ProfilesAssumption
<1> DEFINE valid == {i \in DOMAIN d[l] : ValidCandidate(l, d[l][i], known)}
<1>2. Resolved(d, known)[l] = IF valid = {} THEN 0 ELSE d[l][Min(valid)]
  BY DEF Resolved, ResolveLane
<1>3. valid \in SUBSET Nat
  BY <1>1
<1>4. ASSUME valid # {} PROVE Min(valid) \in valid
  <2> HIDE DEF valid
  <2> QED
    BY <1>3, <1>4, LeastNatural
<1>5. ASSUME NEW i \in valid PROVE d[l][i] \in Models /\ d[l][i] \in known
  BY <1>1, <1>5 DEF ValidCandidate
<1> HIDE DEF valid
<1> QED
  BY <1>2, <1>4, <1>5

LEMMA BuiltIsCache ==
    ASSUME NEW s \in Sessions, NEW d \in Definitions, NEW known \in Registries \cup {{}}
    PROVE  BuildCache(s, d, known) \in Caches /\ OneModel(BuildCache(s, d, known))
<1>1. Resolved(d, known) \in [Lanes -> Models \cup {0}]
  BY ResolvedIsKnown DEF Resolved
<1>2. [a \in Agents |-> Resolved(d, known)[LaneOf[a]]] \in [Agents -> Models \cup {0}]
  BY <1>1, ProfilesAssumption
<1>3. BuildCache(s, d, known) \in Caches
  BY <1>1, <1>2 DEF BuildCache, Caches
<1> QED
  BY <1>3 DEF BuildCache, OneModel

LEMMA MovedIsCache ==
    ASSUME NEW c \in Caches, OneModel(c), NEW a \in Agents, NEW m \in Models
    PROVE  MoveLane(c, a, m) \in Caches /\ OneModel(MoveLane(c, a, m))
<1> DEFINE lanes == [c.lanes EXCEPT ![LaneOf[a]] = m]
           agents == [b \in Agents |-> IF LaneOf[b] = LaneOf[a] THEN m ELSE c.agents[b]]
<1>1. lanes \in [Lanes -> Models \cup {0}] /\ agents \in [Agents -> Models \cup {0}]
  BY DEF Caches
<1>2. /\ MoveLane(c, a, m) \in Caches
      /\ MoveLane(c, a, m).lanes = lanes /\ MoveLane(c, a, m).agents = agents
  <2>1. MoveLane(c, a, m) = [c EXCEPT !.fresh = TRUE, !.lanes = lanes, !.agents = agents]
    BY DEF MoveLane
  <2> HIDE DEF lanes, agents
  <2> QED
    BY <1>1, <2>1 DEF Caches
<1>4. \A b \in Agents : agents[b] = lanes[LaneOf[b]]
  BY ProfilesAssumption DEF OneModel, Caches
<1>5. OneModel(MoveLane(c, a, m))
  BY <1>2, <1>4 DEF OneModel
<1> QED
  BY <1>2, <1>5

\* The candidates of a fallback are models of the list, each once, and not the
\* present one at any level.
LEMMA CandidatesAreNew ==
    ASSUME NEW p \in Seq(Models), NEW m
    PROVE  /\ Candidates(p, m) \in Seq(Models) /\ IsInjective(Candidates(p, m))
           /\ \A k \in DOMAIN Candidates(p, m) : Plain[Candidates(p, m)[k]] # Plain[m]
<1> DEFINE tail == {i \in Behind(p, m) : Plain[p[i]] # Plain[m]}
           I == {i \in tail : \A j \in tail : p[j] = p[i] => i <= j}
<1>1. tail \in SUBSET DOMAIN p /\ DOMAIN p = 1..Len(p) /\ Len(p) \in Nat
  BY DEF Behind
<1>2. Candidates(p, m) = Picked(p, I)
  BY DEF Candidates
<1>3. \A i \in I : Plain[p[i]] # Plain[m]
  OBVIOUS
<1>4. \A i, j \in I : p[i] = p[j] => i = j
  <2>1. \A i \in tail : i \in Nat
    BY <1>1
  <2> HIDE DEF tail
  <2> QED
    BY <2>1
<1>5. I \in SUBSET DOMAIN p /\ I \in SUBSET (1..Len(p))
  BY <1>1
<1> HIDE DEF I, tail
<1>6. Picked(p, I) \in Seq(Models)
  BY <1>5, PickedIsSeq
<1>7. IsInjective(Picked(p, I))
  BY <1>1, <1>4, <1>5, PickedIsInjective
<1>8. \A k \in DOMAIN Picked(p, I) : \E i \in I : Picked(p, I)[k] = p[i]
  BY <1>1, <1>5, PickedElements
<1> QED
  BY <1>2, <1>3, <1>6, <1>7, <1>8
\* An element moved from the front of one list to the end of another.
LEMMA MovedToTried ==
    ASSUME NEW S, NEW p \in Seq(S), NEW q \in Seq(S), q # <<>>
    PROVE  Append(p, Head(q)) \o Tail(q) = p \o q
<1> DEFINE l == Append(p, Head(q)) \o Tail(q)
           r == p \o q
<1>1. /\ Len(p) \in Nat /\ Len(q) \in Nat \ {0} /\ Head(q) \in S /\ Tail(q) \in Seq(S)
      /\ Len(Tail(q)) = Len(q) - 1 /\ Append(p, Head(q)) \in Seq(S) /\ Len(Append(p, Head(q))) = Len(p) + 1
  OBVIOUS
<1>2. l \in Seq(S) /\ r \in Seq(S) /\ Len(l) = Len(p) + Len(q) /\ Len(r) = Len(p) + Len(q)
  BY <1>1
<1>3. ASSUME NEW i \in 1..Len(p) + Len(q) PROVE l[i] = r[i]
  BY <1>1
<1> HIDE DEF l, r
<1>4. l = r
  BY <1>2, <1>3
<1> QED
  BY <1>4 DEF l, r

\* Only the present model is tried, and the candidates are new.
LEMMA OneThenNew ==
    ASSUME NEW S, NEW x, NEW q \in Seq(S), IsInjective(q),
           \A k \in DOMAIN q : Plain[q[k]] # Plain[x]
    PROVE  AllNew(<<x>> \o q)
<1>1. Len(q) \in Nat /\ DOMAIN q = 1..Len(q) /\ q \in Seq(S \cup {x}) /\ <<x>> \in Seq(S \cup {x})
  OBVIOUS
<1>2. DOMAIN (<<x>> \o q) = 1..Len(q) + 1
  BY <1>1
<1>3. \A i \in 1..Len(q) + 1 : (<<x>> \o q)[i] = IF i = 1 THEN x ELSE q[i - 1]
  BY <1>1
<1>a. ASSUME NEW i \in 1..Len(q) + 1, i > 1
      PROVE  Plain[(<<x>> \o q)[i]] # Plain[(<<x>> \o q)[1]]
  <2>1. i - 1 \in DOMAIN q /\ (<<x>> \o q)[i] = q[i - 1] /\ (<<x>> \o q)[1] = x
    BY <1>1, <1>3, <1>a
  <2> QED
    BY <2>1
<1>b. \A k \in DOMAIN q : q[k] # x
  OBVIOUS
<1> SUFFICES ASSUME NEW i \in 1..Len(q) + 1, NEW j \in 1..Len(q) + 1, (<<x>> \o q)[i] = (<<x>> \o q)[j]
             PROVE  i = j
  BY <1>2, <1>a DEF IsInjective, AllNew
<1>4. CASE i = 1 \/ j = 1
  BY <1>1, <1>3, <1>4, <1>b
<1>5. CASE i # 1 /\ j # 1
  <2>1. i - 1 \in DOMAIN q /\ j - 1 \in DOMAIN q /\ q[i - 1] = q[j - 1]
    BY <1>1, <1>3, <1>5
  <2>2. i - 1 = j - 1
    BY <2>1 DEF IsInjective
  <2> QED
    BY <2>2
<1> QED
  BY <1>4, <1>5

\* ensureResolved: only the session's own entries change, and the cache when it is
\* written.
LEMMA EnsureKeepsProfilesInv ==
    ASSUME ProfilesInv, NEW s \in Sessions,
           BeginEnsure(s) \/ RefreshCommand(s) \/ LookAtCache(s) \/ Activate(s) \/ WriteCache(s)
    PROVE  ProfilesInv'
<1> USE DEF ProfilesInv
<1>1. UNCHANGED <<profiles, usable, changes, running>>
  BY DEF BeginEnsure, RefreshCommand, LookAtCache, Activate, WriteCache
<1>2. ASSUME NEW x \in {"idle", "look", "activate", "write", "ready", "failed"},
             NEW b \in BOOLEAN, NEW w \in SUBSET (Lanes \ Optional)
      PROVE  /\ Entry(x, b, w) \in Ensurings /\ Entry(x, b, w).at = x
             /\ Entry(x, b, w).next = NoCache /\ Entry(x, b, w).wanted = w
             /\ Rechecks(Entry(x, b, w))
  BY NotEnsuringIsTyped DEF Entry, Ensurings, NotEnsuring, Rechecks
<1>3. ASSUME NEW e \in Ensurings, NEW u \in SUBSET Lanes,
             ensuring' = [ensuring EXCEPT ![s] = e], unfit' = [unfit EXCEPT ![s] = u],
             cache' \in Caches, OneModel(cache'), OneModel(e.next),
             e.at \in {"write", "ready"} => u = {}, Rechecks(e)
      PROVE  ProfilesInv'
  <2>1. ensuring' \in [Sessions -> Ensurings] /\ unfit' \in [Sessions -> SUBSET Lanes]
    BY <1>3 DEF ProfilesTypes
  <2>2. ProfilesTypes'
    BY <1>1, <1>3, <2>1 DEF ProfilesTypes
  <2>3. /\ ensuring'[s] = e /\ unfit'[s] = u
        /\ \A r \in Sessions \ {s} : ensuring'[r] = ensuring[r] /\ unfit'[r] = unfit[r]
    BY <1>3 DEF ProfilesTypes
  <2>4. EnsuredInv'
    BY <1>3, <2>3 DEF EnsuredInv
  <2>5. OneModelInv'
    BY <1>1, <1>3, <2>3 DEF OneModelInv, OneModel
  <2>6. \A r \in Sessions : TriedInv(r)'
    BY <1>1 DEF TriedInv
  <2> QED
    BY <2>2, <2>4, <2>5, <2>6
<1> DEFINE q == ensuring[s]
<1>4. /\ OneModel(cache) /\ cache \in Caches /\ OneModel(NoCache)
      /\ q \in Ensurings /\ OneModel(q.next) /\ unfit[s] \in SUBSET Lanes /\ {} \in SUBSET Lanes
  BY NoCacheIsCache DEF OneModelInv, ProfilesTypes
<1>5. /\ q.registry \in BOOLEAN /\ q.wanted \in SUBSET (Lanes \ Optional)
      /\ q.recheck \in SUBSET (Lanes \ Optional) /\ q.next \in Caches
  BY <1>4 DEF Ensurings
<1>6. LanesToPreflight(q.wanted) \in SUBSET (Lanes \ Optional)
  BY <1>5 DEF LanesToPreflight
<1>7. Promised(s) \in SUBSET (Lanes \ Optional)
  BY <1>6 DEF Promised
<1>8. ASSUME Fails(s), cache' = cache PROVE ProfilesInv'
  <2>1. {} \in SUBSET (Lanes \ Optional) /\ {} \in SUBSET Lanes /\ FALSE \in BOOLEAN
    OBVIOUS
  <2>2. /\ Entry("failed", FALSE, {}) \in Ensurings
        /\ Entry("failed", FALSE, {}).at = "failed" /\ Entry("failed", FALSE, {}).next = NoCache
        /\ Rechecks(Entry("failed", FALSE, {}))
    BY <1>2, <2>1
  <2> QED
    BY <1>3, <1>4, <1>8, <2>1, <2>2 DEF Fails, Unseen
<1>9. CASE BeginEnsure(s)
  <2>1. PICK registry \in BOOLEAN, readable \in BOOLEAN, wanted \in Wants[s] :
          ensuring' = [ensuring EXCEPT ![s] =
              [Entry("look", registry, wanted) EXCEPT
                  !.of = IF readable THEN {profiles[s]} ELSE {},
                  !.env = IF registry THEN {usable} ELSE {}]]
    BY <1>9 DEF BeginEnsure
  <2> DEFINE of == IF readable THEN {profiles[s]} ELSE {}
             env == IF registry THEN {usable} ELSE {}
             e == [Entry("look", registry, wanted) EXCEPT !.of = of, !.env = env]
  <2>2. of \in SUBSET Definitions /\ env \in SUBSET Registries
    BY DEF ProfilesTypes
  <2>3. wanted \in SUBSET (Lanes \ Optional)
    BY ProfilesAssumption
  <2>4. /\ Entry("look", registry, wanted) \in Ensurings
        /\ Entry("look", registry, wanted).at = "look"
        /\ Entry("look", registry, wanted).next = NoCache
    BY <1>2, <2>3
  <2>5. ensuring' = [ensuring EXCEPT ![s] = e]
    BY <2>1
  <2> HIDE DEF of, env
  <2>6. e \in Ensurings /\ e.next = NoCache /\ e.at = "look" /\ Rechecks(e)
    BY <2>2, <2>4 DEF Ensurings, Rechecks
  <2> HIDE DEF e
  <2>7. unfit' = [unfit EXCEPT ![s] = {}] /\ cache' = cache
    BY <1>9 DEF BeginEnsure, Unseen
  <2> QED
    BY <1>3, <1>4, <2>5, <2>6, <2>7
<1>10. CASE RefreshCommand(s)
  <2>1. PICK registry \in BOOLEAN :
          ensuring' = [ensuring EXCEPT ![s] = Entry("activate", registry, {})]
    BY <1>10 DEF RefreshCommand
  <2>2. {} \in SUBSET (Lanes \ Optional)
    OBVIOUS
  <2>3. /\ Entry("activate", registry, {}) \in Ensurings
        /\ Entry("activate", registry, {}).at = "activate"
        /\ Entry("activate", registry, {}).next = NoCache
        /\ Rechecks(Entry("activate", registry, {}))
    BY <1>2, <2>2
  <2>4. unfit' = [unfit EXCEPT ![s] = {}] /\ cache' = cache
    BY <1>10 DEF RefreshCommand, Unseen
  <2> QED
    BY <1>3, <1>4, <2>1, <2>3, <2>4
<1>11. /\ Entry("ready", FALSE, {}) \in Ensurings
       /\ Entry("ready", FALSE, {}).at = "ready" /\ Entry("ready", FALSE, {}).next = NoCache
       /\ Rechecks(Entry("ready", FALSE, {}))
  <2>1. {} \in SUBSET (Lanes \ Optional) /\ FALSE \in BOOLEAN
    OBVIOUS
  <2> QED
    BY <1>2, <2>1
<1>12. CASE LookAtCache(s)
  <2>1. CASE TrustCache(s)
    <3> DEFINE u == {l \in Promised(s) : cache.lanes[l] \notin usable}
    <3>1. Ready(s) /\ unfit' = [unfit EXCEPT ![s] = u] /\ cache' = cache
      BY <1>12, <2>1 DEF LookAtCache, Seen
    <3>2. u = {}
      BY <2>1 DEF TrustCache, Healthy, Promised
    <3> HIDE DEF u
    <3> QED
      BY <1>3, <1>4, <1>11, <3>1, <3>2 DEF Ready
  <2>2. CASE ~TrustCache(s)
    <3> DEFINE checked == IF IsFresh(cache, s) THEN LanesToPreflight(q.wanted) ELSE q.wanted
               e == [Entry("activate", q.registry, q.wanted) EXCEPT !.recheck = checked]
    <3>1. /\ ensuring' = [ensuring EXCEPT ![s] = e] /\ unfit' = [unfit EXCEPT ![s] = {}]
          /\ cache' = cache
      BY <1>12, <2>2 DEF LookAtCache, Unseen
    <3>2. checked \in SUBSET (Lanes \ Optional)
      BY <1>5, <1>6
    <3>3. /\ Entry("activate", q.registry, q.wanted) \in Ensurings
          /\ Entry("activate", q.registry, q.wanted).at = "activate"
          /\ Entry("activate", q.registry, q.wanted).next = NoCache
          /\ Entry("activate", q.registry, q.wanted).wanted = q.wanted
      BY <1>2, <1>5
    <3>a. checked = {} \/ LanesToPreflight(q.wanted) \subseteq checked
      BY DEF LanesToPreflight
    <3> HIDE DEF checked
    <3>4. e \in Ensurings /\ e.at = "activate" /\ e.next = NoCache /\ Rechecks(e)
      BY <3>2, <3>3, <3>a DEF Ensurings, Rechecks
    <3> HIDE DEF e
    <3> QED
      BY <1>3, <1>4, <3>1, <3>4
  <2> QED
    BY <2>1, <2>2
<1>13. CASE Activate(s)
  <2> DEFINE d == profiles[s]
             known == RegistryOf(s)
             lanes == Resolved(d, known)
             b == BuildCache(s, d, known)
             e == [q EXCEPT !.at = "write", !.next = b]
             u == {l \in Promised(s) : lanes[l] \notin usable}
  <2>1. d \in Definitions /\ known \in Registries \cup {{}} /\ b \in Caches /\ OneModel(b)
    <3>1. d \in Definitions /\ known \in Registries \cup {{}}
      BY DEF ProfilesTypes, RegistryOf
    <3> QED
      BY <3>1, BuiltIsCache
  <2>2. CASE /\ ~HasUnresolvedRequiredLanes(lanes)
             /\ ensuring' = [ensuring EXCEPT ![s].at = "write", ![s].next = b]
             /\ Seen(s, lanes) /\ cache' = cache
    <3>a. Rechecks(q) /\ q.at = "activate"
      BY <1>13 DEF Activate, EnsuredInv
    <3>1. e \in Ensurings /\ e.next = b /\ e.at = "write" /\ Rechecks(e)
      <4> HIDE DEF b
      <4> QED
        BY <1>4, <2>1, <3>a DEF Ensurings, Rechecks
    <3>2. ASSUME NEW l \in Promised(s) PROVE lanes[l] \in usable
      <4>1. q.registry /\ l \in Lanes \ Optional
        BY <1>7 DEF Promised
      <4>2. known = usable /\ lanes[l] # 0
        BY <2>2, <4>1 DEF RegistryOf, HasUnresolvedRequiredLanes
      <4> QED
        BY <2>1, <4>1, <4>2, ResolvedIsKnown
    <3>3. u = {}
      BY <3>2
    <3>4. /\ ensuring' = [ensuring EXCEPT ![s] = e] /\ unfit' = [unfit EXCEPT ![s] = u]
          /\ cache' = cache
      BY <2>2 DEF Seen, ProfilesTypes
    <3> HIDE DEF e, u, b, lanes
    <3> QED
      BY <1>3, <1>4, <2>1, <3>1, <3>3, <3>4
  <2>3. CASE Fails(s) /\ cache' = cache
    BY <1>8, <2>3
  <2> QED
    BY <1>13, <2>2, <2>3 DEF Activate
<1>14. CASE WriteCache(s)
  <2>1. CASE Fails(s) /\ cache' = cache
    BY <1>8, <2>1
  <2>2. CASE Fails(s) /\ cache' = q.next
    <3>1. cache' \in Caches /\ OneModel(cache')
      BY <1>4, <1>5, <2>2
    <3>2. {} \in SUBSET (Lanes \ Optional) /\ {} \in SUBSET Lanes /\ FALSE \in BOOLEAN
      OBVIOUS
    <3>3. /\ Entry("failed", FALSE, {}) \in Ensurings
          /\ Entry("failed", FALSE, {}).at = "failed" /\ Entry("failed", FALSE, {}).next = NoCache
          /\ Rechecks(Entry("failed", FALSE, {}))
      BY <1>2, <3>2
    <3> QED
      BY <1>3, <1>4, <2>2, <3>1, <3>2, <3>3 DEF Fails, Unseen
  <2>3. CASE /\ cache' = q.next /\ Ready(s) /\ Healthy(s, q.next.lanes, q.recheck)
             /\ IF q.recheck = {} THEN UNCHANGED unfit ELSE Seen(s, q.next.lanes)
    <3>1. cache' \in Caches /\ OneModel(cache')
      BY <1>4, <1>5, <2>3
    <3>2. unfit[s] = {} /\ (q.recheck = {} \/ Promised(s) \subseteq q.recheck)
      BY <1>14 DEF WriteCache, EnsuredInv, Rechecks, Promised
    <3>3. CASE q.recheck = {}
      <4>1. unfit' = [unfit EXCEPT ![s] = {}]
        BY <2>3, <3>2, <3>3 DEF ProfilesTypes
      <4> QED
        BY <1>3, <1>4, <1>11, <2>3, <3>1, <4>1 DEF Ready
    <3>4. CASE q.recheck # {}
      <4> DEFINE u == {l \in Promised(s) : q.next.lanes[l] \notin usable}
      <4>1. unfit' = [unfit EXCEPT ![s] = u]
        BY <2>3, <3>4 DEF Seen
      <4>2. u = {}
        BY <2>3, <3>2, <3>4 DEF Healthy, Promised
      <4> HIDE DEF u
      <4> QED
        BY <1>3, <1>4, <1>11, <2>3, <3>1, <4>1, <4>2 DEF Ready
    <3> QED
      BY <3>3, <3>4
  <2> QED
    BY <1>14, <2>1, <2>2, <2>3 DEF WriteCache
<1> QED
  BY <1>9, <1>10, <1>12, <1>13, <1>14
\* runAgent: only the session's own run changes, and the cache when a fallback is
\* persisted.
LEMMA RunKeepsProfilesInv ==
    ASSUME ProfilesInv, NEW s \in Sessions,
           (\E a \in Agents : StartAgent(s, a)) \/ AgentStep(s)
    PROVE  ProfilesInv'
<1> USE DEF ProfilesInv
<1>1. UNCHANGED <<profiles, usable, changes, ensuring, unfit>>
  BY DEF StartAgent, AgentStep, AgentEnds, LoadCandidates, ReadForFallback, ReplaceForFallback
<1>2. ASSUME NEW r \in Runs, running' = [running EXCEPT ![s] = r], cache' \in Caches, OneModel(cache'),
             OneModel(r.buffer), AllNew(r.tried \o r.left),
             r.at \in {"run", "refused"} /\ Len(r.tried) = 1 => r.tried = <<r.model>>,
             r.at = "refused" => Len(r.tried) = 1, r.at = "replace" => r.left # <<>>
      PROVE  ProfilesInv'
  <2>1. running' \in [Sessions -> Runs]
    BY <1>2 DEF ProfilesTypes
  <2>2. ProfilesTypes'
    BY <1>1, <1>2, <2>1 DEF ProfilesTypes
  <2>3. running'[s] = r /\ \A t \in Sessions \ {s} : running'[t] = running[t]
    BY <1>2 DEF ProfilesTypes
  <2>4. EnsuredInv'
    BY <1>1 DEF EnsuredInv
  <2>5. OneModelInv'
    BY <1>1, <1>2, <2>3 DEF OneModelInv, OneModel
  <2>6. TriedInv(s)'
    BY <1>2, <2>3 DEF TriedInv
  <2>7. \A t \in Sessions \ {s} : TriedInv(t)'
    BY <2>3 DEF TriedInv
  <2> QED
    BY <2>2, <2>4, <2>5, <2>6, <2>7
<1> DEFINE q == running[s]
<1>3. /\ q \in Runs /\ cache \in Caches /\ OneModel(cache) /\ OneModel(q.buffer) /\ TriedInv(s)
  BY DEF OneModelInv, ProfilesTypes
<1>4. /\ q.left \in Seq(Models) /\ q.tried \in Seq(Models \cup {0}) /\ q.left \in Seq(Models \cup {0})
      /\ q.model \in Models \cup {0} /\ q.agent \in Agents /\ q.buffer \in Caches
  BY <1>3 DEF Runs
<1>5. /\ NotRunning \in Runs /\ OneModel(NotRunning.buffer) /\ NotRunning.at = "idle"
      /\ NotRunning.tried = <<>> /\ NotRunning.left = <<>> /\ AllNew(NotRunning.tried \o NotRunning.left)
  <2>1. AllNew(<<>> \o <<>>)
    BY DEF IsInjective, AllNew
  <2> QED
    BY <2>1, NotRunningIsTyped, NoCacheIsCache
<1>6. ASSUME NEW a \in Agents, StartAgent(s, a) PROVE ProfilesInv'
  <2> DEFINE m == cache.agents[a]
             r == [NotRunning EXCEPT !.at = "run", !.agent = a, !.model = m, !.tried = <<m>>]
  <2>1. m \in Models \cup {0}
    BY <1>3 DEF Caches
  <2>2. running' = [running EXCEPT ![s] = r] /\ cache' = cache
    BY <1>6 DEF StartAgent
  <2> HIDE DEF m
  <2>3. <<m>> \in Seq(Models \cup {0}) /\ AllNew(<<m>> \o <<>>)
    BY <2>1 DEF IsInjective, AllNew
  <2>4. r \in Runs /\ r.tried = <<m>> /\ r.left = <<>> /\ r.model = m /\ r.at = "run" /\ OneModel(r.buffer)
    BY <1>5, <2>1, <2>3, NotRunningIsTyped DEF Runs
  <2> HIDE DEF r
  <2> QED
    BY <1>2, <1>3, <2>2, <2>3, <2>4
<1>7. CASE AgentEnds(s)
  <2>1. CASE running' = [running EXCEPT ![s] = NotRunning]
    BY <1>2, <1>3, <1>5, <1>7, <2>1 DEF AgentEnds
  <2>2. CASE running' = [running EXCEPT ![s].at = IF Len(running[s].tried) = 1 THEN "refused" ELSE "persist"]
    <3> DEFINE r == [q EXCEPT !.at = IF Len(q.tried) = 1 THEN "refused" ELSE "persist"]
    <3>1. running' = [running EXCEPT ![s] = r] /\ cache' = cache /\ q.at = "run"
      BY <1>7, <2>2 DEF AgentEnds, ProfilesTypes
    <3>2. /\ r \in Runs /\ r.tried = q.tried /\ r.left = q.left /\ r.model = q.model /\ r.buffer = q.buffer
          /\ r.at = IF Len(q.tried) = 1 THEN "refused" ELSE "persist"
      BY <1>3 DEF Runs
    <3>3. AllNew(q.tried \o q.left) /\ (Len(q.tried) = 1 => q.tried = <<q.model>>)
      BY <1>3, <3>1 DEF TriedInv
    <3> HIDE DEF r, q
    <3> QED
      BY <1>2, <1>3, <3>1, <3>2, <3>3
  <2> QED
    BY <1>7, <2>1, <2>2 DEF AgentEnds
<1>8. CASE LoadCandidates(s)
  <2> DEFINE prefers == IF IsCache(cache) THEN profiles[cache.owner][LaneOf[q.agent]] ELSE <<>>
             c == Candidates(prefers, q.model)
             r == [q EXCEPT !.at = "persist", !.left = c]
  <2>1. prefers \in Seq(Models)
    <3>1. ASSUME IsCache(cache) PROVE profiles[cache.owner][LaneOf[q.agent]] \in Seq(Models)
      <4>1. cache.owner \in Sessions /\ LaneOf[q.agent] \in Lanes
        BY <1>4, <3>1, ProfilesAssumption DEF IsCache
      <4>2. profiles[cache.owner] \in [Lanes -> Seq(Models)]
        BY <4>1, ProfilesAssumption DEF ProfilesTypes
      <4> QED
        BY <4>1, <4>2
    <3>2. <<>> \in Seq(Models)
      OBVIOUS
    <3> QED
      BY <3>1, <3>2
  <2>2. q.at = "refused" /\ cache' = cache /\ q.tried = <<q.model>>
    BY <1>3, <1>8 DEF LoadCandidates, TriedInv
  <2>3. running' = [running EXCEPT ![s] = r]
    BY <1>8 DEF LoadCandidates, ProfilesTypes
  <2> HIDE DEF prefers
  <2>4. c \in Seq(Models) /\ IsInjective(c) /\ \A k \in DOMAIN c : Plain[c[k]] # Plain[q.model]
    BY <2>1, CandidatesAreNew
  <2> HIDE DEF c
  <2>5. AllNew(<<q.model>> \o c)
    BY <2>4, OneThenNew
  <2>6. r \in Runs /\ r.tried = q.tried /\ r.left = c /\ r.at = "persist" /\ r.buffer = q.buffer
    BY <1>3, <2>4 DEF Runs
  <2> HIDE DEF r, q
  <2> QED
    BY <1>2, <1>3, <2>2, <2>3, <2>5, <2>6
<1>9. CASE ReadForFallback(s)
  <2>1. CASE q.left = <<>>
    BY <1>2, <1>3, <1>5, <1>9, <2>1 DEF ReadForFallback
  <2>2. CASE q.left # <<>>
    <3> DEFINE r == [q EXCEPT !.at = "replace", !.buffer = cache]
    <3>1. running' = [running EXCEPT ![s] = r] /\ cache' = cache
      BY <1>9, <2>2 DEF ReadForFallback
    <3>2. r \in Runs /\ r.tried = q.tried /\ r.left = q.left /\ r.at = "replace" /\ r.buffer = cache
      BY <1>3 DEF Runs
    <3>3. AllNew(q.tried \o q.left)
      BY <1>3 DEF TriedInv
    <3> HIDE DEF r, q
    <3> QED
      BY <1>2, <1>3, <2>2, <3>1, <3>2, <3>3
  <2> QED
    BY <2>1, <2>2
<1>10. CASE ReplaceForFallback(s)
  <2> DEFINE m == Head(q.left)
             tried == Append(q.tried, m)
             left == Tail(q.left)
             r == [NotRunning EXCEPT !.at = "run", !.agent = q.agent, !.model = m, !.left = left, !.tried = tried]
  <2>1. q.left # <<>> /\ AllNew(q.tried \o q.left)
    BY <1>3, <1>10 DEF ReplaceForFallback, TriedInv
  <2>2. m \in Models /\ left \in Seq(Models) /\ tried \in Seq(Models \cup {0}) /\ Len(tried) = Len(q.tried) + 1
    BY <1>4, <2>1
  <2>3. tried \o left = q.tried \o q.left
    BY <1>4, <2>1, MovedToTried
  <2>4. Len(tried) = 1 => tried = <<m>>
    <3> HIDE DEF m
    <3>1. ASSUME Len(tried) = 1 PROVE tried = <<m>>
      <4>1. q.tried = <<>>
        BY <1>4, <2>2, <3>1
      <4>2. tried = Append(<<>>, m)
        BY <4>1
      <4> QED
        BY <4>2
    <3> QED
      BY <3>1
  <2>5. running' = [running EXCEPT ![s] = r]
    BY <1>10 DEF ReplaceForFallback
  <2>6. cache' \in Caches /\ OneModel(cache')
    <3>1. cache' = MoveLane(q.buffer, q.agent, m) \/ cache' = cache
      BY <1>10 DEF ReplaceForFallback
    <3> HIDE DEF m, q
    <3>2. MoveLane(q.buffer, q.agent, m) \in Caches /\ OneModel(MoveLane(q.buffer, q.agent, m))
      BY <1>3, <1>4, <2>2, MovedIsCache
    <3> QED
      BY <1>3, <3>1, <3>2
  <2> HIDE DEF m, tried, left
  <2>7. /\ r \in Runs /\ r.at = "run" /\ r.model = m /\ r.left = left /\ r.tried = tried
        /\ r.buffer = NotRunning.buffer
    BY <1>4, <1>5, <2>2 DEF Runs
  <2> HIDE DEF r, q
  <2> QED
    BY <1>2, <1>5, <2>1, <2>3, <2>4, <2>5, <2>6, <2>7
<1> QED
  BY <1>6, <1>7, <1>8, <1>9, <1>10 DEF AgentStep

LEMMA ChangeKeepsProfilesInv ==
    ASSUME ProfilesInv, Change
    PROVE  ProfilesInv'
<1> USE DEF ProfilesInv
<1>1. UNCHANGED <<ensuring, running, unfit>> /\ changes' \in 0..MaxChanges
  BY ProfilesAssumption DEF Change, ProfilesTypes
<1>2. profiles' \in [Sessions -> Definitions] /\ usable' \in Registries
  BY DEF Change, ProfilesTypes
<1>3. cache' \in Caches /\ OneModel(cache')
  <2>1. cache' = cache \/ cache' = [cache EXCEPT !.fresh = FALSE]
    BY DEF Change
  <2>2. [cache EXCEPT !.fresh = FALSE] \in Caches /\ OneModel([cache EXCEPT !.fresh = FALSE])
    BY DEF ProfilesTypes, OneModelInv, OneModel, Caches
  <2>3. cache \in Caches /\ OneModel(cache)
    BY DEF ProfilesTypes, OneModelInv
  <2> QED
    BY <2>1, <2>2, <2>3
<1>4. ProfilesTypes'
  BY <1>1, <1>2, <1>3 DEF ProfilesTypes
<1>5. EnsuredInv' /\ \A s \in Sessions : TriedInv(s)'
  BY <1>1 DEF EnsuredInv, TriedInv
<1>6. OneModelInv'
  BY <1>1, <1>3 DEF OneModelInv, OneModel
<1> QED
  BY <1>4, <1>5, <1>6

LEMMA ProfilesStepInv == ProfilesInv /\ [ProfilesNext]_profileVars => ProfilesInv'
<1>1. ASSUME ProfilesInv, ProfilesNext PROVE ProfilesInv'
  BY <1>1, EnsureKeepsProfilesInv, RunKeepsProfilesInv, ChangeKeepsProfilesInv, ProfilesAssumption
     DEF ProfilesNext, EnsureStep
<1>2. ASSUME ProfilesInv, UNCHANGED profileVars PROVE ProfilesInv'
  <2>1. ProfilesTypes'
    BY <1>2 DEF profileVars, ProfilesInv, ProfilesTypes
  <2>2. EnsuredInv' /\ \A s \in Sessions : TriedInv(s)'
    BY <1>2 DEF profileVars, ProfilesInv, EnsuredInv, TriedInv, Rechecks
  <2>3. OneModelInv'
    BY <1>2 DEF profileVars, ProfilesInv, OneModelInv, OneModel
  <2> QED
    BY <2>1, <2>2, <2>3 DEF ProfilesInv
<1> QED
  BY <1>1, <1>2

LEMMA ProfilesAlwaysInv == ProfilesSpec => []ProfilesInv
BY ProfilesInitInv, ProfilesStepInv, PTL DEF ProfilesSpec

\* A workflow that ensureResolved lets start had a usable model for each required
\* lane when the sessions' file was looked at or resolved, whatever other sessions,
\* fallbacks of the bridge, edits of profile files and logouts did to that file
\* (ensureResolved, activateProfile, persistAgentFallbackModel).
THEOREM EnsuredMeansUsable == ProfilesSpec => []EnsuredLanesWork
<1>1. ProfilesInv => EnsuredLanesWork
  BY DEF ProfilesInv, EnsuredInv, EnsuredLanesWork
<1> QED
  BY <1>1, ProfilesAlwaysInv, PTL

\* The entries an agent is run with are all different, and none but the first names the
\* first model, for any profile files, also those that name a model twice, and whatever became of the cache since the run
\* began: its fallbacks end (runAgent, resolveAgentFallbackModelCandidates).
THEOREM FallbacksAreNew == ProfilesSpec => []NoModelTwice
<1>1. ASSUME NEW p \in Seq(Models \cup {0}), NEW q \in Seq(Models \cup {0}), AllNew(p \o q)
      PROVE  AllNew(p)
  <2>1. \A i \in DOMAIN p : i \in DOMAIN (p \o q) /\ (p \o q)[i] = p[i]
    OBVIOUS
  <2>2. IsInjective(p)
    BY <1>1, <2>1 DEF IsInjective, AllNew
  <2>3. ASSUME NEW i \in DOMAIN p, i > 1 PROVE Plain[p[i]] # Plain[p[1]]
    <3>1. 1 \in DOMAIN p
      BY <2>3
    <3> QED
      BY <1>1, <2>1, <2>3, <3>1 DEF AllNew
  <2> QED
    BY <2>2, <2>3 DEF AllNew
<1>2. ProfilesInv => NoModelTwice
  <2> SUFFICES ASSUME ProfilesInv, NEW s \in Sessions PROVE AllNew(running[s].tried)
    BY DEF NoModelTwice, AllNew
  <2>1. running[s].tried \in Seq(Models \cup {0}) /\ running[s].left \in Seq(Models \cup {0})
    BY DEF ProfilesInv, ProfilesTypes, Runs
  <2> QED
    BY <1>1, <2>1 DEF ProfilesInv, TriedInv
<1> QED
  BY <1>2, ProfilesAlwaysInv, PTL

\* The cache gives all agents of a lane the model of the lane, although sessions
\* that fall back replace the file with what they read of it before
\* (buildActiveProfileCache, persistAgentFallbackModel).
THEOREM LanesHaveOneModel == ProfilesSpec => []LaneHasOneModel
<1>1. ProfilesInv => LaneHasOneModel
  BY DEF ProfilesInv, OneModelInv, OneModel, LaneHasOneModel
<1> QED
  BY <1>1, ProfilesAlwaysInv, PTL
-----------------------------------------------------------------------------
(* The wizard                                                              *)

IsWizardState(e) == \E m, t, l : e = [models |-> m, thinking |-> t, lane |-> l]

KeptIn(f) == IF Whole(f) THEN f ELSE Defaults

OneSave(at, last, into) ==
    saves = <<[at |-> at, last |-> last, text |-> newest, into |-> into]>>

\* While a choice is being saved: the draft before it, then nothing, then the choice.
SavingInv ==
    /\ saved # 0 /\ edit = newest
    /\ \E last \in BOOLEAN :
        \/ OneSave("draft", last, "none") /\ (Whole(wip) => wip \in {settled, resumed})
        \/ OneSave("drafting", last, "none") /\ wip = Torn
        \/ OneSave("drafted", last, "none") /\ wip = newest
        \/ OneSave("writing", last, "tmp") /\ wip = newest
        \/ OneSave("written", last, "none") /\ wip = newest /\ tmp = newest

\* While nothing is being saved: a draft that can be read is one the next wizard may go on
\* from, and the present one did, unless it has saved since.
RestInv ==
    IF stage = "closed" THEN Whole(wip) => wip \in {settled, resumed, newest}
    ELSE /\ Whole(wip) => wip = settled \/ (saved = 0 /\ edit = wip)
         /\ saved = 0 => edit \in {settled, resumed, newest}

\* As long as no two saves, nor a save and a removal, have overlapped.
WizardInv ==
    /\ overlapped \in BOOLEAN /\ saved \in Nat
    /\ ~overlapped =>
        /\ \A e \in {edit, settled, resumed, newest} : IsWizardState(e)
        /\ KeptIn(file) = settled
        /\ IF saves = <<>> THEN RestInv ELSE SavingInv

LEMMA WizardInvInit == WizardInit => WizardInv
<1> SUFFICES ASSUME WizardInit PROVE WizardInv
  OBVIOUS
<1>1. IsWizardState(Defaults)
  BY DEF Defaults, IsWizardState
<1>2. file = None \/ \E l \in MultiProvider, m \in LoggedIn : file = [Defaults EXCEPT !.models[l] = <<m>>]
  BY DEF WizardInit
<1>3. file = None \/ IsWizardState(file)
  <2> SUFFICES ASSUME NEW l \in MultiProvider, NEW m \in LoggedIn,
                      file = [Defaults EXCEPT !.models[l] = <<m>>]
               PROVE  IsWizardState(file)
    BY <1>2
  <2>1. file = [models |-> [Defaults.models EXCEPT ![l] = <<m>>], thinking |-> Defaults.thinking,
                lane |-> Defaults.lane]
    BY DEF Defaults
  <2> QED
    BY <2>1 DEF IsWizardState
<1>4. settled = KeptIn(file) /\ ~Whole(None)
  BY DEF WizardInit, Resumed, KeptIn, Whole
<1>5. IsWizardState(settled)
  BY <1>1, <1>3, <1>4 DEF KeptIn, Whole
<1> QED
  BY <1>1, <1>4, <1>5 DEF WizardInit, WizardInv, RestInv
\* A save of the state the wizard goes on with.
LEMMA SaveKeepsWizardInv ==
    ASSUME WizardInv, NEW last \in BOOLEAN, Save(edit', last),
           ~overlapped => IsWizardState(edit'),
           stage # "closed", UNCHANGED fileVars
    PROVE  WizardInv'
<1>1. /\ saved' = saved + 1
      /\ saves' = Append(saves, [at |-> "draft", last |-> last, text |-> edit', into |-> "none"])
      /\ newest' = edit' /\ resumed' = (IF saved = 0 THEN edit ELSE resumed)
      /\ overlapped' = (overlapped \/ saves # <<>>) /\ settled' = settled
      /\ wip' = wip /\ file' = file /\ tmp' = tmp
  BY DEF Save, fileVars
<1>2. overlapped' \in BOOLEAN /\ saved' \in Nat /\ saved' # 0
  <2>1. saved' \in Nat /\ saved' # 0
    BY <1>1 DEF WizardInv
  <2> QED
    BY <1>1, <2>1, Zenon
<1>3. CASE overlapped \/ saves # <<>>
  BY <1>1, <1>2, <1>3 DEF WizardInv
<1>4. CASE ~overlapped /\ saves = <<>>
  <2>1. /\ \A e \in {edit', settled', resumed', newest'} : IsWizardState(e)
        /\ KeptIn(file') = settled'
    BY <1>1, <1>4 DEF WizardInv, KeptIn
  <2>2. Whole(wip') => wip' \in {settled', resumed'}
    BY <1>1, <1>4 DEF WizardInv, RestInv
  <2>3. OneSave("draft", last, "none")' /\ saves' # <<>>
    BY <1>1, <1>4 DEF OneSave
  <2>4. SavingInv'
    BY <1>1, <1>2, <2>2, <2>3 DEF SavingInv
  <2> QED
    BY <1>2, <2>1, <2>3, <2>4 DEF WizardInv
<1> QED
  BY <1>3, <1>4 DEF WizardInv

\* Keys that save nothing and leave the choices alone.
LEMMA KeysKeepWizardInv ==
    ASSUME WizardInv, UNCHANGED <<edit, fileVars>>, NoSave,
           stage = "closed" <=> stage' = "closed"
    PROVE  WizardInv'
BY DEF WizardInv, NoSave, fileVars, ghostVars, RestInv, SavingInv, OneSave, KeptIn, Whole

LEMMA LaunchKeepsWizardInv == WizardInv /\ Launch => WizardInv'
<1> SUFFICES ASSUME WizardInv, Launch PROVE WizardInv'
  OBVIOUS
<1>1. /\ stage = "closed" /\ saves = <<>> /\ stage' = "welcome" /\ saved' = 0
      /\ edit' = Resumed(wip, file)
      /\ UNCHANGED <<fileVars, ghostVars, saves>>
  BY DEF Launch
<1>2. overlapped' = overlapped /\ saved' \in Nat /\ overlapped \in BOOLEAN
  BY <1>1 DEF WizardInv, ghostVars
<1>3. ASSUME ~overlapped
      PROVE  /\ \A e \in {edit', settled', resumed', newest'} : IsWizardState(e)
             /\ KeptIn(file') = settled'
             /\ RestInv'
  <2>1. IF Whole(wip) THEN edit' = wip /\ wip \in {settled, resumed, newest}
                      ELSE edit' = settled
    BY <1>1, <1>3 DEF WizardInv, RestInv, Resumed, KeptIn
  <2>2. edit' \in {settled, resumed, newest}
    BY <2>1
  <2>3. /\ \A e \in {edit', settled', resumed', newest'} : IsWizardState(e)
        /\ KeptIn(file') = settled'
    BY <1>1, <1>3, <2>2 DEF WizardInv, KeptIn, Whole, fileVars, ghostVars
  <2>4. RestInv'
    BY <1>1, <2>1, <2>2 DEF RestInv, Whole, fileVars, ghostVars
  <2> QED
    BY <2>3, <2>4
<1>4. saves' = <<>>
  BY <1>1
<1> QED
  BY <1>2, <1>3, <1>4 DEF WizardInv

LEMMA CancelKeepsWizardInv == WizardInv /\ Cancel => WizardInv'
<1> SUFFICES ASSUME WizardInv, Cancel PROVE WizardInv'
  OBVIOUS
<1>1. /\ stage' = "closed" /\ wip' = None /\ overlapped' = (overlapped \/ saves # <<>>)
      /\ UNCHANGED <<edit, file, saves, saved, settled, resumed, newest>>
  BY DEF Cancel
<1>2. overlapped' \in BOOLEAN /\ ~Whole(wip')
  BY <1>1, Zenon DEF Whole
<1>3. ASSUME ~overlapped' PROVE ~overlapped /\ saves' = <<>>
  BY <1>1, <1>3
<1> QED
  BY <1>1, <1>2, <1>3 DEF WizardInv, KeptIn, Whole, RestInv

\* A wizard that is stopped leaves a draft of before the save, none, or one of the choice
\* that was being saved.
LEMMA WizardStopKeepsInv == WizardInv /\ WizardStops => WizardInv'
<1> SUFFICES ASSUME WizardInv, WizardStops PROVE WizardInv'
  OBVIOUS
<1>1. /\ stage' = "closed" /\ saves' = <<>>
      /\ UNCHANGED <<edit, fileVars, ghostVars, saved>>
  BY DEF WizardStops
<1>2. ASSUME ~overlapped, Whole(wip) PROVE wip \in {settled, resumed, newest}
  BY <1>2 DEF WizardInv, RestInv, SavingInv, Whole
<1> QED
  BY <1>1, <1>2 DEF WizardInv, RestInv, KeptIn, Whole, fileVars, ghostVars
\* No state of a wizard is taken for a file that is missing or cannot be parsed.
StatesAreWhole == \A e : IsWizardState(e) => Whole(e)

\* The steps of the one save, and what each writes.
LEMMA OneSaveSteps ==
    ASSUME WizardInv, SavingInv, ~overlapped, NEW i \in DOMAIN saves, IsWizardState(edit)
    PROVE  /\ i = 1 /\ Len(saves) = 1 /\ saves # <<>>
           /\ saves[i].text = newest /\ newest = edit /\ saves[i].last \in BOOLEAN
           /\ saves = <<[at |-> saves[i].at, last |-> saves[i].last, text |-> newest,
                         into |-> saves[i].into]>>
           /\ saves[i].at = "draft" => saves[i].into = "none"
           /\ saves[i].at = "drafting" => saves[i].into = "none" /\ wip = Torn
           /\ saves[i].at = "drafted" => wip = newest
           /\ saves[i].at = "writing" => saves[i].into = "tmp" /\ wip = newest
           /\ saves[i].at = "written" => wip = newest /\ tmp = newest
<1>1. PICK last \in BOOLEAN :
        \/ OneSave("draft", last, "none") /\ (Whole(wip) => wip \in {settled, resumed})
        \/ OneSave("drafting", last, "none") /\ wip = Torn
        \/ OneSave("drafted", last, "none") /\ wip = newest
        \/ OneSave("writing", last, "tmp") /\ wip = newest
        \/ OneSave("written", last, "none") /\ wip = newest /\ tmp = newest
  BY DEF SavingInv
<1>2. PICK at \in SaveSteps, into \in {"none", "tmp"} : OneSave(at, last, into)
  BY <1>1 DEF SaveSteps
<1>3. /\ Len(saves) = 1 /\ DOMAIN saves = 1..1 /\ saves # <<>>
      /\ saves[1] = [at |-> at, last |-> last, text |-> newest, into |-> into]
  BY <1>2 DEF OneSave
<1>4. i = 1
  BY <1>3
<1>5. /\ saves[i].at = at /\ saves[i].last = last /\ saves[i].text = newest
      /\ saves[i].into = into
  BY <1>3, <1>4
<1>6. /\ at = "draft" => into = "none"
      /\ at = "drafting" => into = "none" /\ wip = Torn
      /\ at = "drafted" => wip = newest
      /\ at = "writing" => into = "tmp" /\ wip = newest
      /\ at = "written" => wip = newest /\ tmp = newest
  BY <1>1, <1>2, <1>3 DEF OneSave
<1> QED
  BY <1>2, <1>3, <1>4, <1>5, <1>6 DEF SavingInv, OneSave

LEMMA SaveStepKeepsWizardInv ==
    ASSUME StatesAreWhole, WizardInv, SaveStep PROVE WizardInv'
<1>1. UNCHANGED <<stage, edit, opened, saved>> /\ overlapped' = overlapped
  BY DEF SaveStep, screenVars, ghostVars, RenameTmp
<1>2. CASE overlapped
  BY <1>1, <1>2 DEF WizardInv
<1>3. CASE ~overlapped
  <2>1. PICK i \in DOMAIN saves :
          \/ (OpenDraft(i) \/ WriteDraft(i) \/ OpenTmp(i) \/ WriteTmp(i)) /\ UNCHANGED ghostVars
          \/ RenameTmp(i)
    BY DEF SaveStep
  <2>2. saves # <<>>
    BY <2>1
  <2>3. SavingInv /\ IsWizardState(edit)
    BY <1>3, <2>2 DEF WizardInv
  <2>4. /\ i = 1 /\ Len(saves) = 1
        /\ saves[i].text = newest /\ newest = edit /\ saves[i].last \in BOOLEAN
        /\ saves = <<[at |-> saves[i].at, last |-> saves[i].last, text |-> newest,
                      into |-> saves[i].into]>>
        /\ saves[i].at = "draft" => saves[i].into = "none"
        /\ saves[i].at = "drafting" => saves[i].into = "none" /\ wip = Torn
        /\ saves[i].at = "drafted" => wip = newest
        /\ saves[i].at = "writing" => saves[i].into = "tmp" /\ wip = newest
        /\ saves[i].at = "written" => wip = newest /\ tmp = newest
    BY <1>3, <2>1, <2>3, OneSaveSteps
  <2> DEFINE last == saves[i].last
             into == saves[i].into
             at == saves[i].at
  <2>5. /\ \A e \in {edit, settled, resumed, newest} : IsWizardState(e)
        /\ KeptIn(file) = settled /\ Whole(newest) /\ saved # 0
    BY <1>3, <2>2, <2>3, <2>4 DEF WizardInv, StatesAreWhole, SavingInv
  <2>6. ASSUME UNCHANGED ghostVars, file' = file, saves' # <<>>, SavingInv' PROVE WizardInv'
    BY <1>1, <1>3, <2>5, <2>6 DEF WizardInv, ghostVars, KeptIn, Whole
  <2>7. CASE OpenDraft(i) /\ UNCHANGED ghostVars
    <3>1. /\ saves' = [saves EXCEPT ![i].at = "drafting", ![i].text = edit] /\ at = "draft"
          /\ wip' = Torn /\ file' = file /\ newest' = newest
      BY <2>7 DEF OpenDraft, MoveTo, ghostVars
    <3>2. OneSave("drafting", last, "none")' /\ saves' # <<>>
      BY <2>4, <3>1 DEF OneSave
    <3>3. SavingInv'
      BY <1>1, <2>4, <2>5, <3>1, <3>2 DEF SavingInv
    <3> QED
      BY <2>6, <2>7, <3>1, <3>2, <3>3
  <2>8. CASE WriteDraft(i) /\ UNCHANGED ghostVars
    <3>1. /\ saves' = [saves EXCEPT ![i].at = "drafted", ![i].text = edit] /\ at = "drafting"
          /\ wip' = newest /\ file' = file /\ newest' = newest
      BY <1>3, <2>4, <2>8 DEF WriteDraft, MoveTo, Mixed, ghostVars
    <3>2. OneSave("drafted", last, "none")' /\ saves' # <<>>
      BY <2>4, <3>1 DEF OneSave
    <3>3. SavingInv'
      BY <1>1, <2>4, <2>5, <3>1, <3>2 DEF SavingInv
    <3> QED
      BY <2>6, <2>8, <3>1, <3>2, <3>3
  <2>9. CASE OpenTmp(i) /\ UNCHANGED ghostVars
    <3>1. /\ saves' = [saves EXCEPT ![i].at = "writing", ![i].into = "tmp",
                                    ![i].text.models = edit.models]
          /\ at = "drafted" /\ wip' = wip /\ file' = file /\ newest' = newest
      BY <2>9 DEF OpenTmp, ghostVars
    <3>2. [newest EXCEPT !.models = edit.models] = newest
      BY <2>4, <2>5 DEF IsWizardState
    <3>3. OneSave("writing", last, "tmp")' /\ saves' # <<>>
      <4>1. PICK r : r = [at |-> at, last |-> last, text |-> newest, into |-> into]
        OBVIOUS
      <4>2. saves = <<r>> /\ i = 1
        BY <2>4, <4>1
      <4>3. PICK q : q = [saves EXCEPT ![1].at = "writing", ![1].into = "tmp"]
        OBVIOUS
      <4>4. PICK t : t = [r EXCEPT !.at = "writing", !.into = "tmp"]
        OBVIOUS
      <4>5. q = <<[r EXCEPT !.at = "writing", !.into = "tmp"]>>
        BY <4>2, <4>3
      <4>6. t = [at |-> "writing", last |-> last, text |-> newest, into |-> "tmp"]
        BY <4>1, <4>4
      <4>7. q = <<t>>
        BY <4>4, <4>5, Zenon
      <4>8. saves' = [q EXCEPT ![1].text.models = edit.models]
        BY <3>1, <4>2, <4>3
      <4>9. PICK z : z = [t EXCEPT !.text.models = edit.models]
        OBVIOUS
      <4>10. saves' = <<[t EXCEPT !.text.models = edit.models]>>
        BY <4>7, <4>8
      <4>11. z = [t EXCEPT !.text = [newest EXCEPT !.models = edit.models]]
        BY <4>6, <4>9
      <4>12. z = [t EXCEPT !.text = newest]
        BY <3>2, <4>11, Zenon
      <4>13. z = t
        BY <4>6, <4>12
      <4>14. saves' = <<t>>
        BY <4>9, <4>10, <4>13, Zenon
      <4> QED
        BY <3>1, <4>6, <4>14 DEF OneSave
    <3>4. SavingInv'
      BY <1>1, <2>4, <2>5, <3>1, <3>3 DEF SavingInv
    <3> QED
      BY <2>6, <2>9, <3>1, <3>3, <3>4
  <2>10. CASE WriteTmp(i) /\ UNCHANGED ghostVars
    <3>1. /\ saves' = [saves EXCEPT ![i].at = "written", ![i].into = "none"]
          /\ at = "writing" /\ wip' = wip /\ newest' = newest
      BY <2>10 DEF WriteTmp, ghostVars
    <3>2. tmp' = newest /\ file' = file
      BY <1>3, <2>4, <2>10, <3>1 DEF WriteTmp, Mixed
    <3>3. OneSave("written", last, "none")' /\ saves' # <<>>
      <4>1. PICK r : r = [at |-> at, last |-> last, text |-> newest, into |-> into]
        OBVIOUS
      <4>2. saves = <<r>> /\ i = 1
        BY <2>4, <4>1
      <4>3. PICK t : t = [r EXCEPT !.at = "written", !.into = "none"]
        OBVIOUS
      <4>4. saves' = <<[r EXCEPT !.at = "written", !.into = "none"]>>
        BY <3>1, <4>2
      <4>5. t = [at |-> "written", last |-> last, text |-> newest, into |-> "none"]
        BY <4>1, <4>3
      <4>6. saves' = <<t>>
        BY <4>3, <4>4, Zenon
      <4> QED
        BY <3>1, <4>5, <4>6 DEF OneSave
    <3>4. SavingInv'
      BY <1>1, <2>4, <2>5, <3>1, <3>2, <3>3 DEF SavingInv
    <3> QED
      BY <2>6, <2>10, <3>2, <3>3, <3>4
  <2>11. CASE RenameTmp(i)
    <3>1. /\ at = "written" /\ tmp = newest /\ wip = newest /\ tmp # None
      BY <2>4, <2>5, <2>11 DEF RenameTmp, Whole
    <3>2. /\ file' = newest /\ wip' \in {None, newest}
          /\ settled' = newest /\ resumed' = newest /\ newest' = newest
      BY <2>4, <2>11, <3>1 DEF RenameTmp
    <3>3. saves' = <<>>
      BY <2>4, <2>11 DEF RenameTmp
    <3>4. RestInv'
      BY <1>1, <2>5, <3>2 DEF RestInv, Whole
    <3>5. KeptIn(file') = settled'
      BY <2>5, <3>2 DEF KeptIn
    <3> QED
      BY <1>1, <1>3, <2>4, <2>5, <3>2, <3>3, <3>4, <3>5 DEF WizardInv
  <2> QED
    BY <2>1, <2>7, <2>8, <2>9, <2>10, <2>11
<1> QED
  BY <1>2, <1>3 DEF WizardInv
\* A list is only open in a wizard that is.
ListInv == stage = "closed" => list.for = "none"

LEMMA ListInvKept == ListInv /\ [WizardNext]_wizardVars => ListInv'
<1> SUFFICES ASSUME ListInv, [WizardNext]_wizardVars PROVE ListInv'
  OBVIOUS
<1>1. CASE UNCHANGED wizardVars
  BY <1>1 DEF wizardVars, screenVars, ListInv
<1>2. NoList.for = "none"
  BY DEF NoList
<1>3. ASSUME Launch \/ CloseList \/ PickModel \/ PickOther \/ WizardStops PROVE ListInv'
  <2>1. list' = NoList
    BY <1>3 DEF Launch, CloseList, PickModel, PickOther, WizardStops
  <2> QED
    BY <1>2, <2>1 DEF ListInv
<1>4. ASSUME GoForward \/ Confirm \/ GoBack \/ Cancel \/ MoveCursor PROVE ListInv'
  <2>1. list = NoList /\ list' = list
    BY <1>4 DEF GoForward, Confirm, GoBack, Cancel, MoveCursor
  <2> QED
    BY <1>2, <2>1 DEF ListInv
<1>5. CASE Tab
  <2>1. stage' = stage
    BY <1>5 DEF Tab
  <2>2. CASE stage \in {"lanes", "agents"}
    BY <2>1, <2>2 DEF ListInv
  <2>3. CASE list' = NoList
    BY <1>2, <2>3 DEF ListInv
  <2> QED
    BY <1>5, <2>2, <2>3 DEF Tab
<1>6. CASE PickProvider
  BY <1>6 DEF PickProvider, ListInv
<1>7. CASE SaveStep
  BY <1>7 DEF SaveStep, screenVars, ListInv
<1> QED
  BY <1>1, <1>3, <1>4, <1>5, <1>6, <1>7 DEF WizardNext

LEMMA PicksKeepWizardInv ==
    ASSUME WizardInv, ListInv, GoForward \/ Confirm \/ PickModel \/ PickOther PROVE WizardInv'
<1>1. ASSUME GoForward, stage = "welcome" PROVE WizardInv'
  BY <1>1, KeysKeepWizardInv DEF GoForward, Forward
<1>2. ASSUME GoForward \/ Confirm, stage # "welcome" PROVE WizardInv'
  <2>1. PICK last \in BOOLEAN : Save(edit, last) /\ edit' = edit /\ UNCHANGED fileVars
    BY <1>2 DEF GoForward, Confirm
  <2>2. stage # "closed"
    BY <1>2 DEF GoForward, Confirm, Forward
  <2>3. ~overlapped => IsWizardState(edit')
    BY <2>1 DEF WizardInv
  <2> QED
    BY <2>1, <2>2, <2>3, SaveKeepsWizardInv
<1>3. ASSUME PickModel \/ PickOther, ~overlapped PROVE IsWizardState(edit')
  <2>1. PICK m, t, l : edit = [models |-> m, thinking |-> t, lane |-> l]
    BY <1>3 DEF WizardInv, IsWizardState
  <2>2. \/ edit' = edit
        \/ \E x : edit' = [edit EXCEPT !.models[LaneAtCursor] = x]
        \/ \E x : edit' = [edit EXCEPT !.thinking[LaneAtCursor] = x]
        \/ \E x : edit' = [edit EXCEPT !.lane[AgentAtCursor] = x]
    BY <1>3 DEF PickModel, PickOther
  <2>3. \/ edit' = edit
        \/ \E x : edit' = [models |-> [m EXCEPT ![LaneAtCursor] = x], thinking |-> t, lane |-> l]
        \/ \E x : edit' = [models |-> m, thinking |-> [t EXCEPT ![LaneAtCursor] = x], lane |-> l]
        \/ \E x : edit' = [models |-> m, thinking |-> t, lane |-> [l EXCEPT ![AgentAtCursor] = x]]
    BY <2>1, <2>2
  <2> QED
    BY <2>1, <2>3 DEF IsWizardState
<1>4. CASE PickModel \/ PickOther
  <2>1. stage # "closed"
    BY <1>4 DEF PickModel, PickOther, ListInv
  <2>2. Save(edit', FALSE) /\ UNCHANGED fileVars
    BY <1>4 DEF PickModel, PickOther
  <2> QED
    BY <1>3, <1>4, <2>1, <2>2, SaveKeepsWizardInv
<1>5. ASSUME Confirm PROVE stage # "welcome"
  BY <1>5 DEF Confirm
<1> QED
  BY <1>1, <1>2, <1>4, <1>5

LEMMA WizardInvKept ==
    ASSUME StatesAreWhole
    PROVE  WizardInv /\ ListInv /\ [WizardNext]_wizardVars => WizardInv'
<1> SUFFICES ASSUME WizardInv, ListInv, [WizardNext]_wizardVars PROVE WizardInv'
  OBVIOUS
<1>1. CASE UNCHANGED wizardVars
  <2>1. UNCHANGED <<edit, fileVars, stage>> /\ NoSave
    BY <1>1 DEF wizardVars, screenVars, NoSave
  <2> QED
    BY <2>1, KeysKeepWizardInv
<1>2. ASSUME GoBack \/ MoveCursor \/ Tab \/ CloseList \/ PickProvider PROVE WizardInv'
  <2>1. UNCHANGED <<edit, fileVars>> /\ NoSave
    BY <1>2 DEF GoBack, MoveCursor, Tab, CloseList, PickProvider
  <2>2. ASSUME GoBack PROVE stage = "closed" <=> stage' = "closed"
    BY <2>2 DEF GoBack, Back
  <2>3. ASSUME MoveCursor \/ Tab \/ CloseList \/ PickProvider PROVE stage' = stage
    BY <2>3 DEF MoveCursor, Tab, CloseList, PickProvider
  <2>4. stage = "closed" <=> stage' = "closed"
    BY <1>2, <2>2, <2>3
  <2> QED
    BY <2>1, <2>4, KeysKeepWizardInv
<1> QED
  BY <1>1, <1>2, LaunchKeepsWizardInv, CancelKeepsWizardInv, WizardStopKeepsInv,
     SaveStepKeepsWizardInv, PicksKeepWizardInv DEF WizardNext

\* persistWizardProfileDraft (zflow-profiles, tui): unless saves overlap, a choice whose
\* save has ended survives a wizard that is stopped at any point; the next wizard goes on
\* from it, from what was being saved, or from the draft its predecessor had gone on from.
\* A missing file and one that cannot be parsed are no states of a wizard.
THEOREM SavedChoicesSurvive ==
    ASSUME StatesAreWhole
    PROVE  WizardSpec => []EndedSavesAreKept
<1>1. WizardInit => ListInv
  BY DEF WizardInit, ListInv, NoList
<1>2. WizardInv => EndedSavesAreKept
  BY DEF WizardInv, RestInv, EndedSavesAreKept
<1> QED
  BY <1>1, <1>2, WizardInvInit, WizardInvKept, ListInvKept, PTL DEF WizardSpec
=============================================================================
