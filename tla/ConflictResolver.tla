-------------------------- MODULE ConflictResolver --------------------------
(***************************************************************************)
(* /zflow-resolve-apply-back (index.ts, resolveApplyBackWithSubagent):     *)
(* the merges that an apply-back left undone in its integration worktree   *)
(* are continued with a subagent's help, the result is checked against     *)
(* the patch of every group and then applied to the primary worktree.      *)
(*                                                                         *)
(* What a worktree holds of a group's patch is "none", "whole", or less:   *)
(*   "adapted"  hunks were dropped, from files others changed too          *)
(*   "nofile"   new files are missing, all of which can be put back        *)
(*   "lacking"  more is missing                                            *)
(* as verifyGroupCoverage would tell it, which takes "adapted" for covered.*)
(* git, the resolver and the user are external.                            *)
(***************************************************************************)
EXTENDS Naturals, FiniteSets

CONSTANTS
    LastGroup,      \* the run's groups are 1..LastGroup, in their order
    WithPatches,    \* those that have a patch
    MaxResolutions  \* MAX_CONFLICT_RESOLUTIONS

ASSUME ConflictResolverAssumption ==
    /\ LastGroup \in Nat \ {0}
    /\ WithPatches \subseteq 1..LastGroup
    /\ MaxResolutions \in Nat

VARIABLES
    branches,       \* the groups that have a branch to merge
    resolving,      \* where the command is
    integrated,     \* what HEAD of the integration worktree holds of each group
    markers,        \* conflict markers there: "none", "committed", or "generated"
                    \* by a commit the command itself made
    todo,           \* branches still to merge in this pass
    groupsMerged,
    resolutions,    \* conflictResolutionCount
    resolvedPatch,  \* patches/_subagent-resolved.patch
    primary,        \* what the primary worktree holds
    primaryClean,
    allApplied      \* the ledger has every group as applied, by this command

resolverVars == <<branches, resolving, integrated, markers, todo, groupsMerged, resolutions,
                  resolvedPatch, primary, primaryClean, allApplied>>

RunGroups == 1..LastGroup
Holdings == {"none", "whole", "adapted", "nofile", "lacking"}
Contents == [RunGroups -> Holdings]
Nothing == [g \in RunGroups |-> "none"]

ResolverTypeOK ==
    /\ resolving \in {"no", "prepare", "merge", "conflict", "check", "apply"}
    /\ integrated \in Contents /\ resolvedPatch \in Contents /\ primary \in Contents
    /\ markers \in {"none", "committed", "generated"}
    /\ branches \subseteq WithPatches /\ todo \subseteq branches
    /\ resolving = "conflict" => todo # {}
    /\ groupsMerged \in 0..2 * LastGroup
    /\ resolutions \in 0..MaxResolutions
    /\ primaryClean \in BOOLEAN /\ allApplied \in BOOLEAN

\* An integration merge gave up at some group: those before it are in, those behind it
\* have no branch.  The new files of a group without a branch may be all it changes.
ResolverInit ==
    /\ branches \in {{g \in WithPatches : g <= k} : k \in WithPatches}
    /\ resolving = "no"
    /\ integrated \in {c \in Contents : \A g \in RunGroups :
                          c[g] \in IF g \in branches THEN {"none", "whole"}
                                  ELSE IF g \in WithPatches THEN {"none", "nofile"} ELSE {"none"}}
    /\ markers \in {"none", "committed", "generated"}
    /\ todo = {} /\ groupsMerged = 0 /\ resolutions = 0
    /\ resolvedPatch = Nothing /\ primary = Nothing
    /\ primaryClean = TRUE /\ allApplied = FALSE

GiveUp == resolving' = "no" /\ todo' = {} /\ groupsMerged' = 0 /\ resolutions' = 0

outerVars == <<branches, primary, primaryClean, allApplied>>

\* An unfinished merge is aborted, and commits of the command's own that hold
\* markers are rolled back: with them go the files they had restored.
StartResolve ==
    /\ resolving = "no"
    /\ resolving' = "prepare"
    /\ IF markers = "generated"
       THEN /\ markers' = "none"
            /\ \E S \in SUBSET {g \in RunGroups : integrated[g] = "whole"} :
                 integrated' = [g \in RunGroups |-> IF g \in S THEN "nofile" ELSE integrated[g]]
       ELSE UNCHANGED <<markers, integrated>>
    /\ UNCHANGED <<todo, groupsMerged, resolutions, resolvedPatch, outerVars>>

\* Markers that remain are for a cleanup resolver, when there are a service and a
\* model; without them the command ends.
CleanUpMarkers ==
    /\ resolving = "prepare" /\ markers # "none"
    /\ \/ GiveUp /\ UNCHANGED <<markers, integrated>>
       \/ /\ markers' = "none"
          /\ \E g \in RunGroups, h \in Holdings \ {"none"} :
               integrated' = [integrated EXCEPT ![g] = IF @ = "none" THEN @ ELSE h]
          /\ UNCHANGED <<resolving, todo, groupsMerged, resolutions>>
    /\ UNCHANGED <<resolvedPatch, outerVars>>

\* Each pass goes over all branches, merged before or not.
StartMerging ==
    /\ resolving = "prepare" /\ markers = "none"
    /\ \/ /\ resolving' = IF branches = {} THEN "check" ELSE "merge"
          /\ todo' = branches
          /\ UNCHANGED <<groupsMerged, resolutions>>
       \/ GiveUp
    /\ UNCHANGED <<integrated, markers, resolvedPatch, outerVars>>

NextBranch == CHOOSE g \in todo : \A h \in todo : g <= h

CountNewMerge ==
    groupsMerged' = groupsMerged + (IF integrated[NextBranch] = "none" THEN 1 ELSE 0)
CountMerge == groupsMerged' = groupsMerged + 1

\* The command goes on to the next branch; after the last it is through when it has
\* counted as many merges as there are groups, or else makes another pass.
AfterMerge ==
    /\ CountMerge
    /\ LET left == todo \ {NextBranch}
       IN  IF left # {} THEN todo' = left /\ resolving' = "merge"
           ELSE IF groupsMerged' >= LastGroup THEN todo' = {} /\ resolving' = "check"
           ELSE todo' = branches /\ resolving' = "merge"

\* git merge; a branch that is in already is up to date.
MergeBranch ==
    /\ resolving = "merge"
    /\ \/ /\ AfterMerge
          /\ integrated' = [integrated EXCEPT ![NextBranch] = IF @ = "none" THEN "whole" ELSE @]
          /\ UNCHANGED resolutions
       \/ integrated[NextBranch] = "none" /\ GiveUp /\ UNCHANGED integrated
    /\ UNCHANGED <<markers, resolvedPatch, outerVars>>

Conflict ==
    /\ resolving = "merge" /\ integrated[NextBranch] = "none"
    /\ IF resolutions = MaxResolutions THEN GiveUp
       ELSE /\ resolutions' = resolutions + 1 /\ resolving' = "conflict"
            /\ UNCHANGED <<todo, groupsMerged>>
    /\ UNCHANGED <<integrated, markers, resolvedPatch, outerVars>>

\* What a resolver makes of the branch and of one group that was in before.  It may
\* also have abandoned the merge, which leaves nothing unmerged and no markers.
Resolutions ==
    {c \in Contents :
        /\ \E g \in RunGroups : \A h \in RunGroups \ {g, NextBranch} : c[h] = integrated[h]
        /\ \A h \in RunGroups \ {NextBranch} : integrated[h] = "none" <=> c[h] = "none"}

\* finalizeMarkerFreeResolution, after a resolver that ended well or whose transport
\* broke: without markers the merge is committed and counts.
ResolverSucceeds ==
    /\ resolving = "conflict"
    /\ integrated' \in Resolutions
    /\ AfterMerge
    /\ UNCHANGED <<markers, resolutions, resolvedPatch, outerVars>>

\* The resolver failed, or markers remain, which it may have committed.
ResolverFails ==
    /\ resolving = "conflict"
    /\ GiveUp
    /\ \/ UNCHANGED <<integrated, markers>>
       \/ integrated' \in Resolutions /\ UNCHANGED markers
       \/ integrated' \in Resolutions /\ markers' = "committed"
    /\ UNCHANGED <<resolvedPatch, outerVars>>

-----------------------------------------------------------------------------
(* Verification and application                                            *)

\* generateCoverageReport; the patch of a group is looked for with or without a branch.
Covered(c) == \A g \in WithPatches : c[g] \in {"whole", "adapted"}

\* autoRestoreSimpleAdditions
Restored(c) == [g \in RunGroups |-> IF c[g] = "nofile" THEN "whole" ELSE c[g]]

AcceptedWhenRepaired(c) == Covered(c) \/ c # integrated
Accepted(c) == Covered(c)

EmptyDiff ==
    \A g \in RunGroups : integrated[g] \in IF g \in branches THEN {"none"} ELSE {"none", "nofile"}

\* The patch is written first, then coverage is verified, and what can be restored
\* is restored and committed, with what looks like markers in it or not.  It is not
\* written again.
CheckCoverage ==
    /\ resolving = "check"
    /\ IF EmptyDiff
       THEN GiveUp /\ UNCHANGED <<integrated, resolvedPatch>>
       ELSE /\ resolvedPatch' = integrated
            /\ integrated' = IF Covered(integrated) THEN integrated ELSE Restored(integrated)
            /\ IF Accepted(integrated')
               THEN resolving' = "apply" /\ UNCHANGED <<todo, groupsMerged, resolutions>>
               ELSE GiveUp
    /\ IF integrated' = integrated THEN UNCHANGED markers
                                   ELSE markers' \in {markers, "generated"}
    /\ UNCHANGED outerVars

\* On a clean primary worktree the patch is applied, or git refuses it; then every
\* group of the run is recorded as applied, and the apply-back as completed.
ApplyResolved ==
    /\ resolving = "apply"
    /\ GiveUp
    /\ \/ /\ primaryClean
          /\ primary' = resolvedPatch /\ primaryClean' = FALSE /\ allApplied' = TRUE
          /\ UNCHANGED branches
       \/ UNCHANGED outerVars
    /\ UNCHANGED <<integrated, markers, resolvedPatch>>

\* The user commits, or starts to edit; the process stops.
UserWorks ==
    /\ primaryClean' = ~primaryClean
    /\ UNCHANGED <<branches, resolving, integrated, markers, todo, groupsMerged, resolutions,
                   resolvedPatch, primary, allApplied>>
ResolverStops ==
    /\ resolving # "no"
    /\ GiveUp
    /\ UNCHANGED <<integrated, markers, resolvedPatch, outerVars>>

ResolverStep ==
    \/ CleanUpMarkers \/ StartMerging \/ MergeBranch \/ Conflict
    \/ ResolverSucceeds \/ ResolverFails \/ CheckCoverage \/ ApplyResolved

ResolverNext == StartResolve \/ ResolverStep \/ UserWorks \/ ResolverStops

ResolverSpec ==
    ResolverInit /\ [][ResolverNext]_resolverVars /\ WF_resolverVars(ResolverStep)

-----------------------------------------------------------------------------
(* Properties                                                              *)

\* The primary worktree changes only when, at that moment, the integration worktree
\* holds every group's work as far as the verification can tell: not after a
\* resolver that dropped some, nor after a repair that was not enough.
AppliedWhenCovered == [][primary' # primary => Covered(integrated)]_resolverVars

\* The command comes to an end, however resolvers and merges turn out.
ResolveEnds == resolving # "no" ~> resolving = "no"

\* "Verified patch applied to primary worktree" (index.ts:4858): once its groups are
\* recorded as applied the primary worktree holds a verified patch.
VerifiedPatchIsApplied == allApplied => Covered(primary)
=============================================================================
