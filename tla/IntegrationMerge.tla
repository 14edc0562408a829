-------------------------- MODULE IntegrationMerge --------------------------
(***************************************************************************)
(* The third strategy of the apply-back cascade: in a worktree of its own  *)
(* the patch of each group is committed on a branch of its own at the base *)
(* commit, the branches are merged in order, and the difference to the     *)
(* base is verified and becomes one consolidated patch                     *)
(* (integration-merge-strategy.ts).                                        *)
(*                                                                         *)
(* Branches and the worktree outlive a merge that failed or was stopped,   *)
(* and groups may be run again, with new patches, before the next one.     *)
(* What a branch holds is a set of patches, each with its version.         *)
(***************************************************************************)
EXTENDS Integers, FiniteSets

CONSTANTS
    MergeLast,      \* the groups are 1..MergeLast, in topological order
    MaxPatches,     \* bound: versions of a patch
    Integration,    \* the branch of the merge; no group is called so
    Absent          \* a branch or a file that is not there

MergeGroups == 1..MergeLast

ASSUME IntegrationAssumption ==
    /\ MergeLast \in Nat \ {0} /\ MaxPatches \in Nat \ {0}
    /\ Integration \notin MergeGroups

VARIABLES
    patchOf,        \* the version of each group's patch, 0 without a patch
    clashing,       \* pairs of groups whose patches conflict
    shared,         \* pairs that change a file both
    stacked,        \* groups whose patch needs those of its dependencies
    branch,         \* what the branches hold
    worktree,       \* the branch that is checked out, Absent without worktree
    merging,        \* where runIntegrationMerge is
    turn,           \* the group it is at
    consolidated    \* patches/_consolidated.patch

relationVars == <<clashing, shared, stacked>>
integrationVars == <<patchOf, relationVars, branch, worktree, merging, turn, consolidated>>

Pairs == {{g, h} : g \in MergeGroups, h \in MergeGroups} \ {{g} : g \in MergeGroups}
Work == MergeGroups \X (1..MaxPatches)
BranchNames == MergeGroups \cup {Integration}
WithPatch == {g \in MergeGroups : patchOf[g] > 0}
Current(g) == <<g, patchOf[g]>>

Ended == {"merged", "failed", "unprepared"}

IntegrationTypeOK ==
    /\ patchOf \in [MergeGroups -> 0..MaxPatches]
    /\ clashing \subseteq shared /\ shared \subseteq Pairs /\ stacked \subseteq MergeGroups
    /\ branch \in [BranchNames -> (SUBSET Work) \cup {Absent}]
    /\ worktree \in BranchNames \cup {Absent}
    /\ merging \in {"no", "clear", "add", "synthesize", "merge", "verify"} \cup Ended
    /\ turn \in 1..(MergeLast + 1)
    /\ consolidated \in (SUBSET Work) \cup {Absent}

IntegrationInit ==
    /\ patchOf \in [MergeGroups -> {0, 1}]
    /\ shared \in SUBSET Pairs /\ clashing \in SUBSET shared
    /\ stacked \in SUBSET {g \in MergeGroups : \E h \in 1..(g - 1) : {g, h} \in shared}
    /\ branch = [b \in BranchNames |-> Absent] /\ worktree = Absent
    /\ merging = "no" /\ turn = 1 /\ consolidated = Absent

\* Between merges groups are run again.
RunGroupAgain(g) ==
    /\ merging \in {"no"} \cup Ended /\ patchOf[g] < MaxPatches
    /\ patchOf' = [patchOf EXCEPT ![g] = @ + 1]
    /\ merging' = "no"
    /\ UNCHANGED <<relationVars, branch, worktree, turn, consolidated>>

BeginMerge ==
    /\ merging \in {"no"} \cup Ended
    /\ merging' = "clear" /\ turn' = 1
    /\ UNCHANGED <<patchOf, relationVars, branch, worktree, consolidated>>

Fail == merging' = "failed" /\ UNCHANGED <<patchOf, relationVars, turn, consolidated>>

\* createIntegrationWorktree removes the worktree and the branch of an earlier merge,
\* and creates both anew.  The branches of the groups stay.
ClearWorktreeOnly ==
    /\ merging = "clear" /\ merging' = "add"
    /\ worktree' = Absent
    /\ UNCHANGED <<patchOf, relationVars, branch, turn, consolidated>>
ClearOldMerge ==
    /\ merging = "clear" /\ merging' = "add"
    /\ worktree' = Absent /\ branch' = [branch EXCEPT ![Integration] = Absent]
    /\ UNCHANGED <<patchOf, relationVars, turn, consolidated>>

CreateWorktree ==
    /\ merging = "add" /\ merging' = "synthesize"
    /\ worktree' = Integration
    /\ branch' = [branch EXCEPT ![Integration] = IF @ = Absent THEN {} ELSE @]
    /\ UNCHANGED <<patchOf, relationVars, turn, consolidated>>

GitFailsToPrepare ==
    /\ merging \in {"clear", "add"} /\ merging' = "unprepared"
    /\ UNCHANGED <<patchOf, relationVars, branch, worktree, turn, consolidated>>

\* createSyntheticCommit resets the branch of the group to the base, whatever it held.
SyntheticCommit(g) ==
    /\ g \notin stacked
    /\ branch' = [branch EXCEPT ![g] = {Current(g)}] /\ worktree' = g

SynthesizeGroup ==
    /\ merging = "synthesize" /\ turn \in WithPatch
    /\ SyntheticCommit(turn)
    /\ merging' = "merge"
    /\ UNCHANGED <<patchOf, relationVars, turn, consolidated>>

\* A patch that git refuses at the base ends the merge on the branch of the group.
SynthesisFails ==
    /\ merging = "synthesize" /\ turn \in WithPatch
    /\ branch' = [branch EXCEPT ![turn] = {}] /\ worktree' = turn
    /\ Fail

SkipGroup ==
    /\ merging = "synthesize" /\ turn \in MergeGroups \ WithPatch
    /\ turn' = turn + 1
    /\ UNCHANGED <<patchOf, relationVars, branch, worktree, merging, consolidated>>

Conflicts(g, into) == \E w \in branch[into] : {g, w[1]} \in clashing

\* The integration branch is checked out again before the merge.
TargetAsLeft == worktree
Target == Integration

\* mergeGroupIntoIntegration: git merge, and then cherry-pick, which fares no better.
MergeGroup ==
    /\ merging = "merge"
    /\ worktree' = Target
    /\ IF Conflicts(turn, worktree')
       THEN Fail /\ UNCHANGED branch
       ELSE /\ branch' = [branch EXCEPT ![worktree'] = @ \cup branch[turn]]
            /\ merging' = "synthesize" /\ turn' = turn + 1
            /\ UNCHANGED <<patchOf, relationVars, consolidated>>

\* The difference between the base and HEAD; nothing is a failure.
Consolidate ==
    /\ merging = "synthesize" /\ turn > MergeLast
    /\ IF branch[worktree] = {}
       THEN Fail
       ELSE /\ consolidated' = branch[worktree] /\ merging' = "verify"
            /\ UNCHANGED <<patchOf, relationVars, turn>>
    /\ UNCHANGED <<branch, worktree>>

\* verifyGroupCoverage takes a change for adapted when its file was changed by another.
CoveredIn(g, held) ==
    \/ Current(g) \in held
    \/ \E w \in held : {g, w[1]} \in shared \/ w[1] = g

VerifyMerge ==
    /\ merging = "verify"
    /\ \/ /\ \A g \in WithPatch : CoveredIn(g, branch[worktree])
          /\ merging' = "merged" /\ UNCHANGED <<patchOf, relationVars, turn, consolidated>>
       \/ Fail          \* not covered, or the verification threw
    /\ UNCHANGED <<branch, worktree>>

\* The process may stop between any two commands of git, and one that throws outside the
\* places that catch it ends the merge just so.
MergeStops ==
    /\ merging \notin {"no"} \cup Ended
    /\ merging' = "no"
    /\ UNCHANGED <<patchOf, relationVars, branch, worktree, turn, consolidated>>

IntegrationNext ==
    \/ BeginMerge \/ ClearOldMerge \/ CreateWorktree \/ GitFailsToPrepare
    \/ SynthesizeGroup \/ SynthesisFails \/ SkipGroup \/ MergeGroup \/ Consolidate \/ VerifyMerge
    \/ MergeStops
    \/ \E g \in MergeGroups : RunGroupAgain(g)

IntegrationSpec == IntegrationInit /\ [][IntegrationNext]_integrationVars

-----------------------------------------------------------------------------
\* A merge that succeeds has consolidated the present patch of every group that has one
\* and nothing else: nothing of a merge that failed or stopped before, no earlier patch
\* of a group that was run again, and no group lost on the way, which the verification
\* would take for adapted.
MergedIsWhole == merging = "merged" => consolidated = {Current(g) : g \in WithPatch}

\* Every branch of a group that the resolver finds is of its present patch.
BranchesAreCurrent ==
    merging = "failed" => \A g \in WithPatch : branch[g] \in {Absent, {}, {Current(g)}}
=============================================================================
