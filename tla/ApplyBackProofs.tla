-------------------------- MODULE ApplyBackProofs --------------------------
(***************************************************************************)
(* Theorems about ApplyBack, for any set of groups, any conflicts among    *)
(* them and any callers.                                                   *)
(***************************************************************************)
EXTENDS ApplyBack, TLAPS

\* Control points at which a call has marked the run and not completed it.
Marked == {"ref", "conflicted", "giveUp", "failed", "recover", "recovered"}
             \cup Replaying \cup Resolving \cup Merging \cup Completing

\* The status run.json has at each control point, and what it means for the
\* snapshot.
StatusInv ==
    /\ pc \in Marked => status # "completed"
    /\ status # "completed" => snapshot
    /\ pc = "mark" => snapshot
    /\ pc \in Replaying \cup Resolving \cup Merging \cup Completing \cup {"conflicted"}
         => ref

\* Where the tree is known to be back at the commit of the snapshot.
BaseInv ==
    /\ pc = "conflicted" => AtBase
    /\ pc \in Merging /\ ~spoiled => AtBase
    /\ pc = "merged" /\ ~spoiled => HasCallsPatches
    /\ pc = "giveUp" /\ ~spoiled => AtBase \/ (unrecorded /\ HasCallsPatches)
    /\ FailureLeavesBase

\* What each pass has put in the tree so far.
WholeInv ==
    /\ pc = "replay" => (batch \ todo) \cap patched \subseteq tree \ unmerged
    /\ pc = "structured" => PatchMap \ todo \subseteq tree \ unmerged
    /\ pc \in {"stage"} \cup Completing => PatchMap \subseteq tree \ unmerged
    /\ CompletedHasPatches

Inv == TypeOK /\ StatusInv /\ BaseInv /\ WholeInv

-----------------------------------------------------------------------------

\* Git's part: a patch that merges was not blocked by an unmerged file of its
\* own, so the groups merged are in the tree, whole.
LEMMA MergeIsWhole ==
    ASSUME NEW G, GitMerges(G)
    PROVE  /\ G \subseteq tree' \ unmerged'
           /\ tree \subseteq tree'
           /\ unmerged' = unmerged /\ head' = head /\ ref' = ref
BY DEF GitMerges, Blocked

\* Git keeps the shape of the worktree.
LEMMA GitTypes ==
    ASSUME TypeOK, NEW G \in SUBSET Group, GitMerges(G) \/ GitFails(G)
    PROVE  /\ head' \subseteq Change /\ tree' \subseteq Change
           /\ unmerged' \subseteq Group /\ ref' \in BOOLEAN
BY DEF TypeOK, GitMerges, GitFails, GitLeavesMarkers, GitRefuses, gitVars, Change

-----------------------------------------------------------------------------
(* Initially                                                               *)

LEMMA InitInv == Init => Inv
<1> SUFFICES ASSUME Init PROVE Inv
  OBVIOUS
<1>1. TypeOK
  <2>1. overlap \subseteq SUBSET Change
    BY DEF Init, Change
  <2>2. todo \subseteq batch /\ failing \in Group \cup {NoGroup}
    BY DEF Init
  <2>3. /\ ref \in BOOLEAN /\ snapshot \in BOOLEAN /\ spoiled \in BOOLEAN
        /\ unrecorded \in BOOLEAN /\ cyclic \in BOOLEAN
    <3>1. ref = FALSE /\ snapshot = TRUE /\ spoiled = FALSE /\ unrecorded = FALSE
      BY DEF Init
    <3>2. cyclic \in BOOLEAN
      BY DEF Init
    <3> QED
      BY <3>1, <3>2, Zenon
  <2>4. /\ patched \subseteq Group
        /\ phase \in Phases /\ status \in Statuses /\ pc \in PCs
        /\ caller \in Callers \cup {"none"}
        /\ head = {} /\ tree = {} /\ unmerged = {} /\ ledger = {}
        /\ batch = {} /\ delivered = {} /\ leftOut = {}
    BY DEF Init, Phases, Statuses, PCs
  <2> QED
    BY <2>1, <2>2, <2>3, <2>4 DEF TypeOK
<1>2. StatusInv /\ BaseInv /\ WholeInv
  BY DEF Init, StatusInv, BaseInv, WholeInv, FailureLeavesBase,
         CompletedHasPatches, Marked, Replaying, Resolving, Merging, Completing
<1> QED
  BY <1>1, <1>2 DEF Inv

-----------------------------------------------------------------------------
(* The type invariant                                                      *)

LEMMA NextType == TypeOK /\ [Next]_vars => TypeOK'
<1> SUFFICES ASSUME TypeOK, [Next]_vars PROVE TypeOK'
  OBVIOUS
<1> USE DEF TypeOK, Goto, fixedVars, gitVars, runVars, callVars, ghostVars,
            Phases, Statuses, PCs, Replaying, Resolving, Merging, Completing
<1>1. ASSUME NEW c \in Callers, NEW G \in SUBSET Group, Call(c, G)
      PROVE TypeOK'
  BY <1>1 DEF Call
<1>2. CASE MarkApplying
  BY <1>2 DEF MarkApplying
<1>3. CASE CreateRecoveryRef
  <2>1. ref' \in BOOLEAN
    BY <1>3, Zenon DEF CreateRecoveryRef
  <2> QED
    BY <1>3, <2>1 DEF CreateRecoveryRef
<1>4. ASSUME NEW g \in Group, ReplayPatch(g) PROVE TypeOK'
  <2>1. {g} \in SUBSET Group
    OBVIOUS
  <2>2. /\ head' \subseteq Change /\ tree' \subseteq Change
        /\ unmerged' \subseteq Group /\ ref' \in BOOLEAN
    BY <1>4, <2>1, GitTypes DEF ReplayPatch
  <2> QED
    BY <1>4, <2>2 DEF ReplayPatch
<1>5. ASSUME NEW g \in Group, ReplayFails(g) PROVE TypeOK'
  <2>1. {g} \in SUBSET Group
    OBVIOUS
  <2>2. /\ head' \subseteq Change /\ tree' \subseteq Change
        /\ unmerged' \subseteq Group /\ ref' \in BOOLEAN
    BY <1>5, <2>1, GitTypes DEF ReplayFails
  <2> QED
    BY <1>5, <2>2 DEF ReplayFails
<1>6. ASSUME NEW g \in Group, StructuredPatch(g) PROVE TypeOK'
  <2>1. {g} \in SUBSET Group
    OBVIOUS
  <2>2. /\ head' \subseteq Change /\ tree' \subseteq Change
        /\ unmerged' \subseteq Group /\ ref' \in BOOLEAN
    BY <1>6, <2>1, GitTypes DEF StructuredPatch
  <2> QED
    BY <1>6, <2>2 DEF StructuredPatch
<1>7. CASE ReplayDone
  BY <1>7 DEF ReplayDone
<1>8. CASE ReplayReset
  <2>1. spoiled' \in BOOLEAN /\ ref' \in BOOLEAN
    BY <1>8, Zenon DEF ReplayReset, ResetTree, ResetFails
  <2> QED
    BY <1>8, <2>1 DEF ReplayReset, ResetTree, ResetFails
<1>9. CASE ReplayConflicted
  BY <1>9 DEF ReplayConflicted, PatchMap
<1>10. CASE StructuredDone \/ ResolveAndRetry \/ StageAll \/ IntegrationMerge
  BY <1>10 DEF StructuredDone, ResolveAndRetry, StageAll, IntegrationMerge
<1>11. CASE StructuredReset
  <2>1. spoiled' \in BOOLEAN /\ ref' \in BOOLEAN
    BY <1>11, Zenon DEF StructuredReset, ResetTree, ResetFails
  <2> QED
    BY <1>11, <2>1 DEF StructuredReset, ResetTree, ResetFails
<1>12. CASE ApplyConsolidated
  <2>1. PatchMap \in SUBSET Group
    BY DEF PatchMap
  <2>2. /\ head' \subseteq Change /\ tree' \subseteq Change
        /\ unmerged' \subseteq Group /\ ref' \in BOOLEAN
    BY <1>12, <2>1, GitTypes DEF ApplyConsolidated, GitFails
  <2>3. spoiled' \in BOOLEAN
    BY <1>12, Zenon DEF ApplyConsolidated
  <2> QED
    BY <1>12, <2>2, <2>3 DEF ApplyConsolidated
<1>13. CASE GiveUp
  BY <1>13 DEF GiveUp
<1>14. CASE Complete
  BY <1>14 DEF Complete
<1>15. CASE RemoveRecoveryRef
  <2>1. ref' \in BOOLEAN
    BY <1>15, Zenon DEF RemoveRecoveryRef
  <2> QED
    BY <1>15, <2>1 DEF RemoveRecoveryRef
<1>16. CASE FinalizeReturns
  BY <1>16 DEF FinalizeReturns
<1>17. CASE LedgerReturns
  BY <1>17 DEF LedgerReturns
<1>18. CASE ResumeReturns
  BY <1>18 DEF ResumeReturns
<1>19. CASE Recover
  BY <1>19 DEF Recover, ResetTree
<1>20. CASE RecoverSetsPhase
  BY <1>20 DEF RecoverSetsPhase
<1>21. CASE RecoverSetsStatus
  BY <1>21 DEF RecoverSetsStatus
<1>22. CASE UserCommits
  <2>1. tree' \subseteq Change /\ head' \subseteq Change
    BY <1>22 DEF UserCommits, Change
  <2> QED
    BY <1>22, <2>1 DEF UserCommits
<1>23. CASE Crash
  BY <1>23 DEF Crash
<1>24. CASE CompleteFails
  <2>1. unrecorded' \in BOOLEAN
    BY <1>24, Zenon DEF CompleteFails
  <2>2. pc' \in {"idle", "undo", "giveUp"}
    BY <1>24 DEF CompleteFails
  <2> QED
    BY <1>24, <2>1, <2>2 DEF CompleteFails
<1>25. CASE UNCHANGED vars
  BY <1>25 DEF vars
<1> QED
  BY <1>1, <1>2, <1>3, <1>4, <1>5, <1>6, <1>7, <1>8, <1>9, <1>10, <1>11,
     <1>12, <1>13, <1>14, <1>15, <1>16, <1>17, <1>18, <1>19, <1>20, <1>21,
     <1>22, <1>23, <1>24, <1>25 DEF Next, Cascade

\* In every state each variable has its type: in particular the groups still to
\* apply are among those the call was asked for (apply-back.ts:352-483, 640-757).
THEOREM TypeCorrect == Spec => []TypeOK
<1>1. Init => TypeOK
  BY InitInv DEF Inv
<1> QED
  BY <1>1, NextType, PTL DEF Spec

-----------------------------------------------------------------------------
(* What run.json says, and what recovery needs                             *)

LEMMA NextStatus == TypeOK /\ StatusInv /\ [Next]_vars => StatusInv'
<1> SUFFICES ASSUME TypeOK, StatusInv, [Next]_vars PROVE StatusInv'
  OBVIOUS
<1> USE DEF StatusInv, Goto, Marked, Replaying, Resolving, Merging, Completing, fixedVars,
            gitVars, runVars, callVars, ghostVars
<1>1. ASSUME NEW c \in Callers, NEW G \in SUBSET Group, Call(c, G)
      PROVE StatusInv'
  BY <1>1 DEF Call
<1>2. CASE MarkApplying
  BY <1>2 DEF MarkApplying
<1>3. CASE CreateRecoveryRef
  BY <1>3 DEF CreateRecoveryRef
<1>4. ASSUME NEW g \in Group, ReplayPatch(g) \/ ReplayFails(g) \/ StructuredPatch(g)
      PROVE StatusInv'
  <2>1. CASE ReplayPatch(g)
    BY <2>1 DEF ReplayPatch, GitMerges
  <2>2. CASE ReplayFails(g)
    <3>1. ref' = ref
      BY <2>2 DEF ReplayFails, GitFails, GitLeavesMarkers, GitRefuses
    <3> QED
      BY <2>2, <3>1 DEF ReplayFails
  <2>3. CASE StructuredPatch(g)
    <3>1. ref' = ref
      BY <2>3 DEF StructuredPatch, GitMerges, GitFails, GitLeavesMarkers, GitRefuses
    <3>2. pc' \in {"structured", "resolve", "undo"}
      BY <2>3 DEF StructuredPatch
    <3> QED
      BY <2>3, <3>1, <3>2 DEF StructuredPatch
  <2> QED
    BY <1>4, <2>1, <2>2, <2>3
<1>5. CASE ReplayDone \/ StructuredDone \/ ResolveAndRetry \/ StageAll \/ IntegrationMerge
  BY <1>5 DEF ReplayDone, StructuredDone, ResolveAndRetry, StageAll, IntegrationMerge
<1>6. CASE ReplayReset \/ StructuredReset
  BY <1>6 DEF ReplayReset, StructuredReset, ResetTree, ResetFails
<1>7. CASE ReplayConflicted \/ GiveUp
  BY <1>7 DEF ReplayConflicted, GiveUp
<1>8. CASE ApplyConsolidated
  BY <1>8 DEF ApplyConsolidated, GitMerges, GitLeavesMarkers, GitRefuses
<1>9. CASE Complete \/ CompleteFails \/ RemoveRecoveryRef
  BY <1>9 DEF Complete, CompleteFails, RemoveRecoveryRef
<1>10. CASE FinalizeReturns \/ LedgerReturns \/ ResumeReturns
  BY <1>10 DEF FinalizeReturns, LedgerReturns, ResumeReturns
<1>11. CASE Recover \/ RecoverSetsPhase \/ RecoverSetsStatus
  BY <1>11 DEF Recover, RecoverSetsPhase, RecoverSetsStatus, ResetTree
<1>12. CASE UserCommits \/ Crash
  BY <1>12 DEF UserCommits, Crash
<1>13. CASE UNCHANGED vars
  BY <1>13 DEF vars
<1> QED
  BY <1>1, <1>2, <1>3, <1>4, <1>5, <1>6, <1>7, <1>8, <1>9, <1>10, <1>11,
     <1>12, <1>13 DEF Next, Cascade

-----------------------------------------------------------------------------
(* What a rollback leaves                                                  *)

LEMMA NextBase == TypeOK /\ BaseInv /\ [Next]_vars => BaseInv'
<1> SUFFICES ASSUME TypeOK, BaseInv, [Next]_vars PROVE BaseInv'
  OBVIOUS
<1> USE DEF BaseInv, FailureLeavesBase, AtBase, HasCallsPatches, Merging, Goto, fixedVars, gitVars,
            runVars, callVars, ghostVars
<1>1. ASSUME NEW c \in Callers, NEW G \in SUBSET Group, Call(c, G)
      PROVE BaseInv'
  BY <1>1 DEF Call
<1>2. CASE MarkApplying
  BY <1>2 DEF MarkApplying
<1>3. CASE CreateRecoveryRef
  BY <1>3 DEF CreateRecoveryRef
<1>4. ASSUME NEW g \in Group, ReplayPatch(g) \/ ReplayFails(g) \/ StructuredPatch(g)
      PROVE BaseInv'
  BY <1>4 DEF ReplayPatch, ReplayFails, StructuredPatch
<1>5. CASE ReplayDone \/ StructuredDone \/ ResolveAndRetry \/ StageAll
  BY <1>5 DEF ReplayDone, StructuredDone, ResolveAndRetry, StageAll
<1>6. CASE ReplayReset \/ StructuredReset
  BY <1>6 DEF ReplayReset, StructuredReset, ResetTree, ResetFails
<1>7. CASE ReplayConflicted \/ GiveUp
  BY <1>7 DEF ReplayConflicted, GiveUp
<1>8. CASE IntegrationMerge
  BY <1>8 DEF IntegrationMerge
<1>9. CASE ApplyConsolidated
  <2>1. CASE GitMerges(PatchMap) /\ pc' = "merged" /\ UNCHANGED spoiled
    BY <1>9, <2>1 DEF ApplyConsolidated, GitMerges, PatchMap
  <2>2. CASE pc' = "giveUp"
    BY <1>9, <2>2 DEF ApplyConsolidated, GitRefuses
  <2> QED
    BY <1>9, <2>1, <2>2 DEF ApplyConsolidated
<1>10. CASE Complete \/ CompleteFails \/ RemoveRecoveryRef
  BY <1>10 DEF Complete, CompleteFails, Completing, RemoveRecoveryRef
<1>11. CASE FinalizeReturns \/ LedgerReturns \/ ResumeReturns
  BY <1>11 DEF FinalizeReturns, LedgerReturns, ResumeReturns
<1>12. CASE Recover \/ RecoverSetsPhase \/ RecoverSetsStatus
  BY <1>12 DEF Recover, RecoverSetsPhase, RecoverSetsStatus
<1>13. CASE UserCommits \/ Crash
  BY <1>13 DEF UserCommits, Crash
<1>14. CASE UNCHANGED vars
  BY <1>14 DEF vars
<1> QED
  BY <1>1, <1>2, <1>3, <1>4, <1>5, <1>6, <1>7, <1>8, <1>9, <1>10, <1>11,
     <1>12, <1>13, <1>14 DEF Next, Cascade

-----------------------------------------------------------------------------
(* What a pass delivers                                                    *)

LEMMA NextWhole ==
    TypeOK /\ StatusInv /\ WholeInv /\ [Next]_vars => WholeInv'
<1> SUFFICES ASSUME TypeOK, StatusInv, WholeInv, [Next]_vars PROVE WholeInv'
  OBVIOUS
<1> USE DEF WholeInv, CompletedHasPatches, PatchMap, Completing, Goto, fixedVars, gitVars,
            runVars, callVars, ghostVars
<1>1. ASSUME NEW c \in Callers, NEW G \in SUBSET Group, Call(c, G)
      PROVE WholeInv'
  BY <1>1 DEF Call
<1>2. CASE MarkApplying
  BY <1>2 DEF MarkApplying
<1>3. CASE CreateRecoveryRef
  BY <1>3 DEF CreateRecoveryRef
<1>4. ASSUME NEW g \in Group, ReplayPatch(g) PROVE WholeInv'
  <2>1. /\ g \in patched => {g} \subseteq tree' \ unmerged'
        /\ tree \subseteq tree' /\ unmerged' = unmerged
    BY <1>4, MergeIsWhole DEF ReplayPatch
  <2> QED
    BY <1>4, <2>1 DEF ReplayPatch
<1>5. ASSUME NEW g \in Group, ReplayFails(g) PROVE WholeInv'
  <2>1. status # "completed" /\ status' = status /\ pc' = "reset"
    BY <1>5 DEF ReplayFails, StatusInv, Marked, Replaying
  <2> QED
    BY <2>1
<1>6. ASSUME NEW g \in Group, StructuredPatch(g) PROVE WholeInv'
  <2>1. status # "completed" /\ status' = status
    BY <1>6 DEF StructuredPatch, StatusInv, Marked, Resolving
  <2>2. CASE GitMerges({g}) /\ todo' = todo \ {g} /\ pc' = "structured"
    <3>1. {g} \subseteq tree' \ unmerged' /\ tree \subseteq tree' /\ unmerged' = unmerged
      BY <2>2, MergeIsWhole
    <3> QED
      BY <1>6, <2>1, <2>2, <3>1 DEF StructuredPatch
  <2>3. CASE pc' \in {"resolve", "undo"}
    BY <2>1, <2>3
  <2> QED
    BY <1>6, <2>2, <2>3 DEF StructuredPatch
<1>7. CASE ReplayDone \/ StructuredDone \/ ResolveAndRetry \/ StageAll \/ IntegrationMerge
  BY <1>7 DEF ReplayDone, StructuredDone, ResolveAndRetry, StageAll, IntegrationMerge
<1>8. CASE ReplayReset \/ StructuredReset
  <2>1. /\ status # "completed" /\ status' = status
        /\ pc' \in {"conflicted", "idle", "integrate", "giveUp"}
    BY <1>8 DEF ReplayReset, StructuredReset, StatusInv, Marked, Replaying, Resolving
  <2> QED
    BY <2>1
<1>9. CASE ReplayConflicted \/ GiveUp
  BY <1>9 DEF ReplayConflicted, GiveUp
<1>10. CASE ApplyConsolidated
  <2>1. status # "completed" /\ status' = status
    BY <1>10 DEF ApplyConsolidated, StatusInv, Marked, Merging
  <2>2. CASE GitMerges(PatchMap) /\ pc' = "merged"
    <3>1. PatchMap \subseteq tree' \ unmerged'
      BY <2>2, MergeIsWhole
    <3> QED
      BY <1>10, <2>1, <2>2, <3>1 DEF ApplyConsolidated
  <2>3. CASE pc' = "giveUp"
    BY <2>1, <2>3
  <2> QED
    BY <1>10, <2>2, <2>3 DEF ApplyConsolidated
<1>11. CASE Complete \/ CompleteFails \/ RemoveRecoveryRef
  BY <1>11 DEF Complete, CompleteFails, RemoveRecoveryRef
<1>12. CASE FinalizeReturns \/ LedgerReturns \/ ResumeReturns
  BY <1>12 DEF FinalizeReturns, LedgerReturns, ResumeReturns
<1>13. CASE Recover
  BY <1>13 DEF Recover
<1>14. CASE RecoverSetsPhase \/ RecoverSetsStatus
  BY <1>14 DEF RecoverSetsPhase, RecoverSetsStatus
<1>15. CASE UserCommits \/ Crash
  BY <1>15 DEF UserCommits, Crash
<1>16. CASE UNCHANGED vars
  BY <1>16 DEF vars
<1> QED
  BY <1>1, <1>2, <1>3, <1>4, <1>5, <1>6, <1>7, <1>8, <1>9, <1>10, <1>11,
     <1>12, <1>13, <1>14, <1>15, <1>16 DEF Next, Cascade

LEMMA Invariance == Spec => []Inv
<1>1. Inv /\ [Next]_vars => Inv'
  BY NextType, NextStatus, NextBase, NextWhole DEF Inv
<1> QED
  BY InitInv, <1>1, PTL DEF Spec

-----------------------------------------------------------------------------

\* As long as run.json says that apply-back is completed, every patch of the
\* call that completed it is in the primary worktree, whole, whichever strategy
\* of the cascade delivered it (apply-back.ts:493-515, 600-757).
THEOREM CompletedIsWhole == Spec => []CompletedHasPatches
<1>1. Inv => CompletedHasPatches
  BY DEF Inv, WholeInv
<1> QED
  BY <1>1, Invariance, PTL

\* A call that ends in conflict leaves the worktree at the commit of the
\* snapshot unless a reset failed, or with all its patches if what failed was
\* to record their success (apply-back.ts:406-446, 752-933).
THEOREM FailureIsClean == Spec => []FailureLeavesBase
<1>1. Inv => FailureLeavesBase
  BY DEF Inv, BaseInv
<1> QED
  BY <1>1, Invariance, PTL

\* An apply-back that has not completed can be recovered from, wherever the
\* process stopped (apply-back.ts:497-515, orchestration/worktree/run.ts:442-451).
THEOREM AlwaysRecoverable == Spec => []Recoverable
<1>1. Inv => Recoverable
  BY DEF Inv, StatusInv, Recoverable, InStrategy, Marked, Replaying, Resolving,
         Merging
<1> QED
  BY <1>1, Invariance, PTL

-----------------------------------------------------------------------------
(* The group ledger                                                        *)

\* While every call was for all groups, so was every completion.
AllInv == leftOut = {} =>
    /\ pc \notin {"idle", "recover", "recovered"} => batch = Group
    /\ status = "completed" => delivered = patched

LEMMA NextAll ==
    ASSUME TypeOK, AllInv, [Next]_vars
    PROVE  AllInv'
<1> USE DEF AllInv, Goto, fixedVars, gitVars, runVars, callVars, ghostVars
<1>1. ASSUME NEW c \in Callers, NEW G \in SUBSET Group, Call(c, G)
      PROVE AllInv'
  <2>1. CASE G = Group
    BY <1>1, <2>1 DEF Call, TypeOK
  <2>2. CASE G # Group
    <3>1. leftOut' # {}
      BY <1>1, <2>2 DEF Call
    <3> QED
      BY <3>1
  <2> QED
    BY <2>1, <2>2
<1>2. CASE MarkApplying
  BY <1>2 DEF MarkApplying
<1>3. CASE CreateRecoveryRef
  BY <1>3 DEF CreateRecoveryRef
<1>4. ASSUME NEW g \in Group, ReplayPatch(g) \/ ReplayFails(g) \/ StructuredPatch(g)
      PROVE AllInv'
  BY <1>4 DEF ReplayPatch, ReplayFails, StructuredPatch
<1>5. CASE ReplayDone \/ StructuredDone \/ ResolveAndRetry \/ StageAll \/ IntegrationMerge
  BY <1>5 DEF ReplayDone, StructuredDone, ResolveAndRetry, StageAll, IntegrationMerge
<1>6. CASE ReplayReset \/ StructuredReset
  BY <1>6 DEF ReplayReset, StructuredReset, ResetTree, ResetFails
<1>7. CASE ReplayConflicted \/ GiveUp
  BY <1>7 DEF ReplayConflicted, GiveUp
<1>8. CASE ApplyConsolidated
  BY <1>8 DEF ApplyConsolidated
<1>9. CASE Complete \/ CompleteFails \/ RemoveRecoveryRef
  BY <1>9 DEF Complete, CompleteFails, Completing, RemoveRecoveryRef, TypeOK
<1>10. CASE FinalizeReturns \/ LedgerReturns \/ ResumeReturns
  BY <1>10 DEF FinalizeReturns, LedgerReturns, ResumeReturns
<1>11. CASE Recover \/ RecoverSetsPhase \/ RecoverSetsStatus
  BY <1>11 DEF Recover, RecoverSetsPhase, RecoverSetsStatus, ResetTree
<1>12. CASE UserCommits \/ Crash
  BY <1>12 DEF UserCommits, Crash
<1>13. CASE UNCHANGED vars
  BY <1>13 DEF vars
<1> QED
  BY <1>1, <1>2, <1>3, <1>4, <1>5, <1>6, <1>7, <1>8, <1>9, <1>10, <1>11,
     <1>12, <1>13 DEF Next, Cascade

\* As long as every call was for all groups, the ledger of a completed
\* apply-back is right (index.ts:5893-5912, 6085-6107).
THEOREM LedgerIsRight == Spec => []WholeCallsLedgerTellsTree
<1>1. Init => AllInv
  BY DEF Init, AllInv
<1>2. AllInv /\ Inv /\ [Next]_vars => AllInv'
  BY NextAll DEF Inv
<1>3. AllInv /\ Inv => WholeCallsLedgerTellsTree
  BY DEF AllInv, Inv, WholeInv, CompletedHasPatches, CompletedLedgerTellsTree,
         WholeCallsLedgerTellsTree, TypeOK
<1> QED
  BY <1>1, <1>2, <1>3, Invariance, PTL DEF Spec
=============================================================================
