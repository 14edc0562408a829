--------------------------- MODULE DeliveryProofs ---------------------------
(***************************************************************************)
(* Theorems about what becomes of the work of a dispatch: a group's patch  *)
(* holds the whole of its worker's work (GroupCapture), an integration     *)
(* merge that succeeds holds the present patch of each group and nothing   *)
(* else (IntegrationMerge), a run that passes its code review was read by  *)
(* all it needs (CodeReview).  A run that is stopped, resumed and applied  *)
(* as often as one likes throws no finished work away, and is completed    *)
(* only on a worktree that a verification and a review vouch for           *)
(* (GroupResume and PostStart); the command that has a conflict resolved   *)
(* applies nothing that drops a group's work (ConflictResolver); and the   *)
(* fix rounds account for every finding (FixWorkflow).  A file that the    *)
(* rules for conflicts call resolved has lost no line (StructuredMerge);   *)
(* and the files of a pull request are all in chunks, and the comments on  *)
(* them on the lines of their places (PrReview).                           *)
(***************************************************************************)
EXTENDS GroupCapture, IntegrationMerge, CodeReview, GroupResume, ConflictResolver,
        FixWorkflow, StructuredMerge, PrReview, SublistsProofs, SequenceTheorems, TLAPS

-----------------------------------------------------------------------------
(* The capture of a worktree                                               *)

Scope == InScope \ Excluded

ListingStages == {"base", "intent", "head", "reset", "write", "done"}

\* While no command of git has failed, each stage of a capture has the whole of what the
\* stages before it looked at.  Untracked files are known to the index when HEAD is
\* compared with the files: those marked by an earlier capture that stopped are known too.
CaptureInv ==
    /\ CaptureTypeOK
    /\ capturing \in ListingStages /\ ~gitFailed =>
          (committed \cup edited) \cap Scope \subseteq changedFiles
    /\ capturing \in {"intent", "head"} /\ ~gitFailed =>
          parts = (committed \cap Scope) \X {"committed"}
    /\ capturing = "head" /\ ~gitFailed => Untracked = {}
    /\ capturing \in {"reset", "write", "done"} /\ ~gitFailed =>
          parts = ((committed \cap Scope) \X {"committed"}) \cup ((edited \cap Scope) \X {"edited"})
    /\ capturing = "done" => patchFile = parts

LEMMA CaptureInvInit == CaptureInit => CaptureInv
BY GroupCaptureAssumption DEF CaptureInit, CaptureInv, CaptureTypeOK, ListingStages, Diffs

LEMMA WorkKeepsCaptureInv == CaptureInv /\ WorkerWorks => CaptureInv'
<1> SUFFICES ASSUME CaptureInv, WorkerWorks PROVE CaptureInv'
  OBVIOUS
<1>1. capturing' = "no" /\ UNCHANGED <<added, changedFiles, parts, patchFile, gitFailed>>
  BY DEF WorkerWorks
<1>2. /\ committed' \subseteq Files /\ edited' \subseteq Files
      /\ index' \in [Files -> {"tracked", "staged", "intent", "untracked"}]
  <2>1. CASE \E f \in Files \ edited :
                edited' = edited \cup {f} /\ UNCHANGED <<committed, index>>
    BY <2>1 DEF CaptureInv, CaptureTypeOK
  <2>2. CASE \E f \in edited :
                /\ index[f] \in {"untracked", "intent"}
                /\ index' = [index EXCEPT ![f] = "staged"] /\ UNCHANGED <<committed, edited>>
    BY <2>2 DEF CaptureInv, CaptureTypeOK
  <2>3. CASE LET S == {f \in edited : index[f] \in {"tracked", "staged"}} IN
                /\ S # {}
                /\ committed' = committed \cup S /\ edited' = edited \ S
                /\ index' = [f \in Files |-> IF f \in S THEN "tracked" ELSE index[f]]
    BY <2>3 DEF CaptureInv, CaptureTypeOK
  <2> QED
    BY <2>1, <2>2, <2>3 DEF WorkerWorks
<1> QED
  BY <1>1, <1>2 DEF CaptureInv, CaptureTypeOK, ListingStages

LEMMA ListKeepsCaptureInv == CaptureInv /\ ListChanged => CaptureInv'
<1> SUFFICES ASSUME CaptureInv, ListChanged PROVE CaptureInv'
  OBVIOUS
<1>1. /\ capturing' = "base"
      /\ UNCHANGED <<committed, edited, index, added, parts, patchFile>>
  BY DEF ListChanged, workVars
<1>2. PICK D \in SUBSET Files, U \in {Untracked, {}} :
        /\ changedFiles' = D \cup U
        /\ IF U = Untracked THEN Diffed(committed \cup Tracked, D)
                            ELSE gitFailed' = TRUE /\ D = (committed \cap InScope) \ Excluded
  BY DEF ListChanged
<1>3. gitFailed' \in BOOLEAN
  BY <1>2 DEF Diffed, CaptureInv, CaptureTypeOK
<1>4. Untracked \cup Tracked = edited /\ Untracked \subseteq Files
  BY DEF Untracked, Tracked, CaptureInv, CaptureTypeOK
<1>5. ASSUME ~gitFailed' PROVE (committed \cup edited) \cap Scope \subseteq changedFiles'
  BY <1>2, <1>4, <1>5 DEF Diffed, Scope
<1> QED
  BY <1>1, <1>2, <1>3, <1>4, <1>5 DEF CaptureInv, CaptureTypeOK, ListingStages

LEMMA BaseKeepsCaptureInv == CaptureInv /\ DiffBase => CaptureInv'
<1> SUFFICES ASSUME CaptureInv, DiffBase PROVE CaptureInv'
  OBVIOUS
<1>1. /\ capturing = "base" /\ capturing' = "intent"
      /\ UNCHANGED <<committed, edited, index, added, changedFiles, patchFile>>
  BY DEF DiffBase, workVars
<1>2. PICK D \in SUBSET committed : parts' = D \X {"committed"} /\ Diffed(committed, D)
  BY DEF DiffBase
<1>3. gitFailed' \in BOOLEAN /\ (gitFailed => gitFailed') /\ parts' \in Diffs
  BY <1>2 DEF Diffed, CaptureInv, CaptureTypeOK, Diffs, Layers
<1>4. ASSUME ~gitFailed' PROVE parts' = (committed \cap Scope) \X {"committed"}
  BY <1>2, <1>4 DEF Diffed, Scope
<1> QED
  BY <1>1, <1>3, <1>4 DEF CaptureInv, CaptureTypeOK, ListingStages

LEMMA IntentKeepsCaptureInv == CaptureInv /\ AddIntent => CaptureInv'
<1> SUFFICES ASSUME CaptureInv, AddIntent PROVE CaptureInv'
  OBVIOUS
<1>1. /\ capturing = "intent" /\ capturing' = "head"
      /\ UNCHANGED <<committed, edited, changedFiles, parts, patchFile>>
  BY DEF AddIntent
<1>2. PICK S \in SUBSET Untracked :
        /\ index' = [f \in Files |-> IF f \in S THEN "intent" ELSE index[f]]
        /\ added' = (S = Untracked /\ S # {})
        /\ gitFailed' = (gitFailed \/ S # Untracked)
  BY DEF AddIntent
<1>3. index' \in [Files -> {"tracked", "staged", "intent", "untracked"}]
  BY <1>2 DEF CaptureInv, CaptureTypeOK
<1>4. gitFailed' \in BOOLEAN /\ added' \in BOOLEAN /\ (gitFailed => gitFailed')
  BY <1>2 DEF CaptureInv, CaptureTypeOK
<1>5. ASSUME ~gitFailed' PROVE Untracked' = {}
  BY <1>1, <1>2, <1>5 DEF Untracked, CaptureInv, CaptureTypeOK
<1> QED
  BY <1>1, <1>3, <1>4, <1>5 DEF CaptureInv, CaptureTypeOK, ListingStages

LEMMA HeadKeepsCaptureInv == CaptureInv /\ DiffHead => CaptureInv'
<1> SUFFICES ASSUME CaptureInv, DiffHead PROVE CaptureInv'
  OBVIOUS
<1>1. /\ capturing = "head" /\ capturing' = "reset"
      /\ UNCHANGED <<committed, edited, index, added, changedFiles, patchFile>>
  BY DEF DiffHead, workVars
<1>2. PICK D \in SUBSET Tracked :
        parts' = parts \cup (D \X {"edited"}) /\ Diffed(Tracked, D)
  BY DEF DiffHead
<1>3. gitFailed' \in BOOLEAN /\ (gitFailed => gitFailed') /\ parts' \in Diffs
  BY <1>2 DEF Diffed, CaptureInv, CaptureTypeOK, Diffs, Layers, Tracked
<1>4. ASSUME ~gitFailed'
      PROVE  parts' = ((committed \cap Scope) \X {"committed"})
                        \cup ((edited \cap Scope) \X {"edited"})
  <2>1. Tracked = edited
    BY <1>1, <1>3, <1>4 DEF CaptureInv, Untracked, Tracked
  <2>2. D = edited \cap Scope
    BY <1>2, <1>4, <2>1 DEF Diffed, Scope
  <2> QED
    BY <1>1, <1>2, <1>3, <1>4, <2>2 DEF CaptureInv
<1> QED
  BY <1>1, <1>3, <1>4 DEF CaptureInv, CaptureTypeOK, ListingStages

LEMMA ResetKeepsCaptureInv == CaptureInv /\ ResetIndex => CaptureInv'
<1> SUFFICES ASSUME CaptureInv, ResetIndex PROVE CaptureInv'
  OBVIOUS
<1>1. /\ capturing = "reset" /\ capturing' = "write"
      /\ UNCHANGED <<committed, edited, added, changedFiles, parts, patchFile>>
  BY DEF ResetIndex
<1>2. /\ gitFailed' \in BOOLEAN /\ (gitFailed => gitFailed')
      /\ index' \in [Files -> {"tracked", "staged", "intent", "untracked"}]
  BY DEF ResetIndex, CaptureInv, CaptureTypeOK
<1> QED
  BY <1>1, <1>2 DEF CaptureInv, CaptureTypeOK, ListingStages

\* Of a worktree that is captured, and captured again after its worker has worked on,
\* every patch that git did not spoil holds the worker's work within the scope, whole:
\* what it committed, changed, staged or created; also after a capture that stopped.
THEOREM PatchesHoldTheWork == CaptureSpec => []CaptureIsWhole
<1>1. CaptureInv /\ [CaptureNext]_captureVars => CaptureInv'
  <2> SUFFICES ASSUME CaptureInv, [CaptureNext]_captureVars PROVE CaptureInv'
    OBVIOUS
  <2>1. CASE WorkerWorks
    BY <2>1, WorkKeepsCaptureInv
  <2>2. CASE BeginCapture
    BY <2>2 DEF BeginCapture, CaptureInv, CaptureTypeOK, ListingStages, workVars, Diffs
  <2>3. CASE ListChanged
    BY <2>3, ListKeepsCaptureInv
  <2>4. CASE DiffBase
    BY <2>4, BaseKeepsCaptureInv
  <2>5. CASE AddIntent
    BY <2>5, IntentKeepsCaptureInv
  <2>6. CASE DiffHead
    BY <2>6, HeadKeepsCaptureInv
  <2>7. CASE ResetIndex
    BY <2>7, ResetKeepsCaptureInv
  <2>8. CASE WritePatch
    BY <2>8 DEF WritePatch, CaptureInv, CaptureTypeOK, ListingStages, workVars
  <2>9. CASE CaptureStops
    BY <2>9 DEF CaptureStops, CaptureInv, CaptureTypeOK, ListingStages, workVars
  <2>10. CASE UNCHANGED captureVars
    BY <2>10 DEF captureVars, workVars, CaptureInv, CaptureTypeOK, ListingStages, Untracked
  <2> QED
    BY <2>1, <2>2, <2>3, <2>4, <2>5, <2>6, <2>7, <2>8, <2>9, <2>10 DEF CaptureNext
<1>2. CaptureInv => CaptureIsWhole
  BY DEF CaptureInv, CaptureIsWhole, ListingStages, Scope
<1> QED
  BY <1>1, <1>2, CaptureInvInit, PTL DEF CaptureSpec
-----------------------------------------------------------------------------
(* The integration merge                                                   *)

\* The present patches of the groups before n.
Held(n) == {Current(g) : g \in {h \in WithPatch : h < n}}

\* The integration branch holds what the groups before the one at turn have patched;
\* while a group is merged, its own branch holds its present patch.
IntegrationInv ==
    /\ IntegrationTypeOK
    /\ merging \in {"clear", "add"} => turn = 1
    /\ merging = "add" => branch[Integration] = Absent
    /\ merging = "synthesize" => branch[Integration] = Held(turn) /\ worktree = Integration
    /\ merging = "merge" =>
          /\ branch[Integration] = Held(turn)
          /\ turn \in WithPatch /\ branch[turn] = {Current(turn)}
    /\ merging \in {"verify", "merged"} => consolidated = Held(MergeLast + 1)

LEMMA HeldGrows ==
    ASSUME IntegrationTypeOK
    PROVE  /\ Held(1) = {}
           /\ \A n \in MergeGroups :
                 Held(n + 1) = IF n \in WithPatch THEN Held(n) \cup {Current(n)} ELSE Held(n)
           /\ Held(MergeLast + 1) = {Current(g) : g \in WithPatch}
           /\ \A n \in 1..(MergeLast + 1) : Held(n) \subseteq Work
<1>1. MergeLast \in Nat /\ WithPatch \subseteq MergeGroups /\ MergeGroups = 1..MergeLast
  BY IntegrationAssumption DEF WithPatch, MergeGroups
<1>2. \A g \in WithPatch : Current(g) \in Work
  BY <1>1, IntegrationAssumption DEF WithPatch, Current, Work, IntegrationTypeOK
<1>3. Held(1) = {}
  BY <1>1 DEF Held
<1>4. ASSUME NEW n \in MergeGroups
      PROVE  Held(n + 1) = IF n \in WithPatch THEN Held(n) \cup {Current(n)} ELSE Held(n)
  <2>1. n \in Nat /\ \A h \in WithPatch : h \in Nat /\ (h < n + 1 <=> h < n \/ h = n)
    BY <1>1
  <2>2. {h \in WithPatch : h < n + 1} =
          IF n \in WithPatch THEN {h \in WithPatch : h < n} \cup {n} ELSE {h \in WithPatch : h < n}
    BY <2>1
  <2> QED
    BY <2>2 DEF Held
<1>5. Held(MergeLast + 1) = {Current(g) : g \in WithPatch}
  <2>1. \A h \in WithPatch : h < MergeLast + 1
    BY <1>1
  <2> QED
    BY <2>1 DEF Held
<1>6. \A n \in 1..(MergeLast + 1) : Held(n) \subseteq Work
  BY <1>2 DEF Held
<1> QED
  BY <1>3, <1>4, <1>5, <1>6

\* Steps that leave the patches alone leave what is held alone.
LEMMA HeldStays ==
    ASSUME UNCHANGED patchOf
    PROVE  /\ WithPatch' = WithPatch /\ \A g : Current(g)' = Current(g)
           /\ \A n : Held(n)' = Held(n)
BY DEF WithPatch, Current, Held

LEMMA IntegrationInvInit == IntegrationInit => IntegrationInv
<1> SUFFICES ASSUME IntegrationInit PROVE IntegrationInv
  OBVIOUS
<1>1. patchOf \in [MergeGroups -> 0..MaxPatches]
  BY IntegrationAssumption DEF IntegrationInit
<1>2. 1 \in 1..(MergeLast + 1)
  BY IntegrationAssumption
<1>3. clashing \subseteq shared /\ shared \subseteq Pairs /\ stacked \subseteq MergeGroups
  <2>1. clashing \subseteq shared /\ shared \subseteq Pairs
    BY DEF IntegrationInit
  <2>2. stacked \in SUBSET {g \in MergeGroups : \E h \in 1..(g - 1) : {g, h} \in shared}
    BY DEF IntegrationInit
  <2>3. stacked \subseteq MergeGroups
    BY <2>2, Zenon
  <2> QED
    BY <2>1, <2>3
<1>4. branch \in [BranchNames -> (SUBSET Work) \cup {Absent}]
  BY DEF IntegrationInit
<1>5. /\ merging = "no" /\ turn = 1 /\ consolidated = Absent /\ worktree = Absent
  BY DEF IntegrationInit
<1>6. IntegrationTypeOK
  BY <1>1, <1>2, <1>3, <1>4, <1>5 DEF IntegrationTypeOK
<1> QED
  BY <1>5, <1>6 DEF IntegrationInv

LEMMA SynthesisKeepsIntegrationInv ==
    IntegrationInv /\ (SynthesizeGroup \/ SynthesisFails) => IntegrationInv'
<1> SUFFICES ASSUME IntegrationInv, SynthesizeGroup \/ SynthesisFails PROVE IntegrationInv'
  OBVIOUS
<1>1. merging = "synthesize" /\ turn \in WithPatch /\ turn \in MergeGroups
  BY DEF SynthesizeGroup, SynthesisFails, WithPatch
<1>2. UNCHANGED <<patchOf, relationVars, turn, consolidated>>
  BY DEF SynthesizeGroup, SynthesisFails, Fail
<1>3. turn # Integration /\ turn \in BranchNames /\ Integration \in BranchNames
  BY <1>1, IntegrationAssumption DEF BranchNames
<1>4. Current(turn) \in Work
  BY <1>1, IntegrationAssumption DEF WithPatch, Current, Work, IntegrationInv, IntegrationTypeOK
<1>5. worktree' = turn /\ worktree' \in BranchNames \cup {Absent}
  BY <1>3 DEF SynthesizeGroup, SynthesisFails, SyntheticCommit
<1>6. /\ branch' \in [BranchNames -> (SUBSET Work) \cup {Absent}]
      /\ branch'[Integration] = branch[Integration]
      /\ \/ merging' = "merge" /\ branch'[turn] = {Current(turn)}
         \/ merging' = "failed"
  <2>1. CASE SynthesizeGroup
    BY <2>1, <1>3, <1>4 DEF SynthesizeGroup, SyntheticCommit, IntegrationInv, IntegrationTypeOK
  <2>2. CASE SynthesisFails
    BY <2>2, <1>3 DEF SynthesisFails, Fail, IntegrationInv, IntegrationTypeOK
  <2> QED
    BY <2>1, <2>2
<1>7. merging' = "merge" => branch'[turn'] = {Current(turn)}
  BY <1>2, <1>6
<1>8. /\ WithPatch' = WithPatch /\ Current(turn)' = Current(turn) /\ Held(turn)' = Held(turn)
      /\ merging = "synthesize" => branch[Integration] = Held(turn)
  <2>1. turn' = turn /\ patchOf' = patchOf
    BY <1>2
  <2> QED
    BY <2>1 DEF WithPatch, Current, Held, IntegrationInv
<1> QED
  BY <1>1, <1>2, <1>5, <1>6, <1>7, <1>8 DEF IntegrationInv, IntegrationTypeOK, Ended, relationVars

LEMMA MergeKeepsIntegrationInv == IntegrationInv /\ MergeGroup => IntegrationInv'
<1> SUFFICES ASSUME IntegrationInv, MergeGroup PROVE IntegrationInv'
  OBVIOUS
<1>1. merging = "merge" /\ worktree' = Integration
  BY DEF MergeGroup, Target
<1>2. UNCHANGED <<patchOf, relationVars, consolidated>>
  BY DEF MergeGroup, Fail
<1>3. /\ IntegrationTypeOK /\ turn \in WithPatch /\ turn \in MergeGroups
      /\ branch[Integration] = Held(turn) /\ branch[turn] = {Current(turn)}
  BY <1>1 DEF IntegrationInv, WithPatch
<1>4. Integration \in BranchNames
  BY DEF BranchNames
<1>5. turn \in Nat /\ turn + 1 \in 1..(MergeLast + 1) /\ Held(turn + 1) \subseteq Work
  BY <1>3, HeldGrows, IntegrationAssumption DEF MergeGroups
<1>6. \/ UNCHANGED <<branch, turn>> /\ merging' = "failed"
      \/ /\ branch' = [branch EXCEPT ![Integration] = Held(turn + 1)]
         /\ merging' = "synthesize" /\ turn' = turn + 1
  <2>1. Held(turn + 1) = branch[Integration] \cup branch[turn]
    BY <1>3, HeldGrows
  <2> QED
    BY <1>1, <2>1 DEF MergeGroup, Fail
<1>7. Held(turn + 1)' = Held(turn + 1)'
  OBVIOUS
<1>8. CASE UNCHANGED <<branch, turn>> /\ merging' = "failed"
  BY <1>1, <1>2, <1>3, <1>4, <1>8 DEF IntegrationInv, IntegrationTypeOK, Ended, relationVars
<1>9. CASE /\ branch' = [branch EXCEPT ![Integration] = Held(turn + 1)]
           /\ merging' = "synthesize" /\ turn' = turn + 1
  <2>1. /\ branch' \in [BranchNames -> (SUBSET Work) \cup {Absent}]
        /\ branch'[Integration] = Held(turn + 1)
    BY <1>3, <1>4, <1>5, <1>9 DEF IntegrationTypeOK
  <2>2. Held(turn)' = Held(turn + 1)
    <3>1. patchOf' = patchOf /\ turn' = turn + 1
      BY <1>2, <1>9
    <3> QED
      BY <3>1 DEF Held, WithPatch, Current
  <2> QED
    BY <1>1, <1>2, <1>3, <1>4, <1>5, <1>9, <2>1, <2>2
      DEF IntegrationInv, IntegrationTypeOK, Ended, relationVars
<1> QED
  BY <1>6, <1>8, <1>9

LEMMA SkipKeepsIntegrationInv == IntegrationInv /\ SkipGroup => IntegrationInv'
<1> SUFFICES ASSUME IntegrationInv, SkipGroup PROVE IntegrationInv'
  OBVIOUS
<1>1. /\ merging = "synthesize" /\ turn \in MergeGroups /\ turn \notin WithPatch /\ turn' = turn + 1
      /\ UNCHANGED <<patchOf, relationVars, branch, worktree, merging, consolidated>>
  BY DEF SkipGroup
<1>2. turn + 1 \in 1..(MergeLast + 1) /\ Held(turn + 1) = Held(turn)
  <2>1. turn + 1 \in 1..(MergeLast + 1)
    BY <1>1, IntegrationAssumption DEF MergeGroups
  <2>2. Held(turn + 1) = Held(turn)
    BY <1>1, HeldGrows DEF IntegrationInv
  <2> QED
    BY <2>1, <2>2
<1>3. Held(turn)' = Held(turn + 1)
  <2>1. patchOf' = patchOf /\ turn' = turn + 1
    BY <1>1
  <2> QED
    BY <2>1 DEF Held, WithPatch, Current
<1> QED
  BY <1>1, <1>2, <1>3 DEF IntegrationInv, IntegrationTypeOK, Ended, relationVars

LEMMA ConsolidationKeepsIntegrationInv ==
    IntegrationInv /\ (Consolidate \/ VerifyMerge) => IntegrationInv'
<1> SUFFICES ASSUME IntegrationInv, Consolidate \/ VerifyMerge PROVE IntegrationInv'
  OBVIOUS
<1>1. UNCHANGED <<patchOf, relationVars, branch, worktree, turn>>
  BY DEF Consolidate, VerifyMerge, Fail
<1>2. Held(MergeLast + 1)' = Held(MergeLast + 1)
  <2>1. patchOf' = patchOf
    BY <1>1
  <2> QED
    BY <2>1 DEF Held, WithPatch, Current
<1>3. CASE Consolidate
  <2>1. merging = "synthesize" /\ turn = MergeLast + 1
    BY <1>3, IntegrationAssumption DEF Consolidate, IntegrationInv, IntegrationTypeOK
  <2>2. branch[worktree] = Held(MergeLast + 1) /\ branch[worktree] \subseteq Work
    BY <2>1, HeldGrows, IntegrationAssumption DEF IntegrationInv
  <2>3. \/ merging' = "failed" /\ consolidated' = consolidated
        \/ merging' = "verify" /\ consolidated' = Held(MergeLast + 1)
    BY <1>3, <2>2 DEF Consolidate, Fail
  <2>4. consolidated' \in (SUBSET Work) \cup {Absent}
    BY <2>2, <2>3 DEF IntegrationInv, IntegrationTypeOK
  <2>5. IntegrationTypeOK'
    BY <1>1, <2>3, <2>4 DEF IntegrationInv, IntegrationTypeOK, Ended, relationVars
  <2> QED
    BY <1>1, <1>2, <2>3, <2>5 DEF IntegrationInv, relationVars
<1>4. CASE VerifyMerge
  <2>1. /\ merging = "verify" /\ merging' \in {"merged", "failed"}
        /\ consolidated' = consolidated
    BY <1>4 DEF VerifyMerge, Fail
  <2> QED
    BY <1>1, <1>2, <2>1 DEF IntegrationInv, IntegrationTypeOK, Ended, relationVars
<1> QED
  BY <1>3, <1>4

\* The steps at which a merge begins, is prepared, stops or is left for another run.
LEMMA EdgesKeepIntegrationInv ==
    IntegrationInv /\ (\/ BeginMerge \/ ClearOldMerge \/ CreateWorktree \/ GitFailsToPrepare
                       \/ MergeStops \/ (\E g \in MergeGroups : RunGroupAgain(g)))
      => IntegrationInv'
<1> SUFFICES ASSUME IntegrationInv,
                    \/ BeginMerge \/ ClearOldMerge \/ CreateWorktree \/ GitFailsToPrepare
                    \/ MergeStops \/ (\E g \in MergeGroups : RunGroupAgain(g))
             PROVE  IntegrationInv'
  OBVIOUS
<1>1. Integration \in BranchNames /\ 1 \in 1..(MergeLast + 1)
  BY IntegrationAssumption DEF BranchNames
<1>2. CASE BeginMerge \/ GitFailsToPrepare \/ MergeStops
  BY <1>1, <1>2 DEF BeginMerge, GitFailsToPrepare, MergeStops, IntegrationInv, IntegrationTypeOK,
                    Ended, relationVars
<1>3. CASE ClearOldMerge
  <2>1. /\ branch' \in [BranchNames -> (SUBSET Work) \cup {Absent}]
        /\ branch'[Integration] = Absent
    BY <1>1, <1>3 DEF ClearOldMerge, IntegrationInv, IntegrationTypeOK
  <2>2. /\ merging = "clear" /\ merging' = "add" /\ worktree' = Absent
        /\ UNCHANGED <<patchOf, clashing, shared, stacked, turn, consolidated>>
    BY <1>3 DEF ClearOldMerge, relationVars
  <2>3. IntegrationTypeOK'
    BY <2>1, <2>2 DEF IntegrationInv, IntegrationTypeOK
  <2> QED
    BY <2>1, <2>2, <2>3 DEF IntegrationInv
<1>4. CASE CreateWorktree
  <2>1. merging = "add" /\ branch[Integration] = Absent
    BY <1>4 DEF CreateWorktree, IntegrationInv
  <2>2. /\ branch' \in [BranchNames -> (SUBSET Work) \cup {Absent}]
        /\ branch'[Integration] = {}
    BY <1>1, <1>4, <2>1 DEF CreateWorktree, IntegrationInv, IntegrationTypeOK
  <2>3. Held(turn)' = {}
    <3>1. turn' = 1 /\ patchOf' = patchOf
      BY <1>4, <2>1 DEF CreateWorktree, IntegrationInv
    <3>2. Held(turn)' = Held(1)
      BY <3>1 DEF Held, WithPatch, Current
    <3> QED
      BY <3>2, HeldGrows DEF IntegrationInv
  <2> QED
    BY <1>1, <1>4, <2>2, <2>3
      DEF CreateWorktree, IntegrationInv, IntegrationTypeOK, Ended, relationVars
<1>5. CASE \E g \in MergeGroups : RunGroupAgain(g)
  <2>1. patchOf' \in [MergeGroups -> 0..MaxPatches]
    BY <1>5, IntegrationAssumption DEF RunGroupAgain, IntegrationInv, IntegrationTypeOK
  <2> QED
    BY <1>5, <2>1 DEF RunGroupAgain, IntegrationInv, IntegrationTypeOK, Ended, relationVars
<1> QED
  BY <1>2, <1>3, <1>4, <1>5

\* However often groups are run again and merges fail or stop at any command of git, a
\* merge that succeeds has consolidated the present patch of each group that has one, and
\* nothing else, whatever the patches conflict with and the verification takes for adapted.
THEOREM MergesAreWhole == IntegrationSpec => []MergedIsWhole
<1>1. IntegrationInv /\ [IntegrationNext]_integrationVars => IntegrationInv'
  <2>1. CASE UNCHANGED integrationVars
    BY <2>1 DEF integrationVars, relationVars, IntegrationInv, IntegrationTypeOK, Held, WithPatch,
                Current
  <2> QED
    BY <2>1, SynthesisKeepsIntegrationInv, MergeKeepsIntegrationInv, SkipKeepsIntegrationInv,
       ConsolidationKeepsIntegrationInv, EdgesKeepIntegrationInv DEF IntegrationNext
<1>2. IntegrationInv => MergedIsWhole
  BY HeldGrows DEF IntegrationInv, MergedIsWhole
<1> QED
  BY <1>1, <1>2, IntegrationInvInit, PTL DEF IntegrationSpec
-----------------------------------------------------------------------------
(* The review of code                                                      *)

\* Until a review has settled its reviewers are asked, the required ones among them;
\* then what blocks is in its findings, and without a failure all required ones have
\* executed or are still asked, or nobody has executed, which makes it recommend NO-GO.
ReviewOK(r) ==
    /\ reviewing[r] # "no" => gate[r] = "open"
    /\ reviewing[r] = "reviewers" =>
          /\ \A n \in Reviewers : standing[r][n] \in {"none", "requested"}
          /\ \A n \in Required : standing[r][n] = "requested"
    /\ reviewing[r] \in {"synthesis", "report", "gate"} =>
          /\ reported[r] => TableBlocks(canonical[r])
          /\ FailedReviewers(r) = {} =>
                Required \subseteq Executed(r) \cup Asked(r) \/ Executed(r) = {}
    /\ reviewing[r] \in {"report", "gate"} => (FailsClosed(r) => noGo[r])
    /\ reviewing[r] = "gate" /\ ~overtaken[r] => (reportBlocks <=> TableBlocks(canonical[r]))
    /\ gate[r] = "passed" =>
          /\ Executed(r) # {} /\ Required \subseteq Executed(r) \cup Asked(r)
          /\ reported[r] => overtaken[r] \/ trusted[r]

ReviewInv == ReviewTypeOK /\ \A r \in Reviews : ReviewOK(r)

\* Of the findings with one key the most severe is kept: no blocking one gets lost.
LEMMA ConsolidationKeepsWorst ==
    ASSUME NEW said, NEW D, said \in [D -> [Keys -> Severities \cup {0}]]
    PROVE  /\ ConsolidateFindings(said) \in [Keys -> Severities \cup {0}]
           /\ (\E n \in DOMAIN said, k \in Keys \ Remarks : Blocking(said[n][k])) =>
                 TableBlocks(ConsolidateFindings(said))
<1>1. \A k \in Keys : Said(said, k) \subseteq Severities
  BY DEF Said
<1>2. Severities \subseteq Nat /\ 0 \notin Severities
  BY CodeReviewAssumption
<1>3. ASSUME NEW k \in Keys, Said(said, k) # {}
      PROVE  /\ Min(Said(said, k)) \in Said(said, k)
             /\ \A s \in Said(said, k) : Min(Said(said, k)) <= s
  <2>1. Said(said, k) \in SUBSET Nat
    BY <1>1, <1>2
  <2> QED
    BY <1>3, <2>1, LeastNatural
<1>4. ConsolidateFindings(said) \in [Keys -> Severities \cup {0}]
  BY <1>1, <1>3 DEF ConsolidateFindings
<1>5. ASSUME NEW n \in DOMAIN said, NEW k \in Keys \ Remarks, Blocking(said[n][k])
      PROVE  TableBlocks(ConsolidateFindings(said))
  <2>1. said[n][k] \in {1, 2} /\ said[n][k] \in Said(said, k)
    BY <1>5 DEF Blocking, Said
  <2>2. /\ Min(Said(said, k)) <= said[n][k]
        /\ Min(Said(said, k)) \in 1..4
    BY <1>1, <1>3, <2>1, CodeReviewAssumption
  <2>3. Min(Said(said, k)) \in {1, 2}
    BY <2>1, <2>2
  <2>4. ConsolidateFindings(said)[k] = Min(Said(said, k))
    BY <2>1 DEF ConsolidateFindings
  <2> QED
    BY <2>3, <2>4 DEF TableBlocks, Blocking
<1> QED
  BY <1>4, <1>5

\* A step leaves the reviews alone that it does not touch.
LEMMA OtherReviews ==
    ASSUME NEW q, ReviewOK(q), reportBlocks' = reportBlocks,
           UNCHANGED <<reviewing[q], standing[q], canonical[q], noGo[q], gate[q], reported[q],
                       overtaken[q], advice[q], trusted[q]>>
    PROVE  ReviewOK(q)'
BY DEF ReviewOK, FailedReviewers, Executed, Asked, FailsClosed

LEMMA BeginKeepsReviewInv ==
    ASSUME ReviewInv, NEW r \in Reviews, BeginReview(r)
    PROVE  ReviewInv'
<1>1. /\ reviewing[r] = "no" /\ reportBlocks' = reportBlocks
      /\ canonical' = [canonical EXCEPT ![r] = NoFindings]
      /\ noGo' = [noGo EXCEPT ![r] = FALSE]
      /\ reported' = [reported EXCEPT ![r] = FALSE]
      /\ overtaken' = [overtaken EXCEPT ![r] = FALSE]
      /\ advice' = [advice EXCEPT ![r] = "none"]
      /\ trusted' = [trusted EXCEPT ![r] = FALSE]
  BY DEF BeginReview
<1>2. NoFindings \in [Keys -> Severities \cup {0}]
  BY DEF NoFindings
<1>3. /\ canonical' \in [Reviews -> [Keys -> Severities \cup {0}]]
      /\ noGo' \in [Reviews -> BOOLEAN] /\ reported' \in [Reviews -> BOOLEAN]
      /\ overtaken' \in [Reviews -> BOOLEAN] /\ reportBlocks' \in BOOLEAN
      /\ advice' \in [Reviews -> {"none", "blocks", "clean"}]
      /\ trusted' \in [Reviews -> BOOLEAN]
  BY <1>1, <1>2 DEF ReviewInv, ReviewTypeOK
<1>4. \A q \in Reviews \ {r} :
        UNCHANGED <<canonical[q], noGo[q], reported[q], overtaken[q], advice[q], trusted[q]>>
  BY <1>1 DEF ReviewInv, ReviewTypeOK
<1>5. CASE /\ reviewing' = [reviewing EXCEPT ![r] = "reviewers"]
           /\ \E tier \in SUBSET OnDemand :
                 standing' = [standing EXCEPT ![r] = [n \in Reviewers |->
                              IF n \in Required \cup tier THEN "requested" ELSE "none"]]
           /\ gate' = [gate EXCEPT ![r] = "open"]
  <2>1. PICK tier \in SUBSET OnDemand :
            standing' = [standing EXCEPT ![r] = [n \in Reviewers |->
                         IF n \in Required \cup tier THEN "requested" ELSE "none"]]
    BY <1>5
  <2> DEFINE fresh == [n \in Reviewers |->
                         IF n \in Required \cup tier THEN "requested" ELSE "none"]
  <2>2. fresh \in [Reviewers -> {"none", "requested"}] /\ \A n \in Required : fresh[n] = "requested"
    BY DEF Reviewers
  <2>3. standing' = [standing EXCEPT ![r] = fresh]
    BY <2>1
  <2> HIDE DEF fresh
  <2>4. fresh \in [Reviewers -> Statuses]
    BY <2>2 DEF Statuses
  <2>5. /\ reviewing' \in [Reviews -> {"no", "reviewers", "synthesis", "report", "gate"}]
        /\ gate' \in [Reviews -> {"open", "passed", "skipped", "blocked"}]
        /\ standing' \in [Reviews -> [Reviewers -> Statuses]]
    BY <1>5, <2>3, <2>4 DEF ReviewInv, ReviewTypeOK
  <2>6. /\ reviewing'[r] = "reviewers" /\ standing'[r] = fresh /\ gate'[r] = "open"
        /\ \A q \in Reviews \ {r} : UNCHANGED <<reviewing[q], standing[q], gate[q]>>
    BY <1>5, <2>3 DEF ReviewInv, ReviewTypeOK
  <2>7. ReviewOK(r)'
    BY <2>2, <2>6 DEF ReviewOK
  <2>8. ASSUME NEW q \in Reviews \ {r} PROVE ReviewOK(q)'
    <3>1. ReviewOK(q)
      BY DEF ReviewInv
    <3> QED
      BY <1>1, <1>4, <2>6, <3>1 DEF ReviewOK, FailedReviewers, Executed, Asked, FailsClosed
  <2>9. ReviewTypeOK'
    <3>1. ASSUME NEW q \in Reviews, reviewing'[q] \in {"synthesis", "report", "gate"}
          PROVE  \A n \in Required : standing'[q][n] # "none"
      <4>1. q # r /\ reviewing'[q] = reviewing[q] /\ standing'[q] = standing[q]
        BY <2>6, <3>1
      <4> QED
        BY <3>1, <4>1 DEF ReviewInv, ReviewTypeOK
    <3> QED
      BY <1>3, <2>5, <3>1 DEF ReviewTypeOK
  <2> QED
    BY <2>7, <2>8, <2>9 DEF ReviewInv
<1>6. CASE gate' = [gate EXCEPT ![r] = "skipped"] /\ UNCHANGED <<reviewing, standing>>
  <2>1. /\ gate' \in [Reviews -> {"open", "passed", "skipped", "blocked"}]
        /\ gate'[r] = "skipped"
        /\ \A q \in Reviews \ {r} : UNCHANGED <<reviewing[q], standing[q], gate[q]>>
    BY <1>6 DEF ReviewInv, ReviewTypeOK
  <2>2. ReviewOK(r)'
    BY <1>1, <1>6, <2>1 DEF ReviewOK
  <2>3. \A q \in Reviews \ {r} : ReviewOK(q)'
    BY <1>1, <1>4, <2>1, OtherReviews DEF ReviewInv
  <2>4. ReviewTypeOK'
    BY <1>3, <1>6, <2>1 DEF ReviewInv, ReviewTypeOK
  <2> QED
    BY <2>2, <2>3, <2>4 DEF ReviewInv
<1> QED
  BY <1>5, <1>6 DEF BeginReview, To
LEMMA SettlingKeepsReviewInv ==
    ASSUME ReviewInv, NEW r \in Reviews, SettleReviewers(r)
    PROVE  ReviewInv'
<1>1. /\ reviewing[r] = "reviewers" /\ gate[r] = "open"
      /\ \A n \in Reviewers : standing[r][n] \in {"none", "requested"}
      /\ \A n \in Required : standing[r][n] = "requested"
  BY DEF SettleReviewers, ReviewInv, ReviewOK
<1>a. PICK o \in Outcomes(Asked(r)) :
        \E said \in [{n \in Asked(r) : o[n] = "executed"} -> [Keys -> Severities \cup {0}]] :
          /\ standing' = [standing EXCEPT ![r] = [n \in Reviewers |->
                            IF n \in Asked(r) THEN o[n] ELSE standing[r][n]]]
          /\ canonical' = [canonical EXCEPT ![r] = ConsolidateFindings(said)]
          /\ reported' = [reported EXCEPT ![r] =
                \E n \in DOMAIN said, k \in Keys \ Remarks : Blocking(said[n][k])]
  BY DEF SettleReviewers
<1>2. PICK said \in [{n \in Asked(r) : o[n] = "executed"} -> [Keys -> Severities \cup {0}]] :
        /\ standing' = [standing EXCEPT ![r] = [n \in Reviewers |->
                          IF n \in Asked(r) THEN o[n] ELSE standing[r][n]]]
        /\ canonical' = [canonical EXCEPT ![r] = ConsolidateFindings(said)]
        /\ reported' = [reported EXCEPT ![r] =
              \E n \in DOMAIN said, k \in Keys \ Remarks : Blocking(said[n][k])]
  BY <1>a
<1> DEFINE settled == [n \in Reviewers |-> IF n \in Asked(r) THEN o[n] ELSE standing[r][n]]
           found == ConsolidateFindings(said)
           blocks == \E n \in DOMAIN said, k \in Keys \ Remarks : Blocking(said[n][k])
<1>3. /\ found \in [Keys -> Severities \cup {0}]
      /\ blocks => TableBlocks(found)
  BY ConsolidationKeepsWorst
<1>4. Required \subseteq Asked(r) /\ Asked(r) \subseteq Reviewers
  BY <1>1 DEF Asked, Reviewers
<1>5. /\ settled \in [Reviewers -> Statuses]
      /\ \A n \in Required : settled[n] # "none"
      /\ \/ \A n \in Asked(r) : settled[n] \in {"executed", "failed", "requested"}
         \/ \A n \in Reviewers : settled[n] # "executed"
  <2>1. CASE o \in [Asked(r) -> {"executed", "failed", "requested"}]
    BY <1>1, <1>4, <2>1 DEF Statuses
  <2>2. CASE o = [n \in Asked(r) |-> "skipped"]
    <3>1. \A n \in Asked(r) : o[n] = "skipped"
      BY <2>2
    <3> QED
      BY <1>1, <1>4, <3>1 DEF Statuses
  <2> QED
    BY <2>1, <2>2 DEF Outcomes
<1>6. /\ standing' = [standing EXCEPT ![r] = settled]
      /\ canonical' = [canonical EXCEPT ![r] = found]
      /\ reported' = [reported EXCEPT ![r] = blocks]
  BY <1>2
<1>7. blocks \in BOOLEAN
  OBVIOUS
<1> HIDE DEF settled, found, blocks
<1>8. /\ reviewing' = [reviewing EXCEPT ![r] = "synthesis"]
      /\ UNCHANGED <<noGo, advice, reportBlocks, gate, overtaken, trusted>>
  BY DEF SettleReviewers, To
<1>9. /\ reviewing' \in [Reviews -> {"no", "reviewers", "synthesis", "report", "gate"}]
      /\ standing' \in [Reviews -> [Reviewers -> Statuses]]
      /\ canonical' \in [Reviews -> [Keys -> Severities \cup {0}]]
      /\ reported' \in [Reviews -> BOOLEAN]
  BY <1>3, <1>5, <1>6, <1>7, <1>8 DEF ReviewInv, ReviewTypeOK
<1>10. /\ reviewing'[r] = "synthesis" /\ standing'[r] = settled /\ canonical'[r] = found
       /\ reported'[r] = blocks /\ gate'[r] = "open"
       /\ \A q \in Reviews \ {r} :
             UNCHANGED <<reviewing[q], standing[q], canonical[q], reported[q]>>
  BY <1>1, <1>6, <1>8 DEF ReviewInv, ReviewTypeOK
<1>11. ReviewOK(r)'
  <2>1. reported'[r] => TableBlocks(canonical'[r])
    BY <1>3, <1>10
  <2>2. FailedReviewers(r)' = {} =>
            Required \subseteq Executed(r)' \cup Asked(r)' \/ Executed(r)' = {}
    <3>1. CASE \A n \in Asked(r) : settled[n] \in {"executed", "failed", "requested"}
      BY <1>4, <1>10, <3>1 DEF FailedReviewers, Executed, Asked
    <3>2. CASE \A n \in Reviewers : settled[n] # "executed"
      BY <1>10, <3>2 DEF Executed
    <3> QED
      BY <1>5, <3>1, <3>2
  <2> QED
    BY <1>10, <2>1, <2>2 DEF ReviewOK
<1>12. \A q \in Reviews \ {r} : ReviewOK(q)'
  BY <1>8, <1>10, OtherReviews DEF ReviewInv
<1>13. ReviewTypeOK'
  <2>1. \A q \in Reviews : reviewing'[q] \in {"synthesis", "report", "gate"} =>
            \A n \in Required : standing'[q][n] # "none"
    BY <1>5, <1>10 DEF ReviewInv, ReviewTypeOK
  <2> QED
    BY <1>8, <1>9, <2>1 DEF ReviewInv, ReviewTypeOK
<1> QED
  BY <1>11, <1>12, <1>13 DEF ReviewInv

LEMMA SynthesisKeepsReviewInv ==
    ASSUME ReviewInv, NEW r \in Reviews, Synthesize(r)
    PROVE  ReviewInv'
<1>1. PICK a \in {"none", "blocks", "clean"}, n \in BOOLEAN :
        /\ advice' = [advice EXCEPT ![r] = a]
        /\ noGo' = [noGo EXCEPT ![r] = n \/ FailsClosed(r)]
  BY DEF Synthesize
<1> DEFINE stops == n \/ FailsClosed(r)
<1>2. stops \in BOOLEAN /\ (FailsClosed(r) => stops) /\ noGo' = [noGo EXCEPT ![r] = stops]
  BY <1>1
<1> HIDE DEF stops
<1>3. /\ reviewing[r] = "synthesis" /\ reviewing' = [reviewing EXCEPT ![r] = "report"]
      /\ UNCHANGED <<standing, canonical, reportBlocks, gate, reported, overtaken, trusted>>
  BY DEF Synthesize, To, ghostsOfReviews
<1>4. /\ reviewing' \in [Reviews -> {"no", "reviewers", "synthesis", "report", "gate"}]
      /\ noGo' \in [Reviews -> BOOLEAN]
      /\ advice' \in [Reviews -> {"none", "blocks", "clean"}]
      /\ reviewing'[r] = "report" /\ noGo'[r] = stops
      /\ \A q \in Reviews \ {r} : UNCHANGED <<reviewing[q], noGo[q], advice[q]>>
  BY <1>1, <1>2, <1>3 DEF ReviewInv, ReviewTypeOK
<1>5. ReviewOK(r)'
  <2>1. FailsClosed(r)' <=> FailsClosed(r)
    BY <1>3 DEF FailsClosed, FailedReviewers, Executed
  <2>2. FailsClosed(r)' => noGo'[r]
    BY <1>2, <1>4, <2>1
  <2>3. gate[r] = "open" /\ gate'[r] = "open"
    BY <1>3 DEF ReviewInv, ReviewOK
  <2>4. /\ reported'[r] => TableBlocks(canonical'[r])
        /\ FailedReviewers(r)' = {} =>
              Required \subseteq Executed(r)' \cup Asked(r)' \/ Executed(r)' = {}
    BY <1>3 DEF ReviewInv, ReviewOK, FailedReviewers, Executed, Asked
  <2> QED
    BY <1>4, <2>2, <2>3, <2>4 DEF ReviewOK
<1>6. \A q \in Reviews \ {r} : ReviewOK(q)'
  BY <1>3, <1>4, OtherReviews DEF ReviewInv
<1>7. ReviewTypeOK'
  BY <1>3, <1>4 DEF ReviewInv, ReviewTypeOK
<1> QED
  BY <1>5, <1>6, <1>7 DEF ReviewInv

\* The report is of the review that wrote it last; those at their gate are overtaken.
LEMMA ReportKeepsReviewInv ==
    ASSUME ReviewInv, NEW r \in Reviews, WriteReport(r)
    PROVE  ReviewInv'
<1> DEFINE next == IF r \in Gated THEN "gate" ELSE "no"
           passed == [q \in Reviews |-> q # r /\ (overtaken[q] \/ reviewing[q] = "gate")]
<1>1. /\ reviewing[r] = "report" /\ reviewing' = [reviewing EXCEPT ![r] = next]
      /\ overtaken' = passed
      /\ reportBlocks' = TableBlocks(canonical[r])
      /\ advice' = [advice EXCEPT ![r] = IF r \in Gated THEN @ ELSE "none"]
      /\ UNCHANGED <<standing, canonical, noGo, gate, reported, trusted>>
  BY DEF WriteReport, To
<1>2. passed \in [Reviews -> BOOLEAN]
  OBVIOUS
<1>3. /\ ~passed[r]
      /\ \A q \in Reviews \ {r} : passed[q] <=> overtaken[q] \/ reviewing[q] = "gate"
  OBVIOUS
<1>4. next \in {"gate", "no"}
  OBVIOUS
<1> HIDE DEF next, passed
<1>5. /\ reviewing' \in [Reviews -> {"no", "reviewers", "synthesis", "report", "gate"}]
      /\ reviewing'[r] \in {"gate", "no"}
      /\ \A q \in Reviews \ {r} : reviewing'[q] = reviewing[q]
  BY <1>1, <1>4 DEF ReviewInv, ReviewTypeOK
<1>6. reportBlocks' \in BOOLEAN
  BY <1>1 DEF TableBlocks
<1>7. \A q \in Reviews : /\ FailedReviewers(q)' = FailedReviewers(q) /\ Executed(q)' = Executed(q)
                         /\ Asked(q)' = Asked(q)
                         /\ FailsClosed(q)' <=> FailsClosed(q)
  BY <1>1 DEF FailsClosed, FailedReviewers, Executed, Asked
<1>a. advice' \in [Reviews -> {"none", "blocks", "clean"}]
  BY <1>1 DEF ReviewInv, ReviewTypeOK
<1>8. ReviewOK(r)'
  BY <1>1, <1>3, <1>5, <1>7 DEF ReviewInv, ReviewOK
<1>9. ASSUME NEW q \in Reviews \ {r} PROVE ReviewOK(q)'
  BY <1>1, <1>3, <1>5, <1>7 DEF ReviewInv, ReviewOK
<1>10. ReviewTypeOK'
  BY <1>1, <1>2, <1>5, <1>6, <1>a DEF ReviewInv, ReviewTypeOK
<1> QED
  BY <1>8, <1>9, <1>10 DEF ReviewInv

LEMMA GateKeepsReviewInv ==
    ASSUME ReviewInv, NEW r \in Reviews, PassGate(r) \/ ReviewBreaks(r)
    PROVE  ReviewInv'
<1>1. /\ reviewing[r] # "no" /\ reviewing' = [reviewing EXCEPT ![r] = "no"]
      /\ gate[r] = "open"
      /\ UNCHANGED <<standing, canonical, noGo, reportBlocks, reported, overtaken>>
  BY DEF PassGate, ReviewBreaks, To, ReviewInv, ReviewOK, ghostsOfReviews
<1>2. /\ reviewing' \in [Reviews -> {"no", "reviewers", "synthesis", "report", "gate"}]
      /\ reviewing'[r] = "no"
      /\ gate' \in [Reviews -> {"open", "passed", "skipped", "blocked"}]
      /\ advice' \in [Reviews -> {"none", "blocks", "clean"}]
      /\ trusted' \in [Reviews -> BOOLEAN]
      /\ \A q \in Reviews \ {r} :
            UNCHANGED <<reviewing[q], gate[q], advice[q], trusted[q]>>
  <2>1. /\ reviewing' \in [Reviews -> {"no", "reviewers", "synthesis", "report", "gate"}]
        /\ reviewing'[r] = "no" /\ \A q \in Reviews \ {r} : reviewing'[q] = reviewing[q]
    BY <1>1 DEF ReviewInv, ReviewTypeOK
  <2>2. advice' = [advice EXCEPT ![r] = "none"]
    BY DEF PassGate, ReviewBreaks
  <2>3. \E g \in {"open", "passed", "skipped", "blocked"}, t \in BOOLEAN :
          gate' = [gate EXCEPT ![r] = g] /\ trusted' = [trusted EXCEPT ![r] = t]
    <3>1. CASE PassGate(r)
      BY <3>1 DEF PassGate
    <3>2. CASE ReviewBreaks(r)
      <4>1. trusted' = [trusted EXCEPT ![r] = trusted[r]] /\ trusted[r] \in BOOLEAN
        BY <3>2 DEF ReviewBreaks, ghostsOfReviews, ReviewInv, ReviewTypeOK
      <4>2. \E g \in {"open", "blocked"} : gate' = [gate EXCEPT ![r] = g]
        BY <1>1, <3>2 DEF ReviewBreaks
      <4> QED
        BY <4>1, <4>2
    <3> QED
      BY <3>1, <3>2
  <2> QED
    BY <2>1, <2>2, <2>3 DEF ReviewInv, ReviewTypeOK
<1>3. ASSUME gate'[r] = "passed"
      PROVE  /\ Executed(r)' # {} /\ Required \subseteq Executed(r)' \cup Asked(r)'
             /\ reported'[r] => overtaken'[r] \/ trusted'[r]
  <2>1. PassGate(r)
    BY <1>1, <1>3 DEF ReviewBreaks, ReviewInv, ReviewTypeOK
  <2>2. PICK readable \in BOOLEAN :
          /\ gate' = [gate EXCEPT ![r] =
                IF ~(IF readable THEN reportBlocks ELSE ReturnedBlocks(r))
                      /\ FailedReviewers(r) = {} /\ ~noGo[r]
                THEN "passed" ELSE "blocked"]
          /\ trusted' = [trusted EXCEPT ![r] = ~readable /\ advice[r] # "none"]
    BY <2>1 DEF PassGate
  <2>3. /\ reviewing[r] = "gate" /\ FailedReviewers(r) = {} /\ ~noGo[r]
        /\ ~(IF readable THEN reportBlocks ELSE ReturnedBlocks(r))
        /\ trusted'[r] <=> ~readable /\ advice[r] # "none"
    BY <1>3, <2>1, <2>2 DEF PassGate, ReviewInv, ReviewTypeOK
  <2>4. ReviewOK(r)
    BY DEF ReviewInv
  <2>5. Executed(r) # {} /\ Required \subseteq Executed(r) \cup Asked(r)
    BY <2>3, <2>4 DEF ReviewOK, FailsClosed
  <2>6. ASSUME reported[r], ~overtaken[r] PROVE trusted'[r]
    <3>1. TableBlocks(canonical[r]) /\ reportBlocks
      BY <2>3, <2>4, <2>6 DEF ReviewOK
    <3>2. ~readable /\ ~ReturnedBlocks(r)
      BY <2>3, <3>1
    <3>3. LocalBlocks(canonical[r])
      BY <3>1 DEF TableBlocks, LocalBlocks
    <3> QED
      BY <2>3, <3>2, <3>3 DEF ReturnedBlocks
  <2> QED
    BY <1>1, <2>5, <2>6 DEF Executed, Asked
<1>4. ReviewOK(r)'
  BY <1>2, <1>3 DEF ReviewOK
<1>5. \A q \in Reviews \ {r} : ReviewOK(q)'
  BY <1>1, <1>2, OtherReviews DEF ReviewInv
<1>6. ReviewTypeOK'
  BY <1>1, <1>2 DEF ReviewInv, ReviewTypeOK
<1> QED
  BY <1>4, <1>5, <1>6 DEF ReviewInv

\* However many reviews go on at once, and whichever of their reviewers fail, are skipped
\* or throw: a run passes its gate only when a reviewer has executed and each required one
\* has, or has thrown; and when none of them found what blocks, unless another review
\* wrote the report over or the gate went by the synthesizer for want of the report.
THEOREM PassesAreEarned == ReviewSpec => []PassIsEarned
<1>1. ReviewInit => ReviewInv
  <2> SUFFICES ASSUME ReviewInit PROVE ReviewInv
    OBVIOUS
  <2>1. /\ NoReviewers \in [Reviewers -> Statuses]
        /\ NoFindings \in [Keys -> Severities \cup {0}]
    BY DEF NoReviewers, NoFindings, Statuses
  <2>2. \A r \in Reviews : reviewing[r] = "no" /\ gate[r] = "open"
    BY DEF ReviewInit
  <2>3. /\ reviewing \in [Reviews -> {"no", "reviewers", "synthesis", "report", "gate"}]
        /\ gate \in [Reviews -> {"open", "passed", "skipped", "blocked"}]
        /\ reportBlocks \in BOOLEAN
    BY DEF ReviewInit
  <2>4. /\ noGo \in [Reviews -> BOOLEAN] /\ reported \in [Reviews -> BOOLEAN]
        /\ overtaken \in [Reviews -> BOOLEAN] /\ trusted \in [Reviews -> BOOLEAN]
        /\ advice \in [Reviews -> {"none", "blocks", "clean"}]
    BY DEF ReviewInit
  <2>5. /\ standing \in [Reviews -> [Reviewers -> Statuses]]
        /\ canonical \in [Reviews -> [Keys -> Severities \cup {0}]]
    BY <2>1 DEF ReviewInit
  <2> QED
    BY <2>2, <2>3, <2>4, <2>5 DEF ReviewInv, ReviewTypeOK, ReviewOK
<1>2. ReviewInv /\ [ReviewNext]_reviewVars => ReviewInv'
  <2> SUFFICES ASSUME ReviewInv, [ReviewNext]_reviewVars PROVE ReviewInv'
    OBVIOUS
  <2>1. ASSUME NEW r \in Reviews, BeginReview(r) \/ ReviewStep(r) \/ ReviewBreaks(r)
        PROVE  ReviewInv'
    BY <2>1, BeginKeepsReviewInv, SettlingKeepsReviewInv, SynthesisKeepsReviewInv,
       ReportKeepsReviewInv, GateKeepsReviewInv DEF ReviewStep
  <2>2. CASE UNCHANGED reviewVars
    <3>1. \A q \in Reviews : ReviewOK(q)'
      BY <2>2, OtherReviews DEF reviewVars, ghostsOfReviews, ReviewInv
    <3>2. ReviewTypeOK'
      BY <2>2 DEF reviewVars, ghostsOfReviews, ReviewInv, ReviewTypeOK
    <3> QED
      BY <3>1, <3>2 DEF ReviewInv
  <2> QED
    BY <2>1, <2>2 DEF ReviewNext
<1>3. ReviewInv => PassIsEarned
  BY DEF ReviewInv, ReviewOK, PassIsEarned
<1> QED
  BY <1>1, <1>2, <1>3, PTL DEF ReviewSpec
-----------------------------------------------------------------------------
(* The ledger and the work it speaks of                                    *)

Jobs == [rerun : SUBSET Group, reuse : SUBSET Group, apply : BOOLEAN, verify : BOOLEAN,
         review : BOOLEAN, resumed : BOOLEAN]

LEMMA NoJobIsJob == NoJob \in Jobs /\ NoJob.rerun \cap NoJob.reuse = {}
BY DEF NoJob, Jobs

\* What the ledger says of a group's patch.  A patch is there when the ledger has the
\* group as done by one, and only then; a group is dispatched again only without one.
LedgerInv ==
    /\ ResumeTypeOK
    /\ job \in Jobs
    /\ kept \subseteq Group
    /\ \A g \in Group : head[g] <= made[g]
    /\ \A g \in Group : status[g] = "succeeded" => link[g] # 0
    /\ \A g \in Group : link[g] # 0 => status[g] \in Finished
    /\ \A g \in Group : status[g] = "applied" => g \in marked
    /\ \A g \in kept : link[g] # 0
    /\ pc = "rerun" => \A g \in job.rerun : link[g] = 0 /\ made[g] < MaxWork
    /\ redone = {}

LEMMA LedgerInvInit == ResumeInit => LedgerInv
<1> SUFFICES ASSUME ResumeInit PROVE LedgerInv
  OBVIOUS
<1>1. Empty \in Trees /\ \A g \in Group : Empty[g] = 0
  BY PostStartAssumption DEF Empty, Trees, Versions
<1>2. PostTypeOK
  BY <1>1 DEF ResumeInit, PostInit, PostTypeOK, Phases, Points
<1>3. ResumeTypeOK
  BY <1>1, <1>2 DEF ResumeInit, PostInit, ResumeTypeOK, NoJob, NoApply
<1>4. job \in Jobs
  BY DEF ResumeInit, NoJob, Jobs
<1> QED
  BY <1>1, <1>3, <1>4 DEF ResumeInit, LedgerInv

\* What a wave or a rerun leaves in the ledger, of the groups that had no patch.
LEMMA ResultsNoted ==
    ASSUME LedgerInv, NEW W \in SUBSET Group, NEW r \in Results(W), NoteResults(r),
           \A g \in W : link[g] = 0 /\ made[g] < MaxWork
    PROVE  /\ made' \in Trees /\ link' \in Trees
           /\ \A g \in Group : link'[g] <= made'[g] /\ made[g] <= made'[g]
           /\ \A g \in Group : g \notin W => link'[g] = link[g] /\ made'[g] = made[g]
           /\ \A g \in W : link'[g] # 0 <=> g \in Patched(r)
           /\ \A g \in Patched(r) : made'[g] = made[g] + 1
           /\ marked' = marked \cup Evident(r)
           /\ evident' \subseteq marked' /\ marked' \subseteq Group
           /\ scoped' \subseteq Group
           /\ kept' = kept \cup Patched(r) /\ kept' \subseteq Group
           /\ \A g \in kept' : link'[g] # 0
           /\ redone' = {}
<1>1. DOMAIN r = W /\ Patched(r) \subseteq W /\ Evident(r) \subseteq W
      /\ Patched(r) \cap Evident(r) = {}
  BY DEF Results, Patched, Evident
<1>2. /\ made \in Trees /\ link \in Trees /\ MaxWork \in Nat
      /\ \A g \in Group : link[g] <= made[g] /\ link[g] \in Nat /\ made[g] \in Nat
      /\ \A g \in Group : made[g] \in 0..MaxWork /\ link[g] \in 0..MaxWork
  BY PostStartAssumption DEF LedgerInv, ResumeTypeOK, Trees, Versions
<1>3. /\ made' = [g \in Group |-> IF g \in Patched(r) THEN made[g] + 1 ELSE made[g]]
      /\ link' = [g \in Group |-> IF g \in Patched(r) THEN made[g] + 1
                                ELSE IF g \in Evident(r) THEN 0 ELSE link[g]]
  BY DEF NoteResults
<1>4. made' \in Trees
  BY <1>1, <1>2, <1>3 DEF Trees, Versions
<1>5. link' \in Trees
  BY <1>1, <1>2, <1>3 DEF Trees, Versions
<1>6. \A g \in Group : link'[g] <= made'[g] /\ made[g] <= made'[g]
  BY <1>1, <1>2, <1>3
<1>7. /\ \A g \in Group : g \notin W => link'[g] = link[g] /\ made'[g] = made[g]
      /\ \A g \in W : link'[g] # 0 <=> g \in Patched(r)
      /\ \A g \in Patched(r) : made'[g] = made[g] + 1
  BY <1>1, <1>2, <1>3
<1>8. /\ marked' = marked \cup Evident(r) /\ kept' = kept \cup Patched(r)
      /\ evident' \subseteq marked' /\ marked' \subseteq Group
      /\ scoped' \subseteq Group /\ kept' \subseteq Group
  BY <1>1 DEF NoteResults, LedgerInv, ResumeTypeOK
<1>9. redone' = {}
  BY <1>1 DEF NoteResults, LedgerInv
<1>10. \A g \in kept' : link'[g] # 0
  BY <1>1, <1>7, <1>8 DEF LedgerInv
<1> QED
  BY <1>4, <1>5, <1>6, <1>7, <1>8, <1>9, <1>10

LEMMA RunWaveKeepsLedger ==
    ASSUME LedgerInv, NEW r \in UNION {Results(W) : W \in SUBSET Group}, RunWave(r)
    PROVE  LedgerInv'
<1>1. PICK W \in SUBSET Group : r \in Results(W)
  OBVIOUS
<1>2. W = Ready /\ pc = "wave" /\ pc' = pc
  BY <1>1 DEF RunWave, Results, recordVars
<1>3. \A g \in W : status[g] = "queued" /\ link[g] = 0 /\ made[g] < MaxWork
  BY <1>2 DEF RunWave, Ready, LedgerInv, Finished
<1>4. NoteResults(r)
  BY DEF RunWave
<1> DEFINE Noted ==
           /\ made' \in Trees /\ link' \in Trees
           /\ \A g \in Group : link'[g] <= made'[g] /\ made[g] <= made'[g]
           /\ \A g \in Group : g \notin W => link'[g] = link[g] /\ made'[g] = made[g]
           /\ \A g \in W : link'[g] # 0 <=> g \in Patched(r)
           /\ marked' = marked \cup Evident(r)
           /\ evident' \subseteq marked' /\ marked' \subseteq Group
           /\ scoped' \subseteq Group
           /\ kept' \subseteq Group
           /\ \A g \in kept' : link'[g] # 0
           /\ redone' = {}
<1>5. Noted
  BY <1>1, <1>3, <1>4, ResultsNoted
<1>6. /\ status' = [g \in Group |->
            IF g \in Ready THEN Outcome(r, g)
            ELSE IF g \in Dependents(Failed(r)) /\ status[g] = "queued" THEN "blocked"
            ELSE status[g]]
      /\ lineage' = NewLineage(Ready, Group) /\ dispatched' = dispatched \cup Ready
      /\ tree' = head
      /\ UNCHANGED <<command, phase, applyBack, verified, verStale, review, revStale, closed,
                     passedOn, waved, reviewedOn, shipped, torn, runDir, listed, snap, head, job, apply>>
  BY DEF RunWave, CleanUp, recordVars, postGhosts
<1>7. \A g \in W : Outcome(r, g) \in {"failed", "applied", "succeeded"}
                   /\ (Outcome(r, g) = "applied" <=> g \in Evident(r))
                   /\ (Outcome(r, g) = "succeeded" <=> g \in Patched(r))
  BY <1>1 DEF Outcome, Failed, Evident, Patched, Results
<1>8. PostTypeOK'
  BY <1>2, <1>6 DEF PostTypeOK, LedgerInv, ResumeTypeOK
<1>9. \A g \in Group : /\ link'[g] <= made'[g] /\ runDir'[g] <= made'[g]
                       /\ tree'[g] <= made'[g] /\ head'[g] <= made'[g]
  <2> SUFFICES ASSUME NEW g \in Group
               PROVE  /\ link'[g] <= made'[g] /\ runDir'[g] <= made'[g]
                      /\ tree'[g] <= made'[g] /\ head'[g] <= made'[g]
    OBVIOUS
  <2>1. made[g] \in Nat /\ made'[g] \in Nat /\ runDir[g] \in Nat /\ head[g] \in Nat
    BY <1>5 DEF LedgerInv, ResumeTypeOK, Trees, Versions
  <2>2. runDir[g] <= made[g] /\ head[g] <= made[g] /\ made[g] <= made'[g]
    BY <1>5 DEF LedgerInv, ResumeTypeOK
  <2> QED
    BY <2>1, <2>2, <1>5, <1>6
<1>10. status' \in [Group -> {"queued", "running", "succeeded", "applied", "failed", "blocked"}]
  BY <1>2, <1>6, <1>7 DEF LedgerInv, ResumeTypeOK
<1>11. ResumeTypeOK'
  <2>1. runDir' \in Trees /\ head' \in Trees /\ listed' \subseteq Group /\ snap' \in BOOLEAN
    BY <1>6 DEF LedgerInv, ResumeTypeOK
  <2>2. lineage' \subseteq Group /\ dispatched' \subseteq Group
    BY <1>6, <1>2 DEF LedgerInv, ResumeTypeOK, NewLineage
  <2>3. /\ (job.rerun \cap job.reuse = {})'
        /\ apply' \in [by : {"none", "finalize", "eligible", "resume", "command"},
                       groups : SUBSET Group]
        /\ (pc \in {"applying", "mark"} <=> apply.by # "none")'
    BY <1>2, <1>6 DEF LedgerInv, ResumeTypeOK
  <2> QED
    BY <1>5, <1>8, <1>9, <1>10, <2>1, <2>2, <2>3 DEF ResumeTypeOK
<1>12. \A g \in Group : /\ status'[g] = "succeeded" => link'[g] # 0
                        /\ link'[g] # 0 => status'[g] \in Finished
                        /\ status'[g] = "applied" => g \in marked'
  <2> SUFFICES ASSUME NEW g \in Group
               PROVE  /\ status'[g] = "succeeded" => link'[g] # 0
                      /\ link'[g] # 0 => status'[g] \in Finished
                      /\ status'[g] = "applied" => g \in marked'
    OBVIOUS
  <2>1. CASE g \in W
    BY <2>1, <1>2, <1>5, <1>6, <1>7 DEF Finished
  <2>2. CASE g \notin W
    BY <2>2, <1>2, <1>5, <1>6 DEF LedgerInv, Finished
  <2> QED
    BY <2>1, <2>2
<1>13. job' \in Jobs /\ pc' # "rerun"
  BY <1>2, <1>6 DEF LedgerInv
<1>14. \A g \in Group : head'[g] <= made'[g]
  BY <1>9
<1> QED
  BY <1>5, <1>11, <1>12, <1>13, <1>14 DEF LedgerInv
LEMMA RerunKeepsLedger ==
    ASSUME LedgerInv, NEW r \in UNION {Results(W) : W \in SUBSET Group}, RerunResults(r)
    PROVE  LedgerInv'
<1>1. PICK W \in SUBSET Group : r \in Results(W)
  OBVIOUS
<1>2. W = job.rerun /\ pc = "rerun" /\ pc' \in {"idle", "rerunDone"}
  BY <1>1 DEF RerunResults, Results, Goto
<1>3. \A g \in W : link[g] = 0 /\ made[g] < MaxWork
  BY <1>2 DEF LedgerInv
<1>4. NoteResults(r)
  BY DEF RerunResults
<1> DEFINE Noted ==
           /\ made' \in Trees /\ link' \in Trees
           /\ \A g \in Group : link'[g] <= made'[g] /\ made[g] <= made'[g]
           /\ \A g \in Group : g \notin W => link'[g] = link[g] /\ made'[g] = made[g]
           /\ \A g \in W : link'[g] # 0 <=> g \in Patched(r)
           /\ \A g \in Patched(r) : made'[g] = made[g] + 1
           /\ marked' = marked \cup Evident(r)
           /\ evident' \subseteq marked' /\ marked' \subseteq Group
           /\ scoped' \subseteq Group
           /\ kept' \subseteq Group
           /\ \A g \in kept' : link'[g] # 0
           /\ redone' = {}
<1>5. Noted
  BY <1>1, <1>3, <1>4, ResultsNoted
<1>6. /\ status' = [g \in Group |-> IF g \in job.rerun THEN Outcome(r, g) ELSE status[g]]
      /\ runDir' = [g \in Group |-> IF g \in Patched(r) THEN made[g] + 1 ELSE runDir[g]]
      /\ tree' = head
      /\ phase' \in {phase, "partial"} /\ job' \in {job, NoJob}
      /\ UNCHANGED <<command, applyBack, verified, verStale, review, revStale, closed,
                     passedOn, waved, reviewedOn, shipped, torn, listed, snap, lineage, head,
                     dispatched, apply>>
  BY DEF RerunResults, CleanUp, postGhosts
<1>7. \A g \in W : Outcome(r, g) \in {"failed", "applied", "succeeded"}
                   /\ (Outcome(r, g) = "applied" <=> g \in Evident(r))
                   /\ (Outcome(r, g) = "succeeded" <=> g \in Patched(r))
  BY <1>1 DEF Outcome, Failed, Evident, Patched, Results
<1>8. PostTypeOK'
  BY <1>2, <1>6 DEF PostTypeOK, LedgerInv, ResumeTypeOK, Phases, Points
<1>9. \A g \in Group : /\ link'[g] <= made'[g] /\ runDir'[g] <= made'[g]
                       /\ tree'[g] <= made'[g] /\ head'[g] <= made'[g]
                       /\ runDir'[g] \in Versions
  <2> SUFFICES ASSUME NEW g \in Group
               PROVE  /\ link'[g] <= made'[g] /\ runDir'[g] <= made'[g]
                      /\ tree'[g] <= made'[g] /\ head'[g] <= made'[g]
                      /\ runDir'[g] \in Versions
    OBVIOUS
  <2>1. /\ made[g] \in Nat /\ runDir[g] \in Nat /\ head[g] \in Nat
        /\ made'[g] \in Nat /\ made'[g] \in Versions /\ runDir[g] \in Versions
    BY <1>5 DEF LedgerInv, ResumeTypeOK, Trees, Versions
  <2>2. runDir[g] <= made[g] /\ head[g] <= made[g] /\ made[g] <= made'[g]
    BY <1>5 DEF LedgerInv, ResumeTypeOK
  <2>3. runDir'[g] \in {made'[g], runDir[g]}
    BY <1>5, <1>6
  <2> QED
    BY <2>1, <2>2, <2>3, <1>5, <1>6
<1>10. status' \in [Group -> {"queued", "running", "succeeded", "applied", "failed", "blocked"}]
  BY <1>2, <1>6, <1>7 DEF LedgerInv, ResumeTypeOK
<1>11. ResumeTypeOK'
  <2>1. runDir' \in Trees
    BY <1>6, <1>9 DEF Trees
  <2>2. head' \in Trees /\ listed' \subseteq Group /\ snap' \in BOOLEAN
        /\ lineage' \subseteq Group /\ dispatched' \subseteq Group
    BY <1>6 DEF LedgerInv, ResumeTypeOK
  <2>3. /\ (job.rerun \cap job.reuse = {})'
        /\ apply' \in [by : {"none", "finalize", "eligible", "resume", "command"},
                       groups : SUBSET Group]
        /\ (pc \in {"applying", "mark"} <=> apply.by # "none")'
    BY <1>2, <1>6 DEF LedgerInv, ResumeTypeOK, NoJob
  <2> QED
    BY <1>5, <1>8, <1>9, <1>10, <2>1, <2>2, <2>3 DEF ResumeTypeOK
<1>12. \A g \in Group : /\ status'[g] = "succeeded" => link'[g] # 0
                        /\ link'[g] # 0 => status'[g] \in Finished
                        /\ status'[g] = "applied" => g \in marked'
  <2> SUFFICES ASSUME NEW g \in Group
               PROVE  /\ status'[g] = "succeeded" => link'[g] # 0
                      /\ link'[g] # 0 => status'[g] \in Finished
                      /\ status'[g] = "applied" => g \in marked'
    OBVIOUS
  <2>1. CASE g \in W
    BY <2>1, <1>2, <1>5, <1>6, <1>7 DEF Finished
  <2>2. CASE g \notin W
    BY <2>2, <1>2, <1>5, <1>6 DEF LedgerInv, Finished
  <2> QED
    BY <2>1, <2>2
<1>13. job' \in Jobs /\ pc' # "rerun"
  BY <1>2, <1>6, NoJobIsJob DEF LedgerInv
<1>14. \A g \in Group : head'[g] <= made'[g]
  BY <1>9
<1> QED
  BY <1>5, <1>11, <1>12, <1>13, <1>14 DEF LedgerInv

\* What the reconciler makes of the ledger: a group to rerun has no patch.
LEMMA NothingToRedo ==
    ASSUME LedgerInv
    PROVE  /\ Reconciliation \in Jobs /\ Reconciliation.rerun \cap Reconciliation.reuse = {}
           /\ NeedRerun \subseteq Group
           /\ \A g \in NeedRerun : link[g] = 0
<1>1. NeedRerun \subseteq Group /\ Reusable \subseteq Group /\ NeedRerun \cap Reusable = {}
  BY DEF NeedRerun, Reusable
<1>2. \A g \in NeedRerun : link[g] = 0
  BY DEF NeedRerun, Reusable, AlreadyApplied, LedgerInv, Finished
<1> DEFINE ap == Reusable # {}
                  /\ (Reusable = Group \/ (AlreadyApplied # {} /\ NeedRerun = {}))
           ve == \/ phase \in {"verification-failed", "completed"}
                 \/ verStale
                 \/ AlreadyApplied = Group /\ verified = "none"
           re == \/ phase = "review-failed"
                 \/ PassedCurrent /\ (review \in {"none", "fail"} \/ revStale)
<1>3. ap \in BOOLEAN /\ ve \in BOOLEAN /\ re \in BOOLEAN
  BY Zenon DEF LedgerInv, ResumeTypeOK, PostTypeOK
<1>4. Reconciliation = [rerun |-> NeedRerun, reuse |-> Reusable, apply |-> ap, verify |-> ve,
                        review |-> re, resumed |-> TRUE]
  BY Zenon DEF Reconciliation
<1> HIDE DEF ap, ve, re
<1>5. Reconciliation \in Jobs
  BY <1>1, <1>3, <1>4 DEF Jobs
<1>6. Reconciliation.rerun = NeedRerun /\ Reconciliation.reuse = Reusable
  BY <1>4
<1> QED
  BY <1>1, <1>2, <1>5, <1>6
\* A step that leaves the ledger and the work alone.
Restful ==
    /\ PostTypeOK
    /\ runDir \in Trees /\ head \in Trees
    /\ \A g \in Group : runDir[g] <= made[g] /\ tree[g] <= made[g] /\ head[g] <= made[g]
    /\ listed \subseteq Group /\ lineage \subseteq Group /\ dispatched \subseteq Group
    /\ snap \in BOOLEAN
    /\ job \in Jobs /\ job.rerun \cap job.reuse = {}
    /\ apply \in [by : {"none", "finalize", "eligible", "resume", "command"},
                  groups : SUBSET Group]
    /\ pc \in {"applying", "mark"} <=> apply.by # "none"
    /\ pc # "rerun"

LEMMA LedgerFrame ==
    ASSUME LedgerInv, UNCHANGED <<ledgerVars, workGhosts>>, Restful'
    PROVE  LedgerInv'
BY DEF LedgerInv, ResumeTypeOK, ledgerVars, workGhosts, Restful

LEMMA BeginIsTyped ==
    ASSUME LedgerInv, NEW by \in {"eligible", "resume", "command"}, NEW S \in SUBSET Group,
           BeginApply(by, S)
    PROVE  /\ pc' = "applying" /\ apply'.by = by /\ by # "none"
           /\ apply' \in [by : {"none", "finalize", "eligible", "resume", "command"},
                          groups : SUBSET Group]
           /\ snap' \in BOOLEAN /\ phase' \in Phases /\ verStale' \in BOOLEAN
           /\ applyBack' = "in-progress"
<1>1. S \cap listed \in SUBSET Group
  OBVIOUS
<1> QED
  BY <1>1 DEF BeginApply, Goto, Phases

LEMMA EmptyIsTree == Empty \in Trees /\ \A g \in Group : Empty[g] = 0
BY PostStartAssumption DEF Empty, Trees, Versions

LEMMA QuietStepsKeepLedger ==
    ASSUME LedgerInv,
           \/ WaveThrows \/ EndPartial \/ ResumeDirectly \/ Decide \/ ApplyEligible
           \/ ApplySuccessful \/ Commit \/ Recover
    PROVE  LedgerInv'
<1>1. UNCHANGED <<ledgerVars, workGhosts>>
  BY DEF WaveThrows, EndPartial, ResumeDirectly, Decide, ApplyEligible, ApplySuccessful,
         Commit, Recover, workGhosts
<1> USE DEF LedgerInv, ResumeTypeOK, PostTypeOK, Restful
<1>2. ASSUME WaveThrows PROVE Restful'
  BY <1>2, NoJobIsJob DEF WaveThrows, Goto, recordVars, postGhosts, ledgerVars, fileVars,
          workGhosts, Points
<1>3. ASSUME EndPartial PROVE Restful'
  BY <1>3, NoJobIsJob DEF EndPartial, Goto, recordVars, postGhosts, ledgerVars, fileVars,
          workGhosts, Points, Phases
<1>4. ASSUME ResumeDirectly PROVE Restful'
  BY <1>4, NothingToRedo DEF ResumeDirectly, Goto, recordVars, postGhosts, ledgerVars, fileVars,
          workGhosts, Points, Phases
<1>5. ASSUME Decide PROVE Restful'
  <2>1. CASE BeginApply("resume", Group) /\ UNCHANGED job
    BY <1>5, <2>1, BeginIsTyped DEF Decide, postGhosts, ledgerVars, workGhosts, Points
  <2>2. CASE UNCHANGED <<phase, applyBack, verStale, snap, apply>> /\ job' = NoJob
             /\ pc' \in {"post", "reviewOnly", "idle"}
    BY <1>5, <2>2, NoJobIsJob DEF Decide, postGhosts, ledgerVars, workGhosts, Points
  <2> QED
    BY <1>5, <2>1, <2>2 DEF Decide, Goto
<1>6. ASSUME ApplyEligible PROVE Restful'
  <2>1. CASE BeginApply("eligible", Eligible) /\ UNCHANGED job
    <3>1. Eligible \in SUBSET Group
      BY DEF Eligible
    <3> QED
      BY <1>6, <2>1, <3>1, BeginIsTyped DEF ApplyEligible, postGhosts, ledgerVars, workGhosts, Points
  <2>2. CASE UNCHANGED <<applyBack, verStale, snap, apply>> /\ job' \in {NoJob, job}
             /\ phase' = "partial" /\ pc' \in {"decide", "idle"}
    BY <1>6, <2>2, NoJobIsJob DEF ApplyEligible, postGhosts, ledgerVars, workGhosts, Points, Phases
  <2> QED
    BY <1>6, <2>1, <2>2 DEF ApplyEligible, Goto
<1>7. ASSUME ApplySuccessful PROVE Restful'
  <2>1. PostTypeOK'
    BY <1>7 DEF ApplySuccessful, BeginApply, Goto, postGhosts, Points, Phases
  <2> QED
    BY <1>7, <2>1, NothingToRedo DEF ApplySuccessful, BeginApply, Goto, ledgerVars, workGhosts
<1>8. ASSUME Commit PROVE Restful'
  BY <1>8 DEF Commit, Goto, postVars, recordVars, postGhosts, ledgerVars, localVars,
          workGhosts
<1>9. ASSUME Recover PROVE Restful'
  <2>1. tree' \in {tree, Empty} /\ head' \in {head, Empty} /\ UNCHANGED made
    BY <1>9 DEF Recover, workGhosts
  <2>2. /\ tree' \in Trees /\ head' \in Trees
        /\ \A g \in Group : tree'[g] <= made'[g] /\ head'[g] <= made'[g]
    BY <2>1, EmptyIsTree DEF Trees, Versions
  <2> QED
    <3>1. UNCHANGED <<runDir, made, listed, snap, lineage, dispatched, job, apply, pc>>
          /\ pc = "idle"
      BY <1>9 DEF Recover, localVars, workGhosts
    <3>2. /\ phase' = "failed" /\ applyBack' = "rolled-back" /\ verStale' = FALSE
          /\ UNCHANGED <<command, verified, review, revStale, closed, pc, passedOn, waved,
                         reviewedOn, shipped, torn>>
      BY <1>9 DEF Recover, postGhosts
    <3>3. PostTypeOK
      BY DEF LedgerInv, ResumeTypeOK
    <3>4. PostTypeOK'
      <4>1. tree' \in Trees
        BY <2>2
      <4>2. phase' \in Phases
        BY <3>2 DEF Phases
      <4>3. /\ waved' \in BOOLEAN /\ torn' \in BOOLEAN /\ revStale' \in BOOLEAN
            /\ closed' \in BOOLEAN /\ verStale' \in BOOLEAN
        BY <3>2, <3>3 DEF PostTypeOK
      <4> QED
        BY <3>2, <3>3, <4>1, <4>2, <4>3 DEF PostTypeOK
    <3> QED
      BY <2>2, <3>1, <3>4
<1> QED
  BY <1>1, <1>2, <1>3, <1>4, <1>5, <1>6, <1>7, <1>8, <1>9, LedgerFrame
LEMMA CollectKeepsLedger == LedgerInv /\ Collect => LedgerInv'
<1> SUFFICES ASSUME LedgerInv, Collect PROVE LedgerInv'
  OBVIOUS
<1>1. /\ UNCHANGED <<ledgerVars, workGhosts, snap, lineage, head, tree>>
      /\ runDir' = [g \in Group |-> IF g \in dispatched /\ link[g] # 0 THEN link[g]
                                    ELSE runDir[g]]
      /\ listed' = listed \cup dispatched /\ dispatched' \in {dispatched, {}}
      /\ job' \in {job, NoJob}
      /\ phase' = "applying" /\ applyBack' = "in-progress" /\ verStale' = FALSE
      /\ UNCHANGED <<command, verified, review, revStale, closed, postGhosts>>
      /\ pc = "wave"
  BY DEF Collect
<1>2. /\ runDir' \in Trees
      /\ \A g \in Group : runDir'[g] <= made'[g]
  BY <1>1 DEF LedgerInv, ResumeTypeOK, Trees, workGhosts
<1>3. /\ apply' \in [by : {"none", "finalize", "eligible", "resume", "command"},
                     groups : SUBSET Group]
      /\ pc' \in {"applying", "mark"} <=> apply'.by # "none"
      /\ pc' \in {"applying", "idle"}
  BY <1>1 DEF Collect, Goto, LedgerInv, ResumeTypeOK
<1>4. PostTypeOK'
  <2>1. PostTypeOK /\ pc' \in Points
    BY <1>3 DEF LedgerInv, ResumeTypeOK, Points
  <2>2. UNCHANGED <<tree, passedOn, waved, reviewedOn, shipped, torn>>
    BY <1>1 DEF postGhosts
  <2> QED
    BY <1>1, <2>1, <2>2 DEF PostTypeOK, Phases
<1>5. Restful'
  BY <1>1, <1>2, <1>3, <1>4, NoJobIsJob DEF LedgerInv, ResumeTypeOK, Restful, workGhosts
<1> QED
  BY <1>1, <1>5, LedgerFrame

LEMMA ApplySucceedsKeepsLedger == LedgerInv /\ ApplySucceeds => LedgerInv'
<1> SUFFICES ASSUME LedgerInv, ApplySucceeds PROVE LedgerInv'
  OBVIOUS
<1>1. /\ UNCHANGED <<ledgerVars, workGhosts, runDir, listed, lineage, head, dispatched, job, apply>>
      /\ tree' = [g \in Group |-> IF g \in apply.groups /\ runDir[g] # 0 THEN runDir[g]
                                  ELSE tree[g]]
      /\ snap' = FALSE /\ pc = "applying" /\ pc' = "mark"
      /\ phase' = "completed" /\ applyBack' = "completed"
      /\ verStale' = (verified \in {"passed", "failed"})
      /\ UNCHANGED <<command, verified, review, revStale, closed, postGhosts>>
  BY DEF ApplySucceeds, Goto, NewerApplyBack, localVars
<1>2. /\ tree' \in Trees
      /\ \A g \in Group : tree'[g] <= made'[g]
  BY <1>1 DEF LedgerInv, ResumeTypeOK, PostTypeOK, Trees, workGhosts
<1>3. PostTypeOK'
  BY <1>1, <1>2 DEF LedgerInv, ResumeTypeOK, PostTypeOK, postGhosts, Phases, Points
<1>4. Restful'
  BY <1>1, <1>2, <1>3 DEF LedgerInv, ResumeTypeOK, Restful, workGhosts
<1> QED
  BY <1>1, <1>4, LedgerFrame

\* Groups that the ledger comes to have as applied are marked as well.
LEMMA MarkingKeepsLedger ==
    ASSUME LedgerInv, NEW S \in SUBSET Group,
           marked' = marked \cup S,
           status' = [g \in Group |-> IF g \in S THEN "applied" ELSE status[g]],
           kept' \subseteq kept,
           UNCHANGED <<evident, scoped, link, made, redone>>, Restful'
    PROVE  LedgerInv'
<1>1. \A g \in Group : status'[g] = IF g \in S THEN "applied" ELSE status[g]
  OBVIOUS
<1>2. status' \in [Group -> {"queued", "running", "succeeded", "applied", "failed", "blocked"}]
  BY DEF LedgerInv, ResumeTypeOK
<1>3. ResumeTypeOK'
  BY <1>2 DEF LedgerInv, ResumeTypeOK, Restful
<1>4. \A g \in Group : /\ status'[g] = "succeeded" => link'[g] # 0
                       /\ link'[g] # 0 => status'[g] \in Finished
                       /\ status'[g] = "applied" => g \in marked'
  BY <1>1 DEF LedgerInv, Finished
<1>5. kept' \subseteq Group /\ (\A g \in kept' : link'[g] # 0) /\ redone' = {}
  BY DEF LedgerInv
<1> QED
  BY <1>3, <1>4, <1>5 DEF LedgerInv, Restful

LEMMA ConflictKeepsLedger == LedgerInv /\ ApplyConflicts => LedgerInv'
<1> SUFFICES ASSUME LedgerInv, ApplyConflicts PROVE LedgerInv'
  OBVIOUS
<1>1. /\ UNCHANGED <<evident, scoped, link, workGhosts, runDir, listed, lineage, snap>>
      /\ tree' = Empty /\ head' = Empty
      /\ pc = "applying" /\ pc' \in {"decide", "idle"} /\ job' \in {job, NoJob}
      /\ apply' = NoApply /\ dispatched' = {}
      /\ phase' \in {"partial", "apply-back-conflicted"} /\ applyBack' = "conflicted"
      /\ verStale' = (verified \in {"passed", "failed"})
      /\ UNCHANGED <<command, verified, review, revStale, closed, postGhosts>>
  BY DEF ApplyConflicts, Goto, NewerApplyBack
<1>2. PostTypeOK'
  BY <1>1, EmptyIsTree DEF LedgerInv, ResumeTypeOK, PostTypeOK, postGhosts, Phases, Points
<1>3. apply' \in [by : {"none", "finalize", "eligible", "resume", "command"},
                  groups : SUBSET Group]
      /\ apply'.by = "none"
  BY <1>1 DEF NoApply
<1>4. \A g \in Group : /\ runDir'[g] <= made'[g]
                       /\ tree'[g] <= made'[g] /\ head'[g] <= made'[g]
  BY <1>1, EmptyIsTree DEF LedgerInv, ResumeTypeOK, Trees, Versions, workGhosts
<1>5. Restful'
  BY <1>1, <1>2, <1>3, <1>4, NoJobIsJob, EmptyIsTree DEF LedgerInv, ResumeTypeOK, Restful
<1>6. CASE apply.by = "finalize"
  <2>1. /\ marked' = marked \cup dispatched
        /\ status' = [g \in Group |-> IF g \in dispatched THEN "applied" ELSE status[g]]
    BY <1>6 DEF ApplyConflicts
  <2>2. dispatched \in SUBSET Group
    BY DEF LedgerInv, ResumeTypeOK
  <2> QED
    BY <1>1, <1>5, <2>1, <2>2, MarkingKeepsLedger DEF workGhosts
<1>7. CASE apply.by # "finalize"
  <2>1. UNCHANGED <<status, marked>>
    BY <1>7 DEF ApplyConflicts
  <2> QED
    BY <1>1, <1>5, <2>1, LedgerFrame DEF ledgerVars
<1> QED
  BY <1>6, <1>7

LEMMA MarkKeepsLedger == LedgerInv /\ MarkApplied => LedgerInv'
<1> SUFFICES ASSUME LedgerInv, MarkApplied PROVE LedgerInv'
  OBVIOUS
<1>1. /\ UNCHANGED <<recordVars, tree, postGhosts, command, evident, scoped, link, fileVars, made, redone>>
      /\ marked' = marked \cup Marks
      /\ status' = [g \in Group |-> IF g \in Marks THEN "applied" ELSE status[g]]
      /\ kept' \subseteq kept
      /\ job' \in {job, NoJob} /\ apply' = NoApply /\ dispatched' = {}
      /\ pc = "mark"
  BY DEF MarkApplied
<1>2. pc' \in {"decide", "post", "idle"}
  BY DEF MarkApplied, Goto
<1>3. Marks \in SUBSET Group
  BY DEF Marks, Eligible, LedgerInv, ResumeTypeOK, Jobs
<1>4. apply' \in [by : {"none", "finalize", "eligible", "resume", "command"},
                  groups : SUBSET Group]
      /\ apply'.by = "none"
  BY <1>1 DEF NoApply
<1>5. PostTypeOK'
  BY <1>1, <1>2 DEF LedgerInv, ResumeTypeOK, PostTypeOK, postGhosts, recordVars, Points
<1>6. Restful'
  BY <1>1, <1>2, <1>4, <1>5, NoJobIsJob DEF LedgerInv, ResumeTypeOK, Restful, fileVars
<1> QED
  BY <1>1, <1>3, <1>6, MarkingKeepsLedger
\* Groups without a patch that are queued again, or noted as running.
LEMMA RequeuingKeepsLedger ==
    ASSUME LedgerInv, NEW s \in {"queued", "running"}, NEW S \in SUBSET Group,
           \A g \in S : link[g] = 0,
           status' = [g \in Group |-> IF g \in S THEN s ELSE status[g]],
           UNCHANGED <<marked, evident, scoped, link, workGhosts>>,
           Restful' \/ (pc' = "rerun" /\ (\A g \in job'.rerun : link[g] = 0 /\ made[g] < MaxWork)
                        /\ apply'.by = "none" /\ ResumeTypeOK' /\ job' \in Jobs /\ UNCHANGED head)
    PROVE  LedgerInv'
<1>1. \A g \in Group : status'[g] = IF g \in S THEN s ELSE status[g]
  OBVIOUS
<1>2. status' \in [Group -> {"queued", "running", "succeeded", "applied", "failed", "blocked"}]
  BY DEF LedgerInv, ResumeTypeOK
<1>3. ResumeTypeOK'
  BY <1>2 DEF LedgerInv, ResumeTypeOK, Restful, workGhosts
<1>4. \A g \in Group : /\ status'[g] = "succeeded" => link'[g] # 0
                       /\ link'[g] # 0 => status'[g] \in Finished
                       /\ status'[g] = "applied" => g \in marked'
  BY <1>1 DEF LedgerInv, Finished
<1>5. kept' \subseteq Group /\ (\A g \in kept' : link'[g] # 0) /\ redone' = {}
  BY DEF LedgerInv, workGhosts
<1>6. job' \in Jobs /\ \A g \in Group : head'[g] <= made'[g]
  BY DEF Restful, LedgerInv, workGhosts
<1>7. pc' = "rerun" => \A g \in job'.rerun : link'[g] = 0 /\ made'[g] < MaxWork
  BY DEF Restful, workGhosts
<1> QED
  BY <1>3, <1>4, <1>5, <1>6, <1>7 DEF LedgerInv

LEMMA ResumeRerunKeepsLedger == LedgerInv /\ ResumeRerun => LedgerInv'
<1> SUFFICES ASSUME LedgerInv, ResumeRerun PROVE LedgerInv'
  OBVIOUS
<1>1. /\ UNCHANGED <<command, applyBack, verified, verStale, review, revStale, closed,
                     tree, postGhosts, marked, evident, scoped, link, runDir, listed, snap,
                     head, dispatched, apply, workGhosts>>
      /\ phase' = "executing" /\ pc = "idle"
      /\ \A g \in NeedRerun : made[g] < MaxWork
  BY DEF ResumeRerun
<1>2. /\ Reconciliation \in Jobs /\ Reconciliation.rerun \cap Reconciliation.reuse = {}
      /\ NeedRerun \subseteq Group
      /\ \A g \in NeedRerun : link[g] = 0
      /\ Reconciliation.rerun = NeedRerun
  BY NothingToRedo DEF Reconciliation
<1>3. CASE LineageFails(NeedRerun, NeedRerun)
  <2>1. pc' = "idle" /\ UNCHANGED <<job, status, lineage>>
    BY <1>3 DEF ResumeRerun, Goto
  <2>2. PostTypeOK'
    BY <1>1, <2>1 DEF LedgerInv, ResumeTypeOK, PostTypeOK, postGhosts, Phases, Points
  <2>3. Restful'
    BY <1>1, <2>1, <2>2 DEF LedgerInv, ResumeTypeOK, Restful, workGhosts
  <2> QED
    BY <1>1, <2>1, <2>3, LedgerFrame DEF ledgerVars
<1>4. CASE ~LineageFails(NeedRerun, NeedRerun)
  <2>1. /\ job' = Reconciliation
        /\ status' = [g \in Group |-> IF g \in NeedRerun THEN "running" ELSE status[g]]
        /\ lineage' \subseteq Group
        /\ pc' = "rerun"
    BY <1>2, <1>4 DEF ResumeRerun, Dispatching, NewLineage, Goto, LedgerInv, ResumeTypeOK
  <2>2. PostTypeOK'
    BY <1>1, <2>1 DEF LedgerInv, ResumeTypeOK, PostTypeOK, postGhosts, Phases, Points
  <2>3. apply'.by = "none"
    BY <1>1 DEF LedgerInv, ResumeTypeOK
  <2>4. status' \in [Group -> {"queued", "running", "succeeded", "applied", "failed", "blocked"}]
    BY <2>1 DEF LedgerInv, ResumeTypeOK
  <2>5. ResumeTypeOK'
    BY <1>1, <1>2, <2>1, <2>2, <2>3, <2>4 DEF LedgerInv, ResumeTypeOK, workGhosts
  <2>6. \A g \in job'.rerun : link[g] = 0 /\ made[g] < MaxWork
    BY <1>1, <1>2, <2>1
  <2> QED
    BY <1>1, <1>2, <2>1, <2>3, <2>5, <2>6, RequeuingKeepsLedger
<1> QED
  BY <1>3, <1>4

LEMMA DispatchRestKeepsLedger == LedgerInv /\ DispatchRest => LedgerInv'
<1> SUFFICES ASSUME LedgerInv, DispatchRest PROVE LedgerInv'
  OBVIOUS
<1> DEFINE S == {g \in Group : status[g] \notin Finished}
<1>1. /\ UNCHANGED <<command, recordVars, tree, postGhosts, marked, evident, scoped, link,
                     fileVars, job, apply, workGhosts>>
      /\ dispatched' = {} /\ pc = "rerunDone" /\ pc' = "wave"
  BY DEF DispatchRest, Goto
<1>2. status' = [g \in Group |-> IF g \in S THEN "queued" ELSE status[g]]
  BY DEF DispatchRest, KeepDone
<1>3. S \in SUBSET Group /\ \A g \in S : link[g] = 0
  BY DEF LedgerInv
<1>4. PostTypeOK'
  BY <1>1 DEF LedgerInv, ResumeTypeOK, PostTypeOK, postGhosts, recordVars, Points
<1>5. Restful'
  BY <1>1, <1>4 DEF LedgerInv, ResumeTypeOK, Restful, fileVars, workGhosts
<1> HIDE DEF S
<1> QED
  BY <1>1, <1>2, <1>3, <1>5, RequeuingKeepsLedger

LEMMA StopKeepsLedger == LedgerInv /\ Stop => LedgerInv'
<1> SUFFICES ASSUME LedgerInv, Stop PROVE LedgerInv'
  OBVIOUS
<1>1. /\ UNCHANGED <<command, recordVars, passedOn, waved, reviewedOn, shipped, marked, evident,
                     scoped, link, fileVars, workGhosts>>
      /\ pc' = "idle" /\ dispatched' = {} /\ job' = NoJob /\ apply' = NoApply
  BY DEF Stop, Goto
<1>2. torn' \in BOOLEAN /\ tree' \in Trees /\ \A g \in Group : tree'[g] <= made'[g]
  <2>1. CASE pc = "applying"
    <3>1. PICK T \in SUBSET apply.groups :
              /\ tree' = [g \in Group |-> IF g \in T /\ runDir[g] # 0 THEN runDir[g]
                                          ELSE tree[g]]
              /\ torn' = TRUE
      BY <2>1 DEF Stop
    <3> QED
      BY <1>1, <3>1 DEF LedgerInv, ResumeTypeOK, PostTypeOK, Trees, workGhosts
  <2>2. CASE pc # "applying"
    BY <1>1, <2>2 DEF Stop, LedgerInv, ResumeTypeOK, PostTypeOK, workGhosts
  <2> QED
    BY <2>1, <2>2
<1>3. PostTypeOK'
  BY <1>1, <1>2 DEF LedgerInv, ResumeTypeOK, PostTypeOK, recordVars, Points
<1>4. apply' \in [by : {"none", "finalize", "eligible", "resume", "command"},
                  groups : SUBSET Group]
      /\ apply'.by = "none"
  BY <1>1 DEF NoApply
<1>5. Restful'
  BY <1>1, <1>2, <1>3, <1>4, NoJobIsJob DEF LedgerInv, ResumeTypeOK, Restful, fileVars, workGhosts
<1>6. CASE UNCHANGED status
  BY <1>1, <1>5, <1>6, LedgerFrame DEF ledgerVars
<1>7. CASE status' = Dispatching(Ready)
  <2>1. Ready \in SUBSET Group /\ \A g \in Ready : link[g] = 0
    BY DEF Ready, LedgerInv, Finished
  <2>2. status' = [g \in Group |-> IF g \in Ready THEN "running" ELSE status[g]]
    BY <1>7 DEF Dispatching
  <2> QED
    BY <1>1, <1>5, <2>1, <2>2, RequeuingKeepsLedger
<1> QED
  BY <1>6, <1>7 DEF Stop

LEMMA PostKeepsLedger == LedgerInv /\ Continue => LedgerInv'
<1> SUFFICES ASSUME LedgerInv, Continue PROVE LedgerInv'
  OBVIOUS
<1>1. UNCHANGED <<ledgerVars, fileVars, dispatched, job, apply, workGhosts>> /\ PostNext
  BY DEF Continue
<1> DEFINE Typed == /\ PostTypeOK' /\ tree' = tree
                    /\ pc \notin {"applying", "mark", "rerun"}
                    /\ pc' \notin {"applying", "mark", "rerun"}
<1>2. PostTypeOK
  BY DEF LedgerInv, ResumeTypeOK
<1> USE <1>2 DEF PostTypeOK, postGhosts, Goto, Phases, Points
<1>3. ASSUME PostBegin PROVE Typed
  BY <1>3 DEF PostBegin
<1>4. ASSUME SkipVerify PROVE Typed
  BY <1>4 DEF SkipVerify
<1>5. ASSUME VerifyPasses PROVE Typed
  BY <1>5 DEF VerifyPasses, RecordPass
<1>6. ASSUME VerifyFails PROVE Typed
  <2>1. revStale' \in BOOLEAN
    <3>1. revStale' = (review # "none")
      BY <1>6 DEF VerifyFails, RecordFailure
    <3> QED
      BY <3>1, Zenon
  <2>2. /\ verStale' = FALSE /\ verified' = "failed" /\ review' = review
        /\ pc = "verify" /\ pc' = "fixLoop" /\ passedOn' = NoTree /\ waved' = FALSE
        /\ UNCHANGED <<command, phase, applyBack, closed, tree, reviewedOn, shipped, torn>>
    BY <1>6 DEF VerifyFails, RecordFailure
  <2>3. phase' \in Phases /\ pc' \in Points
    BY <2>2
  <2> HIDE DEF Phases, Points
  <2> QED
    BY <2>1, <2>2, <2>3
<1>7. ASSUME LoopPasses PROVE Typed
  BY <1>7 DEF LoopPasses, RecordPass
<1>8. ASSUME LoopFails PROVE Typed
  BY <1>8 DEF LoopFails, RecordFailure
<1>9. ASSUME ReviewPasses PROVE Typed
  <2>1. /\ review' \in {review, "pass"} /\ revStale' \in BOOLEAN
        /\ reviewedOn' = tree /\ phase' \in {phase, "completed"}
        /\ pc \in {"review", "reviewOnly"} /\ pc' = "complete"
        /\ UNCHANGED <<command, applyBack, verified, verStale, closed, tree, passedOn,
                       waved, shipped, torn>>
    BY <1>9 DEF ReviewPasses
  <2> QED
    BY <2>1
<1>10. ASSUME ReviewFails PROVE Typed
  <2>1. /\ review' \in {review, "fail"} /\ revStale' \in BOOLEAN
        /\ phase' = "review-failed"
        /\ pc \in {"review", "reviewOnly"} /\ pc' = "idle"
        /\ UNCHANGED <<command, applyBack, verified, verStale, closed, tree, postGhosts>>
    BY <1>10 DEF ReviewFails
  <2> QED
    BY <2>1
<1>11. ASSUME Complete PROVE Typed
  <2>1. /\ phase' \in {phase, "completed"} /\ applyBack' \in {applyBack, "completed"}
        /\ closed' \in BOOLEAN /\ shipped' \in {shipped, tree}
        /\ pc = "complete" /\ pc' = "idle"
        /\ UNCHANGED <<command, verified, review, revStale, tree, passedOn, waved, reviewedOn, torn>>
    BY <1>11 DEF Complete
  <2>3. verStale' \in BOOLEAN
    <3>1. CASE verStale' = verStale
      BY <3>1
    <3>2. CASE verStale' = (verified \in {"passed", "failed"})
      <4> DEFINE b == verified \in {"passed", "failed"}
      <4>1. verStale' = b /\ b \in BOOLEAN
        BY <3>2
      <4> QED
        BY <4>1, Zenon
    <3>3. verStale' = verStale \/ verStale' = (verified \in {"passed", "failed"})
      BY <1>11 DEF Complete, NewerApplyBack
    <3> QED
      BY <3>1, <3>2, <3>3
  <2>4. phase' \in Phases /\ pc' \in Points
    BY <2>1
  <2>5. /\ applyBack' \in {"pending", "in-progress", "completed", "conflicted", "rolled-back"}
        /\ shipped' \in Trees \cup {NoTree}
    BY <2>1
  <2>6. /\ pc = "complete" /\ pc' = "idle" /\ closed' \in BOOLEAN
        /\ UNCHANGED <<command, verified, review, revStale, tree, passedOn, waved, reviewedOn, torn>>
    BY <2>1
  <2>7. pc \notin {"applying", "mark", "rerun"} /\ pc' \notin {"applying", "mark", "rerun"}
    BY <2>6
  <2> HIDE DEF Phases, Points
  <2>8. PostTypeOK'
    BY <2>3, <2>4, <2>5, <2>6
  <2> QED
    BY <2>6, <2>7, <2>8
<1>12. Typed
  BY <1>1, <1>3, <1>4, <1>5, <1>6, <1>7, <1>8, <1>9, <1>10, <1>11 DEF PostNext
<1>13. Restful'
  BY <1>1, <1>12 DEF Restful, LedgerInv, ResumeTypeOK, fileVars, workGhosts
<1> QED
  BY <1>1, <1>13, LedgerFrame
LEMMA LedgerInvKept == LedgerInv /\ [ResumeNext]_resumeVars => LedgerInv'
<1> SUFFICES ASSUME LedgerInv, [ResumeNext]_resumeVars PROVE LedgerInv'
  OBVIOUS
<1>1. CASE UNCHANGED resumeVars
  BY <1>1 DEF resumeVars, postVars, recordVars, postGhosts, ledgerVars, fileVars, localVars,
              workGhosts, LedgerInv, ResumeTypeOK, PostTypeOK
<1>2. CASE \E r \in UNION {Results(W) : W \in SUBSET Group} : RunWave(r) \/ RerunResults(r)
  BY <1>2, RunWaveKeepsLedger, RerunKeepsLedger
<1>3. CASE \/ WaveThrows \/ EndPartial \/ ResumeDirectly \/ Decide \/ ApplyEligible
           \/ ApplySuccessful \/ Commit \/ Recover
  BY <1>3, QuietStepsKeepLedger
<1> QED
  BY <1>1, <1>2, <1>3, CollectKeepsLedger, ApplySucceedsKeepsLedger, ConflictKeepsLedger,
     MarkKeepsLedger, ResumeRerunKeepsLedger, DispatchRestKeepsLedger, StopKeepsLedger,
     PostKeepsLedger DEF ResumeNext

\* A group whose patch is there and has not reached the worktree is never given to a
\* worker again (resume-reconciler.ts, runWorktreeDispatchAndFinalize), however often a
\* run is stopped, resumed, applied and recovered.
THEOREM WorkIsNotRedone == ResumeSpec => []FinishedWorkIsKept
<1>1. LedgerInv => FinishedWorkIsKept
  BY DEF LedgerInv, FinishedWorkIsKept
<1> QED
  BY <1>1, LedgerInvInit, LedgerInvKept, PTL DEF ResumeSpec

\* The records of a run stay within their types, through any commands, stops and resumes:
\* a patch a group is linked to has been made (GroupResume: run.json and its readers).
THEOREM ResumeTypeCorrect == ResumeSpec => []ResumeTypeOK
<1>1. LedgerInv => ResumeTypeOK
  BY DEF LedgerInv
<1> QED
  BY <1>1, LedgerInvInit, LedgerInvKept, PTL DEF ResumeSpec
-----------------------------------------------------------------------------
(* The resolution of a conflict                                            *)

\* What is about to be applied has been found to hold every group's patch.
ResolverInv == resolving = "apply" => Covered(integrated)

LEMMA ResolverInvKept == ResolverInv /\ [ResolverNext]_resolverVars => ResolverInv'
<1> SUFFICES ASSUME ResolverInv, [ResolverNext]_resolverVars PROVE ResolverInv'
  OBVIOUS
<1>1. CASE UNCHANGED resolverVars \/ UserWorks
  BY <1>1 DEF ResolverInv, resolverVars, UserWorks, Covered
<1>2. ASSUME CheckCoverage PROVE ResolverInv'
  BY <1>2 DEF CheckCoverage, GiveUp, Accepted, Covered, ResolverInv
<1>3. ASSUME StartResolve \/ CleanUpMarkers \/ StartMerging \/ MergeBranch \/ Conflict
                \/ ResolverSucceeds \/ ResolverFails \/ ApplyResolved \/ ResolverStops
      PROVE  resolving' # "apply"
  BY <1>3 DEF StartResolve, CleanUpMarkers, StartMerging, MergeBranch, Conflict, ResolverSucceeds,
              ResolverFails, ApplyResolved, ResolverStops, GiveUp, AfterMerge
<1> QED
  BY <1>1, <1>2, <1>3 DEF ResolverNext, ResolverStep, ResolverInv

LEMMA OnlyCoveredIsApplied ==
    ResolverInv /\ [ResolverNext]_resolverVars => (primary' # primary => Covered(integrated))
<1> SUFFICES ASSUME ResolverInv, [ResolverNext]_resolverVars, primary' # primary
             PROVE  Covered(integrated)
  OBVIOUS
<1>1. ApplyResolved
  BY DEF resolverVars, ResolverNext, ResolverStep, StartResolve, CleanUpMarkers, StartMerging,
         MergeBranch, Conflict, ResolverSucceeds, ResolverFails, CheckCoverage, UserWorks,
         ResolverStops, outerVars
<1> QED
  BY <1>1 DEF ApplyResolved, ResolverInv

\* resolveApplyBackWithSubagent (index.ts): the primary worktree is changed only while
\* the integration worktree holds the work of every group, as far as verifyGroupCoverage
\* can tell, whatever the resolvers made of the conflicts.
THEOREM OnlyCoveredWorkIsApplied == ResolverSpec => AppliedWhenCovered
<1>1. ResolverInit => ResolverInv
  BY DEF ResolverInit, ResolverInv
<1> QED
  BY <1>1, ResolverInvKept, OnlyCoveredIsApplied, PTL DEF ResolverSpec, AppliedWhenCovered
-----------------------------------------------------------------------------
(* What a completed run is vouched for by                                  *)

\* Every group has a patch or needs none.  Once a run has come this far it stays so, and a
\* ledger that is not distrusted leaves nothing to rerun.
Accounted == \A g \in Group : g \in marked \/ link[g] # 0

Vouched == torn \/ passedOn = tree
Unapplied == applyBack \in {"pending", "in-progress"}
Redoing == pc \in {"rerun", "rerunDone"}

\* A run that was verified, or is on its way there, has all its groups accounted for.
ProgressInv ==
    /\ verified # "none" => Accounted
    /\ apply.by \in {"finalize", "eligible", "resume"} => Accounted
    /\ pc \in {"decide", "post", "verify", "fixLoop", "review", "reviewOnly", "complete"} =>
          Accounted
    /\ pc = "wave" \/ apply.by = "finalize" => verified = "none"
    /\ pc = "rerunDone" /\ verified # "none" => Done = Group
    /\ pc = "rerun" /\ verified # "none" => \A g \in Group \ job.rerun : status[g] \in Finished

\* What the place and the phase of a run say of its verification and its apply-back.
StageInv ==
    /\ Redoing \/ pc \in {"wave", "applying", "mark", "decide"} =>
          (job.review => verified = "passed")
    /\ phase = "review-failed" \/ pc \in {"review", "reviewOnly", "complete"} =>
          verified = "passed"
    /\ pc \in {"verify", "fixLoop"} => phase = "executing" /\ ~UndoneApplyBack
    /\ pc = "fixLoop" => command # "none"
    /\ pc = "mark" => applyBack = "completed"
    /\ phase = "apply-back-conflicted" => UndoneApplyBack
    /\ phase = "applying" /\ pc # "applying" /\ verified = "passed" => torn

\* An apply-back that did not come to its end is noticed later: by a verification that
\* has become stale, or because it had nothing left to apply.
ApplyInv ==
    /\ applyBack = "conflicted" /\ verified \in {"passed", "failed"} => verStale
    /\ verified = "passed" /\ ~torn /\ (applyBack = "rolled-back" \/ (Unapplied /\ pc # "applying"))
          => marked = Group
    /\ Unapplied /\ (pc \in {"post", "verify", "fixLoop"} \/ (pc = "decide" /\ ~job.apply))
          => marked = Group

\* The reconciliation a --resume works from is not out of date where it leaves out a
\* verification.
JobInv ==
    /\ Redoing /\ verified = "passed" => torn \/ UndoneApplyBack
    /\ Redoing /\ verStale => job.verify
    /\ apply.by = "eligible" /\ job.review => job.verify \/ torn
    /\ pc = "decide" /\ ~job.apply /\ ~job.verify /\ job.review => Vouched \/ UndoneApplyBack

VouchInv ==
    /\ verified = "passed" /\ ~verStale /\ ~UndoneApplyBack /\ pc # "applying" => Vouched
    /\ pc = "review" => Vouched
    /\ pc = "reviewOnly" => Vouched \/ UndoneApplyBack
    /\ pc = "complete" => UndoneApplyBack \/ (Vouched /\ (torn \/ reviewedOn = tree))
    /\ closed => pc = "idle" /\ (torn \/ (shipped = passedOn /\ shipped = reviewedOn))
    /\ waved => command = "plan"

RunParts == ProgressInv /\ StageInv /\ ApplyInv /\ JobInv /\ VouchInv
RunInv == LedgerInv /\ RunParts

LEMMA RunInvInit == ResumeInit => RunInv
<1> SUFFICES ASSUME ResumeInit PROVE RunParts
  BY LedgerInvInit DEF RunInv
<1>1. /\ verified = "none" /\ phase = "executing" /\ applyBack = "pending" /\ ~closed
      /\ ~waved /\ pc = "wave" /\ apply.by = "none" /\ ~job.review
  BY DEF ResumeInit, PostInit, NoApply, NoJob
<1> QED
  BY <1>1 DEF RunParts, ProgressInv, StageInv, ApplyInv, JobInv, VouchInv, Redoing

\* A mark or a patch of a group is never lost, except that a mark takes the patch's place.
LEMMA AccountedStays ==
    ASSUME LedgerInv, [ResumeNext]_resumeVars
    PROVE  /\ marked \subseteq marked'
           /\ Accounted => Accounted'
<1>1. ASSUME NEW r \in UNION {Results(W) : W \in SUBSET Group}, RunWave(r) \/ RerunResults(r)
      PROVE  /\ marked \subseteq marked'
             /\ \A g \in Group : link[g] # 0 => link'[g] # 0 \/ g \in marked'
  <2>1. /\ link' = [g \in Group |-> IF g \in Patched(r) THEN made[g] + 1
                                    ELSE IF g \in Evident(r) THEN 0 ELSE link[g]]
        /\ marked' = marked \cup Evident(r)
    BY <1>1 DEF RunWave, RerunResults, NoteResults
  <2>2. \A g \in Group : made[g] \in Nat
    BY PostStartAssumption DEF LedgerInv, ResumeTypeOK, Trees, Versions
  <2> QED
    BY <2>1, <2>2
<1>2. ASSUME UNCHANGED resumeVars \/ WaveThrows \/ EndPartial \/ Collect \/ ApplySucceeds
             \/ ResumeDirectly \/ ResumeRerun \/ ApplyEligible \/ DispatchRest \/ Decide
             \/ ApplySuccessful \/ Commit \/ Recover \/ Stop \/ Continue
      PROVE  marked' = marked /\ link' = link
  BY <1>2 DEF resumeVars, WaveThrows, EndPartial, Collect, ApplySucceeds, ResumeDirectly,
              ResumeRerun, ApplyEligible, DispatchRest, Decide, ApplySuccessful, Commit, Recover,
              Stop, Continue, ledgerVars
<1>3. ASSUME ApplyConflicts \/ MarkApplied
      PROVE  marked \subseteq marked' /\ link' = link
  BY <1>3 DEF ApplyConflicts, MarkApplied
<1>4. /\ marked \subseteq marked'
      /\ \A g \in Group : link[g] # 0 => link'[g] # 0 \/ g \in marked'
  BY <1>1, <1>2, <1>3 DEF ResumeNext
<1> QED
  BY <1>4 DEF Accounted

LEMMA DoneIsAccounted == LedgerInv /\ Done = Group => Accounted
BY DEF LedgerInv, Done, Finished, Accounted

\* What the reconciler leaves when all groups are accounted for.
LEMMA NothingWaits == LedgerInv /\ Accounted => WaitingOnDependencies = {}
BY GroupResumeAssumption DEF LedgerInv, Accounted, WaitingOnDependencies, Met

LEMMA AccountedNeedsDistrust ==
    ASSUME LedgerInv, Accounted
    PROVE  /\ ~DistrustLedger => NeedRerun = {}
           /\ DistrustLedger => \A g \in Group \ NeedRerun : status[g] \in Finished
<1>1. WaitingOnDependencies = {}
  BY NothingWaits
<1>2. ASSUME ~DistrustLedger, NEW g \in Group, g \notin AlreadyApplied PROVE g \in Reusable
  BY <1>2 DEF Accounted, AlreadyApplied, Reusable, LedgerInv, Finished
<1>3. ASSUME DistrustLedger, NEW g \in Group \ NeedRerun PROVE status[g] \in Finished
  BY <1>1, <1>3 DEF NeedRerun, AlreadyApplied, Reusable, LedgerInv
<1> QED
  BY <1>2, <1>3 DEF NeedRerun

\* Dependencies have no cycle, so that some group that is not accounted for waits for none.
LEMMA NothingToRerun == LedgerInv /\ NeedRerun = {} => Accounted
<1> SUFFICES ASSUME LedgerInv, NeedRerun = {} PROVE Accounted
  OBVIOUS
<1> DEFINE Missing == {g \in Group : g \notin marked /\ link[g] = 0}
<1>1. ASSUME Missing # {} PROVE FALSE
  <2>1. Missing \in SUBSET Group
    OBVIOUS
  <2>2. PICK g \in Missing : Dep[g] \cap Missing = {}
    BY <1>1, <2>1, GroupResumeAssumption
  <2>3. g \notin AlreadyApplied /\ g \notin Reusable
    BY DEF AlreadyApplied, Reusable, LedgerInv, ResumeTypeOK
  <2>4. \E h \in Dep[g] : ~Met(h)
    BY <2>3 DEF NeedRerun, WaitingOnDependencies
  <2>5. PICK h \in Dep[g] : h \notin marked /\ status[h] \notin Finished
    BY <2>4 DEF Met
  <2>6. h \in Group /\ link[h] = 0
    BY <2>5, GroupResumeAssumption DEF LedgerInv
  <2> QED
    BY <2>2, <2>5, <2>6
<1> QED
  BY <1>1 DEF Accounted
\* The job a --resume begins with.
LEMMA JobBegins ==
    ASSUME RunInv, pc = "idle"
    PROVE  /\ Reconciliation.rerun = NeedRerun
           /\ Reconciliation.review => verified = "passed"
           /\ verStale => Reconciliation.verify
           /\ Reconciliation.review /\ ~Reconciliation.verify => Vouched \/ UndoneApplyBack
           /\ NeedRerun = {} /\ ~Reconciliation.apply => marked = Group
<1> DEFINE R == Reconciliation
<1>1. /\ R.rerun = NeedRerun
      /\ R.apply <=> (/\ Reusable # {}
                      /\ Reusable = Group \/ (AlreadyApplied # {} /\ NeedRerun = {}))
      /\ R.verify <=> (\/ phase \in {"verification-failed", "completed"}
                       \/ verStale
                       \/ AlreadyApplied = Group /\ verified = "none")
      /\ R.review <=> (\/ phase = "review-failed"
                       \/ PassedCurrent /\ (review \in {"none", "fail"} \/ revStale))
  BY DEF Reconciliation
<1> HIDE DEF R
<1>2. R.review => verified = "passed"
  BY <1>1 DEF RunInv, RunParts, StageInv, PassedCurrent
<1>3. R.review /\ ~R.verify => Vouched \/ UndoneApplyBack
  BY <1>1, <1>2 DEF RunInv, RunParts, VouchInv, PassedCurrent
<1>4. NeedRerun = {} /\ ~R.apply => marked = Group
  <2> SUFFICES ASSUME NeedRerun = {}, ~R.apply PROVE marked = Group
    OBVIOUS
  <2>1. WaitingOnDependencies = {}
    BY NothingToRerun, NothingWaits DEF RunInv
  <2>2. Group = AlreadyApplied \cup Reusable
    BY <2>1 DEF NeedRerun, AlreadyApplied, Reusable
  <2>3. AlreadyApplied = Group
    BY <1>1, <2>2
  <2>4. AlreadyApplied \subseteq marked /\ marked \subseteq Group
    BY DEF AlreadyApplied, RunInv, LedgerInv, ResumeTypeOK
  <2> QED
    BY <2>3, <2>4
<1> QED
  BY <1>1, <1>2, <1>3, <1>4 DEF R

LEMMA RunWaveKeepsParts ==
    ASSUME RunInv, NEW r \in UNION {Results(W) : W \in SUBSET Group}, RunWave(r)
    PROVE  RunParts'
<1>1. /\ UNCHANGED <<command, phase, applyBack, verified, closed, pc, job, apply, waved>>
      /\ pc = "wave"
  BY DEF RunWave, recordVars, postGhosts
<1>2. verified = "none" /\ apply.by = "none" /\ ~closed
  BY <1>1 DEF RunInv, RunParts, ProgressInv, VouchInv, LedgerInv, ResumeTypeOK
<1>3. job.review => verified = "passed"
  BY <1>1 DEF RunInv, RunParts, StageInv
<1> USE DEF RunInv, RunParts
<1>4. ProgressInv'
  BY <1>1, <1>2 DEF ProgressInv
<1>5. StageInv'
  BY <1>1, <1>2, <1>3 DEF StageInv, UndoneApplyBack
<1>6. ApplyInv' /\ JobInv' /\ VouchInv'
  BY <1>1, <1>2 DEF ApplyInv, JobInv, VouchInv, Redoing
<1> QED
  BY <1>4, <1>5, <1>6

LEMMA WaveEndsKeepParts ==
    ASSUME RunInv, WaveThrows \/ EndPartial PROVE RunParts'
<1>1. /\ UNCHANGED <<command, applyBack, verified, closed, apply, waved>>
      /\ pc = "wave" /\ pc' = "idle" /\ job' = NoJob /\ phase' \in {phase, "partial"}
  BY DEF WaveThrows, EndPartial, recordVars, Goto, postGhosts
<1>2. verified = "none" /\ apply.by = "none" /\ ~closed
  BY <1>1 DEF RunInv, RunParts, ProgressInv, VouchInv, LedgerInv, ResumeTypeOK
<1> USE DEF RunInv, RunParts
<1>3. ProgressInv'
  BY <1>1, <1>2 DEF ProgressInv
<1>4. StageInv'
  BY <1>1, <1>2 DEF StageInv, UndoneApplyBack, Redoing
<1>5. ApplyInv' /\ JobInv' /\ VouchInv'
  BY <1>1, <1>2 DEF ApplyInv, JobInv, VouchInv, Redoing
<1> QED
  BY <1>3, <1>4, <1>5

LEMMA CollectKeepsParts == ASSUME RunInv, Collect PROVE RunParts'
<1>1. /\ UNCHANGED <<command, verified, closed, marked, link, waved>>
      /\ pc = "wave" /\ Done = Group
      /\ phase' = "applying" /\ applyBack' = "in-progress"
      /\ \/ pc' = "applying" /\ apply'.by = "finalize" /\ UNCHANGED job
         \/ pc' = "idle" /\ job' = NoJob /\ UNCHANGED apply
  BY DEF Collect, Goto, ledgerVars, postGhosts
<1>2. verified = "none" /\ apply.by = "none" /\ ~closed
  BY <1>1 DEF RunInv, RunParts, ProgressInv, VouchInv, LedgerInv, ResumeTypeOK
<1>3. job.review => verified = "passed"
  BY <1>1 DEF RunInv, RunParts, StageInv
<1>4. Accounted'
  BY <1>1, DoneIsAccounted DEF Accounted, RunInv
<1> USE DEF RunInv, RunParts
<1>5. ProgressInv'
  BY <1>1, <1>2, <1>4 DEF ProgressInv
<1>6. StageInv'
  BY <1>1, <1>2, <1>3 DEF StageInv, UndoneApplyBack, Redoing
<1>7. ApplyInv' /\ JobInv' /\ VouchInv'
  BY <1>1, <1>2 DEF ApplyInv, JobInv, VouchInv, Redoing
<1> QED
  BY <1>5, <1>6, <1>7

LEMMA ApplySucceedsKeepsParts == ASSUME RunInv, ApplySucceeds PROVE RunParts'
<1>1. /\ UNCHANGED <<command, verified, closed, marked, link, job, apply, waved>>
      /\ pc = "applying" /\ pc' = "mark"
      /\ phase' = "completed" /\ applyBack' = "completed"
      /\ verStale' = (verified \in {"passed", "failed"})
  BY DEF ApplySucceeds, Goto, NewerApplyBack, ledgerVars, localVars, postGhosts
<1>2. ~closed /\ (Accounted => Accounted')
  BY <1>1 DEF RunInv, RunParts, VouchInv, Accounted
<1> USE DEF RunInv, RunParts
<1>3. ProgressInv'
  BY <1>1, <1>2 DEF ProgressInv
<1>4. StageInv'
  BY <1>1, <1>2 DEF StageInv, UndoneApplyBack, Redoing
<1>5. ApplyInv'
  BY <1>1, <1>2 DEF ApplyInv, Unapplied
<1>6. VouchInv'
  <2>1. waved' => command' = "plan"
    BY <1>1 DEF VouchInv
  <2>2. verified' = "passed" => verStale'
    BY <1>1
  <2> QED
    BY <1>1, <1>2, <2>1, <2>2 DEF VouchInv
<1>7. JobInv'
  BY <1>1, <1>2 DEF ApplySucceeds, postGhosts, JobInv, Redoing
<1> QED
  BY <1>3, <1>4, <1>5, <1>6, <1>7

LEMMA ConflictKeepsParts == ASSUME RunInv, ApplyConflicts PROVE RunParts'
<1>1. /\ UNCHANGED <<command, verified, closed, waved>>
      /\ pc = "applying" /\ apply'.by = "none"
      /\ phase' \in {"partial", "apply-back-conflicted"} /\ applyBack' = "conflicted"
      /\ verStale' = (verified \in {"passed", "failed"})
      /\ \/ pc' = "decide" /\ apply.by = "finalize" /\ UNCHANGED job
         \/ pc' = "idle" /\ job' = NoJob
  BY DEF ApplyConflicts, Goto, NewerApplyBack, NoApply, postGhosts
<1>2. ~closed /\ (Accounted => Accounted')
  BY <1>1, AccountedStays DEF RunInv, RunParts, VouchInv, ResumeNext
<1> USE DEF RunInv, RunParts
<1>3. ProgressInv'
  BY <1>1, <1>2 DEF ProgressInv
<1>4. StageInv'
  BY <1>1, <1>2 DEF StageInv, UndoneApplyBack, Redoing
<1>5. ApplyInv' /\ VouchInv'
  BY <1>1, <1>2 DEF ApplyInv, VouchInv, Unapplied, UndoneApplyBack
<1>6. JobInv'
  BY <1>1, <1>2 DEF JobInv, Redoing, UndoneApplyBack
<1> QED
  BY <1>3, <1>4, <1>5, <1>6

LEMMA MarkKeepsParts == ASSUME RunInv, MarkApplied PROVE RunParts'
<1>1. /\ UNCHANGED <<command, recordVars, tree, passedOn, waved, reviewedOn, shipped, torn>>
      /\ pc = "mark" /\ apply'.by = "none"
      /\ \/ pc' = "decide" /\ apply.by \in {"finalize", "eligible"} /\ UNCHANGED job
         \/ pc' = "post" /\ apply.by \in {"finalize", "resume"} /\ UNCHANGED job
         \/ pc' = "idle" /\ job' = NoJob
  BY DEF MarkApplied, Goto, NoApply, postGhosts
<1>2. ~closed /\ (Accounted => Accounted') /\ marked \subseteq marked' /\ applyBack = "completed"
  BY <1>1, AccountedStays DEF RunInv, RunParts, VouchInv, ResumeNext, StageInv
<1> USE DEF RunInv, RunParts
<1>3. ProgressInv'
  BY <1>1, <1>2 DEF ProgressInv, recordVars
<1>4. StageInv'
  BY <1>1, <1>2 DEF StageInv, UndoneApplyBack, Redoing, recordVars
<1>5. ApplyInv'
  BY <1>1, <1>2 DEF ApplyInv, Unapplied, UndoneApplyBack, recordVars
<1>6. JobInv'
  BY <1>1, <1>2 DEF JobInv, StageInv, ProgressInv, Redoing, UndoneApplyBack, Vouched, recordVars
<1>7. VouchInv'
  BY <1>1, <1>2 DEF VouchInv, Vouched, UndoneApplyBack, recordVars
<1> QED
  BY <1>3, <1>4, <1>5, <1>6, <1>7
LEMMA ResumeDirectlyKeepsParts == ASSUME RunInv, ResumeDirectly PROVE RunParts'
<1>1. /\ UNCHANGED <<command, recordVars, tree, passedOn, waved, reviewedOn, shipped, torn, marked, link,
                     status, apply>>
      /\ pc = "idle" /\ pc' = "decide" /\ ~closed /\ NeedRerun = {} /\ job' = Reconciliation
  BY DEF ResumeDirectly, Goto, postGhosts, ledgerVars
<1>2. /\ job'.review => verified = "passed"
      /\ job'.review /\ ~job'.verify => Vouched \/ UndoneApplyBack
      /\ ~job'.apply => marked = Group
  BY <1>1, JobBegins
<1>3. Accounted'
  BY <1>1, NothingToRerun DEF RunInv, Accounted
<1>4. apply.by = "none"
  BY <1>1 DEF RunInv, LedgerInv, ResumeTypeOK
<1> USE DEF RunInv, RunParts
<1>5. ProgressInv'
  BY <1>1, <1>3, <1>4 DEF ProgressInv, recordVars
<1>6. StageInv'
  BY <1>1, <1>2 DEF StageInv, UndoneApplyBack, Redoing, recordVars
<1>7. ApplyInv'
  BY <1>1, <1>2 DEF ApplyInv, Unapplied, recordVars
<1>8. JobInv'
  BY <1>1, <1>2, <1>4 DEF JobInv, Redoing, UndoneApplyBack, Vouched, recordVars
<1>9. VouchInv'
  BY <1>1 DEF VouchInv, Vouched, UndoneApplyBack, recordVars
<1> QED
  BY <1>5, <1>6, <1>7, <1>8, <1>9

LEMMA ResumeRerunKeepsParts == ASSUME RunInv, ResumeRerun PROVE RunParts'
<1>1. /\ UNCHANGED <<command, applyBack, verified, verStale, review, revStale, closed, tree,
                     passedOn, waved, reviewedOn, shipped, torn, marked, link, apply>>
      /\ pc = "idle" /\ ~closed /\ NeedRerun # {} /\ phase' = "executing"
      /\ \/ pc' = "idle" /\ UNCHANGED <<job, status>>
         \/ /\ pc' = "rerun" /\ job' = Reconciliation
            /\ status' = [g \in Group |-> IF g \in NeedRerun THEN "running" ELSE status[g]]
  BY DEF ResumeRerun, Goto, postGhosts, Dispatching
<1>2. /\ Reconciliation.review => verified = "passed"
      /\ verStale => Reconciliation.verify
      /\ Reconciliation.rerun = NeedRerun
  BY <1>1, JobBegins
<1>3. apply.by = "none" /\ (Accounted' <=> Accounted) /\ NeedRerun \subseteq Group
  BY <1>1 DEF RunInv, LedgerInv, ResumeTypeOK, Accounted, NeedRerun
<1>4. verified # "none" => /\ DistrustLedger
                           /\ \A g \in Group \ NeedRerun : status[g] \in Finished
  BY <1>1, AccountedNeedsDistrust DEF RunInv, RunParts, ProgressInv
<1>5. verified = "passed" => torn \/ UndoneApplyBack
  BY <1>1, <1>4 DEF DistrustLedger, RunInv, RunParts, StageInv
<1> USE DEF RunInv, RunParts
<1>6. ProgressInv'
  <2>1. pc' = "rerun" /\ verified' # "none" => \A g \in Group \ job'.rerun : status'[g] \in Finished
    BY <1>1, <1>2, <1>4
  <2> QED
    BY <1>1, <1>3, <2>1 DEF ProgressInv
<1>7. StageInv'
  BY <1>1, <1>2 DEF StageInv, UndoneApplyBack, Redoing
<1>8. ApplyInv'
  BY <1>1 DEF ApplyInv, Unapplied
<1>9. JobInv'
  BY <1>1, <1>2, <1>3, <1>5 DEF JobInv, Redoing, UndoneApplyBack
<1>10. VouchInv'
  BY <1>1 DEF VouchInv, Vouched, UndoneApplyBack
<1> QED
  BY <1>6, <1>7, <1>8, <1>9, <1>10

LEMMA RerunKeepsParts ==
    ASSUME RunInv, NEW r \in UNION {Results(W) : W \in SUBSET Group}, RerunResults(r)
    PROVE  RunParts'
<1>1. /\ UNCHANGED <<command, applyBack, verified, verStale, review, revStale, closed,
                     passedOn, waved, reviewedOn, shipped, torn, apply>>
      /\ pc = "rerun" /\ DOMAIN r = job.rerun
      /\ status' = [g \in Group |-> IF g \in job.rerun THEN Outcome(r, g) ELSE status[g]]
      /\ \/ pc' = "idle" /\ job' = NoJob /\ phase' = "partial"
         \/ pc' = "rerunDone" /\ UNCHANGED <<phase, job>> /\ Failed(r) = {}
  BY DEF RerunResults, Goto, postGhosts
<1>2. ~closed /\ (Accounted => Accounted') /\ marked \subseteq marked' /\ apply.by = "none"
      /\ marked' \subseteq Group
  BY <1>1, AccountedStays, RerunKeepsLedger DEF RunInv, RunParts, VouchInv, ResumeNext, LedgerInv,
     ResumeTypeOK
<1>3. Failed(r) = {} /\ verified # "none" => Done' = Group
  <2> SUFFICES ASSUME Failed(r) = {}, verified # "none", NEW g \in Group
               PROVE  status'[g] \in Finished
    BY DEF Done, Finished
  <2>1. CASE g \in job.rerun
    BY <1>1, <2>1 DEF Outcome, Failed, Finished
  <2>2. CASE g \notin job.rerun
    BY <1>1, <2>2 DEF RunInv, RunParts, ProgressInv
  <2> QED
    BY <2>1, <2>2
<1>4. verified = "passed" => torn \/ UndoneApplyBack
  BY <1>1 DEF RunInv, RunParts, JobInv, Redoing
<1> USE DEF RunInv, RunParts
<1>5. ProgressInv'
  BY <1>1, <1>2, <1>3 DEF ProgressInv
<1>6. StageInv'
  BY <1>1 DEF StageInv, UndoneApplyBack, Redoing, NoJob
<1>7. ApplyInv'
  BY <1>1, <1>2 DEF ApplyInv, Unapplied
<1>8. JobInv'
  BY <1>1, <1>2, <1>4 DEF JobInv, Redoing, UndoneApplyBack
<1>9. VouchInv'
  BY <1>1, <1>2, <1>4 DEF VouchInv, Vouched, UndoneApplyBack
<1> QED
  BY <1>5, <1>6, <1>7, <1>8, <1>9

LEMMA ApplyEligibleKeepsParts == ASSUME RunInv, ApplyEligible PROVE RunParts'
<1>1. /\ UNCHANGED <<command, verified, review, revStale, closed, tree, passedOn, waved, reviewedOn,
                     shipped, torn, marked, link, status>>
      /\ pc = "rerunDone" /\ Done = Group
  BY DEF ApplyEligible, postGhosts, ledgerVars
<1>2. ~closed /\ Accounted /\ Accounted' /\ apply.by = "none"
  BY <1>1, DoneIsAccounted DEF RunInv, RunParts, VouchInv, Accounted, LedgerInv, ResumeTypeOK
<1>3. /\ job.review => verified = "passed"
      /\ verified = "passed" => torn \/ UndoneApplyBack
      /\ verStale => job.verify
  BY <1>1 DEF RunInv, RunParts, StageInv, JobInv, Redoing
<1> USE DEF RunInv, RunParts
<1>4. CASE Eligible = {}
  <2>1. /\ phase' = "partial" /\ UNCHANGED <<applyBack, verStale, apply>>
        /\ \/ pc' = "decide" /\ UNCHANGED job /\ \A g \in Group : status[g] = "applied"
           \/ pc' = "idle" /\ job' = NoJob
    BY <1>4 DEF ApplyEligible, Goto
  <2>2. pc' = "decide" => marked' = Group
    BY <1>1, <2>1 DEF LedgerInv, ResumeTypeOK
  <2>3. ProgressInv'
    BY <1>1, <1>2, <2>1 DEF ProgressInv
  <2>4. StageInv'
    BY <1>1, <1>3, <2>1 DEF StageInv, UndoneApplyBack, Redoing, NoJob
  <2>5. ApplyInv'
    BY <1>1, <2>1, <2>2 DEF ApplyInv, Unapplied
  <2>6. JobInv' /\ VouchInv'
    BY <1>1, <1>2, <1>3, <2>1 DEF JobInv, Redoing, VouchInv, Vouched, UndoneApplyBack
  <2> QED
    BY <2>3, <2>4, <2>5, <2>6
<1>5. CASE Eligible # {}
  <2>1. /\ apply'.by = "eligible" /\ pc' = "applying" /\ UNCHANGED job
        /\ phase' = "applying" /\ applyBack' = "in-progress" /\ verStale' = FALSE
    BY <1>5 DEF ApplyEligible, BeginApply, Goto
  <2>2. marked # Group
    BY <1>5 DEF Eligible
  <2>3. job.review => job.verify \/ torn
    BY <1>3, <2>2 DEF UndoneApplyBack, ApplyInv
  <2>4. ProgressInv'
    BY <1>1, <1>2, <2>1 DEF ProgressInv
  <2>5. StageInv'
    BY <1>1, <1>3, <2>1 DEF StageInv, UndoneApplyBack, Redoing
  <2>6. ApplyInv'
    BY <1>1, <2>1 DEF ApplyInv, Unapplied
  <2>7. JobInv' /\ VouchInv'
    BY <1>1, <1>2, <2>1, <2>3 DEF JobInv, Redoing, VouchInv
  <2> QED
    BY <2>4, <2>5, <2>6, <2>7
<1> QED
  BY <1>4, <1>5
LEMMA DispatchRestKeepsParts == ASSUME RunInv, DispatchRest PROVE RunParts'
<1>1. /\ UNCHANGED <<command, phase, applyBack, verified, verStale, closed, torn, waved, marked,
                     job, apply>>
      /\ pc = "rerunDone" /\ pc' = "wave" /\ Done # Group
  BY DEF DispatchRest, Goto, recordVars, postGhosts
<1>2. verified = "none" /\ apply.by = "none" /\ ~closed
  BY <1>1 DEF RunInv, RunParts, ProgressInv, VouchInv, LedgerInv, ResumeTypeOK
<1> USE DEF RunInv, RunParts
<1>3. ProgressInv'
  BY <1>1, <1>2 DEF ProgressInv
<1>4. StageInv'
  BY <1>1, <1>2 DEF StageInv, UndoneApplyBack, Redoing
<1>5. ApplyInv' /\ JobInv' /\ VouchInv'
  BY <1>1, <1>2 DEF ApplyInv, JobInv, VouchInv, Redoing
<1> QED
  BY <1>3, <1>4, <1>5

LEMMA DecideKeepsParts == ASSUME RunInv, Decide PROVE RunParts'
<1>1. /\ UNCHANGED <<command, verified, review, revStale, closed, tree, passedOn, waved, reviewedOn,
                     shipped, torn, marked, link, status>>
      /\ pc = "decide"
  BY DEF Decide, postGhosts, ledgerVars
<1>2. ~closed /\ Accounted /\ Accounted' /\ apply.by = "none"
  BY <1>1 DEF RunInv, RunParts, ProgressInv, VouchInv, Accounted, LedgerInv, ResumeTypeOK
<1>3. job.review => verified = "passed"
  BY <1>1 DEF RunInv, RunParts, StageInv
<1> USE DEF RunInv, RunParts
<1>4. CASE job.apply /\ BeginApply("resume", Group) /\ UNCHANGED job
  <2>1. /\ apply'.by = "resume" /\ pc' = "applying" /\ UNCHANGED job
        /\ phase' = "applying" /\ applyBack' = "in-progress" /\ verStale' = FALSE
    BY <1>4 DEF BeginApply, Goto
  <2>2. ProgressInv'
    BY <1>1, <1>2, <2>1 DEF ProgressInv
  <2>3. StageInv'
    BY <1>1, <1>3, <2>1 DEF StageInv, UndoneApplyBack, Redoing
  <2>4. ApplyInv' /\ JobInv' /\ VouchInv'
    BY <1>1, <1>2, <2>1 DEF ApplyInv, Unapplied, JobInv, Redoing, VouchInv
  <2> QED
    BY <2>2, <2>3, <2>4
<1>5. CASE ~job.apply
  <2>1. /\ UNCHANGED <<phase, applyBack, verStale, apply>> /\ job' = NoJob
        /\ \/ pc' = "post"
           \/ pc' = "reviewOnly" /\ ~job.verify /\ job.review
           \/ pc' = "idle"
    BY <1>5 DEF Decide, Goto
  <2>2. ProgressInv'
    BY <1>1, <1>2, <2>1 DEF ProgressInv
  <2>3. StageInv'
    BY <1>1, <1>3, <2>1 DEF StageInv, UndoneApplyBack, Redoing
  <2>4. ApplyInv'
    BY <1>1, <1>5, <2>1 DEF ApplyInv, Unapplied
  <2>5. JobInv' /\ VouchInv'
    BY <1>1, <1>2, <1>5, <2>1 DEF JobInv, Redoing, VouchInv, Vouched, UndoneApplyBack
  <2> QED
    BY <2>2, <2>3, <2>4, <2>5
<1> QED
  BY <1>4, <1>5 DEF Decide

LEMMA ApplySuccessfulKeepsParts == ASSUME RunInv, ApplySuccessful PROVE RunParts'
<1>1. /\ UNCHANGED <<command, verified, review, revStale, closed, tree, passedOn, waved, reviewedOn,
                     shipped, torn, marked, link, status>>
      /\ pc = "idle" /\ ~closed /\ job' = Reconciliation
      /\ apply'.by = "command" /\ pc' = "applying"
      /\ phase' = "applying" /\ applyBack' = "in-progress" /\ verStale' = FALSE
  BY DEF ApplySuccessful, BeginApply, Goto, postGhosts, ledgerVars
<1>2. (job'.review => verified = "passed") /\ (Accounted' <=> Accounted)
  BY <1>1, JobBegins DEF Accounted
<1> USE DEF RunInv, RunParts
<1>3. ProgressInv'
  BY <1>1, <1>2 DEF ProgressInv
<1>4. StageInv'
  BY <1>1, <1>2 DEF StageInv, UndoneApplyBack, Redoing
<1>5. ApplyInv' /\ JobInv' /\ VouchInv'
  BY <1>1 DEF ApplyInv, Unapplied, JobInv, Redoing, VouchInv
<1> QED
  BY <1>3, <1>4, <1>5

LEMMA CommitKeepsParts == ASSUME RunInv, Commit \/ UNCHANGED resumeVars PROVE RunParts'
<1>1. UNCHANGED <<postVars, status, marked, link, job, apply>>
  BY DEF Commit, resumeVars, ledgerVars, localVars
<1> QED
  BY <1>1 DEF RunInv, RunParts, postVars, recordVars, postGhosts, ProgressInv, StageInv, ApplyInv,
              JobInv, VouchInv, Accounted, Done, Redoing, Vouched, Unapplied, UndoneApplyBack

LEMMA RecoverKeepsParts == ASSUME RunInv, Recover PROVE RunParts'
<1>1. /\ UNCHANGED <<command, verified, closed, passedOn, waved, reviewedOn, shipped, torn, marked, link,
                     status, pc, job, apply>>
      /\ pc = "idle" /\ Unapplied
      /\ phase' = "failed" /\ applyBack' = "rolled-back" /\ verStale' = FALSE
  BY DEF Recover, postGhosts, ledgerVars, localVars, Unapplied
<1>2. apply.by = "none" /\ (Accounted' <=> Accounted)
  BY <1>1 DEF RunInv, LedgerInv, ResumeTypeOK, Accounted
<1> USE DEF RunInv, RunParts
<1>3. ProgressInv'
  BY <1>1, <1>2 DEF ProgressInv
<1>4. StageInv'
  BY <1>1 DEF StageInv, UndoneApplyBack, Redoing
<1>5. ApplyInv'
  BY <1>1 DEF ApplyInv, Unapplied
<1>6. JobInv' /\ VouchInv'
  BY <1>1, <1>2 DEF JobInv, Redoing, VouchInv, UndoneApplyBack
<1> QED
  BY <1>3, <1>4, <1>5, <1>6

LEMMA StopKeepsParts == ASSUME RunInv, Stop PROVE RunParts'
<1>1. /\ UNCHANGED <<command, phase, applyBack, verified, verStale, closed, passedOn, waved, reviewedOn,
                     shipped, marked, link>>
      /\ pc # "idle" /\ pc' = "idle" /\ job' = NoJob /\ apply'.by = "none"
      /\ IF pc = "applying" THEN torn' = TRUE ELSE UNCHANGED <<tree, torn>>
  BY DEF Stop, Goto, recordVars, NoApply
<1>2. ~closed /\ (Accounted' <=> Accounted)
  BY <1>1 DEF RunInv, RunParts, VouchInv, Accounted
<1> USE DEF RunInv, RunParts
<1>3. ProgressInv'
  BY <1>1, <1>2 DEF ProgressInv
<1>4. StageInv'
  BY <1>1 DEF StageInv, UndoneApplyBack, Redoing
<1>5. ApplyInv'
  BY <1>1 DEF ApplyInv, Unapplied
<1>6. JobInv' /\ VouchInv'
  BY <1>1, <1>2 DEF JobInv, Redoing, VouchInv, Vouched, UndoneApplyBack
<1> QED
  BY <1>3, <1>4, <1>5, <1>6

\* A command that only the plan names is none to the fix loop, which then passes without
\* having run it: nothing is vouched for by that.
LEMMA PostKeepsParts == ASSUME RunInv, Continue PROVE RunParts'
<1>1. UNCHANGED <<tree, status, marked, link, job, apply>> /\ PostNext
  <2>1. PostNext /\ UNCHANGED <<ledgerVars, job, apply>>
    BY DEF Continue
  <2>2. UNCHANGED tree
    BY <2>1 DEF PostNext, PostBegin, SkipVerify, VerifyPasses, VerifyFails, LoopPasses, LoopFails,
                ReviewPasses, ReviewFails, Complete
  <2> QED
    BY <2>1, <2>2 DEF ledgerVars
<1>2. /\ pc \in {"post", "verify", "fixLoop", "review", "reviewOnly", "complete"}
      /\ pc' \notin {"wave", "applying", "mark", "rerun", "rerunDone", "decide"}
  BY <1>1 DEF PostNext, PostBegin, SkipVerify, VerifyPasses, VerifyFails, LoopPasses, LoopFails,
              ReviewPasses, ReviewFails, Complete, Goto
<1>3. ~closed /\ apply.by = "none" /\ Accounted /\ Accounted'
  BY <1>1, <1>2 DEF RunInv, RunParts, ProgressInv, VouchInv, LedgerInv, ResumeTypeOK, Accounted
<1> USE DEF RunInv, RunParts
<1>4. ProgressInv' /\ JobInv'
  BY <1>1, <1>2, <1>3 DEF ProgressInv, JobInv, Redoing
<1> USE DEF StageInv, ApplyInv, VouchInv, Vouched, Unapplied, Redoing, UndoneApplyBack, Goto
<1>5. ASSUME PostBegin PROVE StageInv' /\ ApplyInv' /\ VouchInv'
  BY <1>1, <1>3, <1>5 DEF PostBegin, postGhosts
<1>6. ASSUME SkipVerify PROVE StageInv' /\ ApplyInv' /\ VouchInv'
  BY <1>1, <1>3, <1>6 DEF SkipVerify, postGhosts
<1>7. ASSUME VerifyPasses PROVE StageInv' /\ ApplyInv' /\ VouchInv'
  BY <1>1, <1>3, <1>7 DEF VerifyPasses, RecordPass
<1>8. ASSUME VerifyFails PROVE StageInv' /\ ApplyInv' /\ VouchInv'
  BY <1>1, <1>3, <1>8 DEF VerifyFails, RecordFailure, postGhosts, NoCommand
<1>9. ASSUME LoopPasses PROVE StageInv' /\ ApplyInv' /\ VouchInv'
  <2>1. LoopHasCommand \/ command = "plan"
    BY <1>9, PostStartAssumption DEF LoopPasses, LoopHasCommand, LedgerInv, ResumeTypeOK, PostTypeOK
  <2> QED
    BY <1>1, <1>3, <1>9, <2>1 DEF LoopPasses, RecordPass
<1>10. ASSUME LoopFails PROVE StageInv' /\ ApplyInv' /\ VouchInv'
  BY <1>1, <1>3, <1>10 DEF LoopFails, RecordFailure, postGhosts
<1>11. ASSUME ReviewPasses PROVE StageInv' /\ ApplyInv' /\ VouchInv'
  BY <1>1, <1>3, <1>11 DEF ReviewPasses
<1>12. ASSUME ReviewFails PROVE StageInv' /\ ApplyInv' /\ VouchInv'
  BY <1>1, <1>3, <1>12 DEF ReviewFails, postGhosts
<1>13. ASSUME Complete PROVE StageInv' /\ ApplyInv' /\ VouchInv'
  BY <1>1, <1>3, <1>13 DEF Complete, NewerApplyBack
<1> QED
  BY <1>1, <1>4, <1>5, <1>6, <1>7, <1>8, <1>9, <1>10, <1>11, <1>12, <1>13 DEF PostNext

LEMMA RunInvKept == RunInv /\ [ResumeNext]_resumeVars => RunInv'
<1> SUFFICES ASSUME RunInv, [ResumeNext]_resumeVars PROVE RunParts'
  BY LedgerInvKept DEF RunInv
<1>1. CASE \E r \in UNION {Results(W) : W \in SUBSET Group} : RunWave(r) \/ RerunResults(r)
  BY <1>1, RunWaveKeepsParts, RerunKeepsParts
<1>2. CASE Commit \/ UNCHANGED resumeVars
  BY <1>2, CommitKeepsParts
<1>3. CASE WaveThrows \/ EndPartial
  BY <1>3, WaveEndsKeepParts
<1> QED
  BY <1>1, <1>2, <1>3, CollectKeepsParts, ApplySucceedsKeepsParts, ConflictKeepsParts,
     MarkKeepsParts, ResumeDirectlyKeepsParts, ResumeRerunKeepsParts, ApplyEligibleKeepsParts,
     DispatchRestKeepsParts, DecideKeepsParts, ApplySuccessfulKeepsParts, RecoverKeepsParts,
     StopKeepsParts, PostKeepsParts DEF ResumeNext

\* completeWorkflow (post-start.ts): whatever was stopped, resumed, applied or recovered
\* before, a run is completed on a worktree as it was when a verification was recorded as
\* passed and a review passed, unless a process died within an apply-back; and a command
\* did pass on it, unless the fix loop, which does not know the plan's, had none to run.
THEOREM CompletionIsVouchedFor == ResumeSpec => []CompletedIsVouchedFor
<1>1. RunInv => CompletedIsVouchedFor
  BY DEF RunInv, RunParts, VouchInv, CompletedIsVouchedFor
<1> QED
  BY <1>1, RunInvInit, RunInvKept, PTL DEF ResumeSpec
-----------------------------------------------------------------------------
(* The fix rounds                                                          *)

LEMMA ElementsOfBoth ==
    ASSUME NEW S, NEW s \in Seq(S), NEW t \in Seq(S)
    PROVE  s \o t \in Seq(S) /\ ToSet(s \o t) = ToSet(s) \cup ToSet(t)
<1>1. s \o t \in Seq(S) /\ Len(s \o t) = Len(s) + Len(t) /\ Len(s) \in Nat /\ Len(t) \in Nat
  OBVIOUS
<1>2. \A i \in DOMAIN s : i \in DOMAIN (s \o t) /\ (s \o t)[i] = s[i]
  OBVIOUS
<1>3. \A i \in DOMAIN t : Len(s) + i \in DOMAIN (s \o t) /\ (s \o t)[Len(s) + i] = t[i]
  OBVIOUS
<1>4. \A k \in DOMAIN (s \o t) : (s \o t)[k] \in ToSet(s) \cup ToSet(t)
  <2> SUFFICES ASSUME NEW k \in DOMAIN (s \o t) PROVE (s \o t)[k] \in ToSet(s) \cup ToSet(t)
    OBVIOUS
  <2>1. CASE k <= Len(s)
    <3>1. k \in DOMAIN s /\ (s \o t)[k] = s[k]
      BY <2>1
    <3> QED
      BY <3>1 DEF ToSet
  <2>2. CASE k > Len(s)
    <3>1. k - Len(s) \in DOMAIN t /\ (s \o t)[k] = t[k - Len(s)]
      BY <2>2
    <3> QED
      BY <3>1 DEF ToSet
  <2> QED
    BY <1>1, <2>1, <2>2
<1>5. ToSet(s) \cup ToSet(t) \subseteq ToSet(s \o t)
  BY <1>2, <1>3 DEF ToSet
<1>6. ToSet(s \o t) \subseteq ToSet(s) \cup ToSet(t)
  BY <1>4 DEF ToSet
<1> QED
  BY <1>1, <1>5, <1>6

\* A batch for each family of the findings, and each finding in one batch.
LEMMA BatchesHoldAll ==
    ASSUME NEW p \in Seq(Finding)
    PROVE  /\ Batches(p) \in Seq(SUBSET Finding) /\ Len(Batches(p)) <= MaxBatches
           /\ DOMAIN Batches(p) \subseteq Numbers
           /\ \A n \in DOMAIN Batches(p) : Batches(p)[n] \subseteq ToSet(p)
           /\ \A f \in ToSet(p) : \E n \in DOMAIN Batches(p) : f \in Batches(p)[n]
           /\ \A m, n \in DOMAIN Batches(p) : m # n => Batches(p)[m] \cap Batches(p)[n] = {}
<1> DEFINE I == {i \in DOMAIN p : \A j \in 1..(i - 1) : FamilyOf[p[j]] # FamilyOf[p[i]]}
           c == Cardinality(I)
           firsts == Picked(p, I)
<1>1. Len(p) \in Nat /\ DOMAIN p = 1..Len(p) /\ I \in SUBSET (1..Len(p))
  OBVIOUS
<1>2. FirstOfFamily(p) = firsts
  BY DEF FirstOfFamily
<1>3. c \in Nat /\ DOMAIN firsts = 1..c
  BY <1>1, PickedElements
<1>4. \A i, j \in I : FamilyOf[p[i]] = FamilyOf[p[j]] => i = j
  <2> SUFFICES ASSUME NEW i \in I, NEW j \in I, FamilyOf[p[i]] = FamilyOf[p[j]] PROVE i = j
    OBVIOUS
  <2>1. i \in 1..Len(p) /\ j \in 1..Len(p)
    OBVIOUS
  <2>2. i \notin 1..(j - 1) /\ j \notin 1..(i - 1)
    OBVIOUS
  <2> QED
    BY <1>1, <2>1, <2>2
<1>5. \A k \in 1..c : firsts[k] = p[PositionAt(I, k)] /\ PositionAt(I, k) \in I /\ Rank(I, PositionAt(I, k)) = k
  BY <1>1, PositionOfRank DEF Picked
<1>6. \A k, l \in 1..c : FamilyOf[firsts[k]] = FamilyOf[firsts[l]] => k = l
  <2> HIDE DEF I, firsts, c
  <2> SUFFICES ASSUME NEW k \in 1..c, NEW l \in 1..c, FamilyOf[firsts[k]] = FamilyOf[firsts[l]]
               PROVE  k = l
    OBVIOUS
  <2>1. PositionAt(I, k) = PositionAt(I, l)
    BY <1>4, <1>5
  <2> QED
    BY <1>5, <2>1
<1>7. \A f \in ToSet(p) : \E k \in 1..c : FamilyOf[firsts[k]] = FamilyOf[f]
  <2> SUFFICES ASSUME NEW f \in ToSet(p) PROVE \E k \in 1..c : FamilyOf[firsts[k]] = FamilyOf[f]
    OBVIOUS
  <2> DEFINE S == {j \in DOMAIN p : FamilyOf[p[j]] = FamilyOf[f]}
  <2>1. S \in SUBSET Nat /\ S # {}
    BY <1>1 DEF ToSet
  <2>2. PICK i \in S : \A j \in S : i <= j
    <3> HIDE DEF S
    <3> QED
      BY <2>1, LeastNatural
  <2>3. i \in I
    <3>1. \A j \in 1..(i - 1) : j \in DOMAIN p /\ ~(i <= j)
      BY <1>1, <2>2
    <3> QED
      BY <2>2, <3>1
  <2>4. PICK k \in DOMAIN firsts : firsts[k] = p[i]
    <3> HIDE DEF I
    <3> QED
      BY <1>1, <2>3, PickedElements
  <2> QED
    BY <1>3, <2>2, <2>4
<1>8. firsts \in [1..c -> Finding]
  <2>1. \A k \in 1..c : firsts[k] \in Finding
    BY <1>5
  <2> QED
    BY <1>3, <2>1 DEF Picked
<1>9. c <= MaxBatches
  <2>1. firsts \in Injection(1..c, Finding)
    BY <1>6, <1>8 DEF Injection, IsInjective
  <2>2. Cardinality(1..c) <= Cardinality(Finding)
    BY <2>1, FixWorkflowAssumption, FS_Injection
  <2>3. Cardinality(1..c) = c
    <3> HIDE DEF c
    <3>1. Cardinality(1..c) = IF 1 > c THEN 0 ELSE c - 1 + 1
      BY <1>3, 1 \in Int, c \in Int, FS_Interval
    <3> QED
      BY <1>3, <3>1
  <2> QED
    BY <2>2, <2>3 DEF MaxBatches
<1>10. Cardinality(Finding) \in Nat
  BY FixWorkflowAssumption, FS_CardinalityType
<1> HIDE DEF I, firsts, c
<1>11. Batches(p) = [n \in 1..c |-> {f \in ToSet(p) : FamilyOf[f] = FamilyOf[firsts[n]]}]
  BY <1>2, <1>3 DEF Batches
<1>12. ToSet(p) \subseteq Finding
  BY DEF ToSet
<1>13. Batches(p) \in [1..c -> SUBSET Finding]
  BY <1>11, <1>12
<1>14. Batches(p) \in Seq(SUBSET Finding) /\ Len(Batches(p)) = c /\ DOMAIN Batches(p) = 1..c
  BY <1>3, <1>13
<1>15. 1..c \subseteq Numbers
  BY <1>3, <1>9, <1>10 DEF Numbers, MaxBatches
<1>16. \A f \in ToSet(p) : \E n \in 1..c : f \in Batches(p)[n]
  BY <1>7, <1>11
<1>17. \A m, n \in 1..c : m # n => Batches(p)[m] \cap Batches(p)[n] = {}
  BY <1>6, <1>11
<1>18. \A n \in 1..c : Batches(p)[n] \subseteq ToSet(p)
  BY <1>11
<1> QED
  BY <1>9, <1>14, <1>15, <1>16, <1>17, <1>18

\* Each batch is in one of the waves.
LEMMA WavesHoldAll ==
    ASSUME NEW c \in Nat, NEW bs, DOMAIN bs = 1..c, c # 0, NEW o, NEW ws \in Partition(bs, o)
    PROVE  /\ ws \in Seq(SUBSET (1..c))
           /\ \A v, u \in DOMAIN ws : v # u => ws[v] \cap ws[u] = {}
           /\ \A n \in 1..c : \E v \in DOMAIN ws : n \in ws[v]
<1>1. PICK w \in Placements(bs, o) :
        ws = [v \in 1..Max(Range(w)) |-> {n \in DOMAIN bs : w[n] = v}]
  BY DEF Partition
<1>2. w \in [1..c -> 1..c]
  BY DEF Placements
<1>3. Range(w) \in SUBSET (1..c) /\ w[1] \in Range(w) /\ \A n \in 1..c : w[n] \in Range(w)
  BY <1>2 DEF Range
<1>4. Max(Range(w)) \in 1..c /\ \A i \in Range(w) : i <= Max(Range(w))
  BY <1>3, GreatestPosition
<1> DEFINE k == Max(Range(w))
<1>5. k \in Nat /\ \A n \in 1..c : w[n] \in 1..k
  BY <1>2, <1>3, <1>4
<1> HIDE DEF k
<1>6. ws = [v \in 1..k |-> {n \in 1..c : w[n] = v}]
  BY <1>1 DEF k
<1>7. ws \in [1..k -> SUBSET (1..c)]
  BY <1>6
<1> QED
  BY <1>5, <1>6, <1>7

Batched == [fixed : SUBSET Finding, unresolved : SUBSET Finding]

FixTypes ==
    /\ report \in Reports
    /\ pending \in Seq(Finding) /\ nextPending \in Seq(Finding)
    /\ rounds \in Nat
    /\ stage \in [Numbers -> {"none", "work", "check", "ended"}]
    /\ outcome \in [Numbers -> Batched]
    /\ batches \in Seq(SUBSET Finding) /\ DOMAIN batches \subseteq Numbers
    /\ waves \in Seq(SUBSET DOMAIN batches)

\* Only batches of the present wave are at work, and one that has ended has each of its
\* findings fixed or left.
WavesInv ==
    /\ \A m, n \in DOMAIN batches : m # n => batches[m] \cap batches[n] = {}
    /\ \A v, w \in DOMAIN waves : v # w => waves[v] \cap waves[w] = {}
    /\ fixing # "wave" => waves = <<>>
    /\ \A n \in Numbers :
          /\ stage[n] # "none" => waves # <<>> /\ n \in Head(waves)
          /\ stage[n] = "ended" => /\ outcome[n].fixed \cup outcome[n].unresolved = batches[n]
                                   /\ outcome[n].fixed \cap outcome[n].unresolved = {}

\* The findings of batches whose wave has not ended.
Left == UNION {batches[n] : n \in UNION Range(waves)}

\* What is recorded as fixed is all but what is pending or left of this round.
AccountsInv ==
    /\ fixing \in {"no", "choosing", "round", "wave"}
    /\ fixing = "choosing" => fixedById = {} /\ unresolvedById = {} /\ rounds = 0
    /\ fixing = "round" =>
          /\ ToSet(pending) \subseteq selected
          /\ fixedById = selected \ ToSet(pending)
          /\ unresolvedById \subseteq ToSet(pending)
    /\ fixing = "wave" =>
          /\ ToSet(nextPending) \cap Left = {}
          /\ ToSet(nextPending) \subseteq selected /\ Left \subseteq selected
          /\ Left \subseteq ToSet(pending)
          /\ fixedById = selected \ (ToSet(nextPending) \cup Left)
          /\ unresolvedById \subseteq ToSet(nextPending) \cup Left
    /\ FixAccounts

FixInv == FixTypes /\ WavesInv /\ AccountsInv
LEMMA FixInvInit == FixInit => FixInv
<1> SUFFICES ASSUME FixInit PROVE FixInv
  OBVIOUS
<1>1. outcome \in [Numbers -> Batched]
  BY DEF FixInit, NoOutcome, Open, Batched
<1>2. stage \in [Numbers -> {"none", "work", "check", "ended"}] /\ \A n \in Numbers : stage[n] = "none"
  BY DEF FixInit, Idle
<1>3. FixTypes
  BY <1>1, <1>2 DEF FixInit, FixTypes
<1> QED
  BY <1>2, <1>3 DEF FixInit, FixInv, WavesInv, AccountsInv, FixAccounts

\* Before and between the rounds.
LEMMA ChoiceKeepsFixInv ==
    ASSUME FixInv, OpenFix \/ CancelFix \/ RewriteReport \/ LoadFindings
    PROVE  FixInv'
<1> USE DEF FixInv
<1>1. /\ waves' = waves \/ (waves' = <<>> /\ batches' = <<>>)
      /\ UNCHANGED <<batches, waves>> \/ (waves' = <<>> /\ batches' = <<>>)
      /\ UNCHANGED <<stage, outcome>> /\ fixing # "wave" /\ fixing' # "wave" /\ waves = <<>>
  BY DEF OpenFix, CancelFix, RewriteReport, LoadFindings, roundVars, WavesInv
<1>2. \A n \in Numbers : stage[n] = "none"
  BY <1>1 DEF WavesInv
<1>3. WavesInv'
  BY <1>1, <1>2 DEF WavesInv
<1>4. CASE OpenFix
  BY <1>1, <1>3, <1>4 DEF OpenFix, FixTypes, AccountsInv, FixAccounts
<1>5. CASE CancelFix
  BY <1>1, <1>3, <1>5 DEF CancelFix, roundVars, FixTypes, AccountsInv, FixAccounts
<1>6. CASE RewriteReport
  BY <1>1, <1>3, <1>6 DEF RewriteReport, roundVars, FixTypes, AccountsInv, FixAccounts
<1>7. CASE LoadFindings
  <2>1. report \in Seq(Finding)
    BY FixWorkflowAssumption DEF FixTypes
  <2>2. pending' \in Seq(Finding) /\ selected' = ToSet(pending')
    <3>1. Picked(report, chosen \cap DOMAIN report) \in Seq(Finding)
      BY <2>1, PickedIsSeq
    <3> QED
      BY <1>7, <2>1, <3>1 DEF LoadFindings
  <2>3. /\ fixing' = "round" /\ fixedById' = {} /\ unresolvedById' = {}
        /\ UNCHANGED <<report, nextPending, rounds, batches, waves, stage, outcome>>
    BY <1>7 DEF LoadFindings, AccountsInv
  <2>4. FixTypes'
    BY <2>2, <2>3 DEF FixTypes
  <2>5. AccountsInv'
    BY <2>2, <2>3 DEF AccountsInv, FixAccounts
  <2> QED
    BY <1>3, <2>4, <2>5
<1> QED
  BY <1>4, <1>5, <1>6, <1>7

LEMMA StartIsTyped ==
    ASSUME NEW ws
    PROVE  /\ Start(ws) \in [Numbers -> {"none", "work", "check", "ended"}]
           /\ \A n \in Numbers : Start(ws)[n] # "ended"
           /\ \A n \in Numbers : Start(ws)[n] # "none" => ws # <<>> /\ n \in Head(ws)
BY DEF Start

LEMMA RoundKeepsFixInv == FixInv /\ StartRound => FixInv'
<1> SUFFICES ASSUME FixInv, StartRound PROVE FixInv'
  OBVIOUS
<1> USE DEF FixInv
<1>1. /\ fixing = "round" /\ pending # <<>> /\ fixing' = "wave" /\ rounds' = rounds + 1
      /\ batches' = Batches(pending) /\ stage' = Start(waves') /\ outcome' = NoOutcome
      /\ nextPending' = <<>>
      /\ UNCHANGED <<report, selected, pending, fixedById, unresolvedById>>
  BY DEF StartRound
<1>2. PICK o : waves' \in Partition(Batches(pending), o)
  BY DEF StartRound
<1> DEFINE bs == Batches(pending)
           c == Len(bs)
<1>3. pending \in Seq(Finding) /\ rounds \in Nat
  BY DEF FixTypes
<1>4. /\ bs \in Seq(SUBSET Finding) /\ DOMAIN bs \subseteq Numbers
      /\ \A n \in DOMAIN bs : bs[n] \subseteq ToSet(pending)
      /\ \A f \in ToSet(pending) : \E n \in DOMAIN bs : f \in bs[n]
      /\ \A m, n \in DOMAIN bs : m # n => bs[m] \cap bs[n] = {}
  BY <1>3, BatchesHoldAll
<1> HIDE DEF bs
<1>5. c \in Nat /\ DOMAIN bs = 1..c
  BY <1>4
<1>6. c # 0
  <2>1. pending[1] \in ToSet(pending)
    BY <1>1, <1>3 DEF ToSet
  <2> QED
    BY <1>4, <1>5, <2>1
<1>7. /\ waves' \in Seq(SUBSET (1..c))
      /\ \A v, u \in DOMAIN waves' : v # u => waves'[v] \cap waves'[u] = {}
      /\ \A n \in 1..c : \E v \in DOMAIN waves' : n \in waves'[v]
  <2> HIDE DEF c
  <2> QED
    BY <1>2, <1>5, <1>6, WavesHoldAll DEF bs
<1>8. outcome' \in [Numbers -> Batched]
  BY <1>1 DEF NoOutcome, Open, Batched
<1>9. FixTypes'
  BY <1>1, <1>3, <1>4, <1>5, <1>7, <1>8, StartIsTyped DEF FixTypes, bs
<1>10. WavesInv'
  BY <1>1, <1>4, <1>7, StartIsTyped DEF WavesInv, bs
<1>11. Left' = ToSet(pending)
  <2>1. UNION Range(waves') = 1..c
    BY <1>7 DEF Range
  <2>2. Left' = UNION {bs[n] : n \in 1..c}
    BY <1>1, <2>1 DEF Left, bs
  <2> QED
    BY <1>4, <1>5, <2>2
<1>12. ToSet(nextPending') = {}
  BY <1>1 DEF ToSet
<1>13. AccountsInv'
  BY <1>1, <1>11, <1>12 DEF AccountsInv, FixAccounts
<1> QED
  BY <1>9, <1>10, <1>13

LEMMA JudgedIsWhole ==
    ASSUME NEW S \in SUBSET Finding, NEW v, NEW turnedDown
    PROVE  /\ Judged(S, v, turnedDown) \in Batched
           /\ Judged(S, v, turnedDown).fixed \cup Judged(S, v, turnedDown).unresolved = S
           /\ Judged(S, v, turnedDown).fixed \cap Judged(S, v, turnedDown).unresolved = {}
BY DEF Judged, Batched

\* Workers and checkers of the present wave.
LEMMA WaveKeepsFixInv ==
    ASSUME FixInv, NEW n \in Numbers, WorkerAttempt(n) \/ Check(n)
    PROVE  FixInv'
<1> USE DEF FixInv
<1>1. /\ UNCHANGED <<fixing, report, selected, pending, nextPending, rounds, batches, waves,
                     fixedById, unresolvedById>>
      /\ fixing = "wave" /\ stage[n] # "none"
  BY DEF WorkerAttempt, Check
<1>2. waves # <<>> /\ n \in Head(waves)
  BY <1>1 DEF WavesInv
<1>3. batches[n] \in SUBSET Finding
  <2>1. n \in DOMAIN batches
    BY <1>2 DEF FixTypes
  <2> QED
    BY <2>1 DEF FixTypes
<1>4. /\ stage' \in [Numbers -> {"none", "work", "check", "ended"}]
      /\ \A m \in Numbers \ {n} : stage'[m] = stage[m]
      /\ outcome' \in [Numbers -> Batched]
      /\ \A m \in Numbers \ {n} : outcome'[m] = outcome[m]
      /\ stage'[n] = "ended" => /\ outcome'[n].fixed \cup outcome'[n].unresolved = batches[n]
                                /\ outcome'[n].fixed \cap outcome'[n].unresolved = {}
  <2>1. CASE WorkerAttempt(n)
    BY <2>1 DEF WorkerAttempt, FixTypes
  <2>2. CASE Check(n)
    <3>1. PICK v, turnedDown : outcome' = [outcome EXCEPT ![n] = Judged(batches[n], v, turnedDown)]
      BY <2>2 DEF Check
    <3>2. stage' = [stage EXCEPT ![n] = "ended"]
      BY <2>2 DEF Check
    <3>3. /\ stage' \in [Numbers -> {"none", "work", "check", "ended"}]
          /\ \A m \in Numbers \ {n} : stage'[m] = stage[m]
      BY <3>2 DEF FixTypes
    <3> DEFINE j == Judged(batches[n], v, turnedDown)
    <3>4. j \in Batched /\ j.fixed \cup j.unresolved = batches[n] /\ j.fixed \cap j.unresolved = {}
      BY <1>3, JudgedIsWhole
    <3> HIDE DEF j
    <3>5. outcome' = [outcome EXCEPT ![n] = j] /\ outcome \in [Numbers -> Batched]
      BY <3>1 DEF j, FixTypes
    <3>6. /\ outcome' \in [Numbers -> Batched] /\ outcome'[n] = j
          /\ \A m \in Numbers \ {n} : outcome'[m] = outcome[m]
      BY <3>4, <3>5
    <3> QED
      BY <3>3, <3>4, <3>6
  <2> QED
    BY <2>1, <2>2
<1>5. FixTypes'
  BY <1>1, <1>4 DEF FixTypes
<1>6. WavesInv'
  BY <1>1, <1>2, <1>4 DEF WavesInv
<1>7. AccountsInv'
  BY <1>1 DEF AccountsInv, FixAccounts, Left
<1> QED
  BY <1>5, <1>6, <1>7

\* What the batches of the wave fixed goes, what they left is pending.
LEMMA EndWaveKeepsFixInv == FixInv /\ EndWave => FixInv'
<1> SUFFICES ASSUME FixInv, EndWave PROVE FixInv'
  OBVIOUS
<1> USE DEF FixInv
<1> DEFINE H == Head(waves)
           fixed == UNION {outcome[n].fixed : n \in H}
           undone == UNION {outcome[n].unresolved : n \in H}
           staying == {i \in DOMAIN pending : pending[i] \in undone}
<1>1. /\ fixing = "wave" /\ waves # <<>> /\ fixing' = fixing
      /\ \A n \in H : stage[n] = "ended"
      /\ fixedById' = fixedById \cup fixed
      /\ unresolvedById' = (unresolvedById \ fixed) \cup undone
      /\ nextPending' = nextPending \o Picked(pending, staying)
      /\ waves' = Tail(waves) /\ stage' = Start(Tail(waves))
      /\ UNCHANGED <<report, selected, pending, rounds, batches, outcome>>
  BY DEF EndWave
<1>2. /\ H \in SUBSET DOMAIN batches /\ H \in SUBSET Numbers
      /\ waves \in Seq(SUBSET DOMAIN batches) /\ waves' \in Seq(SUBSET DOMAIN batches)
      /\ H = waves[1] /\ 1 \in DOMAIN waves
      /\ \A v \in DOMAIN waves' : v + 1 \in DOMAIN waves /\ v + 1 # 1 /\ waves'[v] = waves[v + 1]
      /\ \A v \in DOMAIN waves : v = 1 \/ (v - 1 \in DOMAIN waves' /\ waves'[v - 1] = waves[v])
  BY <1>1 DEF FixTypes
<1> DEFINE Now == UNION {batches[n] : n \in H}
<1>3. fixed \cup undone = Now
  BY <1>1, <1>2 DEF WavesInv
<1>4. \A f \in fixed : f \notin undone
  <2> SUFFICES ASSUME NEW m \in H, NEW n \in H, NEW f \in outcome[m].fixed, f \in outcome[n].unresolved
               PROVE  FALSE
    OBVIOUS
  <2>1. f \in batches[m] /\ f \in batches[n]
    BY <1>1, <1>2 DEF WavesInv
  <2>2. m = n
    BY <1>2, <2>1 DEF WavesInv
  <2> QED
    BY <1>1, <1>2, <2>2 DEF WavesInv
<1>5. Left = Now \cup Left'
  <2>1. UNION Range(waves) = H \cup UNION Range(waves')
    BY <1>2 DEF Range
  <2> QED
    BY <1>1, <2>1 DEF Left
<1>6. Now \cap Left' = {}
  <2> SUFFICES ASSUME NEW m \in H, NEW v \in DOMAIN waves', NEW n \in waves'[v],
                      NEW f \in batches[m], f \in batches[n]
               PROVE  FALSE
    BY <1>1 DEF Left, Range
  <2>1. n \in waves[v + 1] /\ v + 1 \in DOMAIN waves /\ v + 1 # 1 /\ n \in DOMAIN batches
    BY <1>2
  <2>2. m = n
    BY <1>2, <2>1 DEF WavesInv
  <2> QED
    BY <1>2, <2>1, <2>2 DEF WavesInv
<1>7. nextPending' \in Seq(Finding) /\ ToSet(nextPending') = ToSet(nextPending) \cup (ToSet(pending) \cap undone)
  <2> HIDE DEF undone
  <2>1. pending \in Seq(Finding) /\ nextPending \in Seq(Finding) /\ Len(pending) \in Nat
        /\ DOMAIN pending = 1..Len(pending) /\ staying \in SUBSET (1..Len(pending))
    BY DEF FixTypes
  <2>2. Picked(pending, staying) \in Seq(Finding)
    BY <2>1, PickedIsSeq
  <2>3. \A k \in DOMAIN Picked(pending, staying) : \E i \in staying : Picked(pending, staying)[k] = pending[i]
    <3> HIDE DEF staying
    <3> QED
      BY <2>1, PickedElements
  <2>4. \A i \in staying : \E k \in DOMAIN Picked(pending, staying) : Picked(pending, staying)[k] = pending[i]
    <3> HIDE DEF staying
    <3> QED
      BY <2>1, PickedElements
  <2>5. ToSet(Picked(pending, staying)) \subseteq ToSet(pending) \cap undone
    <3> SUFFICES ASSUME NEW k \in DOMAIN Picked(pending, staying)
                 PROVE  Picked(pending, staying)[k] \in ToSet(pending) \cap undone
      BY DEF ToSet
    <3>1. PICK i \in staying : Picked(pending, staying)[k] = pending[i]
      BY <2>3
    <3>2. i \in DOMAIN pending /\ pending[i] \in undone
      BY <3>1
    <3> QED
      BY <3>1, <3>2 DEF ToSet
  <2>6. ToSet(pending) \cap undone \subseteq ToSet(Picked(pending, staying))
    <3> SUFFICES ASSUME NEW i \in DOMAIN pending, pending[i] \in undone
                 PROVE  pending[i] \in ToSet(Picked(pending, staying))
      BY DEF ToSet
    <3>1. i \in staying
      OBVIOUS
    <3>2. PICK k \in DOMAIN Picked(pending, staying) : Picked(pending, staying)[k] = pending[i]
      BY <2>4, <3>1
    <3> QED
      BY <3>2 DEF ToSet
  <2>7. ToSet(Picked(pending, staying)) = ToSet(pending) \cap undone
    BY <2>5, <2>6
  <2> HIDE DEF staying
  <2> QED
    BY <1>1, <2>1, <2>2, <2>7, ElementsOfBoth
<1>8. FixTypes'
  BY <1>1, <1>2, <1>7, StartIsTyped DEF FixTypes
<1>9. WavesInv'
  <2>0. \A v \in DOMAIN waves' : v \in Nat
    <3> DEFINE B == SUBSET DOMAIN batches
    <3>1. waves' \in Seq(B)
      BY <1>2
    <3> HIDE DEF B
    <3> QED
      BY <3>1
  <2>1. \A m, n \in DOMAIN batches : m # n => batches[m] \cap batches[n] = {}
    BY DEF WavesInv
  <2>2. \A v, u \in DOMAIN waves : v # u => waves[v] \cap waves[u] = {}
    BY DEF WavesInv
  <2>3. \A v, u \in DOMAIN waves' : v # u => waves'[v] \cap waves'[u] = {}
    <3> SUFFICES ASSUME NEW v \in DOMAIN waves', NEW u \in DOMAIN waves', v # u
                 PROVE  waves'[v] \cap waves'[u] = {}
      OBVIOUS
    <3>1. v \in Nat /\ u \in Nat
      BY <2>0
    <3>2. /\ v + 1 \in DOMAIN waves /\ waves'[v] = waves[v + 1]
          /\ u + 1 \in DOMAIN waves /\ waves'[u] = waves[u + 1]
      BY <1>2
    <3>3. v + 1 # u + 1
      BY <3>1
    <3>4. waves[v + 1] \cap waves[u + 1] = {}
      BY <2>2, <3>2, <3>3
    <3> QED
      BY <3>2, <3>4
  <2>4. \A n \in Numbers : /\ stage'[n] # "ended"
                           /\ stage'[n] # "none" => waves' # <<>> /\ n \in Head(waves')
    BY <1>1, StartIsTyped
  <2> QED
    BY <1>1, <2>1, <2>3, <2>4 DEF WavesInv
<1> DEFINE N == ToSet(nextPending)
           N1 == ToSet(nextPending')
           L1 == Left'
           P == ToSet(pending)
<1>10. N1 = N \cup undone
  <2>1. undone \subseteq P
    BY <1>1, <1>3, <1>5 DEF AccountsInv
  <2> QED
    BY <1>7, <2>1
<1>11. /\ N \cap Left = {} /\ N \subseteq selected /\ Left \subseteq selected /\ Left \subseteq P
       /\ fixedById = selected \ (N \cup Left) /\ unresolvedById \subseteq N \cup Left
  BY <1>1 DEF AccountsInv
<1> HIDE DEF H, fixed, undone, Now, N, N1, L1, P, staying
<1>12. /\ N1 \cap L1 = {} /\ N1 \subseteq selected /\ L1 \subseteq selected /\ L1 \subseteq P
       /\ fixedById' = selected \ (N1 \cup L1) /\ unresolvedById' \subseteq N1 \cup L1
  BY <1>1, <1>3, <1>4, <1>5, <1>6, <1>10, <1>11 DEF L1
<1>13. AccountsInv'
  BY <1>1, <1>12 DEF AccountsInv, FixAccounts, N1, L1, P
<1> QED
  BY <1>8, <1>9, <1>13

LEMMA EndRoundKeepsFixInv == FixInv /\ EndRound => FixInv'
<1> SUFFICES ASSUME FixInv, EndRound PROVE FixInv'
  OBVIOUS
<1> USE DEF FixInv
<1>1. /\ fixing = "wave" /\ waves = <<>> /\ fixing' = "round" /\ pending' = nextPending
      /\ nextPending' = <<>> /\ batches' = <<>> /\ outcome' = NoOutcome
      /\ UNCHANGED <<report, selected, rounds, waves, stage, fixedById, unresolvedById>>
  BY DEF EndRound
<1>2. outcome' \in [Numbers -> Batched]
  BY <1>1 DEF NoOutcome, Open, Batched
<1>3. FixTypes'
  BY <1>1, <1>2 DEF FixTypes
<1>4. \A n \in Numbers : stage[n] = "none"
  BY <1>1 DEF WavesInv
<1>5. WavesInv'
  BY <1>1, <1>4 DEF WavesInv
<1>6. Left = {}
  BY <1>1 DEF Left, Range
<1>7. AccountsInv'
  BY <1>1, <1>6 DEF AccountsInv, FixAccounts
<1> QED
  BY <1>3, <1>5, <1>7

LEMMA FinishKeepsFixInv == FixInv /\ FinishFix => FixInv'
<1> SUFFICES ASSUME FixInv, FinishFix PROVE FixInv'
  OBVIOUS
<1> USE DEF FixInv
<1>1. /\ fixing = "round" /\ fixing' = "no" /\ unresolvedById' = Unresolved /\ pending' = <<>>
      /\ UNCHANGED <<report, selected, nextPending, rounds, batches, waves, stage, outcome,
                     fixedById>>
  BY DEF FinishFix
<1>2. Unresolved = ToSet(pending)
  <2>1. CASE pending = <<>>
    <3>1. ToSet(pending) = {}
      BY <2>1 DEF ToSet
    <3> QED
      BY <1>1, <2>1, <3>1 DEF Unresolved, AccountsInv
  <2>2. CASE pending # <<>>
    BY <2>2 DEF Unresolved
  <2> QED
    BY <2>1, <2>2
<1>3. FixTypes' /\ WavesInv'
  BY <1>1 DEF FixTypes, WavesInv
<1>4. AccountsInv'
  BY <1>1, <1>2 DEF AccountsInv, FixAccounts
<1> QED
  BY <1>3, <1>4

\* runDirectFixWorkflow: when the rounds of fixes are over, each finding of the plan is
\* reported as fixed or as unresolved, and none as both, for any findings, families, files,
\* verdicts, failures and numbers of rounds.
THEOREM FindingsAreAccounted == FixSpec => []FixAccounts
<1>1. FixInv /\ [FixNext]_fixVars => FixInv'
  <2> SUFFICES ASSUME FixInv, [FixNext]_fixVars PROVE FixInv'
    OBVIOUS
  <2>1. CASE UNCHANGED fixVars
    BY <2>1 DEF fixVars, FixInv, FixTypes, WavesInv, AccountsInv, FixAccounts, Left
  <2>2. ASSUME NEW n \in Numbers, WorkerAttempt(n) \/ Check(n) PROVE FixInv'
    BY <2>2, WaveKeepsFixInv
  <2> QED
    BY <2>1, <2>2, ChoiceKeepsFixInv, RoundKeepsFixInv, EndWaveKeepsFixInv, EndRoundKeepsFixInv,
       FinishKeepsFixInv DEF FixNext, FixStep
<1>2. FixInv => FixAccounts
  BY DEF FixInv, AccountsInv
<1> QED
  BY <1>1, <1>2, FixInvInit, PTL DEF FixSpec

-----------------------------------------------------------------------------
(* The rules for conflict markers                                          *)

SideLines == Lines \cup {Divider}

LEMMA ConcatElements ==
    ASSUME NEW S, NEW s \in Seq(S), NEW t \in Seq(S)
    PROVE  /\ s \o t \in Seq(S) /\ Len(s \o t) = Len(s) + Len(t)
           /\ \A i \in 1..Len(s) : (s \o t)[i] = s[i]
           /\ \A i \in 1..Len(t) : (s \o t)[Len(s) + i] = t[i]
<1>1. Len(s) \in Nat /\ Len(t) \in Nat
  BY LenProperties
<1>2. s \o t \in Seq(S) /\ Len(s \o t) = Len(s) + Len(t)
  BY ConcatProperties
<1> DEFINE b == s \o t
<1>3. \A i \in 1..Len(s) + Len(t) : b[i] = IF i <= Len(s) THEN s[i] ELSE t[i - Len(s)]
  BY ConcatProperties
<1> HIDE DEF b
<1>4. \A i \in 1..Len(s) : b[i] = s[i]
  BY <1>1, <1>3
<1>5. ASSUME NEW i \in 1..Len(t) PROVE b[Len(s) + i] = t[i]
  <2>1. Len(s) + i \in 1..Len(s) + Len(t) /\ ~(Len(s) + i <= Len(s)) /\ (Len(s) + i) - Len(s) = i
    BY <1>1
  <2> QED
    BY <1>3, <2>1
<1> QED
  BY <1>2, <1>4, <1>5 DEF b

LEMMA MarkedLines ==
    ASSUME NEW c \in [ours : Sides, theirs : Sides]
    PROVE  /\ c.ours \in Seq(SideLines) /\ c.theirs \in Seq(SideLines)
           /\ Marked(c) \in Seq(FileLines)
           /\ Len(Marked(c)) = Len(c.ours) + Len(c.theirs) + 3
           /\ Marked(c)[1] = Ours
           /\ \A i \in 1..Len(c.ours) : Marked(c)[1 + i] = c.ours[i]
           /\ Marked(c)[Len(c.ours) + 2] = Divider
           /\ \A i \in 1..Len(c.theirs) : Marked(c)[Len(c.ours) + 2 + i] = c.theirs[i]
           /\ Marked(c)[Len(c.ours) + Len(c.theirs) + 3] = Theirs
<1> DEFINE o == c.ours
           t == c.theirs
           a == <<Ours>> \o o
           b == a \o <<Divider>>
           d == b \o t
<1>1. o \in Seq(SideLines) /\ t \in Seq(SideLines)
  BY StructuredMergeAssumption DEF SideLines
<1>2. /\ o \in Seq(FileLines) /\ t \in Seq(FileLines)
      /\ <<Ours>> \in Seq(FileLines) /\ <<Divider>> \in Seq(FileLines) /\ <<Theirs>> \in Seq(FileLines)
  <2>1. SideLines \subseteq FileLines
    BY DEF SideLines, FileLines
  <2>2. o \in Seq(FileLines) /\ t \in Seq(FileLines)
    BY <1>1, <2>1, SeqMonotonic
  <2>3. Ours \in FileLines /\ Divider \in FileLines /\ Theirs \in FileLines
    BY DEF FileLines
  <2> HIDE DEF o, t
  <2> QED
    BY <2>2, <2>3
<1>3. Len(o) \in Nat /\ Len(t) \in Nat
  BY <1>2, LenProperties
<1> HIDE DEF o, t
<1>0. /\ Len(<<Ours>>) = 1 /\ <<Ours>>[1] = Ours
      /\ Len(<<Divider>>) = 1 /\ <<Divider>>[1] = Divider
      /\ Len(<<Theirs>>) = 1 /\ <<Theirs>>[1] = Theirs
  OBVIOUS
<1> DEFINE u == <<Ours>>
           v == <<Divider>>
           w == <<Theirs>>
<1>u. /\ u \in Seq(FileLines) /\ Len(u) = 1 /\ u[1] = Ours
      /\ v \in Seq(FileLines) /\ Len(v) = 1 /\ v[1] = Divider
      /\ w \in Seq(FileLines) /\ Len(w) = 1 /\ w[1] = Theirs
  BY <1>0, <1>2
<1>m. Marked(c) = d \o w
  BY DEF Marked, o, t
<1> HIDE DEF u, v, w
<1>4. /\ a \in Seq(FileLines) /\ Len(a) = Len(o) + 1
      /\ a[1] = Ours /\ \A i \in 1..Len(o) : a[1 + i] = o[i]
  <2>1. /\ a \in Seq(FileLines) /\ Len(a) = Len(u) + Len(o)
        /\ \A i \in 1..Len(u) : a[i] = u[i]
        /\ \A i \in 1..Len(o) : a[Len(u) + i] = o[i]
    BY <1>2, <1>u, ConcatElements DEF a, u
  <2> HIDE DEF a
  <2> QED
    BY <1>3, <1>u, <2>1
<1> HIDE DEF a
<1>5. /\ b \in Seq(FileLines) /\ Len(b) = Len(o) + 2
      /\ \A i \in 1..Len(o) + 1 : b[i] = a[i]
      /\ b[Len(o) + 2] = Divider
  <2>1. /\ b \in Seq(FileLines) /\ Len(b) = Len(a) + Len(v)
        /\ \A i \in 1..Len(a) : b[i] = a[i]
        /\ \A i \in 1..Len(v) : b[Len(a) + i] = v[i]
    BY <1>4, <1>u, ConcatElements DEF b, v
  <2> HIDE DEF b
  <2>2. 1 \in 1..Len(v) /\ Len(a) + 1 = Len(o) + 2
    BY <1>3, <1>4, <1>u
  <2> QED
    BY <1>3, <1>4, <1>u, <2>1, <2>2
<1> HIDE DEF b
<1>6. /\ d \in Seq(FileLines) /\ Len(d) = Len(o) + 2 + Len(t)
      /\ \A i \in 1..Len(o) + 2 : d[i] = b[i]
      /\ \A i \in 1..Len(t) : d[Len(o) + 2 + i] = t[i]
  <2>1. /\ d \in Seq(FileLines) /\ Len(d) = Len(b) + Len(t)
        /\ \A i \in 1..Len(b) : d[i] = b[i]
        /\ \A i \in 1..Len(t) : d[Len(b) + i] = t[i]
    <3>1. b \in Seq(FileLines) /\ t \in Seq(FileLines)
      BY <1>2, <1>5
    <3> QED
      BY <3>1, ConcatElements DEF d
  <2> HIDE DEF d
  <2> QED
    BY <1>3, <1>5, <2>1
<1> HIDE DEF d
<1> DEFINE M == d \o w
<1>7. /\ M \in Seq(FileLines) /\ Len(M) = Len(o) + Len(t) + 3
      /\ \A i \in 1..Len(o) + 2 + Len(t) : M[i] = d[i]
      /\ M[Len(o) + Len(t) + 3] = Theirs
  <2>1. /\ M \in Seq(FileLines) /\ Len(M) = Len(d) + Len(w)
        /\ \A i \in 1..Len(d) : M[i] = d[i]
        /\ \A i \in 1..Len(w) : M[Len(d) + i] = w[i]
    BY <1>6, <1>u, ConcatElements
  <2> HIDE DEF M
  <2>2. 1 \in 1..Len(w) /\ Len(d) + 1 = Len(o) + Len(t) + 3
    BY <1>3, <1>6, <1>u
  <2> QED
    BY <1>3, <1>6, <1>u, <2>1, <2>2
<1> HIDE DEF M
<1>8. \A i \in 1..Len(o) + 2 : M[i] = b[i]
  BY <1>3, <1>6, <1>7
<1>9. M[1] = Ours /\ M[Len(o) + 2] = Divider
  BY <1>3, <1>4, <1>5, <1>8
<1>10. ASSUME NEW i \in 1..Len(o) PROVE M[1 + i] = o[i]
  <2>1. 1 + i \in 1..Len(o) + 1 /\ 1 + i \in 1..Len(o) + 2
    BY <1>3
  <2> QED
    BY <1>4, <1>5, <1>8, <2>1
<1>11. ASSUME NEW i \in 1..Len(t) PROVE M[Len(o) + 2 + i] = t[i]
  <2>1. Len(o) + 2 + i \in 1..Len(o) + 2 + Len(t)
    BY <1>3
  <2> QED
    BY <1>6, <1>7, <2>1
<1>12. M = Marked(c)
  BY <1>m DEF M
<1> QED
  BY <1>1, <1>7, <1>9, <1>10, <1>11, <1>12 DEF o, t

\* FirstFrom finds the first line of a kind, if there is one.
LEMMA FirstLine ==
    ASSUME NEW ls, text \in Seq(FileLines), NEW i \in Nat \ {0}, NEW j \in i..Len(text), text[j] \in ls
    PROVE  FirstFrom(ls, i) \in i..j /\ IsFirstFrom(ls, i, FirstFrom(ls, i))
<1> DEFINE S == {h \in i..Len(text) : text[h] \in ls}
<1>1. Len(text) \in Nat
  BY LenProperties
<1>2. S \in SUBSET Nat /\ S # {}
  BY <1>1
<1>3. PICK m \in S : \A h \in S : m <= h
  <2> HIDE DEF S
  <2> QED
    BY <1>2, LeastNatural
<1>4. IsFirstFrom(ls, i, m)
  BY <1>1, <1>3 DEF IsFirstFrom
<1>5. FirstFrom(ls, i) = CHOOSE h \in i..Len(text) : IsFirstFrom(ls, i, h)
  BY DEF FirstFrom
<1>6. FirstFrom(ls, i) \in i..Len(text) /\ IsFirstFrom(ls, i, FirstFrom(ls, i))
  BY <1>3, <1>4, <1>5
<1>7. FirstFrom(ls, i) <= j
  BY <1>1, <1>6 DEF IsFirstFrom
<1> QED
  BY <1>1, <1>6, <1>7
\* The lines of s stand in the file after its first p lines.
StandsAfter(p, s) == p + Len(s) <= Len(text) /\ \A i \in 1..Len(s) : text[p + i] = s[i]

IsDivider == {Divider} \cup LikeDivider

\* The places of the two sides of a conflict of lo and lt lines that stands after line p.
LEMMA PlacesOfSides ==
    ASSUME NEW p \in Nat, NEW lo \in Nat, NEW lt \in Nat,
           NEW g, g = p + lo + 2, NEW e, e = p + lo + lt + 3
    PROVE  /\ g - 1 - (p + 2) + 1 = lo
           /\ e - 1 - (g + 1) + 1 = lt
           /\ \A i \in Int : p + 2 + i - 1 = p + 1 + i /\ g + 1 + i - 1 = g + i
OBVIOUS

\* The region that is found where a conflict stands ends where the conflict does.  Its
\* sides are those of the conflict, unless a line of ours was taken for the divider: then
\* the divider is left in the other side.
LEMMA RegionOfConflict ==
    ASSUME text \in Seq(FileLines), NEW c \in [ours : Sides, theirs : Sides], NEW p \in Nat,
           StandsAfter(p, Marked(c))
    PROVE  /\ RegionAt(p + 1).start = p + 1
           /\ RegionAt(p + 1).end = p + Len(Marked(c))
           /\ RegionAt(p + 1).ours \in Seq(SideLines) /\ RegionAt(p + 1).theirs \in Seq(SideLines)
           /\ \/ RegionAt(p + 1).ours = c.ours /\ RegionAt(p + 1).theirs = c.theirs
              \/ \E i \in DOMAIN RegionAt(p + 1).theirs : RegionAt(p + 1).theirs[i] = Divider
<1> DEFINE o == c.ours
           t == c.theirs
           r == RegionAt(p + 1)
           mid == FirstFrom(IsDivider, p + 2)
           end == FirstFrom({Theirs}, mid + 1)
           g == p + Len(o) + 2
           e == p + Len(o) + Len(t) + 3
<1>1. /\ r.start = p + 1 /\ r.end = end
      /\ r.ours = SubSeq(text, p + 2, mid - 1) /\ r.theirs = SubSeq(text, mid + 1, end - 1)
  <2>1. p + 1 + 1 = p + 2
    OBVIOUS
  <2> QED
    BY <2>1 DEF RegionAt, IsDivider
<1> HIDE DEF r
<1>2. /\ o \in Seq(SideLines) /\ t \in Seq(SideLines)
      /\ Len(Marked(c)) = Len(o) + Len(t) + 3
      /\ Marked(c)[1] = Ours
      /\ \A i \in 1..Len(o) : Marked(c)[1 + i] = o[i]
      /\ Marked(c)[Len(o) + 2] = Divider
      /\ \A i \in 1..Len(t) : Marked(c)[Len(o) + 2 + i] = t[i]
      /\ Marked(c)[Len(o) + Len(t) + 3] = Theirs
  BY MarkedLines
<1>3. Len(o) \in Nat /\ Len(t) \in Nat /\ Len(text) \in Nat
  BY <1>2, LenProperties
<1> HIDE DEF o, t
<1>4. /\ e <= Len(text) /\ text[g] = Divider /\ text[e] = Theirs
      /\ \A i \in 1..Len(o) : text[p + 1 + i] = o[i]
      /\ \A i \in 1..Len(t) : text[g + i] = t[i]
  <2>1. /\ p + (Len(o) + 2) = g /\ p + (Len(o) + Len(t) + 3) = e
        /\ p + Len(Marked(c)) = e
        /\ Len(o) + 2 \in 1..Len(Marked(c)) /\ Len(o) + Len(t) + 3 \in 1..Len(Marked(c))
    BY <1>2, <1>3
  <2>2. e <= Len(text) /\ text[g] = Divider /\ text[e] = Theirs
    <3>1. /\ p + Len(Marked(c)) <= Len(text)
          /\ text[p + (Len(o) + 2)] = Marked(c)[Len(o) + 2]
          /\ text[p + (Len(o) + Len(t) + 3)] = Marked(c)[Len(o) + Len(t) + 3]
      BY <2>1 DEF StandsAfter
    <3> HIDE DEF g, e
    <3> QED
      BY <1>2, <2>1, <3>1
  <2>s. \A k \in 1..Len(Marked(c)) : text[p + k] = Marked(c)[k]
    BY DEF StandsAfter
  <2>3. ASSUME NEW i \in 1..Len(o) PROVE text[p + 1 + i] = o[i]
    <3>1. 1 + i \in 1..Len(Marked(c)) /\ p + (1 + i) = p + 1 + i
      BY <1>2, <1>3
    <3>2. text[p + (1 + i)] = Marked(c)[1 + i]
      BY <2>s, <3>1
    <3>3. Marked(c)[1 + i] = o[i]
      BY <1>2
    <3> QED
      BY <3>1, <3>2, <3>3
  <2>4. ASSUME NEW i \in 1..Len(t) PROVE text[g + i] = t[i]
    <3>0. Len(Marked(c)) = Len(o) + Len(t) + 3
      BY <1>2
    <3>1. Len(o) + 2 + i \in 1..Len(Marked(c)) /\ p + (Len(o) + 2 + i) = g + i
      BY <1>3, <3>0
    <3>2. text[p + (Len(o) + 2 + i)] = Marked(c)[Len(o) + 2 + i]
      BY <2>s, <3>1
    <3>3. Marked(c)[Len(o) + 2 + i] = t[i]
      BY <1>2
    <3> HIDE DEF g
    <3> QED
      BY <3>1, <3>2, <3>3
  <2> QED
    BY <2>2, <2>3, <2>4
<1>5. g \in Nat /\ e \in Nat /\ g \in p + 2..Len(text) /\ g < e
  BY <1>3, <1>4
\* The lines between the markers, by their places in the file.
<1>6. ASSUME NEW l \in p + 2..e - 1 PROVE text[l] \in SideLines
  <2>1. CASE l < g
    <3>1. l - (p + 1) \in 1..Len(o) /\ p + 1 + (l - (p + 1)) = l
      BY <1>3, <2>1
    <3> QED
      BY <1>2, <1>4, <3>1, ElementOfSeq
  <2>2. CASE l = g
    BY <1>4, <2>2 DEF SideLines
  <2>3. CASE l > g
    <3>1. l - g \in 1..Len(t) /\ g + (l - g) = l
      BY <1>3, <2>3
    <3> QED
      BY <1>2, <1>4, <3>1, ElementOfSeq
  <2> QED
    BY <1>3, <2>1, <2>2, <2>3
<1>7. mid \in p + 2..g /\ IsFirstFrom(IsDivider, p + 2, mid)
  <2>1. p + 2 \in Nat \ {0} /\ text[g] \in IsDivider
    BY <1>4 DEF IsDivider
  <2> QED
    BY <1>4, <1>5, <2>1, FirstLine
<1> HIDE DEF mid
<1>8. end = e
  <2>1. /\ mid + 1 \in Nat \ {0} /\ e \in mid + 1..Len(text) /\ text[e] \in {Theirs}
    BY <1>3, <1>4, <1>5, <1>7
  <2>2. end \in mid + 1..e /\ IsFirstFrom({Theirs}, mid + 1, end)
    BY <2>1, FirstLine
  <2>3. text[end] = Theirs
    BY <2>2 DEF IsFirstFrom
  <2>4. Theirs \notin SideLines
    BY StructuredMergeAssumption DEF SideLines, Theirs, Divider
  <2>5. ~(end < e)
    BY <1>3, <1>5, <1>6, <1>7, <2>2, <2>3, <2>4
  <2> HIDE DEF end
  <2> QED
    BY <1>5, <1>7, <2>2, <2>5
<1> HIDE DEF end
<1>9. /\ r.ours \in Seq(SideLines) /\ Len(r.ours) = mid - 1 - (p + 2) + 1
      /\ \A i \in 1..mid - 1 - (p + 2) + 1 : r.ours[i] = text[p + 2 + i - 1]
  <2>1. \A i \in p + 2..mid - 1 : text[i] \in SideLines
    BY <1>3, <1>6, <1>7
  <2>2. mid - 1 \in Int /\ p + 2 \in Int
    BY <1>7
  <2>3. /\ SubSeq(text, p + 2, mid - 1) \in Seq(SideLines)
        /\ Len(SubSeq(text, p + 2, mid - 1)) = IF p + 2 <= mid - 1 THEN mid - 1 - (p + 2) + 1 ELSE 0
        /\ \A i \in 1..mid - 1 - (p + 2) + 1 : SubSeq(text, p + 2, mid - 1)[i] = text[p + 2 + i - 1]
    BY <2>1, <2>2, SubSeqProperties
  <2>4. (IF p + 2 <= mid - 1 THEN mid - 1 - (p + 2) + 1 ELSE 0) = mid - 1 - (p + 2) + 1
    BY <1>7
  <2> QED
    BY <1>1, <2>3, <2>4
<1>10. /\ r.theirs \in Seq(SideLines) /\ Len(r.theirs) = e - 1 - (mid + 1) + 1
       /\ \A i \in 1..e - 1 - (mid + 1) + 1 : r.theirs[i] = text[mid + 1 + i - 1]
  <2>1. \A i \in mid + 1..e - 1 : text[i] \in SideLines
    BY <1>3, <1>5, <1>6, <1>7
  <2>2. mid + 1 \in Int /\ e - 1 \in Int
    BY <1>5, <1>7
  <2>3. /\ SubSeq(text, mid + 1, e - 1) \in Seq(SideLines)
        /\ Len(SubSeq(text, mid + 1, e - 1)) = IF mid + 1 <= e - 1 THEN e - 1 - (mid + 1) + 1 ELSE 0
        /\ \A i \in 1..e - 1 - (mid + 1) + 1 : SubSeq(text, mid + 1, e - 1)[i] = text[mid + 1 + i - 1]
    BY <2>1, <2>2, SubSeqProperties
  <2>4. (IF mid + 1 <= e - 1 THEN e - 1 - (mid + 1) + 1 ELSE 0) = e - 1 - (mid + 1) + 1
    BY <1>5, <1>7
  <2> QED
    BY <1>1, <1>8, <2>3, <2>4
<1>11. CASE mid = g
  <2>1. r.ours = o
    <3>1. Len(r.ours) = Len(o)
      BY <1>3, <1>9, <1>11
    <3>2. ASSUME NEW i \in 1..Len(o) PROVE r.ours[i] = o[i]
      <4>1. i \in 1..mid - 1 - (p + 2) + 1 /\ p + 2 + i - 1 = p + 1 + i
        BY <1>3, <1>11
      <4>2. r.ours[i] = text[p + 2 + i - 1]
        BY <1>9, <4>1
      <4>3. text[p + 1 + i] = o[i]
        BY <1>4
      <4> QED
        BY <4>1, <4>2, <4>3
    <3> QED
      BY <1>2, <1>9, <3>1, <3>2, SeqEqual
  <2>2. r.theirs = t
    <3>1. /\ e - 1 - (g + 1) + 1 = Len(t)
          /\ \A i \in Int : g + 1 + i - 1 = g + i
      BY <1>3, PlacesOfSides
    <3>2. Len(r.theirs) = Len(t)
      <4> HIDE DEF g, e
      <4> QED
        BY <1>10, <1>11, <3>1
    <3>3. ASSUME NEW i \in 1..Len(t) PROVE r.theirs[i] = t[i]
      <4>1. i \in 1..e - 1 - (mid + 1) + 1 /\ mid + 1 + i - 1 = g + i
        <5> HIDE DEF g, e
        <5>1. i \in Int
          OBVIOUS
        <5> QED
          BY <1>11, <3>1, <5>1
      <4>2. r.theirs[i] = text[mid + 1 + i - 1]
        BY <1>10, <4>1
      <4>3. text[g + i] = t[i]
        BY <1>4
      <4> HIDE DEF g
      <4> QED
        BY <4>1, <4>2, <4>3
    <3> QED
      BY <1>2, <1>10, <3>2, <3>3, SeqEqual
  <2> QED
    BY <1>1, <1>2, <1>3, <1>8, <1>9, <1>10, <2>1, <2>2 DEF r, o, t
<1>12. CASE mid < g
  <2>1. g - mid \in 1..e - 1 - (mid + 1) + 1 /\ mid + 1 + (g - mid) - 1 = g
    BY <1>3, <1>5, <1>7, <1>12
  <2>2. g - mid \in DOMAIN r.theirs /\ r.theirs[g - mid] = Divider
    BY <1>4, <1>10, <2>1, LenProperties
  <2> QED
    BY <1>1, <1>2, <1>3, <1>8, <1>9, <1>10, <2>2 DEF r, o, t
<1> QED
  BY <1>3, <1>7, <1>11, <1>12
LEMMA DeduplicatedKeeps ==
    ASSUME NEW s \in Seq(SideLines)
    PROVE  Deduplicated(s) \in Seq(SideLines) /\ Keeps(Deduplicated(s), s)
<1> DEFINE I == {i \in DOMAIN s : ~\E j \in 1..i - 1 : SameLine(s[j], s[i])}
           d == Picked(s, I)
<1>1. Deduplicated(s) = d
  BY DEF Deduplicated
<1>2. Len(s) \in Nat /\ DOMAIN s = 1..Len(s)
  BY LenProperties
<1>3. I \in SUBSET DOMAIN s /\ I \in SUBSET (1..Len(s))
  BY <1>2
<1> HIDE DEF I
<1>4. d \in Seq(SideLines)
  BY <1>3, PickedIsSeq
<1>5. \A i \in I : \E k \in DOMAIN d : d[k] = s[i]
  BY <1>2, <1>3, PickedElements
<1> HIDE DEF d
<1>6. ASSUME NEW i \in DOMAIN s PROVE \E k \in DOMAIN d : SameLine(d[k], s[i])
  <2> DEFINE S == {j \in 1..Len(s) : SameLine(s[j], s[i])}
  <2>1. S \in SUBSET Nat /\ i \in S
    BY <1>2 DEF SameLine
  <2>2. PICK m \in S : \A j \in S : m <= j
    <3> HIDE DEF S
    <3> QED
      BY <2>1, LeastNatural
  <2>3. m \in 1..Len(s) /\ SameLine(s[m], s[i])
    OBVIOUS
  <2>4. ASSUME NEW j \in 1..m - 1, SameLine(s[j], s[m]) PROVE FALSE
    <3>1. SameLine(s[j], s[i])
      BY <2>3, <2>4 DEF SameLine
    <3>2. j \in S /\ ~(m <= j)
      BY <1>2, <2>3, <3>1
    <3> QED
      BY <2>2, <3>2
  <2>5. m \in I
    BY <1>2, <2>3, <2>4 DEF I
  <2> QED
    BY <1>5, <2>3, <2>5
<1> QED
  BY <1>1, <1>4, <1>6 DEF Keeps

\* What replaces a region has all its lines, imports in one form or another.
LEMMA ResolutionKeeps ==
    ASSUME NEW r, r.ours \in Seq(SideLines), r.theirs \in Seq(SideLines), Resolution(r) # Refused
    PROVE  Resolution(r) \in Seq(SideLines) /\ Keeps(Resolution(r), r.ours \o r.theirs)
<1> DEFINE s == r.ours \o r.theirs
<1>1. s \in Seq(SideLines)
  BY ConcatProperties
<1>2. Resolution(r) = Deduplicated(s) \/ Resolution(r) = s
  <2>1. ResolveImports(r) # Refused => ResolveImports(r) = Deduplicated(s)
    BY DEF ResolveImports
  <2>2. ResolveConfig(r) # Refused => ResolveConfig(r) = s
    BY DEF ResolveConfig
  <2>3. ResolveAdditions(r) # Refused => ResolveAdditions(r) = s
    BY DEF ResolveAdditions
  <2> HIDE DEF s
  <2> QED
    BY <2>1, <2>2, <2>3 DEF Resolution
<1>3. CASE Resolution(r) = Deduplicated(s)
  BY <1>1, <1>3, DeduplicatedKeeps
<1>4. CASE Resolution(r) = s
  <2>1. Keeps(s, s)
    BY DEF Keeps, SameLine
  <2> QED
    BY <1>1, <1>4, <2>1
<1> QED
  BY <1>2, <1>3, <1>4

LEMMA SideLinesAreFileLines ==
    ASSUME NEW s \in Seq(SideLines)
    PROVE  s \in Seq(FileLines)
<1>1. SideLines \subseteq FileLines
  BY DEF SideLines, FileLines
<1> QED
  BY <1>1, SeqMonotonic

\* Where a conflict stands, what replaces it keeps both its sides or a marker.
LEMMA ConflictReplaced ==
    ASSUME text \in Seq(FileLines), NEW c \in [ours : Sides, theirs : Sides], NEW p \in Nat,
           StandsAfter(p, Marked(c)), Resolution(RegionAt(p + 1)) # Refused
    PROVE  /\ Resolution(RegionAt(p + 1)) \in Seq(FileLines)
           /\ \/ HasMarkers(Resolution(RegionAt(p + 1)))
              \/ Keeps(Resolution(RegionAt(p + 1)), c.ours \o c.theirs)
<1> DEFINE r == RegionAt(p + 1)
<1>1. /\ r.ours \in Seq(SideLines) /\ r.theirs \in Seq(SideLines)
      /\ \/ r.ours = c.ours /\ r.theirs = c.theirs
         \/ \E i \in DOMAIN r.theirs : r.theirs[i] = Divider
  BY RegionOfConflict
<1>2. Resolution(r) # Refused
  OBVIOUS
<1> HIDE DEF r
<1>3. Resolution(r) \in Seq(SideLines) /\ Keeps(Resolution(r), r.ours \o r.theirs)
  BY <1>1, <1>2, ResolutionKeeps
<1>4. Resolution(r) \in Seq(FileLines)
  BY <1>3, SideLinesAreFileLines
<1>5. ASSUME NEW i \in DOMAIN r.theirs, r.theirs[i] = Divider PROVE HasMarkers(Resolution(r))
  <2> DEFINE u == r.ours
             v == r.theirs
             s == u \o v
  <2>1. u \in Seq(SideLines) /\ v \in Seq(SideLines) /\ i \in DOMAIN v /\ v[i] = Divider
    BY <1>1, <1>5
  <2>2. Keeps(Resolution(r), s)
    BY <1>3
  <2> HIDE DEF u, v
  <2>3. i \in 1..Len(v) /\ Len(u) \in Nat /\ Len(v) \in Nat
    BY <2>1, LenProperties
  <2>4. s \in Seq(SideLines) /\ Len(s) = Len(u) + Len(v) /\ s[Len(u) + i] = v[i]
    BY <2>1, <2>3, ConcatElements
  <2> HIDE DEF s
  <2>5. Len(u) + i \in DOMAIN s
    BY <2>3, <2>4, LenProperties
  <2>6. PICK k \in DOMAIN Resolution(r) : SameLine(Resolution(r)[k], Divider)
    BY <2>1, <2>2, <2>4, <2>5 DEF Keeps
  <2>7. Resolution(r)[k] = Divider
    BY <2>6 DEF SameLine, IsMarker
  <2> QED
    BY <2>7 DEF HasMarkers, IsMarker
<1>6. CASE r.ours = c.ours /\ r.theirs = c.theirs
  BY <1>3, <1>4, <1>6 DEF r
<1> QED
  BY <1>1, <1>4, <1>5, <1>6 DEF r
LEMMA OursIsFirst ==
    ASSUME NEW c \in [ours : Sides, theirs : Sides], NEW j \in 1..Len(Marked(c)), Marked(c)[j] = Ours
    PROVE  j = 1
<1> DEFINE o == c.ours
           t == c.theirs
           m == Marked(c)
<1>1. /\ o \in Seq(SideLines) /\ t \in Seq(SideLines)
      /\ Len(m) = Len(o) + Len(t) + 3
      /\ \A i \in 1..Len(o) : m[1 + i] = o[i]
      /\ m[Len(o) + 2] = Divider
      /\ \A i \in 1..Len(t) : m[Len(o) + 2 + i] = t[i]
      /\ m[Len(o) + Len(t) + 3] = Theirs
  BY MarkedLines
<1>2. j \in 1..Len(m) /\ m[j] = Ours
  OBVIOUS
<1> HIDE DEF o, t, m
<1>3. Len(o) \in Nat /\ Len(t) \in Nat
  BY <1>1, LenProperties
<1>4. Ours \notin SideLines /\ Ours # Divider /\ Ours # Theirs
  BY StructuredMergeAssumption DEF SideLines, Ours, Divider, Theirs
<1>5. ~(j - 1 \in 1..Len(o))
  <2> SUFFICES ASSUME j - 1 \in 1..Len(o) PROVE FALSE
    OBVIOUS
  <2>1. 1 + (j - 1) = j
    BY <1>2
  <2> QED
    BY <1>1, <1>2, <1>4, <2>1, ElementOfSeq
<1>6. ~(j - (Len(o) + 2) \in 1..Len(t))
  <2> SUFFICES ASSUME j - (Len(o) + 2) \in 1..Len(t) PROVE FALSE
    OBVIOUS
  <2>1. Len(o) + 2 + (j - (Len(o) + 2)) = j
    BY <1>2, <1>3
  <2> QED
    BY <1>1, <1>2, <1>4, <2>1, ElementOfSeq
<1>7. j # Len(o) + 2 /\ j # Len(o) + Len(t) + 3
  BY <1>1, <1>2, <1>4
<1>8. j \in 1..Len(o) + Len(t) + 3
  BY <1>1, <1>2
<1> QED
  BY <1>3, <1>5, <1>6, <1>7, <1>8

SecondConflict == Len(Marked(conflict[1])) + 1

\* The two regions of the file as git left it.
RegionOf(n) == IF n = 1 THEN RegionAt(1) ELSE RegionAt(SecondConflict + 1)

\* While regions are replaced, from the bottom up, what stands for each conflict is the
\* conflict itself or what a rule made of it, with the line between them in its place: the
\* first is still as git left it when the second is replaced, and so the place at which
\* the second was found is still its place.
HalvesStand(first, second) ==
    /\ currentLines = first \o <<Between>> \o second
    /\ \/ first = Marked(conflict[1])
       \/ first = Resolution(RegionOf(1)) /\ Resolution(RegionOf(1)) # Refused /\ sorted = {}
    /\ \/ second = Marked(conflict[2])
       \/ /\ second = Resolution(RegionOf(2)) /\ Resolution(RegionOf(2)) # Refused
          /\ RegionOf(2) \notin sorted

StructuredInv ==
    /\ StructuredTypeOK
    /\ merged \in {"no", "replacing"} => text = WithConflicts(conflict)
    /\ merged = "replacing" =>
          /\ sorted \subseteq {RegionOf(1), RegionOf(2)}
          /\ \A r \in sorted : Resolution(r) # Refused
          /\ \E first, second \in Seq(FileLines) : HalvesStand(first, second)
    /\ ResolvedLosesNothing

LEMMA BetweenIsALine == Between \in Lines /\ <<Between>> \in Seq(FileLines)
<1>1. Between \in Lines
  BY StructuredMergeAssumption DEF Between
<1>2. Between \in FileLines
  BY <1>1 DEF FileLines
<1> QED
  BY <1>1, <1>2

\* A line between two parts of a file.
LEMMA AroundALine ==
    ASSUME NEW a \in Seq(FileLines), NEW b \in Seq(FileLines)
    PROVE  LET s == a \o <<Between>> \o b IN
           /\ s \in Seq(FileLines) /\ Len(a) \in Nat /\ Len(b) \in Nat
           /\ Len(s) = Len(a) + 1 + Len(b)
           /\ \A i \in 1..Len(a) : s[i] = a[i]
           /\ s[Len(a) + 1] = Between
           /\ \A i \in 1..Len(b) : s[Len(a) + 1 + i] = b[i]
<1> DEFINE m == <<Between>>
           h == a \o m
           s == h \o b
<1>0. Len(<<Between>>) = 1 /\ <<Between>>[1] = Between
  OBVIOUS
<1>1. m \in Seq(FileLines) /\ Len(m) = 1 /\ m[1] = Between
  BY <1>0, BetweenIsALine
<1>2. Len(a) \in Nat /\ Len(b) \in Nat
  BY LenProperties
<1> HIDE DEF m
<1>3. /\ h \in Seq(FileLines) /\ Len(h) = Len(a) + Len(m)
      /\ \A i \in 1..Len(a) : h[i] = a[i]
      /\ \A i \in 1..Len(m) : h[Len(a) + i] = m[i]
  <2>1. a \in Seq(FileLines) /\ m \in Seq(FileLines)
    BY <1>1
  <2> QED
    BY <2>1, ConcatElements
<1> HIDE DEF h
<1>4. /\ s \in Seq(FileLines) /\ Len(s) = Len(h) + Len(b)
      /\ \A i \in 1..Len(h) : s[i] = h[i]
      /\ \A i \in 1..Len(b) : s[Len(h) + i] = b[i]
  <2>1. h \in Seq(FileLines) /\ b \in Seq(FileLines)
    BY <1>3
  <2> QED
    BY <2>1, ConcatElements
<1>5. s = a \o <<Between>> \o b
  BY DEF h, m
<1> HIDE DEF s
<1>6. Len(h) = Len(a) + 1 /\ h[Len(a) + 1] = Between
  <2>1. 1 \in 1..Len(m)
    BY <1>1
  <2> QED
    BY <1>1, <1>2, <1>3, <2>1
<1>7. s[Len(a) + 1] = Between /\ \A i \in 1..Len(a) : s[i] = a[i]
  BY <1>2, <1>3, <1>4, <1>6
<1>8. /\ s \in Seq(FileLines) /\ Len(a) \in Nat /\ Len(b) \in Nat
      /\ Len(s) = Len(a) + 1 + Len(b)
      /\ \A i \in 1..Len(a) : s[i] = a[i]
      /\ s[Len(a) + 1] = Between
      /\ \A i \in 1..Len(b) : s[Len(a) + 1 + i] = b[i]
  BY <1>2, <1>4, <1>6, <1>7
<1> QED
  BY <1>5, <1>8

\* Where the two conflicts stand in the file that git left, and their regions.
LEMMA ConflictsStand ==
    ASSUME conflict \in [1..2 -> [ours : Sides, theirs : Sides]], text = WithConflicts(conflict)
    PROVE  /\ text \in Seq(FileLines)
           /\ StandsAfter(0, Marked(conflict[1])) /\ StandsAfter(SecondConflict, Marked(conflict[2]))
           /\ Len(text) = SecondConflict + Len(Marked(conflict[2]))
           /\ SecondConflict \in Nat \ {0}
           /\ RegionOf(1).start = 1 /\ RegionOf(1).end = SecondConflict - 1
           /\ RegionOf(2).start = SecondConflict + 1 /\ RegionOf(2).end = Len(text)
           /\ Regions \subseteq {RegionOf(1), RegionOf(2)}
<1> DEFINE a == Marked(conflict[1])
           b == Marked(conflict[2])
<1>1. conflict[1] \in [ours : Sides, theirs : Sides] /\ conflict[2] \in [ours : Sides, theirs : Sides]
  OBVIOUS
<1>2. a \in Seq(FileLines) /\ b \in Seq(FileLines)
  BY <1>1, MarkedLines
<1>3. /\ text \in Seq(FileLines) /\ Len(a) \in Nat /\ Len(b) \in Nat
      /\ Len(text) = Len(a) + 1 + Len(b)
      /\ \A i \in 1..Len(a) : text[i] = a[i]
      /\ text[Len(a) + 1] = Between
      /\ \A i \in 1..Len(b) : text[Len(a) + 1 + i] = b[i]
  <2>1. text = a \o <<Between>> \o b
    BY DEF WithConflicts
  <2> HIDE DEF a, b
  <2> QED
    BY <1>2, <2>1, AroundALine
<1>4. StandsAfter(0, a)
  <2> HIDE DEF a, b
  <2> QED
    BY <1>3 DEF StandsAfter
<1>5. SecondConflict = Len(a) + 1 /\ SecondConflict \in Nat \ {0}
  BY <1>3 DEF SecondConflict
<1>6. StandsAfter(SecondConflict, b)
  <2> HIDE DEF a, b
  <2> QED
    BY <1>3, <1>5 DEF StandsAfter
<1>7. RegionOf(1).start = 1 /\ RegionOf(1).end = Len(a)
  <2>1. RegionAt(0 + 1).start = 0 + 1 /\ RegionAt(0 + 1).end = 0 + Len(a)
    BY <1>1, <1>3, <1>4, RegionOfConflict
  <2> HIDE DEF a
  <2>2. 0 + 1 = 1 /\ 0 + Len(a) = Len(a)
    BY <1>3
  <2> QED
    BY <2>1, <2>2 DEF RegionOf
<1>8. RegionOf(2).start = SecondConflict + 1 /\ RegionOf(2).end = SecondConflict + Len(b)
  <2>1. SecondConflict \in Nat
    BY <1>5
  <2>2. /\ RegionAt(SecondConflict + 1).start = SecondConflict + 1
        /\ RegionAt(SecondConflict + 1).end = SecondConflict + Len(b)
    BY <1>1, <1>3, <1>6, <2>1, RegionOfConflict
  <2> QED
    BY <2>2 DEF RegionOf
<1>9. ASSUME NEW j \in DOMAIN text, text[j] = Ours PROVE j = 1 \/ j = SecondConflict + 1
  <2>0. j \in 1..Len(text)
    BY <1>3, LenProperties
  <2>1. CASE j \in 1..Len(a)
    <3>1. a[j] = Ours
      BY <1>3, <1>9, <2>1
    <3> QED
      BY <1>1, <2>1, <3>1, OursIsFirst
  <2>2. CASE j = Len(a) + 1
    BY <1>3, <1>9, <2>2, BetweenIsALine, StructuredMergeAssumption
  <2>3. CASE j > Len(a) + 1
    <3> DEFINE h == j - (Len(a) + 1)
    <3>1. h \in 1..Len(b) /\ Len(a) + 1 + h = j
      <4> HIDE DEF a, b
      <4> QED
        BY <1>3, <2>0, <2>3
    <3>2. b[h] = Ours
      <4> HIDE DEF a, b, h
      <4> QED
        BY <1>3, <1>9, <3>1
    <3>3. h = 1
      BY <1>1, <3>1, <3>2, OursIsFirst
    <3> HIDE DEF a, b, h
    <3> QED
      BY <1>3, <1>5, <3>1, <3>3
  <2> HIDE DEF a, b
  <2> QED
    BY <1>3, <2>0, <2>1, <2>2, <2>3
<1>10. Regions \subseteq {RegionOf(1), RegionOf(2)}
  BY <1>9 DEF Regions, RegionOf
<1> HIDE DEF a, b
<1>11. Len(text) = SecondConflict + Len(b) /\ Len(a) = SecondConflict - 1
  BY <1>3, <1>5
<1> QED
  BY <1>3, <1>4, <1>5, <1>6, <1>7, <1>8, <1>10, <1>11 DEF a, b
LEMMA StructuredInvInit == StructuredInit => StructuredInv
<1> SUFFICES ASSUME StructuredInit PROVE StructuredInv
  OBVIOUS
<1>1. conflict \in [1..2 -> [ours : Sides, theirs : Sides]] /\ text = WithConflicts(conflict)
  BY DEF StructuredInit
<1>2. text \in Seq(FileLines)
  BY <1>1, ConflictsStand
<1>3. <<>> \in Seq(FileLines)
  OBVIOUS
<1>4. StructuredTypeOK
  BY <1>1, <1>2, <1>3 DEF StructuredInit, StructuredTypeOK
<1>5. merged = "no"
  BY DEF StructuredInit
<1> QED
  BY <1>1, <1>4, <1>5 DEF StructuredInv, ResolvedLosesNothing

\* The regions of a file and what replaces them depend on the file alone.
LEMMA RegionsStay ==
    ASSUME UNCHANGED <<conflict, configFile, text>>
    PROVE  /\ RegionOf(1)' = RegionOf(1) /\ RegionOf(2)' = RegionOf(2) /\ Regions' = Regions
           /\ \A r : Resolution(r)' = Resolution(r)
           /\ Resolution(RegionOf(1))' = Resolution(RegionOf(1))
           /\ Resolution(RegionOf(2))' = Resolution(RegionOf(2))
<1>1. \A ls, i : FirstFrom(ls, i)' = FirstFrom(ls, i)
  BY DEF FirstFrom, IsFirstFrom
<1>2. \A i : RegionAt(i)' = RegionAt(i)
  BY <1>1 DEF RegionAt
<1>3. SecondConflict' = SecondConflict
  BY DEF SecondConflict
<1>4. RegionOf(1)' = RegionOf(1) /\ RegionOf(2)' = RegionOf(2)
  BY <1>2, <1>3 DEF RegionOf
<1>5. Regions' = Regions
  BY <1>2 DEF Regions
<1>6. ASSUME NEW r PROVE Resolution(r)' = Resolution(r)
  <2>1. ResolveConfig(r)' = ResolveConfig(r)
    BY DEF ResolveConfig
  <2>2. ResolveImports(r)' = ResolveImports(r) /\ ResolveAdditions(r)' = ResolveAdditions(r)
    BY DEF ResolveImports, ResolveAdditions
  <2> QED
    BY <2>1, <2>2 DEF Resolution
<1>7. /\ Resolution(RegionOf(1))' = Resolution(RegionOf(1))
      /\ Resolution(RegionOf(2))' = Resolution(RegionOf(2))
  BY <1>4, <1>6
<1> QED
  BY <1>4, <1>5, <1>6, <1>7

LEMMA FindKeepsInv == StructuredInv /\ FindRegions => StructuredInv'
<1> SUFFICES ASSUME StructuredInv, FindRegions PROVE StructuredInv'
  OBVIOUS
<1>1. /\ merged = "no" /\ merged' = "replacing" /\ currentLines' = text
      /\ sorted' = {r \in Regions : Resolution(r) # Refused}
      /\ UNCHANGED <<conflict, configFile, text>>
  BY DEF FindRegions
<1>2. /\ conflict \in [1..2 -> [ours : Sides, theirs : Sides]] /\ text = WithConflicts(conflict)
      /\ StructuredTypeOK
  BY <1>1 DEF StructuredInv, StructuredTypeOK
<1>3. text \in Seq(FileLines) /\ Regions \subseteq {RegionOf(1), RegionOf(2)}
  BY <1>2, ConflictsStand
<1>4. /\ RegionOf(1)' = RegionOf(1) /\ RegionOf(2)' = RegionOf(2) /\ Regions' = Regions
      /\ \A r : Resolution(r)' = Resolution(r)
  BY <1>1, RegionsStay
<1>5. StructuredTypeOK'
  <2>1. sorted' \subseteq Regions'
    BY <1>1, <1>4
  <2>2. text' \in Seq(FileLines) /\ currentLines' \in Seq(FileLines)
    BY <1>1, <1>3
  <2> QED
    BY <1>1, <1>2, <2>1, <2>2 DEF StructuredTypeOK
<1>6. Marked(conflict[1]) \in Seq(FileLines) /\ Marked(conflict[2]) \in Seq(FileLines)
  <2>1. conflict[1] \in [ours : Sides, theirs : Sides] /\ conflict[2] \in [ours : Sides, theirs : Sides]
    BY <1>2
  <2> QED
    BY <2>1, MarkedLines
<1>7. HalvesStand(Marked(conflict[1]), Marked(conflict[2]))'
  <2>1. currentLines' = Marked(conflict[1]) \o <<Between>> \o Marked(conflict[2])
    BY <1>1, <1>2 DEF WithConflicts
  <2> QED
    BY <1>1, <2>1 DEF HalvesStand
<1>8. \A r \in sorted' : Resolution(r)' # Refused
  BY <1>1, <1>4
<1>9. sorted' \subseteq {RegionOf(1)', RegionOf(2)'}
  BY <1>1, <1>3, <1>4
<1>10. (\E first, second \in Seq(FileLines) : HalvesStand(first, second))'
  BY <1>1, <1>6, <1>7
<1>11. text' = WithConflicts(conflict')
  BY <1>1, <1>2
<1>12. ResolvedLosesNothing'
  BY <1>1 DEF ResolvedLosesNothing
<1> QED
  BY <1>1, <1>5, <1>8, <1>9, <1>10, <1>11, <1>12 DEF StructuredInv

\* What a rule makes of a region that a rule applies to is made of lines of a file.
LEMMA ResolutionIsLines ==
    ASSUME StructuredInv, merged = "replacing", NEW n \in 1..2, Resolution(RegionOf(n)) # Refused
    PROVE  /\ Resolution(RegionOf(n)) \in Seq(FileLines)
           /\ \/ HasMarkers(Resolution(RegionOf(n)))
              \/ Keeps(Resolution(RegionOf(n)), conflict[n].ours \o conflict[n].theirs)
<1>1. conflict \in [1..2 -> [ours : Sides, theirs : Sides]] /\ text = WithConflicts(conflict)
  BY DEF StructuredInv, StructuredTypeOK
<1>2. /\ text \in Seq(FileLines) /\ SecondConflict \in Nat
      /\ StandsAfter(0, Marked(conflict[1])) /\ StandsAfter(SecondConflict, Marked(conflict[2]))
  BY <1>1, ConflictsStand
<1>3. CASE n = 1
  <2>1. RegionOf(n) = RegionAt(0 + 1) /\ conflict[1] \in [ours : Sides, theirs : Sides]
    BY <1>1, <1>3 DEF RegionOf
  <2>2. Resolution(RegionAt(0 + 1)) # Refused
    BY <2>1
  <2> QED
    BY <1>2, <1>3, <2>1, <2>2, ConflictReplaced
<1>4. CASE n = 2
  <2>1. RegionOf(n) = RegionAt(SecondConflict + 1) /\ conflict[2] \in [ours : Sides, theirs : Sides]
    BY <1>1, <1>4 DEF RegionOf
  <2>2. Resolution(RegionAt(SecondConflict + 1)) # Refused
    BY <2>1
  <2> QED
    BY <1>2, <1>4, <2>1, <2>2, ConflictReplaced
<1> QED
  BY <1>3, <1>4
LEMMA FrontOfConcat ==
    ASSUME NEW S, NEW s \in Seq(S), NEW t \in Seq(S)
    PROVE  SubSeq(s \o t, 1, Len(s)) = s
<1> DEFINE b == s \o t
           f == SubSeq(b, 1, Len(s))
<1>1. Len(s) \in Nat /\ Len(t) \in Nat
  BY LenProperties
<1>2. b \in Seq(S) /\ Len(b) = Len(s) + Len(t) /\ \A i \in 1..Len(s) : b[i] = s[i]
  BY ConcatElements
<1> HIDE DEF b
<1>3. \A i \in 1..Len(s) : b[i] \in S
  BY <1>2, ElementOfSeq
<1>4. /\ f \in Seq(S) /\ Len(f) = IF 1 <= Len(s) THEN Len(s) - 1 + 1 ELSE 0
      /\ \A i \in 1..Len(s) - 1 + 1 : f[i] = b[1 + i - 1]
  <2>1. 1 \in Int /\ Len(s) \in Int
    BY <1>1
  <2> QED
    BY <1>3, <2>1, SubSeqProperties
<1> HIDE DEF f
<1>5. Len(f) = Len(s) /\ \A i \in 1..Len(s) : f[i] = s[i]
  BY <1>1, <1>2, <1>4
<1>6. f = s
  BY <1>4, <1>5, SeqEqual
<1> QED
  BY <1>6 DEF f, b

LEMMA BackOfConcat ==
    ASSUME NEW S, NEW s \in Seq(S), NEW t \in Seq(S)
    PROVE  SubSeq(s \o t, Len(s) + 1, Len(s \o t)) = t
<1> DEFINE b == s \o t
           f == SubSeq(b, Len(s) + 1, Len(b))
<1>1. Len(s) \in Nat /\ Len(t) \in Nat
  BY LenProperties
<1>2. b \in Seq(S) /\ Len(b) = Len(s) + Len(t) /\ \A i \in 1..Len(t) : b[Len(s) + i] = t[i]
  BY ConcatElements
<1> HIDE DEF b
<1>3. \A i \in Len(s) + 1..Len(b) : b[i] \in S
  <2>1. \A i \in Len(s) + 1..Len(b) : i \in 1..Len(b)
    BY <1>1, <1>2
  <2> QED
    BY <1>2, <2>1, ElementOfSeq
<1>4. /\ f \in Seq(S)
      /\ Len(f) = IF Len(s) + 1 <= Len(b) THEN Len(b) - (Len(s) + 1) + 1 ELSE 0
      /\ \A i \in 1..Len(b) - (Len(s) + 1) + 1 : f[i] = b[Len(s) + 1 + i - 1]
  <2>1. Len(s) + 1 \in Int /\ Len(b) \in Int
    BY <1>1, <1>2
  <2> QED
    BY <1>3, <2>1, SubSeqProperties
<1> HIDE DEF f
<1>5. Len(f) = Len(t)
  BY <1>1, <1>2, <1>4
<1>6. ASSUME NEW i \in 1..Len(t) PROVE f[i] = t[i]
  <2>1. i \in 1..Len(b) - (Len(s) + 1) + 1 /\ Len(s) + 1 + i - 1 = Len(s) + i
    BY <1>1, <1>2
  <2> QED
    BY <1>2, <1>4, <2>1
<1>7. f = t
  BY <1>4, <1>5, <1>6, SeqEqual
<1> QED
  BY <1>7 DEF f, b

LEMMA ReplaceKeepsInv ==
    ASSUME StructuredInv, NEW r \in sorted, ReplaceRegion(r)
    PROVE  StructuredInv'
<1>1. /\ merged = "replacing" /\ UNCHANGED <<conflict, configFile, text, merged>>
      /\ \A q \in sorted : q.start <= r.start
      /\ currentLines' = Replaced(currentLines, r) /\ sorted' = sorted \ {r}
  BY DEF ReplaceRegion
<1>2. /\ conflict \in [1..2 -> [ours : Sides, theirs : Sides]] /\ text = WithConflicts(conflict)
      /\ StructuredTypeOK
      /\ sorted \subseteq {RegionOf(1), RegionOf(2)}
      /\ \A q \in sorted : Resolution(q) # Refused
  BY <1>1 DEF StructuredInv, StructuredTypeOK
<1>3. PICK first \in Seq(FileLines), second \in Seq(FileLines) : HalvesStand(first, second)
  BY <1>1 DEF StructuredInv
<1> DEFINE a == Marked(conflict[1])
           b == Marked(conflict[2])
           m == <<Between>>
<1>4. /\ a \in Seq(FileLines) /\ b \in Seq(FileLines) /\ m \in Seq(FileLines)
  <2>1. conflict[1] \in [ours : Sides, theirs : Sides] /\ conflict[2] \in [ours : Sides, theirs : Sides]
    BY <1>2
  <2> QED
    BY <2>1, MarkedLines, BetweenIsALine
<1>5. /\ RegionOf(1).start = 1 /\ RegionOf(1).end = SecondConflict - 1
      /\ RegionOf(2).start = SecondConflict + 1 /\ RegionOf(2).end = Len(text)
      /\ SecondConflict \in Nat \ {0} /\ Len(text) = SecondConflict + Len(b)
      /\ SecondConflict = Len(a) + 1
  BY <1>2, ConflictsStand DEF SecondConflict
<1>6. Len(a) \in Nat /\ Len(b) \in Nat /\ RegionOf(1) # RegionOf(2)
  <2>1. Len(a) \in Nat /\ Len(b) \in Nat
    BY <1>4, LenProperties
  <2> HIDE DEF a, b
  <2>2. RegionOf(1).start < RegionOf(2).start
    BY <1>5, <2>1
  <2>3. RegionOf(1).start # RegionOf(2).start
    BY <1>5, <2>1, <2>2
  <2> QED
    BY <2>1, <2>3
<1>7. /\ RegionOf(1)' = RegionOf(1) /\ RegionOf(2)' = RegionOf(2) /\ Regions' = Regions
      /\ \A q : Resolution(q)' = Resolution(q)
      /\ Resolution(RegionOf(1))' = Resolution(RegionOf(1))
      /\ Resolution(RegionOf(2))' = Resolution(RegionOf(2))
  BY <1>1, RegionsStay
<1>8. \E f, s \in Seq(FileLines) : currentLines' = f \o m \o s /\ HalvesStand(f, s)'
  <2>1. CASE r = RegionOf(2)
    <3>0. PICK x : x = Resolution(RegionOf(2))
      OBVIOUS
    <3> DEFINE h == a \o m
    <3>1. x \in Seq(FileLines) /\ x # Refused
      <4>1. Resolution(RegionOf(2)) # Refused
        BY <1>2, <2>1
      <4> QED
        BY <1>1, <3>0, <4>1, ResolutionIsLines
    <3>2. first = a /\ second = b /\ currentLines = h \o b
      BY <1>3, <2>1 DEF HalvesStand
    <3>3. currentLines' = SubSeq(h \o b, 1, SecondConflict) \o x \o SubSeq(h \o b, Len(text) + 1, Len(h \o b))
      <4>1. (SecondConflict + 1) - 1 = SecondConflict
        BY <1>5
      <4> HIDE DEF h, b
      <4> QED
        BY <1>1, <1>5, <2>1, <3>0, <3>2, <4>1 DEF Replaced
    <3>4. h \in Seq(FileLines) /\ Len(h) = SecondConflict
      <4>1. Len(m) = 1
        OBVIOUS
      <4> HIDE DEF a, m
      <4>2. h \in Seq(FileLines) /\ Len(h) = Len(a) + Len(m)
        BY <1>4, ConcatProperties
      <4> QED
        BY <1>5, <4>1, <4>2
    <3>5. SubSeq(h \o b, 1, SecondConflict) = h /\ SubSeq(h \o b, Len(text) + 1, Len(h \o b)) = <<>>
      <4> HIDE DEF h, b
      <4>1. SubSeq(h \o b, 1, Len(h)) = h
        <5>1. h \in Seq(FileLines) /\ b \in Seq(FileLines)
          BY <1>4, <3>4
        <5> QED
          BY <5>1, FrontOfConcat
      <4>2. Len(h \o b) = Len(text)
        <5>1. h \in Seq(FileLines) /\ b \in Seq(FileLines)
          BY <1>4, <3>4
        <5>2. Len(h \o b) = Len(h) + Len(b)
          BY <5>1, ConcatProperties
        <5> QED
          BY <1>5, <3>4, <5>2
      <4>3. Len(text) \in Int /\ Len(text) + 1 \in Int /\ Len(text) < Len(text) + 1
        BY <1>5, <1>6 DEF b
      <4>4. SubSeq(h \o b, Len(text) + 1, Len(text)) = <<>>
        BY <4>3, SubSeqEmpty
      <4> QED
        BY <3>4, <4>1, <4>2, <4>4
    <3>6. currentLines' = a \o m \o x
      <4> HIDE DEF h
      <4>1. h \o x \in Seq(FileLines)
        BY <3>1, <3>4, ConcatProperties
      <4>2. (h \o x) \o <<>> = h \o x
        BY <4>1, ConcatEmptySeq
      <4> QED
        BY <3>3, <3>5, <4>2 DEF h
    <3>7. PICK y : y = a
      OBVIOUS
    <3>8. HalvesStand(y, x)'
      <4>1. RegionOf(2)' \notin sorted'
        BY <1>1, <1>7, <2>1
      <4>2. y = a' /\ currentLines' = y \o m \o x
        BY <1>1, <3>6, <3>7
      <4> QED
        BY <1>7, <3>0, <3>1, <4>1, <4>2 DEF HalvesStand
    <3> QED
      BY <1>4, <3>1, <3>6, <3>7, <3>8
  <2>2. CASE r = RegionOf(1)
    <3>0. PICK x : x = Resolution(RegionOf(1))
      OBVIOUS
    <3>1. x \in Seq(FileLines) /\ x # Refused
      <4>1. Resolution(RegionOf(1)) # Refused
        BY <1>2, <2>2
      <4> QED
        BY <1>1, <3>0, <4>1, ResolutionIsLines
    <3>2. RegionOf(2) \notin sorted
      <4> SUFFICES ASSUME RegionOf(2) \in sorted PROVE FALSE
        OBVIOUS
      <4>1. SecondConflict + 1 <= 1
        BY <1>1, <1>5, <2>2
      <4> QED
        BY <1>5, <4>1
    <3>3. first = a /\ currentLines = a \o m \o second
      <4>1. sorted # {}
        OBVIOUS
      <4> QED
        BY <1>3, <4>1 DEF HalvesStand
    <3>4. sorted' = {}
      BY <1>1, <1>2, <2>2, <3>2
    <3>5. currentLines' = <<>> \o x \o (m \o second)
      <4> DEFINE l == m \o second
                 c == a \o l
      <4>1. l \in Seq(FileLines)
        BY <1>3, <1>4, ConcatProperties
      <4>2. currentLines = c
        BY <1>3, <1>4, <3>3, ConcatAssociative
      <4>3. currentLines' = SubSeq(c, 1, 1 - 1) \o x \o SubSeq(c, (SecondConflict - 1) + 1, Len(c))
        <5> HIDE DEF c
        <5> QED
          BY <1>1, <1>5, <2>2, <3>0, <4>2 DEF Replaced
      <4>4. SubSeq(c, 1, 1 - 1) = <<>>
        <5> HIDE DEF c
        <5> QED
          BY SubSeqEmpty
      <4>5. SubSeq(c, (SecondConflict - 1) + 1, Len(c)) = l
        <5> HIDE DEF a, l
        <5>1. SubSeq(a \o l, Len(a) + 1, Len(a \o l)) = l
          BY <1>4, <4>1, BackOfConcat
        <5>2. (SecondConflict - 1) + 1 = Len(a) + 1
          BY <1>5, <1>6
        <5> QED
          BY <5>1, <5>2
      <4> HIDE DEF c, l
      <4> QED
        BY <4>3, <4>4, <4>5 DEF l
    <3>6. currentLines' = x \o m \o second
      <4>1. <<>> \o x = x
        BY <3>1, ConcatEmptySeq
      <4> HIDE DEF m
      <4>2. (x \o m) \o second = x \o (m \o second)
        <5>1. x \in Seq(FileLines) /\ m \in Seq(FileLines) /\ second \in Seq(FileLines)
          BY <1>3, <1>4, <3>1
        <5> QED
          BY <5>1, ConcatAssociative
      <4> QED
        BY <3>5, <4>1, <4>2
    <3>7. HalvesStand(x, second)'
      <4>1. second = b \/ (second = Resolution(RegionOf(2)) /\ Resolution(RegionOf(2)) # Refused)
        BY <1>3 DEF HalvesStand
      <4>2. b' = b
        BY <1>1
      <4>3. RegionOf(2)' \notin sorted'
        BY <3>4
      <4> QED
        BY <1>7, <3>0, <3>1, <3>4, <3>6, <4>1, <4>2, <4>3 DEF HalvesStand
    <3> QED
      BY <1>3, <3>1, <3>6, <3>7
  <2> QED
    BY <1>2, <2>1, <2>2
<1>9. StructuredTypeOK'
  <2>1. currentLines' \in Seq(FileLines)
    <3>1. PICK f \in Seq(FileLines), s \in Seq(FileLines) : currentLines' = f \o m \o s
      BY <1>8
    <3> HIDE DEF m
    <3>2. f \o m \in Seq(FileLines)
      BY <1>4, ConcatProperties
    <3> QED
      BY <3>1, <3>2, ConcatProperties
  <2>2. sorted' \subseteq Regions'
    BY <1>1, <1>2, <1>7 DEF StructuredTypeOK
  <2> QED
    BY <1>1, <1>2, <2>1, <2>2 DEF StructuredTypeOK
<1>10. sorted' \subseteq {RegionOf(1)', RegionOf(2)'} /\ \A q \in sorted' : Resolution(q)' # Refused
  BY <1>1, <1>2, <1>7
<1>11. (\E f, s \in Seq(FileLines) : HalvesStand(f, s))'
  BY <1>8
<1>12. text' = WithConflicts(conflict')
  BY <1>1, <1>2
<1>13. ResolvedLosesNothing'
  BY <1>1 DEF ResolvedLosesNothing
<1> QED
  BY <1>1, <1>9, <1>10, <1>11, <1>12, <1>13 DEF StructuredInv
LEMMA WriteKeepsInv == StructuredInv /\ WriteResolved => StructuredInv'
<1> SUFFICES ASSUME StructuredInv, WriteResolved PROVE StructuredInv'
  OBVIOUS
<1>1. /\ merged = "replacing" /\ sorted = {} /\ text' = currentLines
      /\ merged' = IF HasMarkers(text') THEN "conflicted" ELSE "resolved"
      /\ UNCHANGED <<conflict, configFile, sorted, currentLines>>
  BY DEF WriteResolved
<1>2. StructuredTypeOK'
  BY <1>1 DEF StructuredInv, StructuredTypeOK
<1>3. ASSUME merged' = "resolved"
      PROVE  \E m \in DOMAIN text' :
                /\ text'[m] = Between
                /\ Keeps(SubSeq(text', 1, m - 1), conflict[1].ours \o conflict[1].theirs)
                /\ Keeps(SubSeq(text', m + 1, Len(text')), conflict[2].ours \o conflict[2].theirs)
  <2>1. PICK first \in Seq(FileLines), second \in Seq(FileLines) : HalvesStand(first, second)
    BY <1>1 DEF StructuredInv
  <2> DEFINE h == first \o <<Between>>
             s == h \o second
  <2>2. text' = s /\ ~HasMarkers(s)
    BY <1>1, <1>3, <2>1 DEF HalvesStand
  <2>3. /\ s \in Seq(FileLines) /\ Len(first) \in Nat /\ Len(second) \in Nat
        /\ Len(s) = Len(first) + 1 + Len(second)
        /\ \A i \in 1..Len(first) : s[i] = first[i]
        /\ s[Len(first) + 1] = Between
        /\ \A i \in 1..Len(second) : s[Len(first) + 1 + i] = second[i]
    BY AroundALine
  <2>4. DOMAIN s = 1..Len(s)
    BY <2>3, LenProperties
  <2>5. ~HasMarkers(first) /\ ~HasMarkers(second)
    <3> HIDE DEF s
    <3>1. ASSUME NEW i \in DOMAIN first PROVE ~IsMarker(first[i])
      <4>1. i \in 1..Len(first)
        BY LenProperties
      <4>2. i \in DOMAIN s /\ s[i] = first[i]
        BY <2>3, <2>4, <4>1
      <4> QED
        BY <2>2, <4>2 DEF HasMarkers
    <3>2. ASSUME NEW i \in DOMAIN second PROVE ~IsMarker(second[i])
      <4>1. i \in 1..Len(second)
        BY LenProperties
      <4>2. Len(first) + 1 + i \in DOMAIN s /\ s[Len(first) + 1 + i] = second[i]
        <5>1. Len(first) + 1 + i \in 1..Len(first) + 1 + Len(second)
          BY <2>3, <4>1
        <5> QED
          BY <2>3, <2>4, <4>1, <5>1
      <4> QED
        BY <2>2, <4>2 DEF HasMarkers
    <3> QED
      BY <3>1, <3>2 DEF HasMarkers
  <2>6. ASSUME NEW n \in 1..2 PROVE HasMarkers(Marked(conflict[n]))
    <3>1. conflict[n] \in [ours : Sides, theirs : Sides]
      BY DEF StructuredInv, StructuredTypeOK
    <3>2. /\ Marked(conflict[n]) \in Seq(FileLines) /\ Marked(conflict[n])[1] = Ours
          /\ Len(Marked(conflict[n])) = Len(conflict[n].ours) + Len(conflict[n].theirs) + 3
          /\ conflict[n].ours \in Seq(SideLines) /\ conflict[n].theirs \in Seq(SideLines)
      BY <3>1, MarkedLines
    <3>3. Len(conflict[n].ours) \in Nat /\ Len(conflict[n].theirs) \in Nat
      BY <3>2, LenProperties
    <3>4. 1 \in DOMAIN Marked(conflict[n])
      <4> DEFINE M == Marked(conflict[n])
                 x == Len(conflict[n].ours)
                 y == Len(conflict[n].theirs)
      <4>1. M \in Seq(FileLines) /\ Len(M) = x + y + 3 /\ x \in Nat /\ y \in Nat
        BY <3>2, <3>3
      <4> HIDE DEF M, x, y
      <4>2. DOMAIN M = 1..Len(M)
        BY <4>1, LenProperties
      <4>3. 1 \in DOMAIN M
        BY <4>1, <4>2
      <4> QED
        BY <4>3 DEF M
    <3> QED
      BY <3>2, <3>4 DEF HasMarkers, IsMarker
  <2>7. /\ first = Resolution(RegionOf(1)) /\ Resolution(RegionOf(1)) # Refused
        /\ second = Resolution(RegionOf(2)) /\ Resolution(RegionOf(2)) # Refused
    BY <2>1, <2>5, <2>6 DEF HalvesStand
  <2>8. /\ Keeps(first, conflict[1].ours \o conflict[1].theirs)
        /\ Keeps(second, conflict[2].ours \o conflict[2].theirs)
    BY <1>1, <2>5, <2>7, ResolutionIsLines
  <2>9. SubSeq(s, 1, (Len(first) + 1) - 1) = first
    <3> DEFINE l == <<Between>> \o second
    <3>1. <<Between>> \in Seq(FileLines)
      BY BetweenIsALine
    <3>2. l \in Seq(FileLines)
      BY <3>1, ConcatProperties
    <3>3. s = first \o l
      BY <3>1, ConcatAssociative
    <3> HIDE DEF l, s
    <3>4. SubSeq(first \o l, 1, Len(first)) = first
      BY <3>2, FrontOfConcat
    <3> QED
      BY <2>3, <3>3, <3>4
  <2>10. SubSeq(s, (Len(first) + 1) + 1, Len(s)) = second
    <3>1. <<Between>> \in Seq(FileLines) /\ Len(<<Between>>) = 1
      BY BetweenIsALine
    <3>2. h \in Seq(FileLines) /\ Len(h) = Len(first) + 1
      <4> DEFINE m == <<Between>>
      <4>1. m \in Seq(FileLines) /\ Len(m) = 1
        BY <3>1
      <4> HIDE DEF m
      <4>2. first \o m \in Seq(FileLines) /\ Len(first \o m) = Len(first) + Len(m)
        BY <4>1, ConcatProperties
      <4> QED
        BY <4>1, <4>2 DEF m
    <3> HIDE DEF h
    <3>3. SubSeq(h \o second, Len(h) + 1, Len(h \o second)) = second
      BY <3>2, BackOfConcat
    <3> QED
      BY <3>2, <3>3
  <2>11. Len(first) + 1 \in DOMAIN s
    <3> HIDE DEF s
    <3> QED
      BY <2>3, <2>4
  <2> DEFINE k == Len(first) + 1
  <2>12. s[k] = Between
    BY <2>3
  <2> HIDE DEF s, k
  <2>13. /\ Keeps(SubSeq(s, 1, k - 1), conflict[1].ours \o conflict[1].theirs)
         /\ Keeps(SubSeq(s, k + 1, Len(s)), conflict[2].ours \o conflict[2].theirs)
    BY <2>8, <2>9, <2>10 DEF k
  <2>14. k \in DOMAIN s
    BY <2>11 DEF k
  <2> QED
    BY <2>2, <2>12, <2>13, <2>14
<1>4. ResolvedLosesNothing'
  <2>1. conflict' = conflict
    BY <1>1
  <2> QED
    BY <1>3, <2>1 DEF ResolvedLosesNothing
<1>5. merged' \notin {"no", "replacing"}
  BY <1>1
<1> QED
  BY <1>2, <1>4, <1>5 DEF StructuredInv

\* A file that resolveFileConflicts calls resolved has every line of both sides of every
\* conflict, and the line between two conflicts in its place, whatever the lines are: the
\* regions found in the file as it was are replaced from the bottom up.
THEOREM ResolutionLosesNothing == StructuredSpec => []ResolvedLosesNothing
<1>1. StructuredInit => StructuredInv
  BY StructuredInvInit
<1>2. StructuredInv /\ [StructuredNext]_structuredVars => StructuredInv'
  <2> SUFFICES ASSUME StructuredInv, [StructuredNext]_structuredVars PROVE StructuredInv'
    OBVIOUS
  <2>1. CASE FindRegions
    BY <2>1, FindKeepsInv
  <2>2. ASSUME NEW r \in sorted, ReplaceRegion(r) PROVE StructuredInv'
    BY <2>2, ReplaceKeepsInv
  <2>3. CASE WriteResolved
    BY <2>3, WriteKeepsInv
  <2>4. CASE UNCHANGED structuredVars
    <3>1. /\ RegionOf(1)' = RegionOf(1) /\ RegionOf(2)' = RegionOf(2) /\ Regions' = Regions
          /\ \A r : Resolution(r)' = Resolution(r)
          /\ Resolution(RegionOf(1))' = Resolution(RegionOf(1))
          /\ Resolution(RegionOf(2))' = Resolution(RegionOf(2))
      BY <2>4, RegionsStay DEF structuredVars
    <3>2. StructuredTypeOK'
      BY <2>4, <3>1 DEF StructuredInv, StructuredTypeOK, structuredVars
    <3>3. merged' \in {"no", "replacing"} => text' = WithConflicts(conflict')
      BY <2>4 DEF StructuredInv, structuredVars
    <3>4. ASSUME merged' = "replacing"
          PROVE  /\ sorted' \subseteq {RegionOf(1)', RegionOf(2)'}
                 /\ \A r \in sorted' : Resolution(r)' # Refused
                 /\ (\E first, second \in Seq(FileLines) : HalvesStand(first, second))'
      <4>1. /\ sorted \subseteq {RegionOf(1), RegionOf(2)}
            /\ \A r \in sorted : Resolution(r) # Refused
        BY <2>4, <3>4 DEF StructuredInv, structuredVars
      <4>2. PICK first \in Seq(FileLines), second \in Seq(FileLines) : HalvesStand(first, second)
        BY <2>4, <3>4 DEF StructuredInv, structuredVars
      <4>3. HalvesStand(first, second)'
        BY <2>4, <3>1, <4>2 DEF HalvesStand, structuredVars
      <4> QED
        BY <2>4, <3>1, <4>1, <4>3 DEF structuredVars
    <3>5. ResolvedLosesNothing'
      BY <2>4 DEF StructuredInv, ResolvedLosesNothing, structuredVars
    <3> QED
      BY <3>2, <3>3, <3>4, <3>5 DEF StructuredInv
  <2> QED
    BY <2>1, <2>2, <2>3, <2>4 DEF StructuredNext
<1>3. StructuredInv => ResolvedLosesNothing
  BY DEF StructuredInv
<1> QED
  BY <1>1, <1>2, <1>3, PTL DEF StructuredSpec

-----------------------------------------------------------------------------
(* The review of a pull request                                            *)

PairsOf(sets) == UNION {{k} \X sets[k] : k \in DOMAIN sets}

\* One more set adds its elements to the size of all.
LEMMA SizeOfOneMore ==
    ASSUME NEW n \in Nat, NEW f, NEW g, DOMAIN f = 1..n + 1, DOMAIN g = 1..n,
           \A k \in 1..n : g[k] = f[k],
           IsFiniteSet(PairsOf(g)), IsFiniteSet(f[n + 1])
    PROVE  /\ IsFiniteSet(PairsOf(f))
           /\ SizeOfAll(f) = SizeOfAll(g) + Cardinality(f[n + 1])
<1> DEFINE A == PairsOf(g)
           B == {n + 1} \X f[n + 1]
<1>1. PairsOf(f) = A \cup B
  <2>1. ASSUME NEW x \in PairsOf(f) PROVE x \in A \cup B
    <3>1. PICK k \in 1..n + 1 : x \in {k} \X f[k]
      BY <2>1 DEF PairsOf
    <3>2. CASE k = n + 1
      BY <3>1, <3>2
    <3>3. CASE k # n + 1
      <4>1. k \in 1..n
        BY <3>3
      <4> QED
        BY <3>1, <4>1 DEF PairsOf
    <3> QED
      BY <3>2, <3>3
  <2>2. ASSUME NEW x \in A PROVE x \in PairsOf(f)
    <3>1. PICK k \in 1..n : x \in {k} \X g[k]
      BY <2>2 DEF PairsOf
    <3>2. k \in 1..n + 1 /\ g[k] = f[k]
      OBVIOUS
    <3> QED
      BY <3>1, <3>2 DEF PairsOf
  <2>3. ASSUME NEW x \in B PROVE x \in PairsOf(f)
    <3>1. n + 1 \in 1..n + 1
      OBVIOUS
    <3> QED
      BY <2>3, <3>1 DEF PairsOf
  <2> HIDE DEF A, B
  <2> QED
    BY <2>1, <2>2, <2>3
<1>2. A \cap B = {}
  <2> SUFFICES ASSUME NEW x \in A, x \in B PROVE FALSE
    OBVIOUS
  <2>1. PICK k \in 1..n : x \in {k} \X g[k]
    BY DEF PairsOf
  <2>2. x[1] = k /\ x[1] = n + 1
    BY <2>1
  <2> QED
    BY <2>2
<1>3. IsFiniteSet(B) /\ Cardinality(B) = Cardinality(f[n + 1])
  <2> DEFINE D == f[n + 1]
  <2>1. IsFiniteSet({n + 1}) /\ Cardinality({n + 1}) = 1
    BY FS_Singleton
  <2>2. IsFiniteSet(D) /\ Cardinality(D) \in Nat
    BY FS_CardinalityType
  <2> HIDE DEF D
  <2>3. IsFiniteSet({n + 1} \X D) /\ Cardinality({n + 1} \X D) = Cardinality({n + 1}) * Cardinality(D)
    BY <2>1, <2>2, FS_Product
  <2>4. 1 * Cardinality(D) = Cardinality(D)
    BY <2>2
  <2> QED
    BY <2>1, <2>3, <2>4 DEF D
<1>4. IsFiniteSet(A) /\ Cardinality(A) \in Nat
  BY FS_CardinalityType
<1>5. /\ IsFiniteSet(A \cup B)
      /\ Cardinality(A \cup B) = Cardinality(A) + Cardinality(B) - Cardinality(A \cap B)
  <2> HIDE DEF A, B
  <2> QED
    BY <1>3, <1>4, FS_Union
<1>6. Cardinality(A \cap B) = 0
  BY <1>2, FS_EmptySet
<1>7. SizeOfAll(f) = Cardinality(PairsOf(f)) /\ SizeOfAll(g) = Cardinality(A)
  BY DEF SizeOfAll, PairsOf
<1> HIDE DEF A, B
<1>8. Cardinality(f[n + 1]) \in Nat
  BY FS_CardinalityType
<1> QED
  BY <1>1, <1>3, <1>4, <1>5, <1>6, <1>7, <1>8

LEMMA NoSetsNoSize ==
    ASSUME NEW f, DOMAIN f = {}
    PROVE  IsFiniteSet(PairsOf(f)) /\ SizeOfAll(f) = 0
<1>1. PairsOf(f) = {}
  BY DEF PairsOf
<1> QED
  BY <1>1, FS_EmptySet DEF SizeOfAll, PairsOf

-----------------------------------------------------------------------------

FilesOf(cs) == [n \in DOMAIN cs |-> DOMAIN cs[n]]
ChangesOf(chunk) == [k \in DOMAIN chunk |-> Changed(files[chunk[k]])]

LEMMA ChangedIsFinite ==
    ASSUME PrReviewTypeOK, NEW f \in DOMAIN files
    PROVE  IsFiniteSet(Changed(files[f])) /\ Size(f) \in Nat
<1>1. files \in UNION {[1..m -> Patches] : m \in 0..MaxFiles}
  BY DEF PrReviewTypeOK, BoundedSeq, SeqOf
<1>2. files[f] \in Seq(PatchLines)
  BY <1>1, PrReviewAssumption
<1>3. DOMAIN files[f] = 1..Len(files[f]) /\ Len(files[f]) \in Nat
  BY <1>2, LenProperties
<1>4. IsFiniteSet(1..Len(files[f]))
  BY <1>3, FS_Interval
<1>5. Changed(files[f]) \in SUBSET (1..Len(files[f]))
  BY <1>3 DEF Changed
<1> QED
  BY <1>4, <1>5, FS_Subset, FS_CardinalityType DEF Size
LEMMA FrontOfAppend ==
    ASSUME NEW S, NEW s \in Seq(S), NEW e \in S, NEW m \in 1..Len(s) + 1
    PROVE  SubSeq(Append(s, e), 1, m - 1) = SubSeq(s, 1, m - 1)
<1> DEFINE t == Append(s, e)
           a == SubSeq(t, 1, m - 1)
           b == SubSeq(s, 1, m - 1)
<1>1. Len(s) \in Nat /\ \A i \in 1..Len(s) : s[i] \in S
  BY LenProperties, ElementOfSeq
<1>2. t \in Seq(S) /\ \A i \in 1..Len(s) : t[i] = s[i]
  BY AppendProperties
<1> HIDE DEF t
<1>3. 1 \in Int /\ m - 1 \in Int /\ \A i \in 1..m - 1 : i \in 1..Len(s)
  BY <1>1
<1>4. \A i \in 1..m - 1 : s[i] \in S /\ t[i] \in S
  BY <1>1, <1>2, <1>3
<1>5. /\ a \in Seq(S) /\ Len(a) = IF 1 <= m - 1 THEN m - 1 - 1 + 1 ELSE 0
      /\ \A i \in 1..m - 1 - 1 + 1 : a[i] = t[1 + i - 1]
  BY <1>3, <1>4, SubSeqProperties
<1>6. /\ b \in Seq(S) /\ Len(b) = IF 1 <= m - 1 THEN m - 1 - 1 + 1 ELSE 0
      /\ \A i \in 1..m - 1 - 1 + 1 : b[i] = s[1 + i - 1]
  BY <1>3, <1>4, SubSeqProperties
<1> HIDE DEF a, b
<1>7. Len(a) = Len(b) /\ Len(a) = m - 1
  BY <1>1, <1>5, <1>6
<1>8. ASSUME NEW i \in 1..Len(a) PROVE a[i] = b[i]
  <2>1. i \in 1..m - 1 - 1 + 1 /\ 1 + i - 1 = i /\ i \in 1..Len(s)
    BY <1>1, <1>7
  <2> QED
    BY <1>2, <1>5, <1>6, <2>1
<1>9. a = b
  BY <1>5, <1>6, <1>7, <1>8, SeqEqual
<1> QED
  BY <1>9 DEF a, b, t

\* Chunks hold the first n fetched files, in their order, and keep to the limits.
InLimits(chunk) ==
    /\ Len(chunk) \in 1..ChunkFiles
    /\ Len(chunk) = 1 \/ ChangedIn(chunk) <= ChunkLines
Packs(cs, n) ==
    /\ cs \in Seq(Seq(DOMAIN files))
    /\ IsFiniteSet(PairsOf(FilesOf(cs))) /\ FilesIn(cs) = n
    /\ \A m \in DOMAIN cs :
          /\ \A j \in DOMAIN cs[m] : cs[m][j] = fetched[FilesIn(SubSeq(cs, 1, m - 1)) + j]
          /\ InLimits(cs[m])

\* The files of a group follow the first n.
Follows(g, n) == g \in Seq(DOMAIN files) /\ \A j \in DOMAIN g : g[j] = fetched[n + j]

LEMMA FilesOfOneMore ==
    ASSUME NEW cs \in Seq(Seq(DOMAIN files)), NEW g \in Seq(DOMAIN files),
           IsFiniteSet(PairsOf(FilesOf(cs)))
    PROVE  /\ IsFiniteSet(PairsOf(FilesOf(Append(cs, g))))
           /\ FilesIn(Append(cs, g)) = FilesIn(cs) + Len(g)
<1> DEFINE ds == Append(cs, g)
           n == Len(cs)
<1>1. n \in Nat /\ DOMAIN cs = 1..n /\ Len(g) \in Nat /\ DOMAIN g = 1..Len(g)
  BY LenProperties
<1>2. /\ ds \in Seq(Seq(DOMAIN files)) /\ Len(ds) = n + 1
      /\ \A m \in 1..n : ds[m] = cs[m]
      /\ ds[n + 1] = g
  BY AppendProperties
<1> HIDE DEF ds
<1>3. DOMAIN ds = 1..n + 1
  BY <1>2, LenProperties
<1> HIDE DEF n
<1>4. DOMAIN FilesOf(ds) = 1..n + 1 /\ DOMAIN FilesOf(cs) = 1..n
  BY <1>1, <1>3 DEF FilesOf
<1>5. \A m \in 1..n : FilesOf(cs)[m] = FilesOf(ds)[m]
  BY <1>1, <1>2, <1>3 DEF FilesOf
<1>6. FilesOf(ds)[n + 1] = 1..Len(g)
  BY <1>1, <1>2, <1>3 DEF FilesOf
<1>7. IsFiniteSet(1..Len(g)) /\ Cardinality(1..Len(g)) = Len(g)
  <2>1. 1 \in Int /\ Len(g) \in Int
    BY <1>1
  <2>2. IsFiniteSet(1..Len(g)) /\ Cardinality(1..Len(g)) = IF 1 > Len(g) THEN 0 ELSE Len(g) - 1 + 1
    BY <2>1, FS_Interval
  <2> QED
    BY <1>1, <2>2
<1>8. /\ IsFiniteSet(PairsOf(FilesOf(ds)))
      /\ SizeOfAll(FilesOf(ds)) = SizeOfAll(FilesOf(cs)) + Cardinality(FilesOf(ds)[n + 1])
  <2>1. IsFiniteSet(FilesOf(ds)[n + 1])
    BY <1>6, <1>7
  <2> QED
    BY <1>1, <1>4, <1>5, <2>1, SizeOfOneMore
<1>9. FilesIn(ds) = SizeOfAll(FilesOf(ds)) /\ FilesIn(cs) = SizeOfAll(FilesOf(cs))
  BY DEF FilesIn, FilesOf
<1> QED
  BY <1>6, <1>7, <1>8, <1>9 DEF ds

LEMMA PackedNone == Packs(<<>>, 0)
<1>1. DOMAIN FilesOf(<<>>) = {}
  BY DEF FilesOf
<1>2. IsFiniteSet(PairsOf(FilesOf(<<>>))) /\ SizeOfAll(FilesOf(<<>>)) = 0
  BY <1>1, NoSetsNoSize
<1>3. FilesIn(<<>>) = SizeOfAll(FilesOf(<<>>))
  BY DEF FilesIn, FilesOf
<1> QED
  BY <1>2, <1>3 DEF Packs

LEMMA PackedOneMore ==
    ASSUME NEW cs, NEW n \in Nat, NEW g, Packs(cs, n), Follows(g, n), InLimits(g)
    PROVE  Packs(Append(cs, g), n + Len(g))
<1> DEFINE ds == Append(cs, g)
           l == Len(cs)
<1>1. cs \in Seq(Seq(DOMAIN files)) /\ g \in Seq(DOMAIN files)
  BY DEF Packs, Follows
<1>2. l \in Nat /\ DOMAIN cs = 1..l
  BY <1>1, LenProperties
<1>3. /\ ds \in Seq(Seq(DOMAIN files)) /\ Len(ds) = l + 1
      /\ \A m \in 1..l : ds[m] = cs[m]
      /\ ds[l + 1] = g
  BY <1>1, AppendProperties
<1>4. IsFiniteSet(PairsOf(FilesOf(ds))) /\ FilesIn(ds) = n + Len(g)
  BY <1>1, FilesOfOneMore DEF Packs
<1>5. \A m \in 1..l + 1 : SubSeq(ds, 1, m - 1) = SubSeq(cs, 1, m - 1)
  BY <1>1, <1>2, FrontOfAppend
<1>6. SubSeq(cs, 1, l) = cs
  BY <1>1, SubSeqFull
<1> HIDE DEF ds
<1>7. DOMAIN ds = 1..l + 1
  BY <1>3, LenProperties
<1> HIDE DEF l
<1>8. ASSUME NEW m \in DOMAIN ds
      PROVE  /\ \A j \in DOMAIN ds[m] : ds[m][j] = fetched[FilesIn(SubSeq(ds, 1, m - 1)) + j]
             /\ InLimits(ds[m])
  <2>1. CASE m \in 1..l
    <3>1. ds[m] = cs[m] /\ SubSeq(ds, 1, m - 1) = SubSeq(cs, 1, m - 1) /\ m \in DOMAIN cs
      BY <1>2, <1>3, <1>5, <1>7, <2>1
    <3> QED
      BY <3>1 DEF Packs
  <2>2. CASE m = l + 1
    <3>1. ds[m] = g /\ m - 1 = l
      BY <1>2, <1>3, <2>2
    <3>2. SubSeq(ds, 1, m - 1) = cs
      BY <1>5, <1>6, <1>7, <3>1
    <3>3. FilesIn(cs) = n
      BY DEF Packs
    <3> QED
      BY <3>1, <3>2, <3>3 DEF Follows
  <2> QED
    BY <1>2, <1>7, <2>1, <2>2
<1>9. Packs(ds, n + Len(g))
  BY <1>3, <1>4, <1>8 DEF Packs
<1> QED
  BY <1>9 DEF ds

LEMMA ChangedInNone == IsFiniteSet(PairsOf(ChangesOf(<<>>))) /\ ChangedIn(<<>>) = 0
<1>1. DOMAIN ChangesOf(<<>>) = {}
  BY DEF ChangesOf
<1>2. IsFiniteSet(PairsOf(ChangesOf(<<>>))) /\ SizeOfAll(ChangesOf(<<>>)) = 0
  BY <1>1, NoSetsNoSize
<1>3. ChangedIn(<<>>) = SizeOfAll(ChangesOf(<<>>))
  BY DEF ChangedIn, ChangesOf
<1> QED
  BY <1>2, <1>3

LEMMA ChangedInOneMore ==
    ASSUME PrReviewTypeOK, NEW g \in Seq(DOMAIN files), NEW f \in DOMAIN files,
           IsFiniteSet(PairsOf(ChangesOf(g)))
    PROVE  /\ IsFiniteSet(PairsOf(ChangesOf(Append(g, f))))
           /\ ChangedIn(Append(g, f)) = ChangedIn(g) + Size(f)
<1> DEFINE h == Append(g, f)
           n == Len(g)
<1>1. n \in Nat /\ DOMAIN g = 1..n
  BY LenProperties
<1>2. /\ h \in Seq(DOMAIN files) /\ Len(h) = n + 1
      /\ \A m \in 1..n : h[m] = g[m]
      /\ h[n + 1] = f
  BY AppendProperties
<1> HIDE DEF h
<1>3. DOMAIN h = 1..n + 1
  BY <1>2, LenProperties
<1> HIDE DEF n
<1>4. DOMAIN ChangesOf(h) = 1..n + 1 /\ DOMAIN ChangesOf(g) = 1..n
  BY <1>1, <1>3 DEF ChangesOf
<1>5. \A m \in 1..n : ChangesOf(g)[m] = ChangesOf(h)[m]
  BY <1>1, <1>2, <1>3 DEF ChangesOf
<1>6. ChangesOf(h)[n + 1] = Changed(files[f])
  BY <1>1, <1>2, <1>3 DEF ChangesOf
<1>7. IsFiniteSet(Changed(files[f])) /\ Cardinality(Changed(files[f])) = Size(f)
  BY ChangedIsFinite DEF Size
<1>8. /\ IsFiniteSet(PairsOf(ChangesOf(h)))
      /\ SizeOfAll(ChangesOf(h)) = SizeOfAll(ChangesOf(g)) + Cardinality(ChangesOf(h)[n + 1])
  <2>1. IsFiniteSet(ChangesOf(h)[n + 1])
    BY <1>6, <1>7
  <2> QED
    BY <1>1, <1>4, <1>5, <2>1, SizeOfOneMore
<1>9. ChangedIn(h) = SizeOfAll(ChangesOf(h)) /\ ChangedIn(g) = SizeOfAll(ChangesOf(g))
  BY DEF ChangedIn, ChangesOf
<1> QED
  BY <1>6, <1>7, <1>8, <1>9 DEF h
-----------------------------------------------------------------------------

PlacesUpTo(p, n) == {i \in Places(p) : i <= n}

\* The line map of the first n lines of a patch has what each place of them must have.
MapHolds(m, p, n) ==
    /\ m \in Seq(Nat) /\ Len(m) = Cardinality(PlacesUpTo(p, n))
    /\ \A i \in PlacesUpTo(p, n) : m[Rank(PlacesUpTo(p, n), i)] = NewLine(p, i)

\* What buildLineMap knows when it comes to line i: the number of the new file's line
\* that would stand there.
NextAt(p, i) ==
    p[HunkOf(p, i)].start + Cardinality({l \in HunkOf(p, i)..i - 1 : p[l].sign \in Kept})
ScanHolds(p, i, inHunk, next) ==
    /\ inHunk <=> \E h \in DOMAIN p : HeaderBefore(p, i, h)
    /\ inHunk => next = NextAt(p, i)

LEMMA HunkIsLastHeader ==
    ASSUME NEW p \in Seq(PatchLines), NEW i \in 1..Len(p) + 1,
           \E h \in DOMAIN p : HeaderBefore(p, i, h)
    PROVE  /\ HunkOf(p, i) \in DOMAIN p /\ HeaderBefore(p, i, HunkOf(p, i))
           /\ \A h \in DOMAIN p : HeaderBefore(p, i, h) => h <= HunkOf(p, i)
<1> DEFINE S == {h \in DOMAIN p : HeaderBefore(p, i, h)}
<1>1. Len(p) \in Nat /\ DOMAIN p = 1..Len(p)
  BY LenProperties
<1>2. S \in SUBSET (1..Len(p)) /\ S # {}
  BY <1>1
<1>3. PICK m \in S : \A h \in S : h <= m
  <2> HIDE DEF S
  <2> QED
    BY <1>1, <1>2, GreatestPosition
<1> QED
  BY <1>3 DEF HunkOf

LEMMA HunkIsUnique ==
    ASSUME NEW p \in Seq(PatchLines), NEW i \in 1..Len(p) + 1,
           NEW g \in DOMAIN p, HeaderBefore(p, i, g),
           \A h \in DOMAIN p : HeaderBefore(p, i, h) => h <= g
    PROVE  HunkOf(p, i) = g
<1>1. Len(p) \in Nat /\ DOMAIN p = 1..Len(p)
  BY LenProperties
<1>2. /\ HunkOf(p, i) \in DOMAIN p /\ HeaderBefore(p, i, HunkOf(p, i))
      /\ g <= HunkOf(p, i) /\ HunkOf(p, i) <= g
  BY HunkIsLastHeader
<1> QED
  BY <1>1, <1>2

LEMMA ScanStarts ==
    ASSUME NEW p \in Seq(PatchLines)
    PROVE  ScanHolds(p, 1, FALSE, 0) /\ PlacesUpTo(p, 0) = {} /\ MapHolds(<<>>, p, 0)
<1>1. ~\E h \in DOMAIN p : HeaderBefore(p, 1, h)
  BY DEF HeaderBefore
<1>2. PlacesUpTo(p, 0) = {}
  <2> SUFFICES ASSUME NEW i \in Places(p), i <= 0 PROVE FALSE
    BY DEF PlacesUpTo
  <2>1. i \in 1..Len(p)
    BY LenProperties DEF Places
  <2> QED
    BY <2>1
<1>3. MapHolds(<<>>, p, 0)
  <2>1. Cardinality(PlacesUpTo(p, 0)) = 0
    BY <1>2, FS_EmptySet
  <2>2. <<>> \in Seq(Nat) /\ Len(<<>>) = 0
    OBVIOUS
  <2>3. \A i \in PlacesUpTo(p, 0) : <<>>[Rank(PlacesUpTo(p, 0), i)] = NewLine(p, i)
    BY <1>2
  <2> QED
    BY <2>1, <2>2, <2>3 DEF MapHolds
<1> QED
  BY <1>1, <1>2, <1>3 DEF ScanHolds

\* A line that is no header leaves its hunk the last one.
LEMMA SameHunk ==
    ASSUME NEW p \in Seq(PatchLines), NEW i \in 1..Len(p), p[i].sign # Header
    PROVE  /\ \A h \in DOMAIN p : HeaderBefore(p, i + 1, h) <=> HeaderBefore(p, i, h)
           /\ (\E h \in DOMAIN p : HeaderBefore(p, i, h)) => HunkOf(p, i + 1) = HunkOf(p, i)
<1>1. Len(p) \in Nat /\ DOMAIN p = 1..Len(p) /\ i \in Nat
  BY LenProperties
<1>2. ASSUME NEW h \in DOMAIN p PROVE HeaderBefore(p, i + 1, h) <=> HeaderBefore(p, i, h)
  <2>1. h \in 1..(i + 1) - 1 <=> (h \in 1..i - 1 \/ h = i)
    BY <1>1
  <2> QED
    BY <2>1 DEF HeaderBefore
<1>3. ASSUME \E h \in DOMAIN p : HeaderBefore(p, i, h) PROVE HunkOf(p, i + 1) = HunkOf(p, i)
  <2>1. i \in 1..Len(p) + 1 /\ i + 1 \in 1..Len(p) + 1
    BY <1>1
  <2>2. /\ HunkOf(p, i) \in DOMAIN p /\ HeaderBefore(p, i, HunkOf(p, i))
        /\ \A h \in DOMAIN p : HeaderBefore(p, i, h) => h <= HunkOf(p, i)
    BY <1>3, <2>1, HunkIsLastHeader
  <2>3. /\ HeaderBefore(p, i + 1, HunkOf(p, i))
        /\ \A h \in DOMAIN p : HeaderBefore(p, i + 1, h) => h <= HunkOf(p, i)
    BY <1>2, <2>2
  <2> QED
    BY <2>1, <2>2, <2>3, HunkIsUnique
<1> QED
  BY <1>2, <1>3

LEMMA ScanOverHeader ==
    ASSUME NEW p \in Seq(PatchLines), NEW i \in 1..Len(p), p[i].sign = Header
    PROVE  ScanHolds(p, i + 1, TRUE, p[i].start)
<1>1. Len(p) \in Nat /\ DOMAIN p = 1..Len(p) /\ i \in Nat /\ i + 1 \in 1..Len(p) + 1
  BY LenProperties
<1>2. (i + 1) - 1 = i
  BY <1>1
<1>3. i \in DOMAIN p /\ HeaderBefore(p, i + 1, i)
  BY <1>1, <1>2 DEF HeaderBefore
<1>4. \A h \in DOMAIN p : HeaderBefore(p, i + 1, h) => h <= i
  BY <1>1, <1>2 DEF HeaderBefore
<1>5. HunkOf(p, i + 1) = i
  BY <1>1, <1>3, <1>4, HunkIsUnique
<1>6. {l \in i..i : p[l].sign \in Kept} = {}
  <2>1. Header \notin Kept
    BY DEF Kept, Header
  <2>2. \A l \in i..i : l = i
    BY <1>1
  <2> QED
    BY <2>1, <2>2
<1>7. p[i] \in PatchLines
  BY ElementOfSeq
<1>8. NextAt(p, i + 1) = p[i].start
  <2>1. Cardinality({l \in i..i : p[l].sign \in Kept}) = 0
    BY <1>6, FS_EmptySet
  <2>2. p[i].start \in Nat
    BY <1>7 DEF PatchLines
  <2>3. NextAt(p, i + 1) = p[i].start + Cardinality({l \in i..i : p[l].sign \in Kept})
    BY <1>2, <1>5 DEF NextAt
  <2> QED
    BY <2>1, <2>2, <2>3
<1> QED
  BY <1>3, <1>8 DEF ScanHolds

\* A line of the new file, in a hunk, brings the number on; other lines do not.
LEMMA ScanOverLine ==
    ASSUME NEW p \in Seq(PatchLines), NEW i \in 1..Len(p), p[i].sign # Header,
           NEW inHunk \in BOOLEAN, NEW next \in Nat, ScanHolds(p, i, inHunk, next)
    PROVE  /\ inHunk /\ p[i].sign \in Kept => ScanHolds(p, i + 1, TRUE, next + 1)
           /\ ~inHunk \/ p[i].sign \notin Kept => ScanHolds(p, i + 1, inHunk, next)
<1>1. Len(p) \in Nat /\ DOMAIN p = 1..Len(p) /\ i \in Nat
  BY LenProperties
<1>2. inHunk <=> \E h \in DOMAIN p : HeaderBefore(p, i + 1, h)
  BY SameHunk DEF ScanHolds
<1>3. ASSUME inHunk
      PROVE  NextAt(p, i + 1) = IF p[i].sign \in Kept THEN next + 1 ELSE next
  <2> DEFINE h == HunkOf(p, i)
             A == {l \in h..i - 1 : p[l].sign \in Kept}
             B == {l \in h..(i + 1) - 1 : p[l].sign \in Kept}
  <2>1. \E g \in DOMAIN p : HeaderBefore(p, i, g)
    BY <1>3 DEF ScanHolds
  <2>2. HunkOf(p, i + 1) = h
    BY <2>1, SameHunk
  <2>3. h \in DOMAIN p /\ h \in 1..i - 1
    <3>1. i \in 1..Len(p) + 1
      BY <1>1
    <3> QED
      BY <2>1, <3>1, HunkIsLastHeader DEF HeaderBefore
  <2>4. next = p[h].start + Cardinality(A) /\ NextAt(p, i + 1) = p[h].start + Cardinality(B)
    BY <1>3, <2>2 DEF ScanHolds, NextAt
  <2> HIDE DEF h
  <2>5. p[h] \in PatchLines
    BY <1>1, <2>3, ElementOfSeq
  <2>6. p[h].start \in Nat
    BY <2>5 DEF PatchLines
  <2>7. IsFiniteSet(A) /\ Cardinality(A) \in Nat /\ i \notin A
    <3>1. h \in Int /\ i - 1 \in Int
      BY <1>1, <2>3
    <3>2. IsFiniteSet(h..i - 1)
      BY <3>1, FS_Interval
    <3>3. A \in SUBSET (h..i - 1)
      OBVIOUS
    <3>4. IsFiniteSet(A)
      BY <3>2, <3>3, FS_Subset
    <3>5. i \notin A
      BY <1>1, <2>3
    <3> QED
      BY <3>4, <3>5, FS_CardinalityType
  <2>8. B = IF p[i].sign \in Kept THEN A \cup {i} ELSE A
    <3>1. \A l : l \in h..(i + 1) - 1 <=> (l \in h..i - 1 \/ l = i)
      BY <1>1, <2>3
    <3>2. \A l : l \in B <=> (l \in A \/ (l = i /\ p[i].sign \in Kept))
      BY <3>1
    <3> HIDE DEF A, B
    <3>3. CASE p[i].sign \in Kept
      BY <3>2, <3>3
    <3>4. CASE p[i].sign \notin Kept
      BY <3>2, <3>4
    <3> QED
      BY <3>3, <3>4
  <2> HIDE DEF A, B
  <2>9. Cardinality(A \cup {i}) = Cardinality(A) + 1
    BY <2>7, FS_AddElement
  <2>10. Cardinality(B) = Cardinality(A) + (IF p[i].sign \in Kept THEN 1 ELSE 0)
    <3>1. CASE p[i].sign \in Kept
      BY <2>8, <2>9, <3>1
    <3>2. CASE p[i].sign \notin Kept
      BY <2>7, <2>8, <3>2
    <3> QED
      BY <3>1, <3>2
  <2> DEFINE d == Cardinality(A)
             e == Cardinality(B)
             a == p[h].start
  <2>11. d \in Nat /\ a \in Nat /\ next = a + d /\ NextAt(p, i + 1) = a + e
         /\ e = d + (IF p[i].sign \in Kept THEN 1 ELSE 0)
    BY <2>4, <2>6, <2>7, <2>10
  <2> HIDE DEF a, d, e
  <2> QED
    BY <2>11
<1> QED
  BY <1>2, <1>3 DEF ScanHolds
LEMMA PlacesAreLines ==
    ASSUME NEW p \in Seq(PatchLines), NEW n \in Int
    PROVE  /\ PlacesUpTo(p, n) \in SUBSET (1..Len(p)) /\ Len(p) \in Nat
           /\ PlacesUpTo(p, Len(p)) = Places(p)
<1>1. Len(p) \in Nat /\ DOMAIN p = 1..Len(p)
  BY LenProperties
<1>2. Places(p) \in SUBSET (1..Len(p))
  BY <1>1 DEF Places
<1>3. \A i \in Places(p) : i <= Len(p)
  BY <1>1, <1>2
<1> QED
  BY <1>1, <1>2, <1>3 DEF PlacesUpTo

\* A line map goes on with a line that is no place as it is.
LEMMA MapStays ==
    ASSUME NEW p \in Seq(PatchLines), NEW i \in 1..Len(p), i \notin Places(p),
           NEW m, MapHolds(m, p, i - 1)
    PROVE  MapHolds(m, p, i)
<1>1. i \in Nat /\ \A j \in Places(p) : j \in Nat
  BY LenProperties DEF Places
<1>2. \A j \in Places(p) : j <= i <=> j <= i - 1
  BY <1>1
<1>3. PlacesUpTo(p, i) = PlacesUpTo(p, i - 1)
  BY <1>2 DEF PlacesUpTo
<1> QED
  BY <1>3 DEF MapHolds

\* ... and with a place it gets one more line, of which the others' ranks know nothing.
LEMMA MapGrows ==
    ASSUME NEW p \in Seq(PatchLines), NEW i \in 1..Len(p), i \in Places(p),
           NEW m, MapHolds(m, p, i - 1), NEW l \in Nat, NewLine(p, i) = l
    PROVE  MapHolds(Append(m, l), p, i)
<1> DEFINE A == PlacesUpTo(p, i - 1)
           B == PlacesUpTo(p, i)
           c == Cardinality(A)
           q == Append(m, l)
<1>1. i \in Nat /\ \A j \in Places(p) : j \in Nat
  BY LenProperties DEF Places
<1>2. \A j \in Places(p) : j <= i <=> (j <= i - 1 \/ j = i)
  BY <1>1
<1>3. B = A \cup {i} /\ i \notin A /\ \A j \in A : j \in Nat /\ j < i
  <2>1. \A j : j \in A <=> j \in Places(p) /\ j <= i - 1
    BY DEF PlacesUpTo
  <2>2. \A j : j \in B <=> j \in Places(p) /\ j <= i
    BY DEF PlacesUpTo
  <2>3. \A j : j \in B <=> j \in A \/ j = i
    BY <1>2, <2>1, <2>2
  <2> HIDE DEF A, B
  <2>4. ASSUME NEW j \in A PROVE j \in Nat /\ j < i
    <3>1. j \in Nat /\ i \in Nat /\ j <= i - 1
      BY <1>1, <2>1
    <3> QED
      BY <3>1
  <2>5. B = A \cup {i}
    BY <2>3
  <2> QED
    BY <1>1, <2>4, <2>5
<1>4. A \in SUBSET (1..Len(p)) /\ Len(p) \in Nat
  <2>1. i - 1 \in Int
    BY <1>1
  <2> QED
    BY <2>1, PlacesAreLines
<1>5. m \in Seq(Nat) /\ Len(m) = c /\ \A j \in A : m[Rank(A, j)] = NewLine(p, j)
  BY DEF MapHolds
<1> HIDE DEF A, B
<1>6. IsFiniteSet(A) /\ c \in Nat /\ \A j \in A : Rank(A, j) \in 1..c
  <2> DEFINE z == Len(p)
  <2>1. z \in Nat /\ A \in SUBSET (1..z)
    BY <1>4
  <2> HIDE DEF z
  <2> QED
    BY <2>1, RanksAreDistinct
<1>7. Cardinality(B) = c + 1
  BY <1>3, <1>6, FS_AddElement
<1>8. q \in Seq(Nat) /\ Len(q) = c + 1 /\ (\A k \in 1..c : q[k] = m[k]) /\ q[c + 1] = l
  <2>1. m \in Seq(Nat) /\ l \in Nat
    BY <1>5
  <2>2. q \in Seq(Nat) /\ Len(q) = Len(m) + 1 /\ (\A k \in 1..Len(m) : q[k] = m[k]) /\ q[Len(m) + 1] = l
    BY <2>1, AppendProperties
  <2> QED
    BY <1>5, <2>2
<1> HIDE DEF c, q
<1>9. ASSUME NEW j \in B PROVE q[Rank(B, j)] = NewLine(p, j)
  <2>1. CASE j \in A
    <3>1. {k \in B : k <= j} = {k \in A : k <= j}
      BY <1>1, <1>3, <2>1
    <3>2. Rank(B, j) = Rank(A, j)
      BY <3>1 DEF Rank
    <3> QED
      BY <1>5, <1>6, <1>8, <2>1, <3>2
  <2>2. CASE j = i
    <3>1. {k \in B : k <= j} = B
      <4>1. \A k \in B : k <= j
        BY <1>1, <1>3, <2>2
      <4> QED
        BY <4>1
    <3>2. Rank(B, j) = c + 1
      BY <1>7, <3>1 DEF Rank
    <3> QED
      BY <1>8, <2>2, <3>2
  <2> QED
    BY <1>3, <2>1, <2>2
<1> QED
  BY <1>7, <1>8, <1>9 DEF MapHolds, B, q, c

\* In a hunk, a line but a header or a note is a place, and has the number of a line of
\* the new file if it is one.
LEMMA PlaceInHunk ==
    ASSUME NEW p \in Seq(PatchLines), NEW i \in 1..Len(p),
           NEW inHunk \in BOOLEAN, NEW next \in Nat, ScanHolds(p, i, inHunk, next)
    PROVE  /\ i \in Places(p) <=> inHunk /\ p[i].sign \notin {Header, Aside}
           /\ inHunk => NewLine(p, i) = IF p[i].sign \in Kept THEN next ELSE 0
<1>1. DOMAIN p = 1..Len(p)
  BY LenProperties
<1>2. i \in Places(p) <=> inHunk /\ p[i].sign \notin {Header, Aside}
  BY <1>1 DEF Places, ScanHolds
<1>3. inHunk => NewLine(p, i) = IF p[i].sign \in Kept THEN next ELSE 0
  BY DEF NewLine, NextAt, ScanHolds
<1> QED
  BY <1>2, <1>3

\* The line map of a whole patch brings a place to its line.
LEMMA MapBringsPlaces ==
    ASSUME NEW p \in Seq(PatchLines), NEW m, MapHolds(m, p, Len(p)), NEW k \in DOMAIN m
    PROVE  m[k] = NewLine(p, PositionAt(Places(p), k))
<1>1. Places(p) \in SUBSET (1..Len(p)) /\ Len(p) \in Nat /\ PlacesUpTo(p, Len(p)) = Places(p)
  <2>1. Len(p) \in Int
    BY LenProperties
  <2> QED
    BY <2>1, PlacesAreLines
<1>2. /\ m \in Seq(Nat) /\ Len(m) = Cardinality(Places(p))
      /\ \A i \in Places(p) : m[Rank(Places(p), i)] = NewLine(p, i)
  BY <1>1 DEF MapHolds
<1>3. k \in 1..Cardinality(Places(p))
  BY <1>2, LenProperties
<1>4. PositionAt(Places(p), k) \in Places(p) /\ Rank(Places(p), PositionAt(Places(p), k)) = k
  BY <1>1, <1>3, PositionOfRank
<1> QED
  BY <1>2, <1>4
-----------------------------------------------------------------------------

PrStageInv ==
    /\ prStage = "no" => page = 0
    /\ prStage = "fetch" => page \in 1..MaxPages
    /\ page <= 1 => fetched = <<>>
    /\ prStage \in {"no", "fetch"} =>
          chunks = <<>> /\ packed = 0 /\ group = <<>> /\ groupLines = 0
    /\ prStage # "read" => unread = {} /\ comments = {}

\* The chunks hold the files before the open group, and the group those after them.
PackedSo(cs, g, lines, n) ==
    /\ Len(g) <= n /\ Len(g) <= ChunkFiles
    /\ Packs(cs, n - Len(g)) /\ Follows(g, n - Len(g))
    /\ IsFiniteSet(PairsOf(ChangesOf(g))) /\ ChangedIn(g) = lines /\ lines \in 0..ChunkLines
PackInv ==
    /\ prStage = "chunk" => PackedSo(chunks, group, groupLines, packed)
    /\ prStage \in {"map", "read"} =>
          group = <<>> /\ groupLines = 0 /\ Packs(chunks, Len(fetched))

\* The patches before the one that is read have their maps, and it has that of the lines
\* before the one it is read to.
MapInv ==
    /\ prStage \in {"map", "read"} => Len(lineMaps) = Len(fetched)
    /\ prStage = "map" =>
          /\ scan.file \in 1..Len(fetched) + 1
          /\ \A k \in DOMAIN fetched :
                /\ k < scan.file => MapHolds(lineMaps[k], PatchOf(k), Len(PatchOf(k)))
                /\ k = scan.file =>
                      /\ scan.line \in 1..Len(PatchOf(k)) + 1
                      /\ MapHolds(lineMaps[k], PatchOf(k), scan.line - 1)
                      /\ ScanHolds(PatchOf(k), scan.line, scan.inHunk, scan.next)
                /\ k > scan.file => lineMaps[k] = <<>>
    /\ prStage = "read" =>
          \A k \in DOMAIN fetched : MapHolds(lineMaps[k], PatchOf(k), Len(PatchOf(k)))

PrInv == PrReviewTypeOK /\ PrStageInv /\ PackInv /\ MapInv /\ CommentsHitTheirLines

LEMMA PatchesAreLines ==
    ASSUME PrReviewTypeOK
    PROVE  /\ \A f \in DOMAIN files : files[f] \in Seq(PatchLines)
           /\ \A k \in DOMAIN fetched : fetched[k] \in DOMAIN files /\ PatchOf(k) \in Seq(PatchLines)
           /\ DOMAIN fetched = 1..Len(fetched) /\ Len(fetched) \in Nat
<1>1. files \in UNION {[1..m -> Patches] : m \in 0..MaxFiles}
  BY DEF PrReviewTypeOK, BoundedSeq, SeqOf
<1>2. \A f \in DOMAIN files : files[f] \in Seq(PatchLines)
  BY <1>1, PrReviewAssumption
<1>3. fetched \in Seq(DOMAIN files)
  BY DEF PrReviewTypeOK
<1>4. DOMAIN fetched = 1..Len(fetched) /\ Len(fetched) \in Nat
  BY <1>3, LenProperties
<1>5. \A k \in DOMAIN fetched : fetched[k] \in DOMAIN files
  BY <1>3, <1>4, ElementOfSeq
<1> QED
  BY <1>2, <1>4, <1>5 DEF PatchOf

LEMMA PrInvInit == PrReviewInit => PrInv
<1> SUFFICES ASSUME PrReviewInit PROVE PrInv
  OBVIOUS
<1> USE DEF PrReviewInit
<1>1. files \in BoundedSeq(Patches, MaxFiles)
  <2>1. <<>> \in [1..0 -> Patches] /\ 0 \in 0..MaxFiles
    BY PrReviewAssumption
  <2> QED
    BY <2>1 DEF BoundedSeq, SeqOf
<1>2. scan \in [file : Nat, line : Nat, inHunk : BOOLEAN, next : Nat]
  BY DEF ToRead
<1>3. PrReviewTypeOK
  <2>1. fetched \in Seq(DOMAIN files) /\ group \in Seq(DOMAIN files) /\ Len(fetched) = 0
    OBVIOUS
  <2>2. chunks \in Seq(Seq(DOMAIN files)) /\ lineMaps \in Seq(Seq(Nat))
    OBVIOUS
  <2>3. page \in 0..MaxPages + 1 /\ groupLines \in 0..ChunkLines /\ packed \in 0..Len(fetched)
    BY <2>1, PrReviewAssumption
  <2>4. unread \subseteq DOMAIN chunks /\ comments \subseteq [file : DOMAIN files, index : Nat, line : Nat]
    OBVIOUS
  <2>5. prStage \in {"no", "fetch", "chunk", "map", "read"} /\ runner \in Runners
    OBVIOUS
  <2> QED
    BY <1>1, <1>2, <2>1, <2>2, <2>3, <2>4, <2>5 DEF PrReviewTypeOK
<1>4. PrStageInv /\ PackInv /\ MapInv /\ CommentsHitTheirLines
  BY DEF PrStageInv, PackInv, MapInv, CommentsHitTheirLines
<1> QED
  BY <1>3, <1>4 DEF PrInv

\* What does not depend on the files and those fetched stays as it was.
LEMMA PackingStays ==
    ASSUME NEW cs, NEW n, NEW g, NEW lines, UNCHANGED <<files, fetched>>
    PROVE  /\ Packs(cs, n)' <=> Packs(cs, n)
           /\ PackedSo(cs, g, lines, n)' <=> PackedSo(cs, g, lines, n)
<1>1. ChangesOf(g)' = ChangesOf(g) /\ ChangedIn(g)' = ChangedIn(g)
  BY DEF ChangesOf, ChangedIn
<1>2. \A m : Follows(g, m)' <=> Follows(g, m)
  BY DEF Follows
<1>3. \A c : InLimits(c)' <=> InLimits(c)
  BY DEF InLimits, ChangedIn
<1>4. \A m : Packs(cs, m)' <=> Packs(cs, m)
  BY <1>3 DEF Packs
<1>5. PackedSo(cs, g, lines, n)' <=> PackedSo(cs, g, lines, n)
  BY <1>1, <1>2, <1>4 DEF PackedSo
<1> QED
  BY <1>4, <1>5

LEMMA MapsStay ==
    ASSUME UNCHANGED <<files, fetched, lineMaps, scan, prStage>>, MapInv
    PROVE  MapInv'
<1>1. \A k : PatchOf(k)' = PatchOf(k)
  BY DEF PatchOf
<1> QED
  BY <1>1 DEF MapInv

LEMMA CommentsStay ==
    ASSUME UNCHANGED <<files, comments>>, CommentsHitTheirLines
    PROVE  CommentsHitTheirLines'
BY DEF CommentsHitTheirLines
-----------------------------------------------------------------------------

LEMMA NonePacked == PackedSo(<<>>, <<>>, 0, 0)
<1>1. Follows(<<>>, 0)
  BY DEF Follows
<1>2. Len(<<>>) = 0 /\ 0 - 0 = 0 /\ 0 <= ChunkFiles /\ 0 \in 0..ChunkLines
  BY PrReviewAssumption
<1> QED
  BY <1>1, <1>2, PackedNone, ChangedInNone DEF PackedSo

LEMMA ServedIsSeq ==
    ASSUME PrReviewTypeOK, NEW n \in Nat
    PROVE  Served(n) \in Seq(DOMAIN files)
<1> DEFINE s == [i \in DOMAIN files |-> i]
           I(m) == {f \in DOMAIN files : f > (m - 1) * PageSize /\ f <= m * PageSize}
<1>1. files \in UNION {[1..m -> Patches] : m \in 0..MaxFiles}
  BY DEF PrReviewTypeOK, BoundedSeq, SeqOf
<1>2. s \in Seq(DOMAIN files) /\ DOMAIN s = DOMAIN files
  BY <1>1
<1> HIDE DEF s
<1>3. \A m : Picked(s, I(m)) \in Seq(DOMAIN files)
  BY <1>2, PickedIsSeq
<1> QED
  BY <1>3 DEF Served, PageOf, s

LEMMA OpenKeepsInv ==
    ASSUME PrInv, OpenPr
    PROVE  PrInv'
<1> USE DEF OpenPr, packVars, mapVars, readVars
<1>1. PrReviewTypeOK /\ PrStageInv
  BY DEF PrInv
<1>2. fetched = <<>> /\ chunks = <<>> /\ packed = 0 /\ group = <<>> /\ groupLines = 0
      /\ unread = {} /\ comments = {} /\ runner \in Runners
      /\ lineMaps \in Seq(Seq(Nat)) /\ scan \in [file : Nat, line : Nat, inHunk : BOOLEAN, next : Nat]
  BY <1>1, PrReviewAssumption DEF PrStageInv, PrReviewTypeOK
<1>3. PrReviewTypeOK'
  <2>1. fetched' \in Seq(DOMAIN files') /\ group' \in Seq(DOMAIN files') /\ Len(fetched') = 0
        /\ chunks' \in Seq(Seq(DOMAIN files'))
    BY <1>2
  <2>2. page' \in 0..MaxPages + 1 /\ groupLines' \in 0..ChunkLines /\ packed' \in 0..Len(fetched')
    BY <1>2, <2>1, PrReviewAssumption
  <2>3. unread' \subseteq DOMAIN chunks'
        /\ comments' \subseteq [file : DOMAIN files', index : Nat, line : Nat]
    BY <1>2
  <2> QED
    BY <1>2, <2>1, <2>2, <2>3 DEF PrReviewTypeOK
<1>4. PrStageInv'
  BY <1>2, PrReviewAssumption DEF PrStageInv
<1>5. PackInv' /\ MapInv' /\ CommentsHitTheirLines'
  BY <1>2 DEF PackInv, MapInv, CommentsHitTheirLines
<1> QED
  BY <1>3, <1>4, <1>5 DEF PrInv

LEMMA FetchKeepsInv ==
    ASSUME PrInv, FetchPage
    PROVE  PrInv'
<1> USE DEF FetchPage, packVars, mapVars, readVars
<1>1. PrReviewTypeOK /\ PrStageInv
  BY DEF PrInv
<1>2. chunks = <<>> /\ packed = 0 /\ group = <<>> /\ groupLines = 0
      /\ unread = {} /\ comments = {} /\ page \in 1..MaxPages
  BY <1>1 DEF PrStageInv
<1>3. fetched' \in Seq(DOMAIN files) /\ Len(fetched') \in Nat
  <2>1. fetched \in Seq(DOMAIN files)
    BY <1>1 DEF PrReviewTypeOK
  <2>2. page \in Nat
    BY <1>2
  <2>3. Served(page) \in Seq(DOMAIN files)
    BY <1>1, <2>2, ServedIsSeq
  <2>4. fetched \o Served(page) \in Seq(DOMAIN files)
    BY <2>1, <2>3, ConcatProperties
  <2>5. fetched' \in Seq(DOMAIN files)
    BY <2>1, <2>4
  <2> QED
    BY <2>5, LenProperties
<1>4. /\ page' \in 2..MaxPages + 1
      /\ prStage' \in {"fetch", "chunk"}
      /\ prStage' = "fetch" => page' <= MaxPages
  <2>1. page \in Nat /\ page >= 1 /\ page <= MaxPages /\ MaxPages \in Nat
    BY <1>2, PrReviewAssumption
  <2>2. CASE page' = page + 1 /\ (page = MaxPages => prStage' = "chunk") /\ prStage' \in {"fetch", "chunk"}
    <3>1. page + 1 \in 2..MaxPages + 1 /\ (page # MaxPages => page + 1 <= MaxPages)
      BY <2>1
    <3> QED
      BY <2>2, <3>1
  <2>3. CASE page > 1 /\ prStage' = "chunk" /\ page' = page
    BY <2>1, <2>3
  <2> QED
    BY <2>2, <2>3
<1>5. PrReviewTypeOK'
  <2>1. packed' \in 0..Len(fetched')
    BY <1>2, <1>3
  <2>2. page' \in 0..MaxPages + 1
    BY <1>4, PrReviewAssumption
  <2>3. prStage' \in {"no", "fetch", "chunk", "map", "read"}
    BY <1>4
  <2>4. fetched' \in Seq(DOMAIN files)'
    BY <1>3
  <2> QED
    BY <1>1, <2>1, <2>2, <2>3, <2>4 DEF PrReviewTypeOK
<1>6. PrStageInv'
  BY <1>2, <1>4, PrReviewAssumption DEF PrStageInv
<1>7. PackInv'
  <2>1. chunks' = <<>> /\ group' = <<>> /\ packed' = 0 /\ groupLines' = 0
    BY <1>2
  <2>2. PackedSo(<<>>, <<>>, 0, 0)'
    BY NonePacked, PTL
  <2> QED
    BY <1>4, <2>1, <2>2 DEF PackInv
<1>8. MapInv' /\ CommentsHitTheirLines'
  BY <1>2, <1>4 DEF MapInv, CommentsHitTheirLines
<1> QED
  BY <1>5, <1>6, <1>7, <1>8 DEF PrInv

LEMMA NothingKeepsInv ==
    ASSUME PrInv, NothingFetched
    PROVE  PrInv'
<1> USE DEF NothingFetched, packVars, mapVars, readVars
<1>1. PrReviewTypeOK /\ PrStageInv
  BY DEF PrInv
<1>2. fetched = <<>> /\ chunks = <<>> /\ packed = 0 /\ group = <<>> /\ groupLines = 0
      /\ unread = {} /\ comments = {} /\ runner \in Runners
      /\ lineMaps \in Seq(Seq(Nat)) /\ scan \in [file : Nat, line : Nat, inHunk : BOOLEAN, next : Nat]
  BY <1>1, PrReviewAssumption DEF PrStageInv, PrReviewTypeOK
<1>3. PrReviewTypeOK'
  <2>1. fetched' \in Seq(DOMAIN files') /\ group' \in Seq(DOMAIN files') /\ Len(fetched') = 0
        /\ chunks' \in Seq(Seq(DOMAIN files'))
    BY <1>2
  <2>2. page' \in 0..MaxPages + 1 /\ groupLines' \in 0..ChunkLines /\ packed' \in 0..Len(fetched')
    BY <1>2, <2>1, PrReviewAssumption
  <2>3. unread' \subseteq DOMAIN chunks'
        /\ comments' \subseteq [file : DOMAIN files', index : Nat, line : Nat]
    BY <1>2
  <2>4. files' \in BoundedSeq(Patches, MaxFiles)
    <3>1. <<>> \in [1..0 -> Patches] /\ 0 \in 0..MaxFiles
      BY PrReviewAssumption
    <3> QED
      BY <3>1 DEF BoundedSeq, SeqOf
  <2> QED
    BY <1>2, <2>1, <2>2, <2>3, <2>4 DEF PrReviewTypeOK
<1>4. PrStageInv'
  BY <1>2, PrReviewAssumption DEF PrStageInv
<1>5. PackInv' /\ MapInv' /\ CommentsHitTheirLines'
  BY <1>2 DEF PackInv, MapInv, CommentsHitTheirLines
<1> QED
  BY <1>3, <1>4, <1>5 DEF PrInv
-----------------------------------------------------------------------------

LEMMA FlushedPacks ==
    ASSUME PrReviewTypeOK, PackedSo(chunks, group, groupLines, packed)
    PROVE  Packs(Flushed, packed) /\ packed \in Nat
<1> USE DEF PackedSo
<1>1. /\ group \in Seq(DOMAIN files) /\ packed \in 0..Len(fetched)
      /\ fetched \in Seq(DOMAIN files)
  BY DEF PrReviewTypeOK
<1>2. packed \in Nat /\ Len(group) \in Nat /\ Len(group) <= packed /\ Len(group) <= ChunkFiles
  BY <1>1, LenProperties
<1>3. CASE group = <<>>
  <2>1. Len(group) = 0 /\ Flushed = chunks
    BY <1>3 DEF Flushed
  <2>2. packed - Len(group) = packed
    BY <1>2, <2>1
  <2> QED
    BY <1>2, <2>1, <2>2
<1>4. CASE group # <<>>
  <2>1. Len(group) # 0
    BY <1>1, <1>4, EmptySeq
  <2>2. Len(group) \in 1..ChunkFiles
    BY <1>2, <2>1, PrReviewAssumption
  <2>3. InLimits(group)
    <3>1. ChangedIn(group) <= ChunkLines
      BY PrReviewAssumption
    <3> QED
      BY <2>2, <3>1 DEF InLimits
  <2> DEFINE n == packed - Len(group)
  <2>4. n \in Nat /\ n + Len(group) = packed
    BY <1>2
  <2>5. Packs(chunks, n) /\ Follows(group, n)
    OBVIOUS
  <2> HIDE DEF n
  <2>6. Packs(Append(chunks, group), n + Len(group))
    BY <2>3, <2>4, <2>5, PackedOneMore
  <2> QED
    BY <1>2, <1>4, <2>4, <2>6 DEF Flushed
<1> QED
  BY <1>3, <1>4

LEMMA OneFileFollows ==
    ASSUME PrReviewTypeOK, NEW n \in Nat, NEW f \in DOMAIN files, f = fetched[n + 1]
    PROVE  Follows(<<f>>, n) /\ Len(<<f>>) = 1 /\ InLimits(<<f>>)
<1>1. <<f>> \in Seq(DOMAIN files) /\ Len(<<f>>) = 1 /\ DOMAIN <<f>> = {1} /\ <<f>>[1] = f
  OBVIOUS
<1>2. 1 \in 1..ChunkFiles
  BY PrReviewAssumption
<1> QED
  BY <1>1, <1>2 DEF Follows, InLimits

LEMMA OwnChunkPacks ==
    ASSUME PrReviewTypeOK, PackedSo(chunks, group, groupLines, packed),
           NEW f \in DOMAIN files, f = fetched[packed + 1], OwnChunk(f)
    PROVE  PackedSo(chunks', group', groupLines', packed + 1)
<1>1. Packs(Flushed, packed) /\ packed \in Nat
  BY FlushedPacks
<1>2. Follows(<<f>>, packed) /\ Len(<<f>>) = 1 /\ InLimits(<<f>>)
  BY <1>1, OneFileFollows
<1>3. Packs(Append(Flushed, <<f>>), packed + 1)
  BY <1>1, <1>2, PackedOneMore
<1>4. packed + 1 \in Nat
  BY <1>1
<1>5. Follows(<<>>, packed + 1)
  BY DEF Follows
<1> DEFINE cs == Append(Flushed, <<f>>)
           n == packed + 1
<1>6. PackedSo(cs, <<>>, 0, n)
  <2>1. Packs(cs, n) /\ Follows(<<>>, n)
    BY <1>3, <1>5
  <2>n. n \in Nat
    BY <1>4
  <2> HIDE DEF cs, n
  <2>2. n - 0 = n /\ 0 <= n /\ 0 <= ChunkFiles /\ 0 \in 0..ChunkLines
    BY <2>n, PrReviewAssumption
  <2>3. Len(<<>>) = 0
    OBVIOUS
  <2>4. Packs(cs, n - Len(<<>>)) /\ Follows(<<>>, n - Len(<<>>))
    BY <2>1, <2>2, <2>3
  <2> QED
    BY <2>2, <2>3, <2>4, ChangedInNone DEF PackedSo
<1> QED
  BY <1>6 DEF OwnChunk

LEMMA JoinGroupPacks ==
    ASSUME PrReviewTypeOK, PackedSo(chunks, group, groupLines, packed),
           NEW f \in DOMAIN files, f = fetched[packed + 1], JoinGroup(f)
    PROVE  PackedSo(chunks', group', groupLines', packed + 1)
<1> DEFINE l == Len(group)
           n == packed - l
           h == Append(group, f)
<1>1. group \in Seq(DOMAIN files) /\ packed \in Nat /\ groupLines \in Nat
  <2>1. fetched \in Seq(DOMAIN files) /\ packed \in 0..Len(fetched) /\ groupLines \in 0..ChunkLines
        /\ group \in Seq(DOMAIN files)
    BY DEF PrReviewTypeOK
  <2> QED
    BY <2>1, LenProperties
<1>2. l \in Nat /\ l <= packed /\ DOMAIN group = 1..l
  BY <1>1, LenProperties DEF PackedSo
<1>3. h \in Seq(DOMAIN files) /\ Len(h) = l + 1 /\ (\A j \in 1..l : h[j] = group[j]) /\ h[l + 1] = f
  BY <1>1, AppendProperties
<1>4. /\ IsFiniteSet(PairsOf(ChangesOf(h))) /\ ChangedIn(h) = groupLines + Size(f)
  BY <1>1, ChangedInOneMore DEF PackedSo
<1>5. Size(f) \in Nat
  BY ChangedIsFinite
<1>6. l < ChunkFiles /\ groupLines + Size(f) <= ChunkLines
  BY DEF JoinGroup, HasRoom
<1>7. Packs(chunks, n) /\ Follows(group, n)
  BY DEF PackedSo
<1> HIDE DEF h
<1>8. DOMAIN h = 1..l + 1
  BY <1>3, LenProperties
<1> HIDE DEF l
<1>9. n \in Nat /\ packed + 1 - (l + 1) = n /\ n + (l + 1) = packed + 1
      /\ l + 1 <= packed + 1 /\ l + 1 <= ChunkFiles
  BY <1>1, <1>2, <1>6, PrReviewAssumption
<1> HIDE DEF n
<1>10. ASSUME NEW j \in DOMAIN h PROVE h[j] = fetched[n + j]
  <2>1. CASE j \in 1..l
    BY <1>2, <1>3, <1>7, <2>1 DEF Follows
  <2>2. CASE j = l + 1
    BY <1>3, <1>9, <2>2
  <2> QED
    BY <1>2, <1>8, <2>1, <2>2
<1>11. Follows(h, n)
  BY <1>3, <1>10 DEF Follows
<1>12. groupLines + Size(f) \in 0..ChunkLines
  BY <1>1, <1>5, <1>6, PrReviewAssumption
<1>13. PackedSo(chunks, h, groupLines + Size(f), packed + 1)
  BY <1>3, <1>4, <1>7, <1>9, <1>11, <1>12 DEF PackedSo
<1> QED
  BY <1>13 DEF JoinGroup, h

LEMMA OpenGroupPacks ==
    ASSUME PrReviewTypeOK, PackedSo(chunks, group, groupLines, packed),
           NEW f \in DOMAIN files, f = fetched[packed + 1], OpenGroup(f)
    PROVE  PackedSo(chunks', group', groupLines', packed + 1)
<1>1. Packs(Flushed, packed) /\ packed \in Nat
  BY FlushedPacks
<1>2. Follows(<<f>>, packed) /\ Len(<<f>>) = 1
  BY <1>1, OneFileFollows
<1>3. packed + 1 - 1 = packed /\ 1 <= packed + 1 /\ 1 <= ChunkFiles
  BY <1>1, PrReviewAssumption
<1>4. /\ IsFiniteSet(PairsOf(ChangesOf(<<f>>))) /\ ChangedIn(<<f>>) = 0 + Size(f)
  <2>1. <<>> \in Seq(DOMAIN files) /\ Append(<<>>, f) = <<f>>
    OBVIOUS
  <2>2. IsFiniteSet(PairsOf(ChangesOf(Append(<<>>, f)))) /\ ChangedIn(Append(<<>>, f)) = ChangedIn(<<>>) + Size(f)
    BY <2>1, ChangedInNone, ChangedInOneMore
  <2> QED
    BY <2>1, <2>2, ChangedInNone
<1>5. Size(f) \in Nat /\ Size(f) <= ChunkLines
  BY ChangedIsFinite DEF OpenGroup
<1>6. 0 + Size(f) = Size(f) /\ Size(f) \in 0..ChunkLines
  BY <1>5, PrReviewAssumption
<1>7. PackedSo(Flushed, <<f>>, Size(f), packed + 1)
  BY <1>1, <1>2, <1>3, <1>4, <1>6 DEF PackedSo
<1> QED
  BY <1>7 DEF OpenGroup

LEMMA PackKeepsInv ==
    ASSUME PrInv, PackFile
    PROVE  PrInv'
<1> USE DEF PackFile, mapVars, readVars
<1>1. PrReviewTypeOK /\ PrStageInv /\ PackInv /\ MapInv /\ CommentsHitTheirLines
  BY DEF PrInv
<1>2. packed \in 0..Len(fetched) /\ packed < Len(fetched) /\ DOMAIN fetched = 1..Len(fetched) /\ Len(fetched) \in Nat
  BY <1>1, PatchesAreLines DEF PrReviewTypeOK
<1>3. packed + 1 \in DOMAIN fetched /\ packed + 1 \in 0..Len(fetched)
  BY <1>2
<1> DEFINE f == fetched[packed + 1]
<1>4. f \in DOMAIN files
  BY <1>1, <1>3, PatchesAreLines
<1>5. OwnChunk(f) \/ JoinGroup(f) \/ OpenGroup(f)
  OBVIOUS
<1>6. PackedSo(chunks, group, groupLines, packed)
  BY <1>1 DEF PackInv
<1>7. f = fetched[packed + 1]
  OBVIOUS
<1> HIDE DEF f
<1>8. PackedSo(chunks', group', groupLines', packed + 1)
  BY <1>1, <1>4, <1>5, <1>6, <1>7, OwnChunkPacks, JoinGroupPacks, OpenGroupPacks
<1>9. /\ chunks' \in Seq(Seq(DOMAIN files)) /\ group' \in Seq(DOMAIN files)
      /\ groupLines' \in 0..ChunkLines
  BY <1>8 DEF PackedSo, Packs, Follows
<1>10. PrReviewTypeOK'
  <2>1. unread' \subseteq DOMAIN chunks' /\ packed' \in 0..Len(fetched')
    BY <1>1, <1>3 DEF PrStageInv
  <2> QED
    BY <1>1, <1>9, <2>1 DEF PrReviewTypeOK
<1>11. PrStageInv'
  BY <1>1 DEF PrStageInv
<1>12. PackInv'
  <2>1. PICK cs, g, lines, n : cs = chunks' /\ g = group' /\ lines = groupLines' /\ n = packed'
    OBVIOUS
  <2>2. PackedSo(cs, g, lines, n)
    BY <1>8, <2>1
  <2>3. PackedSo(cs, g, lines, n)'
    BY <2>2, PackingStays
  <2> QED
    BY <2>1, <2>3 DEF PackInv
<1>13. MapInv' /\ CommentsHitTheirLines'
  BY <1>1, MapsStay, CommentsStay
<1> QED
  BY <1>10, <1>11, <1>12, <1>13 DEF PrInv
LEMMA FlushLastKeepsInv ==
    ASSUME PrInv, FlushLast
    PROVE  PrInv'
<1> USE DEF FlushLast, readVars
<1>1. PrReviewTypeOK /\ PrStageInv /\ PackInv /\ CommentsHitTheirLines
  BY DEF PrInv
<1>2. PackedSo(chunks, group, groupLines, packed)
  BY <1>1 DEF PackInv
<1>3. Packs(Flushed, packed)
  BY <1>1, <1>2, FlushedPacks
<1>4. /\ DOMAIN fetched = 1..Len(fetched) /\ Len(fetched) \in Nat
      /\ \A k \in DOMAIN fetched : PatchOf(k) \in Seq(PatchLines)
  BY <1>1, PatchesAreLines
<1>5. /\ lineMaps' \in Seq(Seq(Nat)) /\ Len(lineMaps') = Len(fetched)
      /\ \A k \in DOMAIN fetched : lineMaps'[k] = <<>>
  <2>1. lineMaps' = [k \in 1..Len(fetched) |-> <<>>]
    BY <1>4
  <2>2. \A k \in 1..Len(fetched) : <<>> \in Seq(Nat)
    OBVIOUS
  <2> DEFINE z == Len(fetched)
             E == Seq(Nat)
  <2>3. z \in Nat /\ lineMaps' = [k \in 1..z |-> <<>>] /\ <<>> \in E
    BY <1>4, <2>1, <2>2
  <2> HIDE DEF z, E
  <2>4. lineMaps' \in Seq(E) /\ Len(lineMaps') = z
    BY <2>3
  <2> QED
    BY <1>4, <2>1, <2>4 DEF z, E
<1>6. scan' \in [file : Nat, line : Nat, inHunk : BOOLEAN, next : Nat]
      /\ scan'.file = 1 /\ scan'.line = 1 /\ scan'.inHunk = FALSE /\ scan'.next = 0
  BY DEF ToRead
<1>7. PrReviewTypeOK'
  <2>1. chunks' \in Seq(Seq(DOMAIN files))
    BY <1>3 DEF Packs
  <2>2. unread' \subseteq DOMAIN chunks' /\ group' \in Seq(DOMAIN files) /\ groupLines' \in 0..ChunkLines
    BY <1>1, PrReviewAssumption DEF PrStageInv
  <2> QED
    BY <1>1, <1>5, <1>6, <2>1, <2>2 DEF PrReviewTypeOK
<1>8. PrStageInv'
  BY <1>1 DEF PrStageInv
<1>9. PackInv'
  <2>1. PICK cs, n : cs = chunks' /\ n = Len(fetched)'
    OBVIOUS
  <2>2. Packs(cs, n)
    BY <1>3, <2>1
  <2>3. Packs(cs, n)'
    BY <2>2, PackingStays
  <2> QED
    BY <2>1, <2>3 DEF PackInv
<1>10. MapInv'
  <2>1. ASSUME NEW k \in DOMAIN fetched
        PROVE  /\ ~(k < 1)
               /\ 1 \in 1..Len(PatchOf(k)) + 1 /\ MapHolds(<<>>, PatchOf(k), 1 - 1)
               /\ ScanHolds(PatchOf(k), 1, FALSE, 0)
    <3> DEFINE p == PatchOf(k)
    <3>1. p \in Seq(PatchLines)
      BY <1>4
    <3> HIDE DEF p
    <3>2. ScanHolds(p, 1, FALSE, 0) /\ MapHolds(<<>>, p, 0)
      BY <3>1, ScanStarts
    <3>3. Len(p) \in Nat
      BY <3>1, LenProperties
    <3>4. 1 \in 1..Len(p) + 1 /\ ~(k < 1) /\ 1 - 1 = 0
      BY <1>4, <3>3
    <3> QED
      BY <3>2, <3>4 DEF p
  <2>2. /\ \A k : PatchOf(k)' = PatchOf(k)
        /\ DOMAIN fetched' = DOMAIN fetched /\ Len(fetched') = Len(fetched)
        /\ prStage' = "map"
    BY DEF PatchOf
  <2>3. scan'.file \in 1..Len(fetched) + 1
    BY <1>4, <1>6
  <2> HIDE DEF FlushLast
  <2> QED
    BY <1>5, <1>6, <2>1, <2>2, <2>3 DEF MapInv
<1>11. CommentsHitTheirLines'
  BY <1>1, CommentsStay
<1> QED
  BY <1>7, <1>8, <1>9, <1>10, <1>11 DEF PrInv
-----------------------------------------------------------------------------

LEMMA SignsDiffer ==
    /\ Header \notin Kept /\ Aside \notin Kept /\ Header # Aside
    /\ \A s \in {"-", "---"} : s # Header /\ s # Aside /\ s \notin Kept
    /\ \A s \in Kept \cup {"-", "---", Aside} : s # Header
BY DEF Header, Aside, Kept

LEMMA ScanIsIn ==
    ASSUME PrInv, prStage = "map", scan.file <= Len(fetched)
    PROVE  /\ scan.file \in DOMAIN fetched /\ PatchOf(scan.file) \in Seq(PatchLines)
           /\ scan.line \in 1..Len(PatchOf(scan.file)) + 1
           /\ scan.inHunk \in BOOLEAN /\ scan.next \in Nat
           /\ MapHolds(lineMaps[scan.file], PatchOf(scan.file), scan.line - 1)
           /\ ScanHolds(PatchOf(scan.file), scan.line, scan.inHunk, scan.next)
           /\ Len(lineMaps) = Len(fetched) /\ lineMaps \in Seq(Seq(Nat))
           /\ DOMAIN lineMaps = DOMAIN fetched /\ DOMAIN fetched = 1..Len(fetched)
           /\ Len(fetched) \in Nat
<1>1. PrReviewTypeOK /\ MapInv
  BY DEF PrInv
<1>2. /\ DOMAIN fetched = 1..Len(fetched) /\ Len(fetched) \in Nat
      /\ \A k \in DOMAIN fetched : PatchOf(k) \in Seq(PatchLines)
  BY <1>1, PatchesAreLines
<1>3. scan.file \in 1..Len(fetched) + 1
  BY <1>1 DEF MapInv
<1>4. scan.file \in DOMAIN fetched
  BY <1>2, <1>3
<1>5. scan.inHunk \in BOOLEAN /\ scan.next \in Nat /\ lineMaps \in Seq(Seq(Nat))
  BY <1>1 DEF PrReviewTypeOK
<1>6. DOMAIN lineMaps = 1..Len(lineMaps)
  BY <1>5, LenProperties
<1> QED
  BY <1>1, <1>2, <1>4, <1>5, <1>6 DEF MapInv

\* A line has been read, with what it adds to the map.
LEMMA LineIsRead ==
    ASSUME PrInv, prStage = "map",
           UNCHANGED <<prStage, files, runner, fetched, page, packVars, readVars>>,
           NEW k, k = scan.file, k <= Len(fetched), NEW i, i = scan.line, i <= Len(PatchOf(k)),
           NEW m, lineMaps' = [lineMaps EXCEPT ![k] = m], NEW b \in BOOLEAN, NEW l \in Nat,
           scan' = [file |-> k, line |-> i + 1, inHunk |-> b, next |-> l],
           MapHolds(m, PatchOf(k), i), ScanHolds(PatchOf(k), i + 1, b, l)
    PROVE  PrInv'
<1> USE DEF packVars, readVars
<1>1. PrReviewTypeOK /\ PrStageInv /\ PackInv /\ MapInv /\ CommentsHitTheirLines
  BY DEF PrInv
<1> DEFINE p == PatchOf(k)
<1>2. /\ k \in DOMAIN fetched /\ p \in Seq(PatchLines) /\ i \in 1..Len(p) + 1
      /\ Len(lineMaps) = Len(fetched) /\ lineMaps \in Seq(Seq(Nat))
      /\ DOMAIN lineMaps = DOMAIN fetched /\ DOMAIN fetched = 1..Len(fetched)
      /\ Len(fetched) \in Nat
  BY ScanIsIn
<1>p. MapHolds(m, p, i) /\ ScanHolds(p, i + 1, b, l) /\ i <= Len(p) /\ p = PatchOf(k)
  OBVIOUS
<1> HIDE DEF p
<1>3. Len(p) \in Nat
  BY <1>2, LenProperties
<1>4. m \in Seq(Nat)
  BY <1>p DEF MapHolds
<1>5. /\ lineMaps' \in Seq(Seq(Nat)) /\ Len(lineMaps') = Len(fetched)
      /\ lineMaps'[k] = m /\ \A j \in DOMAIN fetched : j # k => lineMaps'[j] = lineMaps[j]
  <2> DEFINE E == Seq(Nat)
  <2>1. lineMaps \in Seq(E) /\ k \in 1..Len(lineMaps) /\ m \in E
    BY <1>2, <1>4
  <2> HIDE DEF E
  <2>2. [lineMaps EXCEPT ![k] = m] \in Seq(E) /\ Len([lineMaps EXCEPT ![k] = m]) = Len(lineMaps)
    BY <2>1, ExceptSeq
  <2>3. lineMaps'[k] = m /\ \A j \in DOMAIN fetched : j # k => lineMaps'[j] = lineMaps[j]
    BY <1>2
  <2> QED
    BY <1>2, <2>2, <2>3 DEF E
<1>6. i + 1 \in 1..Len(p) + 1 /\ (i + 1) - 1 = i /\ i + 1 \in Nat /\ k \in Nat
  BY <1>2, <1>3, <1>p
<1>7. scan' \in [file : Nat, line : Nat, inHunk : BOOLEAN, next : Nat]
  BY <1>6
<1>8. PrReviewTypeOK'
  BY <1>1, <1>5, <1>7 DEF PrReviewTypeOK
<1>9. PrStageInv'
  BY <1>1 DEF PrStageInv
<1>10. PackInv'
  <2>1. PICK cs, n : cs = chunks /\ n = Len(fetched)
    OBVIOUS
  <2>2. Packs(cs, n)
    BY <1>1, <2>1 DEF PackInv
  <2>3. Packs(cs, n)'
    BY <2>2, PackingStays
  <2> QED
    BY <1>1, <2>1, <2>3 DEF PackInv
<1>11. MapInv'
  <2>1. \A j : PatchOf(j)' = PatchOf(j)
    BY DEF PatchOf
  <2>2. k \in 1..Len(fetched) + 1
    BY <1>2
  <2>3. /\ scan'.file = k /\ scan'.line = i + 1 /\ scan'.inHunk = b /\ scan'.next = l
    OBVIOUS
  <2>4. ASSUME NEW j \in DOMAIN fetched
        PROVE  /\ j < k => MapHolds(lineMaps'[j], PatchOf(j), Len(PatchOf(j)))
               /\ j = k =>
                     /\ i + 1 \in 1..Len(PatchOf(j)) + 1
                     /\ MapHolds(lineMaps'[j], PatchOf(j), (i + 1) - 1)
                     /\ ScanHolds(PatchOf(j), i + 1, b, l)
               /\ j > k => lineMaps'[j] = <<>>
    <3>1. CASE j = k
      <4>1. ~(j < k) /\ ~(j > k)
        BY <1>2, <3>1
      <4>2. i + 1 \in 1..Len(p) + 1 /\ MapHolds(m, p, (i + 1) - 1) /\ ScanHolds(p, i + 1, b, l)
        BY <1>p, <1>6
      <4> QED
        BY <1>5, <1>p, <3>1, <4>1, <4>2
    <3>2. CASE j # k
      <4>1. lineMaps'[j] = lineMaps[j]
        BY <1>5, <3>2
      <4> QED
        BY <1>1, <3>2, <4>1 DEF MapInv
    <3> QED
      BY <3>1, <3>2
  <2> QED
    BY <1>5, <2>1, <2>2, <2>3, <2>4 DEF MapInv
<1>12. CommentsHitTheirLines'
  BY <1>1, CommentsStay
<1> QED
  BY <1>8, <1>9, <1>10, <1>11, <1>12 DEF PrInv
LEMMA MapLinesKeepsInv ==
    ASSUME PrInv, MapLines
    PROVE  PrInv'
<1>1. UNCHANGED <<prStage, files, runner, fetched, page, packVars, readVars>>
  BY DEF MapLines
<1>2. prStage = "map" /\ scan.file <= Len(fetched)
  BY DEF MapLines, ReadHeader, SkipLine, ReadKept, ReadRemoved, NextPatch, Reading
<1> DEFINE k == scan.file
           p == PatchOf(k)
           i == scan.line
           x == lineMaps[k]
           b == scan.inHunk
           l == scan.next
           q == Append(x, l)
           z == Append(x, 0)
<1>3. /\ k \in DOMAIN fetched /\ p \in Seq(PatchLines) /\ i \in 1..Len(p) + 1
      /\ b \in BOOLEAN /\ l \in Nat /\ MapHolds(x, p, i - 1) /\ ScanHolds(p, i, b, l)
      /\ Len(lineMaps) = Len(fetched) /\ lineMaps \in Seq(Seq(Nat))
      /\ DOMAIN lineMaps = DOMAIN fetched /\ DOMAIN fetched = 1..Len(fetched)
      /\ Len(fetched) \in Nat
  BY <1>2, ScanIsIn
<1>4. scan \in [file : Nat, line : Nat, inHunk : BOOLEAN, next : Nat]
  BY DEF PrInv, PrReviewTypeOK
<1>5. lineMaps = [lineMaps EXCEPT ![k] = x]
  BY <1>3
<1>6. k = scan.file /\ k <= Len(fetched) /\ p = PatchOf(k) /\ i = scan.line
  BY <1>2
<1>7. ASSUME NEW m, lineMaps' = [lineMaps EXCEPT ![k] = m], NEW c \in BOOLEAN, NEW n \in Nat,
             scan' = [file |-> k, line |-> i + 1, inHunk |-> c, next |-> n],
             i <= Len(p), MapHolds(m, p, i), ScanHolds(p, i + 1, c, n)
      PROVE  PrInv'
  <2> HIDE DEF k, p, i
  <2>1. i <= Len(PatchOf(k)) /\ MapHolds(m, PatchOf(k), i) /\ ScanHolds(PatchOf(k), i + 1, c, n)
    BY <1>6, <1>7
  <2> QED
    BY <1>1, <1>2, <1>6, <1>7, <2>1, LineIsRead
<1>8. CASE ReadHeader
  <2>1. /\ i <= Len(p) /\ p[i].sign = Header /\ lineMaps' = lineMaps
        /\ scan' = [scan EXCEPT !.line = @ + 1, !.inHunk = TRUE, !.next = p[i].start]
    BY <1>8 DEF ReadHeader, Reading
  <2>2. scan' = [file |-> k, line |-> i + 1, inHunk |-> TRUE, next |-> p[i].start]
    BY <1>4, <2>1
  <2> HIDE DEF k, p, i, x, b, l
  <2>3. i \in 1..Len(p)
    BY <1>3, <2>1
  <2>4. p[i].start \in Nat
    <3>1. p[i] \in PatchLines
      BY <1>3, <2>3, ElementOfSeq
    <3> QED
      BY <3>1 DEF PatchLines
  <2>5. i \notin Places(p)
    BY <1>3, <2>1, <2>3, PlaceInHunk
  <2>6. MapHolds(x, p, i)
    BY <1>3, <2>3, <2>5, MapStays
  <2>7. ScanHolds(p, i + 1, TRUE, p[i].start)
    BY <1>3, <2>1, <2>3, ScanOverHeader
  <2> QED
    BY <1>5, <1>7, <2>1, <2>2, <2>4, <2>6, <2>7
<1>9. CASE SkipLine
  <2>1. /\ i <= Len(p) /\ lineMaps' = lineMaps /\ scan' = [scan EXCEPT !.line = @ + 1]
        /\ p[i].sign \in (IF b THEN {Aside} ELSE Kept \cup {"-", "---", Aside})
    BY <1>9 DEF SkipLine, Reading
  <2>2. scan' = [file |-> k, line |-> i + 1, inHunk |-> b, next |-> l]
    BY <1>4, <2>1
  <2> HIDE DEF k, p, i, x, b, l
  <2>3. i \in 1..Len(p)
    BY <1>3, <2>1
  <2>4. p[i].sign # Header /\ (b => p[i].sign = Aside /\ p[i].sign \notin Kept)
    BY <1>3, <2>1, SignsDiffer
  <2>5. i \notin Places(p)
    BY <1>3, <2>3, <2>4, PlaceInHunk
  <2>6. MapHolds(x, p, i)
    BY <1>3, <2>3, <2>5, MapStays
  <2>7. ScanHolds(p, i + 1, b, l)
    BY <1>3, <2>3, <2>4, ScanOverLine
  <2> QED
    BY <1>3, <1>5, <1>7, <2>1, <2>2, <2>6, <2>7
<1>10. CASE ReadKept
  <2>1. /\ i <= Len(p) /\ b /\ lineMaps' = [lineMaps EXCEPT ![k] = Append(@, l)]
        /\ scan' = [scan EXCEPT !.line = @ + 1, !.next = @ + 1]
        /\ p[i].sign \in Kept
    BY <1>10 DEF ReadKept, Reading
  <2>2. scan' = [file |-> k, line |-> i + 1, inHunk |-> b, next |-> l + 1]
    BY <1>4, <2>1
  <2>3. lineMaps' = [lineMaps EXCEPT ![k] = q]
    BY <1>3, <2>1
  <2> HIDE DEF k, p, i, x, b, l
  <2>4. i \in 1..Len(p)
    BY <1>3, <2>1
  <2>5. p[i].sign # Header /\ p[i].sign # Aside
    BY <2>1, SignsDiffer
  <2>6. i \in Places(p) /\ NewLine(p, i) = l
    BY <1>3, <2>1, <2>4, <2>5, PlaceInHunk
  <2>7. MapHolds(q, p, i)
    BY <1>3, <2>4, <2>6, MapGrows
  <2>8. ScanHolds(p, i + 1, TRUE, l + 1)
    BY <1>3, <2>1, <2>4, <2>5, ScanOverLine
  <2>9. b = TRUE /\ l + 1 \in Nat
    BY <1>3, <2>1
  <2> HIDE DEF q
  <2> QED
    BY <1>7, <2>1, <2>2, <2>3, <2>7, <2>8, <2>9
<1>11. CASE ReadRemoved
  <2>1. /\ i <= Len(p) /\ b /\ lineMaps' = [lineMaps EXCEPT ![k] = Append(@, 0)]
        /\ scan' = [scan EXCEPT !.line = @ + 1]
        /\ p[i].sign \in {"-", "---"}
    BY <1>11 DEF ReadRemoved, Reading
  <2>2. scan' = [file |-> k, line |-> i + 1, inHunk |-> b, next |-> l]
    BY <1>4, <2>1
  <2>3. lineMaps' = [lineMaps EXCEPT ![k] = z]
    BY <1>3, <2>1
  <2> HIDE DEF k, p, i, x, b, l
  <2>4. i \in 1..Len(p)
    BY <1>3, <2>1
  <2>5. p[i].sign # Header /\ p[i].sign # Aside /\ p[i].sign \notin Kept
    BY <2>1, SignsDiffer
  <2>6. i \in Places(p) /\ NewLine(p, i) = 0
    BY <1>3, <2>1, <2>4, <2>5, PlaceInHunk
  <2>7. MapHolds(z, p, i)
    BY <1>3, <2>4, <2>6, MapGrows
  <2>8. ScanHolds(p, i + 1, b, l)
    BY <1>3, <2>1, <2>4, <2>5, ScanOverLine
  <2> HIDE DEF z
  <2> QED
    BY <1>3, <1>7, <2>1, <2>2, <2>3, <2>7, <2>8
<1>12. CASE NextPatch
  <2>1. i > Len(p) /\ lineMaps' = lineMaps /\ scan' = ToRead(k + 1)
    BY <1>12 DEF NextPatch
  <2>2. Len(p) \in Nat
    BY <1>3, LenProperties
  <2>3. i - 1 = Len(p) /\ MapHolds(x, p, Len(p))
    <3>1. i - 1 = Len(p)
      BY <1>3, <2>1, <2>2
    <3> HIDE DEF i, p, x
    <3> QED
      BY <1>3, <3>1
  <2>4. /\ scan'.file = k + 1 /\ scan'.line = 1 /\ scan'.inHunk = FALSE /\ scan'.next = 0
        /\ scan' \in [file : Nat, line : Nat, inHunk : BOOLEAN, next : Nat]
        /\ k + 1 \in 1..Len(fetched) + 1
    <3>1. k \in Nat /\ k >= 1 /\ k <= Len(fetched)
      BY <1>3
    <3>2. k + 1 \in 1..Len(fetched) + 1 /\ k + 1 \in Nat
      BY <1>3, <3>1
    <3> QED
      BY <2>1, <3>2 DEF ToRead
  <2>5. PrReviewTypeOK /\ PrStageInv /\ PackInv /\ MapInv /\ CommentsHitTheirLines
    BY DEF PrInv
  <2> HIDE DEF i, l, b
  <2>6. PrReviewTypeOK' /\ PrStageInv' /\ CommentsHitTheirLines'
    BY <1>1, <2>1, <2>4, <2>5, CommentsStay DEF PrReviewTypeOK, PrStageInv, packVars, readVars
  <2>7. PackInv'
    <3>1. PICK cs, n : cs = chunks /\ n = Len(fetched)
      OBVIOUS
    <3>2. Packs(cs, n)
      BY <1>2, <2>5, <3>1 DEF PackInv
    <3>3. Packs(cs, n)'
      BY <1>1, <3>2, PackingStays
    <3> QED
      BY <1>1, <1>2, <2>5, <3>1, <3>3 DEF PackInv, packVars
  <2>8. MapInv'
    <3>1. \A j : PatchOf(j)' = PatchOf(j)
      BY <1>1 DEF PatchOf
    <3>2. ASSUME NEW j \in DOMAIN fetched
          PROVE  /\ j < k + 1 => MapHolds(lineMaps[j], PatchOf(j), Len(PatchOf(j)))
                 /\ j = k + 1 =>
                       /\ 1 \in 1..Len(PatchOf(j)) + 1
                       /\ MapHolds(lineMaps[j], PatchOf(j), 1 - 1)
                       /\ ScanHolds(PatchOf(j), 1, FALSE, 0)
                 /\ j > k + 1 => lineMaps[j] = <<>>
      <4>1. j \in Nat /\ k \in Nat
        BY <1>3
      <4>2. CASE j < k + 1
        <5>1. j < k \/ j = k
          BY <4>1, <4>2
        <5>2. ~(j = k + 1) /\ ~(j > k + 1)
          BY <4>1, <4>2
        <5>3. j = k => lineMaps[j] = x /\ PatchOf(j) = p
          OBVIOUS
        <5> HIDE DEF x, p
        <5> QED
          BY <1>2, <2>3, <2>5, <5>1, <5>2, <5>3 DEF MapInv
      <4>3. CASE ~(j < k + 1)
        <5>1. j > k
          BY <4>1, <4>3
        <5>2. lineMaps[j] = <<>>
          BY <1>2, <2>5, <5>1 DEF MapInv
        <5> DEFINE r == PatchOf(j)
        <5>3. r \in Seq(PatchLines)
          BY <2>5, PatchesAreLines
        <5> HIDE DEF r
        <5>4. ScanHolds(r, 1, FALSE, 0) /\ MapHolds(<<>>, r, 0)
          BY <5>3, ScanStarts
        <5>5. Len(r) \in Nat
          BY <5>3, LenProperties
        <5>6. 1 \in 1..Len(r) + 1 /\ 1 - 1 = 0
          BY <5>5
        <5> QED
          BY <4>3, <5>2, <5>4, <5>6 DEF r
      <4> QED
        BY <4>2, <4>3
    <3> HIDE DEF k, p, x
    <3> QED
      BY <1>1, <1>2, <1>3, <2>1, <2>4, <3>1, <3>2 DEF MapInv
  <2> QED
    BY <2>6, <2>7, <2>8 DEF PrInv
<1> QED
  BY <1>8, <1>9, <1>10, <1>11, <1>12 DEF MapLines
LEMMA SendKeepsInv ==
    ASSUME PrInv, SendChunks
    PROVE  PrInv'
<1> USE DEF SendChunks, packVars, mapVars
<1>1. PrReviewTypeOK /\ PrStageInv /\ PackInv /\ MapInv /\ CommentsHitTheirLines
  BY DEF PrInv
<1>2. PrReviewTypeOK'
  BY <1>1 DEF PrReviewTypeOK
<1>3. PrStageInv'
  BY <1>1 DEF PrStageInv
<1>4. PackInv'
  <2>1. PICK cs, n : cs = chunks /\ n = Len(fetched)
    OBVIOUS
  <2>2. Packs(cs, n)
    BY <1>1, <2>1 DEF PackInv
  <2>3. Packs(cs, n)'
    BY <2>2, PackingStays
  <2> QED
    BY <1>1, <2>1, <2>3 DEF PackInv
<1>5. MapInv'
  <2>1. \A j : PatchOf(j)' = PatchOf(j)
    BY DEF PatchOf
  <2>2. DOMAIN fetched = 1..Len(fetched) /\ Len(fetched) \in Nat
    BY <1>1, PatchesAreLines
  <2>3. scan.file \in 1..Len(fetched) + 1 /\ scan.file > Len(fetched)
    BY <1>1 DEF MapInv
  <2>4. \A j \in DOMAIN fetched : j < scan.file
    BY <2>2, <2>3
  <2> QED
    BY <1>1, <2>1, <2>4 DEF MapInv
<1>6. CommentsHitTheirLines'
  BY <1>1, CommentsStay
<1> QED
  BY <1>2, <1>3, <1>4, <1>5, <1>6 DEF PrInv

LEMMA ReadKeepsInv ==
    ASSUME PrInv, NEW c \in DOMAIN chunks, ReadChunk(c)
    PROVE  PrInv'
<1> USE DEF ReadChunk, packVars, mapVars
<1>1. PrReviewTypeOK /\ PrStageInv /\ PackInv /\ MapInv /\ CommentsHitTheirLines
  BY DEF PrInv
<1>2. /\ DOMAIN fetched = 1..Len(fetched) /\ Len(fetched) \in Nat
      /\ \A k \in DOMAIN fetched : fetched[k] \in DOMAIN files /\ PatchOf(k) \in Seq(PatchLines)
  BY <1>1, PatchesAreLines
<1>3. ASSUME NEW k \in DOMAIN fetched, NEW i \in DOMAIN lineMaps[k]
      PROVE  /\ i \in Nat \ {0} /\ lineMaps[k][i] \in Nat
             /\ lineMaps[k][i] = NewLine(PatchOf(k), PositionAt(Places(PatchOf(k)), i))
  <2> DEFINE m == lineMaps[k]
             p == PatchOf(k)
  <2>1. MapHolds(m, p, Len(p)) /\ p \in Seq(PatchLines) /\ i \in DOMAIN m
    BY <1>1, <1>2, <1>3 DEF MapInv
  <2> HIDE DEF m, p
  <2>2. m \in Seq(Nat)
    BY <2>1 DEF MapHolds
  <2>3. i \in 1..Len(m) /\ Len(m) \in Nat
    BY <2>1, <2>2, LenProperties
  <2>4. m[i] \in Nat
    BY <2>2, <2>3, ElementOfSeq
  <2>5. m[i] = NewLine(p, PositionAt(Places(p), i))
    BY <2>1, MapBringsPlaces
  <2> QED
    BY <2>3, <2>4, <2>5 DEF m, p
<1>4. \/ comments' = comments
      \/ \E k \in DOMAIN fetched : \E i \in DOMAIN lineMaps[k] :
            \E named \in {i} \cup (IF i = 1 THEN {0} ELSE {}) :
            comments' = comments \cup {[file |-> fetched[k], index |-> named, line |-> lineMaps[k][i]]}
  OBVIOUS
<1>5. \/ comments' = comments
      \/ \E e \in [file : DOMAIN files, index : Nat, line : Nat] :
            /\ comments' = comments \cup {e}
            /\ e.line = NewLine(files[e.file], PositionAt(Places(files[e.file]), About(e)))
  <2> SUFFICES ASSUME NEW k \in DOMAIN fetched, NEW i \in DOMAIN lineMaps[k],
                      NEW named \in {i} \cup (IF i = 1 THEN {0} ELSE {}),
                      comments' = comments \cup
                          {[file |-> fetched[k], index |-> named, line |-> lineMaps[k][i]]}
               PROVE  \E e \in [file : DOMAIN files, index : Nat, line : Nat] :
                         /\ comments' = comments \cup {e}
                         /\ e.line = NewLine(files[e.file], PositionAt(Places(files[e.file]), About(e)))
    BY <1>4
  <2> DEFINE e == [file |-> fetched[k], index |-> named, line |-> lineMaps[k][i]]
  <2>1. i \in Nat \ {0} /\ lineMaps[k][i] \in Nat /\ fetched[k] \in DOMAIN files
    BY <1>2, <1>3
  <2>2. named \in Nat /\ (IF named = 0 THEN 1 ELSE named) = i
    BY <2>1
  <2>3. e.file = fetched[k] /\ e.index = named /\ e.line = lineMaps[k][i]
    OBVIOUS
  <2>4. About(e) = i /\ files[e.file] = PatchOf(k)
    <3>1. About(e) = IF e.index = 0 THEN 1 ELSE e.index
      BY DEF About
    <3> HIDE DEF e
    <3> QED
      BY <2>2, <2>3, <3>1 DEF PatchOf
  <2>5. e \in [file : DOMAIN files, index : Nat, line : Nat] /\ comments' = comments \cup {e}
    BY <2>1, <2>2
  <2> HIDE DEF e
  <2>6. e.line = NewLine(files[e.file], PositionAt(Places(files[e.file]), About(e)))
    BY <1>3, <2>3, <2>4
  <2> QED
    BY <2>5, <2>6
<1>6. /\ comments' \subseteq [file : DOMAIN files, index : Nat, line : Nat]
      /\ CommentsHitTheirLines'
  <2>1. comments \subseteq [file : DOMAIN files, index : Nat, line : Nat]
    BY <1>1 DEF PrReviewTypeOK
  <2>2. CASE comments' = comments
    BY <1>1, <2>1, <2>2, CommentsStay
  <2>3. ASSUME NEW e \in [file : DOMAIN files, index : Nat, line : Nat],
               comments' = comments \cup {e},
               e.line = NewLine(files[e.file], PositionAt(Places(files[e.file]), About(e)))
        PROVE  /\ comments' \subseteq [file : DOMAIN files, index : Nat, line : Nat]
               /\ CommentsHitTheirLines'
    <3>1. files' = files
      OBVIOUS
    <3>2. \A p \in comments : p.line = NewLine(files[p.file], PositionAt(Places(files[p.file]), About(p)))
      BY <1>1 DEF CommentsHitTheirLines
    <3>3. \A p \in comments' : p.line = NewLine(files[p.file], PositionAt(Places(files[p.file]), About(p)))
      BY <2>3, <3>2
    <3>4. comments' \subseteq [file : DOMAIN files, index : Nat, line : Nat]
      BY <2>1, <2>3
    <3> HIDE DEF ReadChunk
    <3> QED
      BY <3>1, <3>3, <3>4 DEF CommentsHitTheirLines
  <2> QED
    BY <1>5, <2>2, <2>3
<1>7. PrReviewTypeOK'
  BY <1>1, <1>6 DEF PrReviewTypeOK
<1>8. PrStageInv'
  BY <1>1 DEF PrStageInv
<1>9. PackInv'
  <2>1. PICK cs, n : cs = chunks /\ n = Len(fetched)
    OBVIOUS
  <2>2. Packs(cs, n)
    BY <1>1, <2>1 DEF PackInv
  <2>3. Packs(cs, n)'
    BY <2>2, PackingStays
  <2> QED
    BY <1>1, <2>1, <2>3 DEF PackInv
<1>10. MapInv'
  BY <1>1, MapsStay
<1> QED
  BY <1>6, <1>7, <1>8, <1>9, <1>10 DEF PrInv

LEMMA FinishKeepsInv ==
    ASSUME PrInv, FinishPr
    PROVE  PrInv'
<1> USE DEF FinishPr
<1>1. PrReviewTypeOK /\ PackInv
  BY DEF PrInv
<1>2. group = <<>> /\ groupLines = 0 /\ unread = {} /\ runner \in Runners
  BY <1>1 DEF PackInv, PrReviewTypeOK
<1>3. PrReviewTypeOK'
  <2>1. fetched' \in Seq(DOMAIN files') /\ group' \in Seq(DOMAIN files') /\ Len(fetched') = 0
        /\ chunks' \in Seq(Seq(DOMAIN files')) /\ lineMaps' \in Seq(Seq(Nat))
    BY <1>2
  <2>2. page' \in 0..MaxPages + 1 /\ groupLines' \in 0..ChunkLines /\ packed' \in 0..Len(fetched')
    BY <1>1, <2>1, PrReviewAssumption DEF PrReviewTypeOK
  <2>3. unread' \subseteq DOMAIN chunks'
        /\ comments' \subseteq [file : DOMAIN files', index : Nat, line : Nat]
    BY <1>2
  <2>4. files' \in BoundedSeq(Patches, MaxFiles)
    <3>1. <<>> \in [1..0 -> Patches] /\ 0 \in 0..MaxFiles
      BY PrReviewAssumption
    <3> QED
      BY <3>1 DEF BoundedSeq, SeqOf
  <2>5. scan' \in [file : Nat, line : Nat, inHunk : BOOLEAN, next : Nat]
    BY DEF ToRead
  <2> QED
    BY <1>2, <2>1, <2>2, <2>3, <2>4, <2>5 DEF PrReviewTypeOK
<1>4. PrStageInv'
  BY <1>2 DEF PrStageInv
<1>5. PackInv' /\ MapInv' /\ CommentsHitTheirLines'
  BY <1>2 DEF PackInv, MapInv, CommentsHitTheirLines
<1> QED
  BY <1>3, <1>4, <1>5 DEF PrInv
LEMMA PrInvInvariant == PrReviewSpec => []PrInv
<1>1. PrReviewInit => PrInv
  BY PrInvInit
<1>2. PrInv /\ [PrReviewNext]_prVars => PrInv'
  <2> SUFFICES ASSUME PrInv, [PrReviewNext]_prVars PROVE PrInv'
    OBVIOUS
  <2>1. CASE OpenPr
    BY <2>1, OpenKeepsInv
  <2>2. CASE FetchPage
    BY <2>2, FetchKeepsInv
  <2>3. CASE NothingFetched
    BY <2>3, NothingKeepsInv
  <2>4. CASE PackFile
    BY <2>4, PackKeepsInv
  <2>5. CASE FlushLast
    BY <2>5, FlushLastKeepsInv
  <2>6. CASE MapLines
    BY <2>6, MapLinesKeepsInv
  <2>7. CASE SendChunks
    BY <2>7, SendKeepsInv
  <2>8. CASE \E n \in DOMAIN chunks : ReadChunk(n)
    BY <2>8, ReadKeepsInv
  <2>9. CASE FinishPr
    BY <2>9, FinishKeepsInv
  <2>10. CASE UNCHANGED prVars
    <3> USE <2>10 DEF prVars, packVars, mapVars, readVars
    <3>1. PrReviewTypeOK /\ PrStageInv /\ PackInv /\ MapInv /\ CommentsHitTheirLines
      BY DEF PrInv
    <3>2. PrReviewTypeOK'
      BY <3>1 DEF PrReviewTypeOK
    <3>3. PrStageInv'
      BY <3>1 DEF PrStageInv
    <3>4. PackInv'
      <4>1. PICK cs, g, lines, n, m :
              cs = chunks /\ g = group /\ lines = groupLines /\ n = packed /\ m = Len(fetched)
        OBVIOUS
      <4>2. /\ prStage = "chunk" => PackedSo(cs, g, lines, n)
            /\ prStage \in {"map", "read"} => g = <<>> /\ lines = 0 /\ Packs(cs, m)
        BY <3>1, <4>1 DEF PackInv
      <4>3. PackedSo(cs, g, lines, n) => PackedSo(cs, g, lines, n)'
        BY PackingStays
      <4>4. Packs(cs, m) => Packs(cs, m)'
        BY PackingStays
      <4> QED
        BY <4>1, <4>2, <4>3, <4>4 DEF PackInv
    <3>5. MapInv'
      BY <3>1, MapsStay
    <3>6. CommentsHitTheirLines'
      BY <3>1, CommentsStay
    <3> QED
      BY <3>2, <3>3, <3>4, <3>5, <3>6 DEF PrInv
  <2> QED
    BY <2>1, <2>2, <2>3, <2>4, <2>5, <2>6, <2>7, <2>8, <2>9, <2>10 DEF PrReviewNext
<1> QED
  BY <1>1, <1>2, PTL DEF PrReviewSpec

\* However many pages of however large files: every fetched file is in one chunk, in the
\* order it was fetched, and only a file alone in its chunk is over the line limit.
THEOREM ChunksKeepAllFiles == PrReviewSpec => []ChunksKeepFiles
<1>1. PrInv => ChunksKeepFiles
  <2> SUFFICES ASSUME PrInv, prStage = "read" 
               PROVE  /\ FilesIn(chunks) = Len(fetched)
                      /\ \A n \in DOMAIN chunks :
                            /\ \A j \in DOMAIN chunks[n] : chunks[n][j] = fetched[Before(n) + j]
                            /\ Len(chunks[n]) \in 1..ChunkFiles
                            /\ Len(chunks[n]) = 1 \/ ChangedIn(chunks[n]) <= ChunkLines
    BY DEF ChunksKeepFiles
  <2>1. Packs(chunks, Len(fetched))
    BY DEF PrInv, PackInv
  <2> QED
    BY <2>1 DEF Packs, InLimits, Before
<1> QED
  BY <1>1, PrInvInvariant, PTL

\* Whatever the patches, a comment is on the line of the new file that its place in the
\* patch has, across hunks, removed lines and notes.
THEOREM CommentsKeepTheirLines == PrReviewSpec => []CommentsHitTheirLines
<1>1. PrInv => CommentsHitTheirLines
  BY DEF PrInv
<1> QED
  BY <1>1, PrInvInvariant, PTL

\* Chunks and comments are of files of the pull request, and no more is counted for the
\* open group than a chunk may have (chunkDiff, buildLineMap, runPrReview).
THEOREM PrReviewTypeCorrect == PrReviewSpec => []PrReviewTypeOK
<1>1. PrInv => PrReviewTypeOK
  BY DEF PrInv
<1> QED
  BY <1>1, PrInvInvariant, PTL
=============================================================================
