----------------------------- MODULE ApplyBack -----------------------------
(***************************************************************************)
(* zflow-change-workflows/apply-back.ts: bringing the patches of execution *)
(* groups back to the primary worktree.                                    *)
(*                                                                         *)
(*   executeApplyBack      a cascade: replay the patches in topological    *)
(*                         order; on a failure reset the tree and try the  *)
(*                         same again resolving conflict markers; reset    *)
(*                         and merge in an integration worktree, then      *)
(*                         apply the one consolidated patch.               *)
(*   recoverFromApplyBack  what run.json says of an interrupted apply-back *)
(*                         decides whether the tree is reset.              *)
(*   callers               mark the group ledger and the run's phase with  *)
(*                         the result.                                     *)
(*                                                                         *)
(* Git is external.  A commit or a worktree is the set of the changes in   *)
(* it; two changes of a pair in "overlap" conflict when merged.  `git      *)
(* apply --3way --index` of a change either merges, or leaves conflict     *)
(* markers and an unmerged index entry, or refuses and changes nothing,    *)
(* always so while a file of the patch is unmerged.  A git killed by its   *)
(* timeout leaves files half-written, which the model counts as unmerged.  *)
(***************************************************************************)
EXTENDS Naturals

CONSTANTS
    Group,      \* execution groups of the run
    User,       \* a change the user commits while the run is going on
    Rank,       \* place of each group in the order topoSortGroups returns
    Callers,    \* the callers of executeApplyBack that are at work
    NoGroup

ASSUME ApplyBackAssumption ==
    /\ User \notin Group
    /\ NoGroup \notin Group
    /\ Rank \in [Group -> Nat]
    /\ \A g, h \in Group : Rank[g] = Rank[h] => g = h
    /\ Callers \subseteq {"finalize", "ledger", "resume"}

VARIABLES
    patched,    \* groups with a patch in the run directory (fixed)
    overlap,    \* pairs of changes that conflict (fixed)
    cyclic,     \* the dependencies among all groups have a cycle (fixed)
    head,       \* primary worktree: changes in the HEAD commit
    tree,       \* ... changes in index and files
    unmerged,   \* ... groups whose patch left markers or half-written files
    ref,        \* refs/zflow/recovery/<run> exists
    phase,      \* run.json: phase
    status,     \* run.json: applyBack.status
    snapshot,   \* run.json: preApplySnapshot is recorded
    ledger,     \* run.json: groups marked applied in the group ledger
    pc,         \* control point of the call under way
    caller,     \* who made it
    batch,      \* groups it was asked to apply
    todo,       \* groups its current pass has still to apply
    failing,    \* group at which the replay failed
    spoiled,    \* ghost: a reset, or git in the last step, failed this call
    unrecorded, \* ghost: only the record of this call's last strategy failed
    delivered,  \* ghost: groups whose patches the last success reported
    leftOut     \* ghost: groups that some call so far did not ask for

runVars == <<phase, status, snapshot, ledger>>
gitVars == <<head, tree, unmerged, ref>>
callVars == <<caller, batch, todo, failing>>
ghostVars == <<spoiled, unrecorded, delivered, leftOut>>
fixedVars == <<patched, overlap, cyclic>>

vars == <<fixedVars, gitVars, runVars, pc, callVars, ghostVars>>

Change == Group \cup {User}

Phases == {"executing", "applying", "completed", "partial", "failed",
           "apply-back-conflicted"}
Statuses == {"pending", "in-progress", "completed", "conflicted", "rolled-back"}

\* Control points: of the replay, of the second pass with structured
\* resolution, of the integration merge, and the ways to end.
Replaying == {"replay", "reset"}
Resolving == {"structured", "resolve", "stage", "undo"}
Merging == {"integrate", "consolidated"}
Completing == {"replayed", "resolved", "merged"}
PCs == {"idle", "mark", "ref", "conflicted", "completed",
        "giveUp", "succeeded", "failed", "recover", "recovered"}
         \cup Replaying \cup Resolving \cup Merging \cup Completing

TypeOK ==
    /\ patched \subseteq Group
    /\ overlap \subseteq SUBSET Change
    /\ cyclic \in BOOLEAN
    /\ head \subseteq Change
    /\ tree \subseteq Change
    /\ unmerged \subseteq Group
    /\ ref \in BOOLEAN
    /\ phase \in Phases
    /\ status \in Statuses
    /\ snapshot \in BOOLEAN
    /\ ledger \subseteq Group
    /\ pc \in PCs
    /\ caller \in Callers \cup {"none"}
    /\ batch \subseteq Group
    /\ todo \subseteq batch
    /\ failing \in Group \cup {NoGroup}
    /\ spoiled \in BOOLEAN
    /\ unrecorded \in BOOLEAN
    /\ delivered \subseteq Group
    /\ leftOut \subseteq Group

\* After dispatch: run.json as createRun and the dispatch left it, the primary
\* worktree at the commit the run started from.
Init ==
    /\ patched \in SUBSET Group
    /\ overlap \in SUBSET {{x, y} : x \in Group, y \in Change}
    /\ \A x \in Change : {x} \notin overlap
    /\ cyclic \in BOOLEAN
    /\ head = {} /\ tree = {} /\ unmerged = {} /\ ref = FALSE
    /\ phase = "executing" /\ status = "pending" /\ snapshot = TRUE
    /\ ledger = {}
    /\ pc = "idle" /\ caller = "none"
    /\ batch = {} /\ todo = {} /\ failing = NoGroup
    /\ spoiled = FALSE /\ unrecorded = FALSE /\ delivered = {} /\ leftOut = {}

Goto(label) == pc' = label

-----------------------------------------------------------------------------
(* Git                                                                     *)

\* A file of one of these patches has an unmerged index entry.
Blocked(G) == \E g \in G, u \in unmerged : g = u \/ {g, u} \in overlap

\* The groups whose changes conflict with what is in the tree.
Clashing(G) == {g \in G \ tree : \E x \in tree : {g, x} \in overlap}

\* A patch that is in the tree already merges without change.
GitMerges(G) ==
    /\ ~Blocked(G) /\ Clashing(G) = {}
    /\ tree' = tree \cup G
    /\ UNCHANGED <<head, unmerged, ref>>

GitLeavesMarkers(G) ==
    /\ ~Blocked(G)
    /\ \E S \in SUBSET (G \ tree) :
           /\ S # {} /\ Clashing(G) \subseteq S
           /\ tree' = tree \cup (G \ S)
           /\ unmerged' = unmerged \cup S
    /\ UNCHANGED <<head, ref>>

\* An untracked or a locally changed file in the way, a bad patch.
GitRefuses == UNCHANGED gitVars

GitFails(G) == GitLeavesMarkers(G) \/ GitRefuses

\* resetToPreApplySnapshot: hard reset to the recovery ref, else to the head
\* recorded when the run was created; both name the commit of that time.
ResetTree ==
    /\ head' = {} /\ tree' = {} /\ unmerged' = {}
    /\ UNCHANGED <<ref, ghostVars>>

ResetFails == spoiled' = TRUE /\ UNCHANGED <<gitVars, unrecorded, delivered, leftOut>>

-----------------------------------------------------------------------------
(* executeApplyBack                                                        *)

\* What a caller asks for: runWorktreeDispatchAndFinalize (once, on a fresh
\* run) and a resumed command all groups, applySuccessfulGroupPatches the
\* eligible ones among those not yet marked applied.
Batches(c) ==
    CASE c = "finalize" -> IF status = "pending" THEN {Group} ELSE {}
      [] c = "resume" -> {Group}
      [] c = "ledger" -> SUBSET (Group \ ledger) \ {{}}

\* applyPatchesWithLedger records the snapshot anew when it was cleared.
CallTrustsSnapshot(c, G) ==
    /\ pc = "idle"
    /\ c \in Callers /\ G \in Batches(c)
    /\ caller' = c /\ batch' = G /\ todo' = {} /\ failing' = NoGroup
    /\ spoiled' = FALSE /\ unrecorded' = FALSE /\ leftOut' = leftOut \cup (Group \ G)
    /\ Goto("mark")
    /\ UNCHANGED <<fixedVars, gitVars, runVars, delivered>>
Call(c, G) ==
    /\ pc = "idle"
    /\ c \in Callers /\ G \in Batches(c)
    /\ caller' = c /\ batch' = G /\ todo' = {} /\ failing' = NoGroup
    /\ snapshot' = TRUE
    /\ spoiled' = FALSE /\ unrecorded' = FALSE /\ leftOut' = leftOut \cup (Group \ G)
    /\ Goto("mark")
    /\ UNCHANGED <<fixedVars, gitVars, phase, status, ledger, delivered>>

\* The run is marked before anything else; topoSortGroups
\* finds a cycle among the groups and the call ends, or an order.
MarkApplying ==
    /\ pc = "mark"
    /\ \/ /\ ~cyclic \/ batch # Group
          /\ phase' = "applying" /\ status' = "in-progress" /\ Goto("ref")
       \/ /\ cyclic
          /\ phase' = "failed" /\ status' = "conflicted" /\ Goto("failed")
    /\ UNCHANGED <<fixedVars, gitVars, snapshot, ledger, callVars, ghostVars>>

\* createRecoveryRef; git update-ref may throw out of the call.
CreateRecoveryRef ==
    /\ pc = "ref"
    /\ \/ ref' = TRUE /\ todo' = batch /\ Goto("replay")
       \/ UNCHANGED <<ref, todo>> /\ Goto("idle")
    /\ UNCHANGED <<fixedVars, head, tree, unmerged, runVars, caller, batch,
                   failing, ghostVars>>

\* The group whose turn it is in topological order.
Turn(g) == g \in todo /\ \A h \in todo : Rank[g] <= Rank[h]

\* A group without a patch counts as applied.
ReplayPatch(g) ==
    /\ pc = "replay"
    /\ Turn(g)
    /\ IF g \in patched THEN GitMerges({g}) ELSE UNCHANGED gitVars
    /\ todo' = todo \ {g}
    /\ UNCHANGED <<fixedVars, runVars, pc, caller, batch, failing, ghostVars>>

ReplayFails(g) ==
    /\ pc = "replay"
    /\ Turn(g) /\ g \in patched
    /\ GitFails({g})
    /\ failing' = g
    /\ Goto("reset")
    /\ UNCHANGED <<fixedVars, runVars, caller, batch, todo, ghostVars>>

ReplayDone ==
    /\ pc = "replay"
    /\ todo = {}
    /\ Goto("replayed")
    /\ UNCHANGED <<fixedVars, gitVars, runVars, callVars, ghostVars>>

\* A failing reset throws out of the call, past the update of run.json.
ReplayReset ==
    /\ pc = "reset"
    /\ \/ ResetTree /\ Goto("conflicted")
       \/ ResetFails /\ Goto("idle")
    /\ UNCHANGED <<fixedVars, runVars, callVars>>

\* run.json says conflicted from here on, although the cascade goes on, unless
\* the call has switched it off.  The passes to come work from a map of the
\* patches of the groups of the call (buildPatchMap).
PatchMapSkippingApplied == (batch \cap patched) \ ledger
PatchMap == batch \cap patched

ReplayConflicted ==
    /\ pc = "conflicted"
    /\ phase' = "apply-back-conflicted" /\ status' = "conflicted"
    /\ \/ todo' = PatchMap /\ Goto("structured")
       \/ UNCHANGED todo /\ Goto("failed")
    /\ UNCHANGED <<fixedVars, gitVars, snapshot, ledger, caller, batch, failing,
                   ghostVars>>

\* Second pass over the patches, in the same order.
StructuredPatch(g) ==
    /\ pc = "structured"
    /\ Turn(g)
    /\ \/ GitMerges({g}) /\ todo' = todo \ {g} /\ UNCHANGED pc
       \/ /\ GitFails({g})
          /\ Goto(IF g = failing THEN "resolve" ELSE "undo")
          /\ UNCHANGED todo
    /\ UNCHANGED <<fixedVars, runVars, caller, batch, failing, ghostVars>>

StructuredDone ==
    /\ pc = "structured"
    /\ todo = {}
    /\ Goto("stage")
    /\ UNCHANGED <<fixedVars, gitVars, runVars, callVars, ghostVars>>

\* resolveAllConflicts rewrites files with markers, not the index: with the
\* entry still unmerged git refuses the patch when it is tried again, and with
\* no markers it is not tried.  Either way the pass has failed.
ResolveAndRetry ==
    /\ pc = "resolve"
    /\ Goto("undo")
    /\ UNCHANGED <<fixedVars, gitVars, runVars, callVars, ghostVars>>

\* git add -A; when it throws the pass has failed.
StageAll ==
    /\ pc = "stage"
    /\ Goto("resolved") \/ Goto("undo")
    /\ UNCHANGED <<fixedVars, gitVars, runVars, callVars, ghostVars>>

\* The reset after the second pass is best-effort; preferSubagentOver-
\* IntegrationMerge skips the third strategy.
StructuredResetSkipped ==
    /\ pc = "undo"
    /\ Goto("integrate") \/ Goto("giveUp")
    /\ UNCHANGED <<fixedVars, gitVars, runVars, callVars, ghostVars>>
StructuredReset ==
    /\ pc = "undo"
    /\ ResetTree \/ ResetFails
    /\ Goto("integrate") \/ Goto("giveUp")
    /\ UNCHANGED <<fixedVars, runVars, callVars>>

\* runIntegrationMerge works in a worktree of its own, at the snapshot's head;
\* patches that conflict do not merge there either.
IntegrationMerge ==
    /\ pc = "integrate"
    /\ \/ /\ PatchMap # {}
          /\ \A g, h \in PatchMap : {g, h} \notin overlap
          /\ Goto("consolidated")
       \/ Goto("giveUp")
    /\ UNCHANGED <<fixedVars, gitVars, runVars, callVars, ghostVars>>

\* Nothing is rolled back when the consolidated patch fails.
ApplyConsolidated ==
    /\ pc = "consolidated"
    /\ \/ GitMerges(PatchMap) /\ Goto("merged") /\ UNCHANGED spoiled
       \/ GitRefuses /\ Goto("giveUp") /\ UNCHANGED spoiled
       \/ GitLeavesMarkers(PatchMap) /\ Goto("giveUp") /\ spoiled' = TRUE
    /\ UNCHANGED <<fixedVars, runVars, callVars, unrecorded, delivered, leftOut>>

\* markApplyBackConflicted
GiveUp ==
    /\ pc = "giveUp"
    /\ phase' = "apply-back-conflicted" /\ status' = "conflicted"
    /\ Goto("failed")
    /\ UNCHANGED <<fixedVars, gitVars, snapshot, ledger, callVars, ghostVars>>

\* markApplyBackCompleted: one write of run.json, then the ref is deleted.
Complete ==
    /\ pc \in Completing
    /\ phase' = "completed" /\ status' = "completed" /\ snapshot' = FALSE
    /\ delivered' = batch \cap patched
    /\ Goto("completed")
    /\ UNCHANGED <<fixedVars, gitVars, ledger, callVars, spoiled, unrecorded, leftOut>>

\* That write fails.  After the replay this throws out of the call; the passes behind
\* it catch it as a failure of their own, the last with its patch left in the tree.
CompleteFails ==
    /\ pc \in Completing
    /\ Goto(CASE pc = "replayed" -> "idle" [] pc = "resolved" -> "undo"
              [] pc = "merged" -> "giveUp")
    /\ unrecorded' = (pc = "merged")
    /\ UNCHANGED <<fixedVars, gitVars, runVars, callVars, spoiled, delivered, leftOut>>

\* removeRecoveryRef ignores a failure.
RemoveRecoveryRef ==
    /\ pc = "completed"
    /\ ref' \in {FALSE, ref}
    /\ Goto("succeeded")
    /\ UNCHANGED <<fixedVars, head, tree, unmerged, runVars, callVars, ghostVars>>

-----------------------------------------------------------------------------
(* Callers                                                                 *)

\* runWorktreeDispatchAndFinalize marks every group, whatever the result says.
FinalizeReturns ==
    /\ caller = "finalize"
    /\ pc \in {"succeeded", "failed"}
    /\ ledger' = ledger \cup batch
    /\ Goto("idle")
    /\ UNCHANGED <<fixedVars, gitVars, phase, status, snapshot, callVars,
                   ghostVars>>

\* applySuccessfulGroupPatches marks the groups after a success.
LedgerReturns ==
    /\ caller = "ledger"
    /\ \/ /\ pc = "succeeded"
          /\ ledger' = ledger \cup batch
          /\ phase' = "completed"
       \/ pc = "failed" /\ phase' = "partial" /\ UNCHANGED ledger
    /\ Goto("idle")
    /\ UNCHANGED <<fixedVars, gitVars, status, snapshot, callVars, ghostVars>>

\* --resume and --apply-successful mark, after a success, the groups that the
\* reconciler found reusable.
ResumeReturns ==
    /\ caller = "resume"
    /\ \/ pc = "succeeded" /\ \E R \in SUBSET batch : ledger' = ledger \cup R
       \/ pc = "failed" /\ UNCHANGED ledger
    /\ Goto("idle")
    /\ UNCHANGED <<fixedVars, gitVars, phase, status, snapshot, callVars,
                   ghostVars>>

-----------------------------------------------------------------------------
(* recoverFromApplyBack                                                    *)

\* With apply-back pending or in progress the tree is reset when the snapshot
\* is there; with the other statuses nothing changes.
Recover ==
    /\ pc = "idle"
    /\ status \in {"pending", "in-progress"}
    /\ \/ snapshot /\ ResetTree
       \/ UNCHANGED <<gitVars, ghostVars>>
    /\ Goto("recover")
    /\ UNCHANGED <<fixedVars, runVars, callVars>>

\* setRunPhase, then a second update of run.json.
RecoverSetsPhase ==
    /\ pc = "recover"
    /\ phase' = "failed"
    /\ Goto("recovered")
    /\ UNCHANGED <<fixedVars, gitVars, status, snapshot, ledger, callVars,
                   ghostVars>>

RecoverSetsStatus ==
    /\ pc = "recovered"
    /\ status' = "rolled-back"
    /\ Goto("idle")
    /\ UNCHANGED <<fixedVars, gitVars, phase, snapshot, ledger, callVars,
                   ghostVars>>

-----------------------------------------------------------------------------
(* The world around                                                        *)

\* The user commits what is in the tree together with a change of their own;
\* git refuses to commit unmerged entries.
UserCommits ==
    /\ pc = "idle"
    /\ unmerged = {}
    /\ User \notin tree
    /\ tree' = tree \cup {User}
    /\ head' = tree'
    /\ UNCHANGED <<fixedVars, unmerged, ref, runVars, pc, callVars, ghostVars>>

\* The process dies; run.json, the repository and its worktree stay.
Crash ==
    /\ pc # "idle"
    /\ Goto("idle")
    /\ UNCHANGED <<fixedVars, gitVars, runVars, callVars, ghostVars>>

Cascade ==
    \/ MarkApplying \/ CreateRecoveryRef
    \/ \E g \in Group : ReplayPatch(g) \/ ReplayFails(g) \/ StructuredPatch(g)
    \/ ReplayDone \/ ReplayReset \/ ReplayConflicted
    \/ StructuredDone \/ ResolveAndRetry \/ StageAll \/ StructuredReset
    \/ IntegrationMerge \/ ApplyConsolidated
    \/ GiveUp \/ Complete \/ CompleteFails \/ RemoveRecoveryRef

Next ==
    \/ \E c \in Callers, G \in SUBSET Group : Call(c, G)
    \/ Cascade
    \/ FinalizeReturns \/ LedgerReturns \/ ResumeReturns
    \/ Recover \/ RecoverSetsPhase \/ RecoverSetsStatus
    \/ UserCommits \/ Crash

Spec == Init /\ [][Next]_vars

-----------------------------------------------------------------------------
(* Properties                                                              *)

InStrategy == pc \in Replaying \cup Resolving \cup Merging \cup Completing

AtBase == head = {} /\ tree = {} /\ unmerged = {}

\* Unchanged but for the patches of the call, all of them.
HasCallsPatches == head = {} /\ tree = batch \cap patched /\ unmerged = {}

\* While run.json says that apply-back is completed, every patch of the call
\* that completed it is in the tree, whole: the last strategy of the cascade
\* delivers what the first would have, and neither a crash, a recovery nor a
\* later call on its way to "applying" undoes it (apply-back.ts:493-515,
\* 600-757).
CompletedHasPatches ==
    status = "completed" => delivered \subseteq tree \ unmerged

\* A call that ends in conflict, with every reset it tried done, leaves the
\* primary worktree at the commit of the snapshot, whatever mix of strategies
\* it went through and whatever state it found (apply-back.ts:406-446, 752-933:
\* "No partial changes remain"); or, if all that failed was to record the
\* success of the last strategy, with every patch of the call and nothing else.
FailureLeavesBase ==
    pc = "failed" /\ phase = "apply-back-conflicted" /\ ~spoiled =>
        AtBase \/ (unrecorded /\ HasCallsPatches)

\* Short of a completed apply-back, run.json has the snapshot recovery needs,
\* and while a strategy is changing the tree the recovery ref exists too, over
\* any sequence of calls, completions (which delete both) and crashes
\* (apply-back.ts:497-515, 600, orchestration/worktree/run.ts:442-451).
Recoverable ==
    /\ status # "completed" => snapshot
    /\ InStrategy => ref /\ snapshot

\* At rest, with apply-back completed, the groups the ledger marks applied are
\* in the tree (index.ts:611-613, appliedToPrimary).
CompletedLedgerTellsTree ==
    pc = "idle" /\ status = "completed" => ledger \cap patched \subseteq tree

\* As long as every call was for all groups, that holds: a resumed command
\* applies all groups again, also those the ledger marks, so what a rollback
\* took away is back before the status says completed (index.ts:5893-5912,
\* 6085-6107).
WholeCallsLedgerTellsTree == leftOut = {} => CompletedLedgerTellsTree
=============================================================================
