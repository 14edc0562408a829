----------------------------- MODULE GroupResume -----------------------------
(***************************************************************************)
(* The life of one run from its first dispatch to its completion:          *)
(* /zflow-change-implement, its --resume and --apply-successful, with what *)
(* resume-reconciler.ts makes of run.json in between.                      *)
(*                                                                         *)
(* The waves of a dispatch (Dispatch) and the strategies of an apply-back  *)
(* (ApplyBack) have modules of their own and are single steps here.  The   *)
(* patches made for a group are numbered: which patch a record, a file or  *)
(* the worktree has is then a number, 0 being none.  A command may stop    *)
(* between any two steps.                                                  *)
(***************************************************************************)
EXTENDS PostStart

CONSTANT Dep        \* dependencies of each group

ASSUME GroupResumeAssumption ==
    /\ Dep \in [Group -> SUBSET Group]
    /\ \A S \in SUBSET Group : S # {} => \E g \in S : Dep[g] \cap S = {}

VARIABLES
    status,     \* ledger: status
    marked,     \* ... appliedToPrimary
    evident,    \* ... worker or no-op evidence instead of a patch
    scoped,     \* ... scopedVerification passed
    link,       \* ... patchPath: the patch found there
    runDir,     \* patches/<group>.patch of the run
    listed,     \* run.groups
    snap,       \* preApplySnapshot is recorded
    lineage,    \* groups with a materialized lineage ref
    head,       \* what the commits of the primary branch hold
    made,       \* patches made so far
    dispatched, \* groups of the present runWorktreeDispatchAndFinalize call
    job,        \* the reconciliation a --resume works from
    apply,      \* the apply-back under way: its caller and its groups
    kept,       \* ghost: groups with a patch that was neither applied nor superseded
    redone      \* ghost: groups dispatched although they were kept

ledgerVars == <<status, marked, evident, scoped, link>>
fileVars == <<runDir, listed, snap, lineage, head>>
localVars == <<dispatched, job, apply>>
workGhosts == <<made, kept, redone>>
resumeVars == <<postVars, ledgerVars, fileVars, localVars, workGhosts>>

NoJob == [rerun |-> {}, reuse |-> {}, apply |-> FALSE, verify |-> FALSE,
          review |-> FALSE, resumed |-> FALSE]
NoApply == [by |-> "none", groups |-> {}]

ResumeTypeOK ==
    /\ PostTypeOK
    /\ status \in [Group -> {"queued", "running", "succeeded", "applied", "failed",
                             "blocked"}]
    /\ marked \subseteq Group
    /\ evident \subseteq marked
    /\ scoped \subseteq Group
    /\ link \in Trees /\ runDir \in Trees /\ head \in Trees /\ made \in Trees
    /\ \A g \in Group : link[g] <= made[g] /\ runDir[g] <= made[g] /\ tree[g] <= made[g]
    /\ listed \subseteq Group
    /\ snap \in BOOLEAN
    /\ lineage \subseteq Group
    /\ dispatched \subseteq Group
    /\ job.rerun \cap job.reuse = {}
    /\ apply \in [by : {"none", "finalize", "eligible", "resume", "command"},
                  groups : SUBSET Group]
    /\ pc \in {"applying", "mark"} <=> apply.by # "none"

ResumeInit ==
    /\ PostInit
    /\ status = [g \in Group |-> "queued"]
    /\ marked = {} /\ evident = {} /\ scoped = {} /\ link = Empty
    /\ runDir = Empty /\ listed = {} /\ snap = TRUE /\ lineage = {}
    /\ head = Empty /\ made = Empty
    /\ dispatched = {} /\ job = NoJob /\ apply = NoApply
    /\ kept = {} /\ redone = {}
    /\ pc = "wave"

Finished == {"succeeded", "applied"}
Done == {g \in Group : status[g] \in Finished}
HasPatch(g) == link[g] # 0 \/ runDir[g] # 0

\* What is behind a group, as a call that was handed the groups S sees it: it knows
\* the dependencies of those alone, whether they are among them or not.
Closure(g, S) ==
    {h \in Group : \A C \in SUBSET Group :
        Dep[g] \subseteq C /\ (\A x \in C \cap S : Dep[x] \subseteq C) => h \in C}

\* materializeDependencyLineageRef, of a group with any of S behind it: an existing
\* ref is taken as it is, and a new one needs the patch of everything behind it.
HasLineage(g, S) == Closure(g, S) \cap S # {}
LineageFails(W, S) ==
    \E g \in W \ lineage : HasLineage(g, S) /\ \E h \in Closure(g, S) : ~HasPatch(h)
NewLineage(W, S) == lineage \cup {g \in W : HasLineage(g, S)}

-----------------------------------------------------------------------------
(* Dispatch                                                                *)

\* runWorktreeDispatchAndFinalize keeps what is done and queues the rest.
QueueAll == [g \in Group |-> "queued"]
KeepDone == [g \in Group |-> IF status[g] \in Finished THEN status[g] ELSE "queued"]

Ready == {g \in Group : status[g] = "queued" /\ \A h \in Dep[g] : status[h] \in Finished}

Dependents(F) == {g \in Group : Closure(g, Group) \cap F # {}}

\* What the workers of the groups in W answer.
Results(W) == [W -> {"verified", "deferred", "evidence", "fail"}]
Patched(r) == {g \in DOMAIN r : r[g] \in {"verified", "deferred"}}
Failed(r) == {g \in DOMAIN r : r[g] = "fail"}
Evident(r) == {g \in DOMAIN r : r[g] = "evidence"}

NoteResults(r) ==
    /\ made' = [g \in Group |-> IF g \in Patched(r) THEN made[g] + 1 ELSE made[g]]
    /\ link' = [g \in Group |-> IF g \in Patched(r) THEN made[g] + 1
                                ELSE IF g \in Evident(r) THEN 0 ELSE link[g]]
    /\ marked' = marked \cup Evident(r)
    /\ evident' = (evident \ Patched(r)) \cup Evident(r)
    /\ scoped' = (scoped \ DOMAIN r) \cup {g \in DOMAIN r : r[g] = "verified"}
    /\ kept' = kept \cup Patched(r)
    /\ redone' = redone \cup (DOMAIN r \cap kept)

Outcome(r, g) ==
    IF g \in Failed(r) THEN "failed"
    ELSE IF g \in Evident(r) THEN "applied" ELSE "succeeded"

\* The groups of a dispatch are noted in the ledger one by one before it begins.
Dispatching(S) == [g \in Group |-> IF g \in S THEN "running" ELSE status[g]]

\* cleanupUnexpectedPrimaryChanges, after every dispatch.
CleanUp == tree' = head

RunWave(r) ==
    /\ pc = "wave"
    /\ DOMAIN r = Ready /\ Ready # {}
    /\ \A g \in Ready : made[g] < MaxWork
    /\ ~LineageFails(Ready, Group)
    /\ NoteResults(r)
    /\ status' = [g \in Group |->
            IF g \in Ready THEN Outcome(r, g)
            ELSE IF g \in Dependents(Failed(r)) /\ status[g] = "queued" THEN "blocked"
            ELSE status[g]]
    /\ lineage' = NewLineage(Ready, Group)
    /\ dispatched' = dispatched \cup Ready
    /\ CleanUp
    /\ UNCHANGED <<command, recordVars, pc, postGhosts, runDir, listed, snap, head,
                   job, apply>>

\* A dependency done without a patch cannot be built upon: the dispatch throws.
WaveThrows ==
    /\ pc = "wave" /\ Ready # {}
    /\ LineageFails(Ready, Group)
    /\ Goto("idle")
    /\ dispatched' = {} /\ job' = NoJob
    /\ UNCHANGED <<command, recordVars, tree, postGhosts, ledgerVars, fileVars,
                   apply, workGhosts>>

EndPartial ==
    /\ pc = "wave" /\ Ready = {} /\ Done # Group
    /\ phase' = "partial"
    /\ Goto("idle")
    /\ dispatched' = {} /\ job' = NoJob
    /\ UNCHANGED <<command, applyBack, verified, verStale, review, revStale, closed,
                   tree, postGhosts, ledgerVars, fileVars, apply, workGhosts>>

\* The results of this call are put into the run's patches and run.groups, and
\* apply-back is begun for all groups of the plan.  Once a completed apply-back
\* has cleared the snapshot that is an error.
Collect ==
    /\ pc = "wave" /\ Ready = {} /\ Done = Group
    /\ runDir' = [g \in Group |-> IF g \in dispatched /\ link[g] # 0 THEN link[g]
                                  ELSE runDir[g]]
    /\ listed' = listed \cup dispatched
    /\ phase' = "applying" /\ applyBack' = "in-progress" /\ verStale' = FALSE
    /\ IF snap THEN apply' = [by |-> "finalize", groups |-> Group] /\ Goto("applying")
                    /\ UNCHANGED <<dispatched, job>>
               ELSE Goto("idle") /\ dispatched' = {} /\ job' = NoJob /\ UNCHANGED apply
    /\ UNCHANGED <<command, verified, review, revStale, closed, tree, postGhosts,
                   ledgerVars, snap, lineage, head, workGhosts>>

-----------------------------------------------------------------------------
(* Apply-back                                                              *)

\* applyPatchesWithLedger works on run.groups, and records a snapshot if there is
\* none.
BeginApply(by, S) ==
    /\ apply' = [by |-> by, groups |-> S \cap listed]
    /\ snap' = TRUE
    /\ phase' = "applying" /\ applyBack' = "in-progress" /\ verStale' = FALSE
    /\ Goto("applying")

\* A group without a patch in the run counts as applied.
ApplySucceeds ==
    /\ pc = "applying"
    /\ tree' = [g \in Group |-> IF g \in apply.groups /\ runDir[g] # 0 THEN runDir[g]
                                ELSE tree[g]]
    /\ phase' = "completed" /\ applyBack' = "completed" /\ NewerApplyBack
    /\ snap' = FALSE
    /\ Goto("mark")
    /\ UNCHANGED <<command, verified, review, revStale, closed, postGhosts,
                   ledgerVars, runDir, listed, lineage, head, localVars, workGhosts>>

\* The whole cascade failed: the tree goes back to the commit of the snapshot.
\* finalizeWorktreeImplementationRun has its groups marked all the same.
ApplyConflicts ==
    /\ pc = "applying"
    /\ tree' = Empty /\ head' = Empty
    /\ phase' = IF apply.by = "eligible" THEN "partial" ELSE "apply-back-conflicted"
    /\ applyBack' = "conflicted" /\ NewerApplyBack
    /\ IF apply.by = "finalize"
       THEN /\ marked' = marked \cup dispatched
            /\ status' = [g \in Group |-> IF g \in dispatched THEN "applied" ELSE status[g]]
       ELSE UNCHANGED <<marked, status>>
    /\ IF apply.by = "finalize" /\ job.resumed THEN Goto("decide") /\ UNCHANGED job
                                               ELSE Goto("idle") /\ job' = NoJob
    /\ apply' = NoApply /\ dispatched' = {}
    /\ UNCHANGED <<command, verified, review, revStale, closed, postGhosts,
                   evident, scoped, link, runDir, listed, snap, lineage, workGhosts>>

\* checkApplyEligibility, without semantic coupling
Eligible ==
    {g \in Group : /\ status[g] = "succeeded" /\ g \notin marked
                   /\ g \in scoped /\ link[g] # 0
                   /\ \A h \in Dep[g] : status[h] = "applied" \/ h \in marked}

Marks ==
    CASE apply.by = "finalize" -> dispatched
      [] apply.by = "eligible" -> Eligible
      [] OTHER -> job.reuse

\* The callers mark the groups they asked to be applied.
MarkApplied ==
    /\ pc = "mark"
    /\ marked' = marked \cup Marks
    /\ status' = [g \in Group |-> IF g \in Marks THEN "applied" ELSE status[g]]
    /\ kept' = {g \in kept : tree[g] # made[g]}
    /\ LET whole == \A g \in Group : status'[g] = "applied"
       IN  CASE apply.by = "finalize" -> Goto(IF job.resumed THEN "decide" ELSE "post")
             [] apply.by = "eligible" -> Goto(IF whole THEN "decide" ELSE "idle")
             [] apply.by = "resume"   -> Goto("post")
             [] OTHER                 -> Goto("idle")
    /\ job' = IF pc' = "idle" THEN NoJob ELSE job
    /\ apply' = NoApply /\ dispatched' = {}
    /\ UNCHANGED <<command, recordVars, tree, postGhosts, evident, scoped, link, fileVars,
                   made, redone>>

-----------------------------------------------------------------------------
(* resume-reconciler.ts                                                    *)

DistrustLedger ==
    \/ phase \in {"apply-back-conflicted", "applying"}
    \/ UndoneApplyBack

AlreadyApplied ==
    IF DistrustLedger THEN {}
    ELSE {g \in Group : g \in marked \/ status[g] = "applied" \/ g \in evident}
Reusable ==
    {g \in Group \ AlreadyApplied :
        link[g] # 0 /\ (status[g] = "succeeded" \/ DistrustLedger)}
Met(h) == h \in marked \/ status[h] \in Finished
WaitingOnDependencies ==
    {g \in Group \ (AlreadyApplied \cup Reusable) :
        status[g] = "queued" /\ \E h \in Dep[g] : ~Met(h)}
NeedRerun == Group \ (AlreadyApplied \cup Reusable \cup WaitingOnDependencies)

PassedCurrent == verified = "passed" /\ ~verStale

Reconciliation ==
    [rerun |-> NeedRerun,
     reuse |-> Reusable,
     apply |-> Reusable # {}
                  /\ (Reusable = Group \/ (AlreadyApplied # {} /\ NeedRerun = {})),
     verify |-> \/ phase \in {"verification-failed", "completed"}
                \/ verStale
                \/ AlreadyApplied = Group /\ verified = "none",
     review |-> \/ phase = "review-failed"
                \/ PassedCurrent /\ (review \in {"none", "fail"} \/ revStale),
     resumed |-> TRUE]

-----------------------------------------------------------------------------
(* --resume                                                                *)

\* Nothing to rerun: go on to apply-back, verification or review.
ResumeDirectly ==
    /\ pc = "idle" /\ ~closed
    /\ NeedRerun = {}
    /\ job' = Reconciliation
    /\ Goto("decide")
    /\ UNCHANGED <<command, recordVars, tree, postGhosts, ledgerVars, fileVars,
                   dispatched, apply, workGhosts>>

\* resumeWorktreeDispatch, of the groups to rerun; on a tree that is not clean only
\* if the user insists, which may always be.  A lineage that cannot be built ends
\* the command.
ResumeRerun ==
    /\ pc = "idle" /\ ~closed
    /\ NeedRerun # {}
    /\ \A g \in NeedRerun : made[g] < MaxWork
    /\ phase' = "executing"
    /\ IF LineageFails(NeedRerun, NeedRerun)
       THEN Goto("idle") /\ UNCHANGED <<job, status, lineage>>
       ELSE /\ job' = Reconciliation
            /\ status' = Dispatching(NeedRerun)
            /\ lineage' = NewLineage(NeedRerun, NeedRerun)
            /\ Goto("rerun")
    /\ UNCHANGED <<command, applyBack, verified, verStale, review, revStale, closed,
                   tree, postGhosts, marked, evident, scoped, link, runDir, listed, snap,
                   head, dispatched, apply, workGhosts>>

\* Patches go to the run's directory and the ledger, and not to run.groups.
RerunResults(r) ==
    /\ pc = "rerun"
    /\ DOMAIN r = job.rerun
    /\ NoteResults(r)
    /\ status' = [g \in Group |-> IF g \in job.rerun THEN Outcome(r, g) ELSE status[g]]
    /\ runDir' = [g \in Group |-> IF g \in Patched(r) THEN made[g] + 1 ELSE runDir[g]]
    /\ CleanUp
    /\ IF Failed(r) # {}
       THEN phase' = "partial" /\ Goto("idle") /\ job' = NoJob
       ELSE UNCHANGED <<phase, job>> /\ Goto("rerunDone")
    /\ UNCHANGED <<command, applyBack, verified, verStale, review, revStale, closed,
                   postGhosts, listed, snap, lineage, head, dispatched, apply>>

\* All groups are done: apply those that are eligible.
ApplyEligible ==
    /\ pc = "rerunDone" /\ Done = Group
    /\ IF Eligible = {}
       THEN /\ phase' = "partial"
            /\ IF \A g \in Group : status[g] = "applied"
               THEN Goto("decide") /\ UNCHANGED job
               ELSE Goto("idle") /\ job' = NoJob
            /\ UNCHANGED <<applyBack, verStale, snap, apply>>
       ELSE BeginApply("eligible", Eligible) /\ UNCHANGED job
    /\ UNCHANGED <<command, verified, review, revStale, closed, tree, postGhosts,
                   ledgerVars, runDir, listed, lineage, head, dispatched, workGhosts>>

\* Some wait on what was just done: dispatch the rest.
DispatchRest ==
    /\ pc = "rerunDone" /\ Done # Group
    /\ status' = KeepDone
    /\ dispatched' = {}
    /\ Goto("wave")
    /\ UNCHANGED <<command, recordVars, tree, postGhosts, marked, evident, scoped, link,
                   fileVars, job, apply, workGhosts>>

\* Steps 2 and 3, from the reconciliation made at the start.
Decide ==
    /\ pc = "decide"
    /\ \/ job.apply /\ BeginApply("resume", Group) /\ UNCHANGED job
       \/ /\ ~job.apply
          /\ Goto(IF job.verify THEN "post" ELSE IF job.review THEN "reviewOnly" ELSE "idle")
          /\ job' = NoJob
          /\ UNCHANGED <<phase, applyBack, verStale, snap, apply>>
    /\ UNCHANGED <<command, verified, review, revStale, closed, tree, postGhosts,
                   ledgerVars, runDir, listed, lineage, head, dispatched, workGhosts>>

\* --apply-successful
ApplySuccessful ==
    /\ pc = "idle" /\ ~closed
    /\ BeginApply("command", Group)
    /\ job' = Reconciliation
    /\ UNCHANGED <<command, verified, review, revStale, closed, tree, postGhosts,
                   ledgerVars, runDir, listed, lineage, head, dispatched, workGhosts>>

-----------------------------------------------------------------------------
(* The user and the process                                                *)

Commit ==
    /\ pc = "idle" /\ head # tree
    /\ head' = tree
    /\ UNCHANGED <<postVars, ledgerVars, runDir, listed, snap, lineage, localVars,
                   workGhosts>>

\* recoverFromApplyBack
Recover ==
    /\ pc = "idle" /\ applyBack \in {"pending", "in-progress"}
    /\ IF snap THEN tree' = Empty /\ head' = Empty ELSE UNCHANGED <<tree, head>>
    /\ phase' = "failed" /\ applyBack' = "rolled-back" /\ verStale' = FALSE
    /\ UNCHANGED <<command, verified, review, revStale, closed, pc, postGhosts,
                   ledgerVars, runDir, listed, snap, lineage, localVars, workGhosts>>

\* The process stops; in the middle of an apply-back with any part of it done, and
\* in a wave with its groups noted as running or not yet.
Stop ==
    /\ pc # "idle"
    /\ Goto("idle")
    /\ dispatched' = {} /\ job' = NoJob /\ apply' = NoApply
    /\ IF pc = "applying"
       THEN \E S \in SUBSET apply.groups :
              /\ tree' = [g \in Group |-> IF g \in S /\ runDir[g] # 0 THEN runDir[g]
                                          ELSE tree[g]]
              /\ torn' = TRUE
       ELSE UNCHANGED <<tree, torn>>
    /\ \/ UNCHANGED status
       \/ /\ pc = "wave"
          /\ status' = Dispatching(Ready)
    /\ UNCHANGED <<command, recordVars, passedOn, waved, reviewedOn, shipped, marked,
                   evident, scoped, link, fileVars, workGhosts>>

Continue ==
    /\ PostNext
    /\ UNCHANGED <<ledgerVars, fileVars, dispatched, job, apply, workGhosts>>

ResumeNext ==
    \/ \E r \in UNION {Results(W) : W \in SUBSET Group} : RunWave(r) \/ RerunResults(r)
    \/ WaveThrows \/ EndPartial \/ Collect
    \/ ApplySucceeds \/ ApplyConflicts \/ MarkApplied
    \/ ResumeDirectly \/ ResumeRerun \/ ApplyEligible \/ DispatchRest \/ Decide
    \/ ApplySuccessful \/ Commit \/ Recover \/ Stop \/ Continue

ResumeSpec == ResumeInit /\ [][ResumeNext]_resumeVars

-----------------------------------------------------------------------------
(* Properties                                                              *)

\* A group whose patch is there and has not reached the worktree is never handed to
\* a worker again: neither a resumption nor the dispatch of the groups behind it
\* throws finished work away.
FinishedWorkIsKept == redone = {}

\* appliedToPrimary says "Whether this group's patch has been applied back to the
\* primary" (index.ts:611).  At rest after a completed apply-back, the last patch
\* of a group so marked is in the worktree.
AppliedWorkIsInTree ==
    pc = "idle" /\ applyBack = "completed" =>
        \A g \in marked \ evident : link[g] # 0 => tree[g] = link[g]
=============================================================================
