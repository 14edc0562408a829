------------------------------- MODULE Bridge -------------------------------
(***************************************************************************)
(* pi-zflow-subagents-bridge/index.ts: one runParallel call of the         *)
(* dispatch service with worktree: true.                                   *)
(*                                                                         *)
(* The service routes the call to a backend.  The compatibility backend    *)
(* groups the tasks by workspace, makes one worktree for each, and runs    *)
(* the workspaces under a rolling concurrency limit; in a workspace the    *)
(* tasks run one after the other, each leaving a patch against the commit  *)
(* it started from, and in a shared-staging workspace each task that       *)
(* succeeds is committed, so that the next one starts from its work.       *)
(*                                                                         *)
(* A commit and a worktree are the sets of tasks whose work they hold.     *)
(* Workers, git, setup commands and hooks are external: each may fail.     *)
(* JavaScript runs to the next await; a step here is never longer.         *)
(***************************************************************************)
EXTENDS DispatchTasks

CONSTANTS
    Index,          \* the order of the tasks in a call
    Workspace,      \* workspace ids
    Homes,          \* planKey: the ways the tasks may be placed in workspaces
    Staging,        \* workspaces in mode shared-staging
    Concurrent,     \* ... whose tasks ask for concurrent sharing
    Needs,          \* dependencies between the tasks
    Ref,            \* base refs a task may ask for, and
    NoRef

ASSUME BridgeAssumption ==
    /\ Index \in [Task -> Nat]
    /\ \A t, u \in Task : Index[t] = Index[u] => t = u
    /\ Homes \subseteq [Task -> Workspace]
    /\ Staging \subseteq Workspace /\ Concurrent \subseteq Staging
    /\ \A h \in Homes : \A t, u \in Task : h[t] = h[u] /\ h[t] \notin Staging => t = u
    /\ Needs \in [Task -> SUBSET Task]
    /\ NoRef \notin Ref

VARIABLES
    service,    \* backends found at activation
    home,       \* the workspace of each task
    stage,      \* of the call: "idle", "routed", "setup", "work", "settled"
    request,    \* its tasks
    limit,      \* its concurrency
    baseRef,    \* strategy.baseRef of each task
    made,       \* workspaces that have a worktree
    taken,      \* workspaces a pool worker has started on (nextIndex)
    open,       \* ... and is still working on
    running,    \* tasks whose worker is running
    halted,     \* workspaces blocked by a failure
    base,       \* currentBaseCommit of each workspace
    tree,       \* what its worktree holds
    answer,     \* results
    patch       \* the content of each task's patch file

callShape == <<service, home, request, limit, baseRef>>
workVars == <<made, taken, open, running, halted, base, tree, answer, patch>>
bridgeVars == <<callShape, stage, workVars>>

Services == {"both", "fork", "compat", "none"}
Answers == {"none", "ok", "fail", "limit"}
NoPatch == [kept |-> FALSE, holds |-> {}]
Empty == [w \in Workspace |-> {}]

BridgeTypeOK ==
    /\ service \in Services
    /\ home \in Homes
    /\ stage \in {"idle", "routed", "setup", "work", "settled"}
    /\ request \subseteq Task
    /\ limit \in Nat
    /\ baseRef \in [Task -> Ref \cup {NoRef}]
    /\ made \subseteq Workspace
    /\ taken \subseteq made
    /\ open \subseteq taken
    /\ running \subseteq request
    /\ halted \subseteq taken
    /\ base \in [Workspace -> SUBSET Task]
    /\ tree \in [Workspace -> SUBSET Task]
    /\ answer \in [Task -> Answers]
    /\ patch \in [Task -> [kept : BOOLEAN, holds : SUBSET Task]]

Fresh ==
    /\ made = {} /\ taken = {} /\ open = {} /\ running = {} /\ halted = {}
    /\ base = Empty /\ tree = Empty
    /\ answer = [t \in Task |-> "none"]
    /\ patch = [t \in Task |-> NoPatch]

BridgeInit ==
    /\ service \in Services
    /\ home \in Homes
    /\ stage = "idle" /\ request = {} /\ limit = 0
    /\ baseRef \in [Task -> Ref \cup {NoRef}]
    /\ Fresh

Members(w) == {t \in request : home[t] = w}
Plans == {home[t] : t \in request}
First(w) == CHOOSE t \in Members(w) : \A u \in Members(w) : Index[t] <= Index[u]
Earliest(S) == {w \in S : \A v \in S : Index[First(w)] <= Index[First(v)]}

\* The call fails as a whole: every task is answered with the error.
AllFail ==
    /\ answer' = [t \in Task |-> IF t \in request THEN "fail" ELSE answer[t]]
    /\ stage' = "settled"

-----------------------------------------------------------------------------
(* The service                                                             *)

Accept(S, n) ==
    /\ stage = "idle"
    /\ request' = S /\ limit' = n
    /\ stage' = "routed"
    /\ UNCHANGED <<service, home, baseRef, workVars>>

\* describeMissingCapabilities, of the fork and of the compatibility backend
ForkLacks == \E t \in request : home[t] \in Staging \/ baseRef[t] # NoRef
CompatLacks == \E t \in request : home[t] \in Concurrent

\* With both backends a worktree call goes to the compatibility backend,
\* whatever it asks for.
GoesToCompat ==
    \/ service = "both"
    \/ service = "compat" /\ ~CompatLacks

Refuse ==
    /\ stage = "routed"
    /\ \/ service = "none"
       \/ service = "fork" /\ ForkLacks
       \/ service = "compat" /\ CompatLacks
    /\ AllFail
    /\ UNCHANGED <<callShape, made, taken, open, running, halted, base, tree, patch>>

\* The fork is external: it answers each task as it likes, or throws.
ForkAnswers ==
    /\ stage = "routed"
    /\ service = "fork" /\ ~ForkLacks
    /\ \E r \in [request -> {"ok", "fail", "limit"}] :
          answer' = [t \in Task |-> IF t \in request THEN r[t] ELSE answer[t]]
    /\ stage' = "settled"
    /\ UNCHANGED <<callShape, made, taken, open, running, halted, base, tree, patch>>

-----------------------------------------------------------------------------
(* The compatibility backend: workspaces and worktrees                     *)

\* Tasks of one workspace may not ask for different base refs.
ConflictingRefs ==
    \E t, u \in request :
        /\ home[t] = home[u]
        /\ baseRef[t] # NoRef /\ baseRef[u] # NoRef /\ baseRef[t] # baseRef[u]

\* No agents are discovered, one is unknown, or the plans cannot be built.
PlanWorkspaces ==
    /\ stage = "routed" /\ GoesToCompat
    /\ \/ AllFail
       \/ ~ConflictingRefs /\ stage' = "setup" /\ UNCHANGED answer
    /\ UNCHANGED <<callShape, made, taken, open, running, halted, base, tree, patch>>

\* One worktree after the other is created, handed to the setup hook and reset
\* to its base ref.  A failure removes them all again and fails the call.
SetUpWorktree(w) ==
    /\ stage = "setup"
    /\ w \in Earliest(Plans \ made)
    /\ \/ made' = made \cup {w} /\ UNCHANGED <<stage, answer>>
       \/ AllFail /\ made' = {}
    /\ UNCHANGED <<callShape, taken, open, running, halted, base, tree, patch>>

StartPool ==
    /\ stage = "setup" /\ made = Plans
    /\ stage' = "work"
    /\ UNCHANGED <<callShape, workVars>>

-----------------------------------------------------------------------------
(* ... the pool                                                            *)

PoolSize ==
    LET n == Cardinality(Plans)
        m == IF limit < n THEN limit ELSE n
    IN  IF m < 1 THEN 1 ELSE m

TakeWorkspace(w) ==
    /\ stage = "work"
    /\ w \in Earliest(Plans \ taken)
    /\ Cardinality(open) < PoolSize
    /\ taken' = taken \cup {w} /\ open' = open \cup {w}
    /\ UNCHANGED <<callShape, stage, made, running, halted, base, tree, answer, patch>>

\* topoSortWorkspaceTaskIndexes: among the tasks that wait for no other, the
\* first; with a cycle, the order of the call.
Cyclic(w) ==
    \E S \in SUBSET Members(w) : S # {} /\ \A t \in S : Needs[t] \cap S # {}
Left(w) == {t \in Members(w) : answer[t] = "none"}
Eligible(w) ==
    IF Cyclic(w) THEN Left(w) ELSE {t \in Left(w) : Needs[t] \cap Left(w) = {}}
Next1(w) == CHOOSE t \in Eligible(w) : \A u \in Eligible(w) : Index[t] <= Index[u]
Idle(w) == w \in open /\ Left(w) # {} /\ \A t \in running : home[t] # w

BeginTask(t) ==
    /\ Idle(home[t]) /\ home[t] \notin halted
    /\ t = Next1(home[t])
    /\ running' = running \cup {t}
    /\ UNCHANGED <<callShape, stage, made, taken, open, halted, base, tree, answer, patch>>

\* The tasks after a failed one are answered without being run.
SkipNothing(t) == FALSE
SkipTask(t) ==
    /\ Idle(home[t]) /\ home[t] \in halted
    /\ t = Next1(home[t])
    /\ answer' = [answer EXCEPT ![t] = "fail"]
    /\ UNCHANGED <<callShape, stage, made, taken, open, running, halted, base, tree, patch>>

\* captureCompatPatchAgainstBase: everything in the worktree, against the base.
Captured(w, holds) == [kept |-> TRUE, holds |-> holds \ base[w]]

\* checkpointSharedWorkspace.  When the commit throws, the pool catches it: the
\* result stays as recorded and the worker goes on to another workspace.
NoCheckpoint(w, holds) == UNCHANGED <<base, open>>
Checkpoint(w, holds) ==
    IF w \in Staging
    THEN \/ base' = [base EXCEPT ![w] = holds] /\ UNCHANGED open
         \/ open' = open \ {w} /\ UNCHANGED base
    ELSE UNCHANGED <<base, open>>

FinishTask(t) ==
    /\ t \in running
    /\ running' = running \ {t}
    /\ answer' = [answer EXCEPT ![t] = "ok"]
    /\ tree' = [tree EXCEPT ![home[t]] = @ \cup {t}]
    /\ patch' = [patch EXCEPT ![t] = Captured(home[t], tree'[home[t]])]
    /\ Checkpoint(home[t], tree'[home[t]])
    /\ UNCHANGED <<callShape, stage, made, taken, halted>>

\* The worker fails, after changing files or not; its patch is captured too.  A
\* setup command, a verification or a capture that throws leaves none.
FailTaskGoesOn(t) ==
    /\ t \in running
    /\ running' = running \ {t}
    /\ \E a \in {"fail", "limit"} : answer' = [answer EXCEPT ![t] = a]
    /\ \E part \in SUBSET {t} :
          /\ tree' = [tree EXCEPT ![home[t]] = @ \cup part]
          /\ patch' = [patch EXCEPT ![t] = Captured(home[t], tree'[home[t]])]
    /\ UNCHANGED <<callShape, stage, made, taken, open, base, halted>>
FailTask(t) ==
    /\ t \in running
    /\ running' = running \ {t}
    /\ halted' = halted \cup {home[t]}
    /\ \E a \in {"fail", "limit"} : answer' = [answer EXCEPT ![t] = a]
    /\ \E part \in SUBSET {t} :
          /\ tree' = [tree EXCEPT ![home[t]] = @ \cup part]
          /\ \/ patch' = [patch EXCEPT ![t] = Captured(home[t], tree'[home[t]])]
             \/ UNCHANGED patch
    /\ UNCHANGED <<callShape, stage, made, taken, open, base>>

CloseWorkspace(w) ==
    /\ w \in open /\ Left(w) = {}
    /\ open' = open \ {w}
    /\ UNCHANGED <<callShape, stage, made, taken, running, halted, base, tree, answer, patch>>

\* finalizedResults, and the worktrees are removed as far as that succeeds.
Settle ==
    /\ stage = "work"
    /\ taken = Plans /\ open = {}
    /\ answer' = [t \in Task |-> IF t \in request /\ answer[t] = "none" THEN "fail"
                                 ELSE answer[t]]
    /\ stage' = "settled"
    /\ UNCHANGED <<callShape, made, taken, open, running, halted, base, tree, patch>>

\* The call returns, and its locals are gone.
Return ==
    /\ stage = "settled"
    /\ stage' = "idle" /\ request' = {} /\ limit' = 0
    /\ made' = {} /\ taken' = {} /\ open' = {} /\ running' = {} /\ halted' = {}
    /\ base' = Empty /\ tree' = Empty
    /\ answer' = [t \in Task |-> "none"]
    /\ patch' = [t \in Task |-> NoPatch]
    /\ UNCHANGED <<service, home, baseRef>>

Serve ==
    \/ Refuse \/ ForkAnswers \/ PlanWorkspaces \/ StartPool \/ Settle
    \/ \E w \in Workspace : SetUpWorktree(w) \/ TakeWorkspace(w) \/ CloseWorkspace(w)
    \/ \E t \in Task : SkipTask(t) \/ FinishTask(t) \/ FailTask(t)

-----------------------------------------------------------------------------
(* Properties                                                              *)

\* The patch of a task that succeeded holds the work of that task and of no other:
\* not what an earlier task of the shared workspace did, which has a patch of its
\* own, and not what a failing task left behind; and a commit the next task of
\* the workspace starts from holds the work of successful tasks only.
PatchesAreOwnWork ==
    /\ \A t \in Task : answer[t] = "ok" /\ patch[t].kept => patch[t].holds = {t}
    /\ \A w \in Workspace : \A t \in base[w] : answer[t] = "ok"
=============================================================================
