----------------------------- MODULE MCPipeline -----------------------------
(* Instances of DispatchPipeline and GroupOrder.  Tasks a and b share the  *)
(* staging workspace w, b after a; c has a workspace of its own.  With the *)
(* fork alone, which refuses shared workspaces, each task has its own.     *)
(* The two parts are independent: focus chooses the one a behaviour is     *)
(* about, and the other stands still in its first state.                   *)
EXTENDS DispatchPipeline, GroupOrder, TLC

CONSTANTS a, b, c, w, v, u, x, head, lineage

Tasks == {a, b, c}
TaskIndex == (a :> 2) @@ (b :> 1) @@ (c :> 3)
Spaces == {w, v, u, x}
Sharing == (a :> w) @@ (b :> w) @@ (c :> v)
Isolated == (a :> u) @@ (b :> x) @@ (c :> v)
TaskHomes == {Sharing, Isolated}
TaskNeeds == (a :> {}) @@ (b :> {a}) @@ (c :> {})

Groups == {a, b, c}
GroupRank == (a :> 1) @@ (b :> 2) @@ (c :> 3)

VARIABLE focus

mcVars == <<focus, pipelineVars, orderVars>>

NoPlan ==
    /\ files = [g \in Group |-> {}] /\ deps = [g \in Group |-> {}]
    /\ shared = {} /\ listed = {} /\ placed = {}
    /\ inDegree = [g \in Group |-> 0] /\ stamp = [g \in Group |-> 0]
    /\ pushed = 0 /\ order = "refused"

MCInit ==
    \/ /\ focus = "dispatch" /\ PipelineInit /\ baseRef[c] = NoRef
       /\ home = IF service = "fork" THEN Isolated ELSE Sharing
       /\ NoPlan
    \/ /\ focus = "order" /\ OrderInit
       /\ RetryInit /\ Fresh /\ spoke = {} /\ quiet = [t \in Task |-> 0]
       /\ service = "none" /\ stage = "idle" /\ request = {} /\ limit = 0
       /\ baseRef = [t \in Task |-> NoRef] /\ home = Sharing

MCNext ==
    \/ focus = "dispatch" /\ PipelineNext /\ UNCHANGED <<focus, orderVars>>
    \/ focus = "order" /\ OrderNext /\ UNCHANGED <<focus, pipelineVars>>

MCSpec ==
    /\ MCInit /\ [][MCNext]_mcVars
    /\ WF_mcVars(/\ focus = "dispatch"
                 /\ Working \/ Answered \/ \E t \in Task : Begin(t)
                 /\ UNCHANGED <<focus, orderVars>>)

=============================================================================
