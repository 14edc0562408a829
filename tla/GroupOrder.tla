----------------------------- MODULE GroupOrder -----------------------------
(***************************************************************************)
(* ownership-validator.ts: which plans may be dispatched, and the order in *)
(* which the patches of their groups are replayed.                         *)
(*                                                                         *)
(* validateOwnershipAndDependencies refuses a plan in which two groups     *)
(* claim one file unless one depends on the other, directly or not, or     *)
(* both were put in the same shared workspace.  topoSortGroups (Kahn's     *)
(* algorithm) orders the groups it is given, or finds a cycle; a           *)
(* dependency on a group it was not given does not count.  One step here   *)
(* is one turn of its loop: the queue is first-in first-out, so the order  *)
(* in which groups enter it (stamp) is the order of the result.            *)
(* coalesceConnectedGroups, between the two, merges groups that could not  *)
(* be replayed one behind the other.                                       *)
(***************************************************************************)
EXTENDS Naturals, FiniteSets

CONSTANTS
    Group,      \* group ids of the plan
    File,       \* files they may claim
    Rank        \* their order in execution-groups.md

ASSUME GroupOrderAssumption ==
    /\ IsFiniteSet(Group)
    /\ Rank \in [Group -> Nat]
    /\ \A g, h \in Group : Rank[g] = Rank[h] => g = h

VARIABLES
    files,      \* the files each group claims
    deps,       \* the groups it depends on
    shared,     \* the groups of one shared-staging workspace
    listed,     \* the groups handed to topoSortGroups
    inDegree,   \* its count of dependencies still to be placed
    stamp,      \* when a group entered the queue; 0: not yet
    pushed,     \* how many have
    placed,     \* groups already in the result
    order       \* "refused", "sorting", "sorted" or "cyclic"

planVars == <<files, deps, shared, listed>>
orderVars == <<planVars, inDegree, stamp, pushed, placed, order>>

OrderTypeOK ==
    /\ files \in [Group -> SUBSET File]
    /\ deps \in [Group -> SUBSET Group]
    /\ shared \subseteq Group
    /\ listed \subseteq Group
    /\ inDegree \in [Group -> Nat]
    /\ stamp \in [Group -> Nat]
    /\ pushed \in Nat
    /\ placed \subseteq listed
    /\ order \in {"refused", "sorting", "sorted", "cyclic"}

-----------------------------------------------------------------------------
(* Ownership                                                               *)

\* dependsOn walks the dependencies; along a cycle it never reaches itself.
Closed(S) == \A g \in S : deps[g] \subseteq S
DependsOn(g, h) ==
    /\ g # h
    /\ \A S \in SUBSET Group : deps[g] \subseteq S /\ Closed(S) => h \in S

ShareExplicitWorkspace(g, h) == g \in shared /\ h \in shared

Overlap(g, h) == files[g] \cap files[h] # {}

Resolved(g, h) ==
    DependsOn(g, h) \/ DependsOn(h, g) \/ ShareExplicitWorkspace(g, h)

ValidPlan ==
    \A g, h \in Group : g # h /\ Overlap(g, h) => Resolved(g, h)

\* Callers hand over the whole plan, or the groups that finished and are not
\* applied yet: whatever lies between two listed groups is listed too.
Convex(S) ==
    \A g, h \in S : \A k \in Group : DependsOn(g, k) /\ DependsOn(k, h) => k \in S

-----------------------------------------------------------------------------
(* Coalescing (execution-groups.ts)                                        *)

\* coalesceConnectedGroups joins the groups that share a file and have no order,
\* unless one is in a shared workspace, and hands over one group for each
\* connected set of them, with the dependencies turned to the new groups.
Joined(g, h) ==
    /\ g # h /\ Overlap(g, h)
    /\ ~DependsOn(g, h) /\ ~DependsOn(h, g)
    /\ g \notin shared /\ h \notin shared

Component(g) ==
    {h \in Group : \A S \in SUBSET Group :
        g \in S /\ (\A i \in S, j \in Group : Joined(i, j) => j \in S) => h \in S}

Coalesced == {Component(g) : g \in Group}
CoalescedFiles(c) == UNION {files[g] : g \in c}
CoalescedDeps(c) == {Component(d) : d \in UNION {deps[g] : g \in c}} \ {c}

-----------------------------------------------------------------------------
(* Kahn's algorithm                                                        *)

Waiting(g) == (deps[g] \cap listed) \ placed
Queue == {g \in listed : stamp[g] > 0} \ placed

\* The groups that enter the queue together do so in the order of the plan.
Place(g, S) == Cardinality({h \in S : Rank[h] <= Rank[g]})
Stamped(S) == [g \in Group |-> IF g \in S THEN pushed + Place(g, S) ELSE stamp[g]]

OrderInit ==
    /\ files \in [Group -> SUBSET File]
    /\ deps \in [Group -> SUBSET Group]
    /\ shared \in SUBSET Group
    /\ listed \in {S \in SUBSET Group : Convex(S)}
    /\ placed = {}
    /\ inDegree = [g \in Group |-> Cardinality(deps[g] \cap listed)]
    /\ LET roots == {g \in listed : inDegree[g] = 0}
       IN  /\ stamp = [g \in Group |-> IF g \in roots THEN Place(g, roots) ELSE 0]
           /\ pushed = Cardinality(roots)
    /\ order = IF ValidPlan THEN "sorting" ELSE "refused"

Front(g) == g \in Queue /\ \A h \in Queue : stamp[g] <= stamp[h]

\* Lowering the in-degree of the groups that depend on the one just placed.
Lowered(g) ==
    [h \in Group |-> IF h \in listed /\ g \in deps[h] THEN inDegree[h] - 1
                     ELSE inDegree[h]]
ReadyAtFirstDependency(g) == {h \in listed : g \in deps[h] /\ stamp[h] = 0}
NewlyReady(g) == {h \in listed : g \in deps[h] /\ inDegree[h] = 1}

PlaceNext(g) ==
    /\ order = "sorting"
    /\ Front(g)
    /\ placed' = placed \cup {g}
    /\ inDegree' = Lowered(g)
    /\ stamp' = Stamped(NewlyReady(g))
    /\ pushed' = pushed + Cardinality(NewlyReady(g))
    /\ UNCHANGED <<planVars, order>>

EndSort ==
    /\ order = "sorting"
    /\ Queue = {}
    /\ order' = IF placed = listed THEN "sorted" ELSE "cyclic"
    /\ UNCHANGED <<planVars, inDegree, stamp, pushed, placed>>

OrderNext == EndSort \/ \E g \in Group : PlaceNext(g)

OrderSpec == OrderInit /\ [][OrderNext]_orderVars

-----------------------------------------------------------------------------
(* Properties                                                              *)

Before(g, h) == stamp[g] < stamp[h]

Follows(c, d) ==
    \A S \in SUBSET Coalesced :
        CoalescedDeps(c) \subseteq S /\ (\A e \in S : CoalescedDeps(e) \subseteq S) => d \in S

\* Groups that stay apart after coalescing and share a file, outside shared
\* workspaces, still have an order, whatever was merged between them.
CoalescedHaveOrder ==
    \A c, d \in Coalesced :
        c # d /\ CoalescedFiles(c) \cap CoalescedFiles(d) # {} /\ (c \cup d) \cap shared = {}
            => Follows(c, d) \/ Follows(d, c)

\* The result of topoSortGroups holds every group after the listed groups it
\* depends on, and it answers null only when some of the groups wait for one
\* another in a cycle, dependencies outside the list notwithstanding.  So two
\* groups that claim one file, in a plan that was not refused, are replayed one
\* behind the other as their dependency says, also when it goes through other
\* groups and only a part of the plan is replayed; the groups of one shared
\* workspace excepted, which need no dependency.  Coalescing, which comes after
\* the refusal, finds nothing left to merge: patches and ledger keep the ids of
\* the plan; in any plan, it would leave no two groups with one file unordered.
OrderSound ==
    /\ listed = Group /\ placed = {} =>
          IF order = "refused" THEN CoalescedHaveOrder ELSE Coalesced = {{g} : g \in Group}
    /\ order = "sorted" =>
          \A h \in listed : \A g \in deps[h] \cap listed : Before(g, h)
    /\ order = "sorted" =>
          \A g, h \in listed :
              g # h /\ Overlap(g, h) /\ ~ShareExplicitWorkspace(g, h) =>
                  /\ Before(g, h) \/ Before(h, g)
                  /\ DependsOn(g, h) => Before(h, g)
    /\ order = "cyclic" =>
          \E S \in SUBSET listed : S # {} /\ \A g \in S : deps[g] \cap S # {}
=============================================================================
