------------------------------ MODULE RunStore ------------------------------
(***************************************************************************)
(* What run-state.ts promises its callers: a run document that is created  *)
(* once and then changed only by whole, one-at-a-time merges.  A call to   *)
(* updateRun hands over one field of the document (its "partial") and is   *)
(* later either committed, the field replaced in the document as it is at  *)
(* that moment and every other field kept, or rejected without effect.     *)
(*                                                                         *)
(* RunState.tla is the protocol of files and promises that implements it.  *)
(***************************************************************************)
CONSTANTS
    Task,       \* the calls made on one run document
    Field,      \* the top-level fields of run.json that calls replace
    Creator,    \* the call to createRun
    Target,     \* the field each other call replaces
    NoDoc       \* the document does not exist

VARIABLES
    doc,        \* the document, or NoDoc
    partial,    \* the field value each call hands over
    outcome     \* what became of each call

vars == <<doc, partial, outcome>>

EmptyDoc == [f \in Field |-> {}]

Init ==
    /\ doc = NoDoc
    /\ partial = [t \in Task |-> {}]
    /\ outcome = [t \in Task |-> "idle"]

\* A call hands its partial over.
Submit(t) ==
    /\ outcome[t] = "idle"
    /\ t # Creator
    /\ \E v \in SUBSET Task : partial' = [partial EXCEPT ![t] = v]
    /\ outcome' = [outcome EXCEPT ![t] = "submitted"]
    /\ UNCHANGED doc

\* The one creation of the document.
Create ==
    /\ outcome[Creator] = "idle"
    /\ doc = NoDoc
    /\ doc' = EmptyDoc
    /\ outcome' = [outcome EXCEPT ![Creator] = "committed"]
    /\ UNCHANGED partial

\* The merge takes effect on the document of this moment.
Commit(t) ==
    /\ outcome[t] = "submitted"
    /\ doc # NoDoc
    /\ doc' = [doc EXCEPT ![Target[t]] = partial[t]]
    /\ outcome' = [outcome EXCEPT ![t] = "committed"]
    /\ UNCHANGED partial

\* A set of calls ends without effect: an exception ends one, a crash many.
Reject(S) ==
    /\ S # {}
    /\ S \subseteq {t \in Task : outcome[t] \in {"idle", "submitted"}}
    /\ outcome' = [t \in Task |-> IF t \in S THEN "rejected" ELSE outcome[t]]
    /\ UNCHANGED <<doc, partial>>

Next ==
    \/ Create
    \/ \E t \in Task : Submit(t) \/ Commit(t)
    \/ \E S \in SUBSET Task : Reject(S)

Spec == Init /\ [][Next]_vars

=============================================================================
