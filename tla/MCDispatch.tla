----------------------------- MODULE MCDispatch -----------------------------
(* Instances of Dispatch: in Plan, c needs b, b needs a, and d stands      *)
(* alone; in Join, c needs both a and b.                                   *)
EXTENDS Dispatch, TLC

CONSTANTS a, b, c, d

Plan == {a, b, c, d}
PlanDep == (a :> {}) @@ (b :> {a}) @@ (c :> {b}) @@ (d :> {})
PlanRank == (a :> 1) @@ (b :> 2) @@ (c :> 3) @@ (d :> 4)

Join == {a, b, c}
JoinDep == (a :> {}) @@ (b :> {}) @@ (c :> {a, b})
JoinRank == (a :> 1) @@ (b :> 2) @@ (c :> 3)
=============================================================================
