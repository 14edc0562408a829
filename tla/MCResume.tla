------------------------------ MODULE MCResume ------------------------------
(* A group and one that builds on it.                                        *)
EXTENDS GroupResume, TLC

CONSTANTS a, b

Groups == {a, b}
Dependencies == (a :> {}) @@ (b :> {a})
=============================================================================
