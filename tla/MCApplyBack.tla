---------------------------- MODULE MCApplyBack ----------------------------
(***************************************************************************)
(* Instances of ApplyBack for TLC: up to three groups, taken in the order  *)
(* of their names, one change of the user.                                 *)
(***************************************************************************)
EXTENDS ApplyBack

CONSTANTS gA, gB, gC, user

MCRank == [g \in Group |-> IF g = gA THEN 1 ELSE IF g = gB THEN 2 ELSE 3]
=============================================================================
