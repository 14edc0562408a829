----------------------------- MODULE MCRunState -----------------------------
(***************************************************************************)
(* Instances of RunState for TLC.  Two appenders share the array field, a  *)
(* plain update replaces the other field, one call creates the document.   *)
(***************************************************************************)
EXTENDS RunState

CONSTANTS create, addA, addB, addC, setPhase   \* calls
CONSTANTS groups, phase                        \* fields

MCTarget == [t \in Task |-> IF t \in Appender THEN groups ELSE phase]
=============================================================================
