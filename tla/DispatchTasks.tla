---------------------------- MODULE DispatchTasks ----------------------------
(* The tasks of one parallel dispatch (ParallelDispatchInput.tasks).       *)
EXTENDS Naturals, FiniteSets

CONSTANT Task

ASSUME TaskAssumption == IsFiniteSet(Task)
=============================================================================
