----------------------------- MODULE MCExecution -----------------------------
(***************************************************************************)
(* Instances of Execution: tasks in two spaces of a workspace.             *)
(***************************************************************************)
EXTENDS Execution

CONSTANTS k1, k2

\* Task k2 is in another space than the others.
Homes == [k \in Assignment |-> IF k = k2 THEN 2 ELSE 1]
=============================================================================
