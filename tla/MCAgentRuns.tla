---------------------------- MODULE MCAgentRuns ----------------------------
(***************************************************************************)
(* AgentRuns without the assumption MCServices makes of those that break   *)
(* the lock of a dead process: two of them may find it dead at once.       *)
(***************************************************************************)
EXTENDS AgentRuns

CONSTANTS i1, i2, i3

OneRun == [p \in Initializer |-> 1]

\* A maker of the lock that has not yet written its owner file is not taken
\* for dead.
AgedWhenDead == lock'.aged => at[lock'.maker] \in Ended
LockSpec == AgentInit /\ [][AgentNext /\ AgedWhenDead]_agentVars
=============================================================================
