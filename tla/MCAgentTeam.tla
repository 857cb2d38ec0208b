---------------------------- MODULE MCAgentTeam ----------------------------
(* An instance of AgentTeam for TLC.  The budgets let a root give part of    *)
(* its own away, and all of it.                                              *)
EXTENDS AgentTeam

MCBudgets == {[tokens |-> 1, calls |-> 0], [tokens |-> 2, calls |-> 1]}
=============================================================================
