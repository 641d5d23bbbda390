-------------------------- MODULE MCAgentWorkflow --------------------------
(* Instances of AgentWorkflow for TLC.  Workers, clients and action rows are  *)
(* interchangeable; the symmetry is used by the safety runs only.             *)
EXTENDS AgentWorkflow, TLC

Symmetry ==
    Permutations(Workers) \cup Permutations(Clients) \cup Permutations(Actions)

=============================================================================
