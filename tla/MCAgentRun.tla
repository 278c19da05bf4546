----------------------------- MODULE MCAgentRun -----------------------------
(* Instances of AgentRun for TLC. *)
EXTENDS AgentRun, TLC

\* Runs are interchangeable, and so are the people who decide.
SessionSymmetry == Permutations(Runs) \union Permutations(Deciders)
=============================================================================
