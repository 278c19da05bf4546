------------------------------ MODULE MCGrants ------------------------------
(* Instances of Grants for TLC. *)
EXTENDS Grants, TLC

CONSTANTS agent, tool1

\* The agent has a version; the tool is still to be registered.
Published == {Identity(agent, Someone), Version(agent, 1, Someone)}

\* Authors are interchangeable, and so are sessions.
Symmetry == Permutations(Authors) \union Permutations(Sessions)
=============================================================================
