---------------------------- MODULE MCArtifacts -----------------------------
(* Instances of Artifacts for TLC. *)
EXTENDS Artifacts, TLC

CONSTANTS a1, a2, t1, t2

\* One artifact of each tenant.
OneEach == a1 :> t1 @@ a2 :> t2

ProcessSymmetry == Permutations(Processes)
=============================================================================
