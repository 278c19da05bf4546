---------------------------- MODULE MCDispatch ----------------------------
(* Instances of Dispatch for TLC. *)
EXTENDS Dispatch, TLC

CONSTANTS j1, j2, j3, t1, t2

\* Two jobs of one tenant; a third job of another tenant, or of the same.
TenantOf2 == (j1 :> t1) @@ (j2 :> t1)
TenantOf3 == (j1 :> t1) @@ (j2 :> t1) @@ (j3 :> t2)
OneTenant3 == [j \in {j1, j2, j3} |-> t1]

\* Workers are interchangeable.
WorkerSymmetry == Permutations(Workers)
=============================================================================
