--------------------------- MODULE MCTaskLifecycle ---------------------------
(* The instance of TaskLifecycle for TLC.  Its sessions are model values, told apart: *)
(* liveness is checked, which symmetry would not be sound for.                        *)
EXTENDS TaskLifecycle
=============================================================================
