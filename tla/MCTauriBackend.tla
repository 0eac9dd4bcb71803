--------------------------- MODULE MCTauriBackend ---------------------------
(* The native backend on its data planes.                                  *)
EXTENDS TauriBackend
=============================================================================
