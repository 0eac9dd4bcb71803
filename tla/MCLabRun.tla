------------------------------ MODULE MCLabRun ------------------------------
(* Runs of the lab that ask for one device, one of which may be cancelled. *)
EXTENDS LabRun
=============================================================================
