----------------------------- MODULE MCCoreWorker ---------------------------
(* Every order of four messages, and one error at any moment between them. *)
EXTENDS CoreWorker
=============================================================================
