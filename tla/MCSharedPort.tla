---------------------------- MODULE MCSharedPort ----------------------------
(* Successive backends on one port.                                        *)
EXTENDS SharedPort
=============================================================================
