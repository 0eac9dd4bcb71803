------------------------------ MODULE MCDemoUi ------------------------------
(* Three instances: an old one, a late one and the current one.            *)
EXTENDS DemoUi
=============================================================================
