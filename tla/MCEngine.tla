------------------------------ MODULE MCEngine ------------------------------
(* The experiment engine on small instances; the constants are in the .cfg *)
(* of each run.                                                            *)
EXTENDS Engine
=============================================================================
