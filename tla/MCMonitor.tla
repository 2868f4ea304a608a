------------------------------ MODULE MCMonitor ------------------------------
(***************************************************************************)
(* A small instance of Monitor: two nodes, one category the agent may heal *)
(* and administrators' drains.                                             *)
(***************************************************************************)
EXTENDS Monitor

MCCategories == {"not_responding", "admin_drain"}
MCAutoFixable == {"not_responding"}

=============================================================================
