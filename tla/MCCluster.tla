------------------------------ MODULE MCCluster ------------------------------
(***************************************************************************)
(* One node: chpc with one check, whose drains the agent classifies as     *)
(* unknown; the agent with the category it heals, the one it gives unknown *)
(* reasons, and administrators' drains.                                    *)
(***************************************************************************)
EXTENDS Cluster

MCKeys == {"mem"}
MCFiles == {<<"mem">>}
MCNameOf == [k \in MCKeys |-> k]
MCNone == {}
MCCategories == {"not_responding", "unknown", "admin_drain"}
MCAutoFixable == {"not_responding"}
MCCategoryOf == [k \in MCKeys |-> "unknown"]

=============================================================================
