------------------------------ MODULE MCDaemons ------------------------------
(* A TLC instance of Daemons; the values come from daemons.cfg.             *)
EXTENDS Daemons

CONSTANTS n1

(* The groups of the one node (service and region metadata).                *)
OneGroup == [n \in {n1} |-> {"g1"}]
=============================================================================
