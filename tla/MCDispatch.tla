----------------------------- MODULE MCDispatch ------------------------------
(* Instances of Dispatch for TLC: two modules, four records, batches of two. *)
EXTENDS Dispatch

TwoModules == {"mod_kafka", "mod_log_mysql"}
OneModule == {"mod_kafka"}
=============================================================================
