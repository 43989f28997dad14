--------------------- MODULE MCThreadManagementServer ----------------------
(***************************************************************************)
(* An instance of ThreadManagementServer for TLC: the sessions are model   *)
(* values given in the cfg.                                                *)
(***************************************************************************)
EXTENDS ThreadManagementServer

=============================================================================
