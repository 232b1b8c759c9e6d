-------------------------- MODULE MCDiscoveryService --------------------------
(* Instances of DiscoveryService for TLC: its constants are model values,  *)
(* given in the .cfg files.                                                *)
EXTENDS DiscoveryService
=============================================================================
