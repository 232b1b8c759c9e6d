------------------------------- MODULE MCWorkers -------------------------------
(* Instances of Workers for TLC: its constants are model values, given in  *)
(* the .cfg file.                                                          *)
EXTENDS Workers
=============================================================================
