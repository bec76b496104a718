------------------------------ MODULE MCStartup ------------------------------
(* The start up with a few faults.                                           *)
EXTENDS Startup
=============================================================================
