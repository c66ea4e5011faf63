-------------------------- MODULE MCEngineProcess --------------------------
(***************************************************************************)
(* Instances of EngineProcess for TLC.  Three engines: one, the one that   *)
(* replaces it, and one more that meets what these two left behind.        *)
(***************************************************************************)
EXTENDS EngineProcess

CONSTANTS c1, c2

AllRequests == {"start", "stop", "restart", "status"}
=============================================================================
