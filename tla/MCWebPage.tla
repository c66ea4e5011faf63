----------------------------- MODULE MCWebPage -----------------------------
(***************************************************************************)
(* Two devices, and up to two requests of a route on the wire.             *)
(***************************************************************************)
EXTENDS WebPage

CONSTANTS d1, d2

Devices == {d1, d2}
=============================================================================
