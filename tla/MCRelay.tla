------------------------------ MODULE MCRelay -------------------------------
(* Two uplinks, so that one may replace the other, and two clients with    *)
(* two addresses, so that they may share one.                              *)
EXTENDS Relay
=============================================================================
