----------------------------- MODULE MCUplink -------------------------------
(* Two connections on either side, so that a new run() meets what is left  *)
(* of the last one.                                                        *)
EXTENDS Uplink
=============================================================================
