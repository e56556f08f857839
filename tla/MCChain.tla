------------------------------ MODULE MCChain -------------------------------
(* FM decimates by 4 * 2, where Nyquist alone would allow 3; AM by 2 * 2.  *)
(* The lengths of the blocks divide nothing evenly.  The channels: one of  *)
(* the 25 kHz grid, one of the 8.33 kHz grid, a broadcast station.         *)
EXTENDS Chain

MCChannelBandwidth == [m \in {"FM", "AM"} |-> IF m = "FM" THEN 4 ELSE 6]
MCAudioRate == [m \in {"FM", "AM"} |-> IF m = "FM" THEN 3 ELSE 6]
=============================================================================
