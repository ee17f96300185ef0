---------------------------- MODULE MCCandleHub ----------------------------
(* Two instance starts on one instrument, the second possibly a restart.     *)
EXTENDS CandleHub

CONSTANTS i1, i2
=============================================================================
