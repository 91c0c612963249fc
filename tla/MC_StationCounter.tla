------------------------- MODULE MC_StationCounter -------------------------
(* Model-checking instance of StationCounter: a 3-bit counter (wraps at 8, *)
(* half-range 4), up to 3 packets between samples, about three wraps.      *)
EXTENDS StationCounter
=============================================================================
