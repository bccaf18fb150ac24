--------------------- MODULE MCUninitializedAlgorithms ---------------------
(* Instance for TLC: blocks of up to MaxCount elements, every algorithm,   *)
(* every element type, every choice of an implementation, an exception at  *)
(* every iteration.                                                        *)
EXTENDS CustomizationPoints
=============================================================================
