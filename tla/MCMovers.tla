------------------------------ MODULE MCMovers -------------------------------
(* Two servos, one calibration besides the default one, two frequencies;   *)
(* three commands and one fault, a failing call or a power loss.           *)
EXTENDS Movers
=============================================================================
