---------------------------- MODULE MCReadableState ----------------------------
(* Lighting packets of one colour, of two with a byte too many, and with   *)
(* fewer than announced; a calibration at the ends of its range and one    *)
(* byte short; a mode.  (A packet of no colours is shorter than the        *)
(* default.)                                                               *)
EXTENDS ReadableState

MCInputs == {<<2, 1, 60, 0>>,
             <<2, 4, 60, 2, 1, 2, 3, 4, 5, 6, 7>>,
             <<2, 1, 60, 2, 1, 2, 3>>, <<2, 5, 60, 0>>,
             <<3, 255, 246, 127, 255, 128, 0, 0, 10>>,
             <<3, 255, 246, 127, 255, 128, 0, 0>>,
             <<4, 0, 1, 0, 9>>}

MCGarbage == {<<77, 77, 77, 77>>}
=============================================================================
