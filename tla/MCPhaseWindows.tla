--------------------------- MODULE MCPhaseWindows ---------------------------
(* Four prices, a smoothing that is zero, or two ticks wide: half of it is  *)
(* one tick, so that Transition lies between the extreme and a turn.        *)
EXTENDS PhaseWindows
MCPrice == 1..4
MCSmoothing == {0, 2}
=============================================================================
