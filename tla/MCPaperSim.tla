----------------------------- MODULE MCPaperSim -----------------------------
(* Prices three ticks apart at most, a smoothing of one tick: a swing of    *)
(* one is Transition, of two a turn.  A paper may live three candles, and   *)
(* one tick of profit clears the fees but not the floor.                    *)
EXTENDS PaperSim
MCPrice == 10..12
MCSmoothing == {1}
=============================================================================
