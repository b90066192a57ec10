-------------------------- MODULE MCIndicatorBank --------------------------
(* Short periods, so that every window fills and rolls and every smoother   *)
(* leaves its warm-up.  Prices are in hundreds of ticks; the candles rise,  *)
(* fall, stand still, widen on both sides and gap.                          *)
EXTENDS IndicatorBank

K(low_, high_, close_, volume_) ==
    [low |-> low_, high |-> high_, close |-> close_, volume |-> volume_]

MCCandle == {K(100, 100, 100, 1), K(100, 110, 110, 1), K(110, 120, 120, 3),
             K(120, 130, 130, 2), K(80, 140, 90, 1), K(200, 210, 200, 2)}
MCPrice == {k.close : k \in MCCandle}
MCSmoothing == 0..300
MCPeriod ==
    [i \in Indicator |->
       CASE i = "macdFast" -> 2 [] i = "macdSlow" -> 3 [] i = "kijun" -> 3
         [] i = "senkou" -> 4 [] i = "peak" -> 5 [] i = "week" -> 3
         [] i = "fourHours" -> 3 [] i = "kama" -> 3
         [] OTHER -> 2]
\* The code's own capacity and periods of the rate of change, and the two
\* candles the run over it needs.
MCRocCandle == {K(100, 100, 100, 1), K(90, 130, 120, 3)}
MCRocPeriods == {1, 3, 6, 12}
MCOne == {1}
MCTwo == {2}
MCTwoThree == {2, 3}
=============================================================================
