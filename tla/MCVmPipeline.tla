---------------------------- MODULE MCVmPipeline ----------------------------
(* Two market observers, whose candles meet at one regime observer, and two *)
(* brokers; one thread may die at the first candle.                        *)
EXTENDS VmPipeline

=============================================================================
