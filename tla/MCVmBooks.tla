------------------------------ MODULE MCVmBooks -----------------------------
(* Two brokers, and candles among which a paper can pay off, run out, be   *)
(* issued for twice the time and be issued for none.                       *)
EXTENDS VmBooks, TLC

Cheap == [close |-> 1, atr |-> 3]
Dear == [close |-> 2, atr |-> 1]
SomeCandles == {Cheap, Dear}

Peers == Permutations(Brokers)

=============================================================================
