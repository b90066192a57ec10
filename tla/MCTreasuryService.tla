------------------------- MODULE MCTreasuryService -------------------------
(* Two brokers and the main loop around one treasury whose gate opens      *)
(* after a single surviving paper, with deadlines two candles long.        *)
EXTENDS TreasuryService, TLC

CONSTANT usdc

MCOwner == 0..(BrokerCount - 1)
MCCandle == 0..MaxCandle
MCInitialBalances == usdc :> 80
=============================================================================
