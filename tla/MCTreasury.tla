----------------------------- MODULE MCTreasury -----------------------------
(* A small treasury: two interchangeable brokers, one funded asset and one *)
(* asset the ledger does not list, prices that make an exit profitable or  *)
(* not, and a gate that opens after two submissions.                       *)
EXTENDS Treasury, TLC

CONSTANTS o1, o2, usdc, doge

MCInitialBalances == usdc :> 80
MCSymmetry == Permutations(Owner)
=============================================================================
