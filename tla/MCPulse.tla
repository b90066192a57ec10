------------------------------ MODULE MCPulse -------------------------------
(* Instances of Pulse for TLC: files of up to three batches, empty ones in  *)
(* every place, and budgets below, at and above what they hold.             *)
EXTENDS Pulse

MCFile == {f \in UNION {[1..n -> 0..3] : n \in 0..3} : IsFile(f)}
MCBudget == {-1, 0, 1, 2, 3, 4}

=============================================================================
