----------------------------- MODULE MCVmStdlib -----------------------------
(* Two entities over two thoughts, 2 and 3: 1 is a leaf, 2 holds it once    *)
(* and 3 holds 2 twice.  Both tiers have room for the two inner nodes, so   *)
(* nothing that is shared gets lost.                                        *)
EXTENDS VmStdlib

MCKids == <<<<>>, <<1>>, <<2, 2>>>>
MCValues == Node \cup {Garbled}
MCInputs == <<<<3, 2>>, <<3>>>>

=============================================================================
