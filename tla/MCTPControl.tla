---------------------------- MODULE MCTPControl ----------------------------
(* The instances of TPControl that TLC checks.                              *)
EXTENDS TPControl

\* A single greedy decode, and a decode that swaps a victim out.
DecodePlans == {{"fast"}, {"swap_out"}}

=============================================================================
