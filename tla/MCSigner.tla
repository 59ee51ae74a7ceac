------------------------------ MODULE MCSigner ------------------------------
(* Instances of SignerRegistry small enough for TLC. *)
EXTENDS SignerRegistry, TLC

\* No action tells two tasks or two aliases apart.
Permuted == Permutations(Tasks) \cup Permutations(Aliases)
=============================================================================
