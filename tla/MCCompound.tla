----------------------------- MODULE MCCompound -----------------------------
(* Small instances of Compound for TLC.                                    *)
EXTENDS Compound, TLC

Symmetry == Permutations(Threads)
=============================================================================
