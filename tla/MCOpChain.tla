------------------------------ MODULE MCOpChain -----------------------------
(* Small instances of OpChain for TLC.                                     *)
EXTENDS OpChain, TLC

Symmetry == Permutations(Ctx)
=============================================================================
