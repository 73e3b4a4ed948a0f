---------------------------- MODULE MCAsyContext ----------------------------
(* Small instances of AsyContext for TLC.                                  *)
EXTENDS AsyContext, TLC

Symmetry == Permutations(Ctx) \cup Permutations(Threads)
=============================================================================
