---------------------------- MODULE MCInlineChain ----------------------------
(* Small instances of InlineChain for TLC.                                  *)
EXTENDS InlineChain

Symmetry == Permutations(Ctx)
=============================================================================
