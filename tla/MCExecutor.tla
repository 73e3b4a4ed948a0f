----------------------------- MODULE MCExecutor -----------------------------
(* Small instances of Executor for TLC.                                    *)
EXTENDS Executor, TLC

Symmetry == Permutations(Impls)
=============================================================================
