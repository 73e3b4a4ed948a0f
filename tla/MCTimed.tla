------------------------------- MODULE MCTimed -------------------------------
(* Small instances of Timed for TLC.                                        *)
EXTENDS Timed, TLC
=============================================================================
