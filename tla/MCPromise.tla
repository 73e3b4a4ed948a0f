------------------------------ MODULE MCPromise ------------------------------
(* Small instances of CompoundPromise for TLC.                             *)
EXTENDS CompoundPromise, TLC
=============================================================================
