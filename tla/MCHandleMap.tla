----------------------------- MODULE MCHandleMap -----------------------------
(* Small instances of HandleMap for TLC. *)
EXTENDS HandleMap, TLC

CONSTANTS h1, h2, h3      \* model values: three handle variables

MCHolders == {h1, h2, h3}

(* The holders are interchangeable. *)
HolderSymmetry == Permutations(MCHolders)
=============================================================================
