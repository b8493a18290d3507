--------------------------- MODULE MCEntityMemory ----------------------------
(* Small instances of EntityMemory for TLC. *)
EXTENDS EntityMemory

CONSTANTS e1, e2, b1, b2, b3, b4, b5      \* model values

MCEntities  == {e1, e2}
MCBlocks    == {b1, b2, b3, b4, b5}
FewerBlocks == {b1, b2, b3}
=============================================================================
