------------------------------ MODULE Allocator -------------------------------
(***************************************************************************)
(* What an allocator promises, whatever it does inside.  A block is handed *)
(* out only if it overlaps no block in use, and it is in use until it is   *)
(* given back, or until everything is taken back at once.                  *)
(***************************************************************************)
EXTENDS Naturals

CONSTANT Blocks          \* what can be handed out: [at, size], in units of memory

VARIABLE inUse           \* the blocks in use

Apart(b, c) == b.at + b.size <= c.at \/ c.at + c.size <= b.at

Init == inUse = {}

Give(b) ==
  /\ \A c \in inUse : Apart(b, c)
  /\ inUse' = inUse \cup {b}

TakeBack(b) ==
  /\ b \in inUse
  /\ inUse' = inUse \ {b}

Reset == inUse' = {}

Next == (\E b \in Blocks : Give(b) \/ TakeBack(b)) \/ Reset

Spec == Init /\ [][Next]_inUse
=============================================================================
