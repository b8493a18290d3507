------------------------------ MODULE MCMemory -------------------------------
(***************************************************************************)
(* Small instances of the three regions vd_mm_init sets up (ng/src/mm.c):  *)
(* the entity heap with its collector, the buddy allocator below it, and   *)
(* the arena of the frame. They share no state, as EntityMemory abstracts  *)
(* its heap, so a behaviour exercises one region and leaves the others as  *)
(* vd_mm_init made them.                                                   *)
(***************************************************************************)
EXTENDS MCEntityMemory, BuddyAlloc, Arena

VARIABLE region      \* the one that is exercised

memoryVars == <<region, vars, heapVars, arenaVars>>

MCInit == region \in {"entities", "heap", "frame"} /\ Init /\ HeapInit /\ ArenaInit

Others(r) ==
  /\ region = r /\ UNCHANGED region
  /\ r # "entities" => UNCHANGED vars
  /\ r # "heap"     => UNCHANGED heapVars
  /\ r # "frame"    => UNCHANGED arenaVars

MCNext ==
  \/ Next /\ Others("entities")
  \/ HeapNext /\ Others("heap")
  \/ ArenaNext /\ Others("frame")

(* The fairness of Spec and of HeapSpec, for the region that is exercised. *)
MCSpec ==
  /\ MCInit /\ [][MCNext]_memoryVars
  /\ WF_memoryVars(StartGC /\ Others("entities"))
  /\ WF_memoryVars(Collect /\ Others("entities"))
  /\ WF_memoryVars(EndGC /\ Others("entities"))
  /\ WF_memoryVars(Walk /\ Others("heap"))
=============================================================================
