---------------------------- MODULE EntityMemory -----------------------------
(***************************************************************************)
(* The entity heap of ng/src/mm.c: allocations that belong to an entity    *)
(* and are to be freed after it is destroyed.  An entity's MemoryComponent *)
(* points to one allocation, its root; further ones are pushed into the    *)
(* list that starts there.  The component's destructor pushes the root     *)
(* into mm->entity.free_list, and GarbageCollectTask, which runs after the *)
(* frame, frees what that list holds.                                      *)
(*                                                                         *)
(* No system is registered as multi_threaded, so all of this runs on the   *)
(* main thread and the compare-and-swap in add_entity_allocation always    *)
(* succeeds.  The buddy allocator is external here: it hands out any block *)
(* that is not in use, and freeing only clears the in-use mark (a freed    *)
(* block keeps its contents, as vd_buddy_alloc_realloc does).  Flecs is    *)
(* external too: the observer that allocates runs in a deferred section.   *)
(***************************************************************************)
EXTENDS Naturals, FiniteSets, FiniteSetsExt

CONSTANTS
  Entities,
  Blocks,            \* what the buddy allocator can hand out
  Null,              \* the null VD_EntityAllocationInfo pointer
  FirstAllocs,       \* allocations made before the MemoryComponent is visible
  MaxMore,           \* bound on the later allocations of one entity
  MaxDeletes         \* bound on the entities deleted in one frame

ASSUME EntityMemoryAssumption ==
  /\ Null \notin Blocks \cup Entities
  /\ FirstAllocs \in Nat \ {0} /\ MaxMore \in Nat /\ MaxDeletes \in Nat \ {0}

VARIABLES
  live,              \* blocks the buddy allocator considers in use
  next,              \* block -> VD_EntityAllocationInfo.next
  root,              \* entity -> MemoryComponent.opaque_info_ptr; Null: none
  free_list,         \* mm->entity.free_list.next
  phase,             \* "frame": the systems run; "gc": GarbageCollectTask
  curr_info,         \* GarbageCollectTask's loop variable
  deletes,           \* entities deleted in this frame
  owner,             \* history: block -> the entity it was handed to, or Null
  orphans,           \* history: live blocks whose entity was destroyed
  refreed            \* history: a block that was not in use was freed

vars == <<live, next, root, free_list, phase, curr_info, deletes,
          owner, orphans, refreed>>

-----------------------------------------------------------------------------
Init ==
  /\ live = {} /\ next = [b \in Blocks |-> Null]
  /\ root = [e \in Entities |-> Null]
  /\ free_list = Null /\ phase = "frame" /\ curr_info = Null /\ deletes = 0
  /\ owner = [b \in Blocks |-> Null] /\ orphans = {} /\ refreed = FALSE

(* Variant: the loop's test is the wrong way round for an empty list. *)
AttemptAgain(h, info) == [head |-> info, next |-> h, again |-> h # info]

(* One pass of the do-while of add_entity_allocation over a list head h:   *)
(* info->next takes h; unless h is info itself the swap installs info and  *)
(* returns h, and the loop goes on while that is not null.                 *)
Attempt(h, info) == [head |-> info, next |-> h, again |-> h \notin {Null, info}]

(* add_entity_allocation. A second pass finds info at the head and breaks. *)
Pushed(h, info) ==
  LET first == Attempt(h, info)
  IN  IF first.again THEN Attempt(first.head, info) ELSE first

(* vd_entity_alloc, several times in the deferred section of one observer  *)
(* (RendererOnWindowComponentSet creates two arrays and grows each): the   *)
(* entity has no MemoryComponent until the section ends, so each call asks *)
(* to set it and the last request is the one that stays.                   *)
FirstAlloc(e, bs, last) ==
  /\ phase = "frame" /\ root[e] = Null
  /\ bs \cap live = {}
  /\ live' = live \cup bs
  /\ next' = [b \in Blocks |-> IF b \in bs THEN Null ELSE next[b]]
  /\ root' = [root EXCEPT ![e] = last]
  /\ owner' = [b \in Blocks |-> IF b \in bs THEN e ELSE owner[b]]
  /\ UNCHANGED <<free_list, phase, curr_info, deletes, orphans, refreed>>

(* Variant: the block is pushed into the free list, not the entity's. *)
MoreAllocWrongList(e, b) ==
  LET pushed == Pushed(free_list, b)
  IN  /\ phase = "frame" /\ root[e] # Null
      /\ b \notin live
      /\ Cardinality({x \in live : owner[x] = e}) < FirstAllocs + MaxMore
      /\ live' = live \cup {b}
      /\ next' = [next EXCEPT ![b] = pushed.next]
      /\ free_list' = pushed.head
      /\ owner' = [owner EXCEPT ![b] = e]
      /\ UNCHANGED <<root, phase, curr_info, deletes, orphans, refreed>>

(* vd_entity_alloc for an entity with a MemoryComponent. *)
MoreAlloc(e, b) ==
  LET pushed == Pushed(next[root[e]], b)
  IN  /\ phase = "frame" /\ root[e] # Null
      /\ b \notin live
      /\ Cardinality({x \in live : owner[x] = e}) < FirstAllocs + MaxMore
      /\ live' = live \cup {b}
      /\ next' = [next EXCEPT ![b] = pushed.next, ![root[e]] = pushed.head]
      /\ owner' = [owner EXCEPT ![b] = e]
      /\ UNCHANGED <<root, free_list, phase, curr_info, deletes, orphans, refreed>>

(* The entity is deleted: MemoryComponentDtor pushes its root. *)
Delete(e) ==
  LET info == root[e]
      pushed == Pushed(free_list, info)
  IN  /\ phase = "frame" /\ info # Null /\ deletes < MaxDeletes
      /\ free_list' = pushed.head
      /\ next' = [next EXCEPT ![info] = pushed.next]
      /\ root' = [root EXCEPT ![e] = Null]
      /\ deletes' = deletes + 1
      /\ orphans' = orphans \cup {b \in live : owner[b] = e}
      /\ owner' = [b \in Blocks |-> IF owner[b] = e THEN Null ELSE owner[b]]
      /\ UNCHANGED <<live, phase, curr_info, refreed>>

(* Variant: the loop begins at the second element. *)
StartGCAtSecond ==
  /\ phase = "frame"
  /\ phase' = "gc"
  /\ curr_info' = IF free_list = Null THEN Null ELSE next[free_list]
  /\ UNCHANGED <<live, next, root, free_list, deletes, owner, orphans, refreed>>

(* The frame is over: EcsPostFrame runs GarbageCollectTask. *)
StartGC ==
  /\ phase = "frame"
  /\ phase' = "gc" /\ curr_info' = free_list
  /\ UNCHANGED <<live, next, root, free_list, deletes, owner, orphans, refreed>>

(* One pass of its loop. *)
Collect ==
  /\ phase = "gc" /\ curr_info # Null
  /\ live' = live \ {curr_info}
  /\ refreed' = (refreed \/ curr_info \notin live)
  /\ orphans' = orphans \ {curr_info}
  /\ curr_info' = next[curr_info]
  /\ UNCHANGED <<next, root, free_list, phase, deletes, owner>>

(* Variant: the list is not emptied. *)
EndGCKeepsList ==
  /\ phase = "gc" /\ curr_info = Null
  /\ phase' = "frame" /\ deletes' = 0
  /\ UNCHANGED <<live, next, root, free_list, curr_info, owner, orphans, refreed>>

(* Its end; the next frame begins. *)
EndGC ==
  /\ phase = "gc" /\ curr_info = Null
  /\ phase' = "frame" /\ free_list' = Null /\ deletes' = 0
  /\ UNCHANGED <<live, next, root, curr_info, owner, orphans, refreed>>

Next ==
  \/ \E e \in Entities, bs \in kSubset(FirstAllocs, Blocks) :
       \E last \in bs : FirstAlloc(e, bs, last)
  \/ \E e \in Entities, b \in Blocks : MoreAlloc(e, b)
  \/ \E e \in Entities : Delete(e)
  \/ StartGC \/ Collect \/ EndGC

(* The frame loop of vd_instance_main calls ecs_progress again and again,  *)
(* so a frame ends and its PostFrame systems run to their end.             *)
Spec == Init /\ [][Next]_vars /\ WF_vars(StartGC) /\ WF_vars(Collect) /\ WF_vars(EndGC)

-----------------------------------------------------------------------------
(* Properties. *)

(* What the buddy allocator gave to an entity stays in use while the       *)
(* entity lives: no collection, of whatever was pushed before, frees a     *)
(* block that is still owned, also when the block was recycled.            *)
OwnedStaysLive == \A b \in Blocks : owner[b] # Null => b \in live

(* A block that is not in use is freed only in a frame that destroyed      *)
(* several entities, where add_entity_allocation links an allocation to    *)
(* itself, and by a collector that never leaves that frame.  As long as    *)
(* every frame destroys one at most, GarbageCollectTask frees nothing      *)
(* twice, and never walks into a block that was handed out again.          *)
FreedTwiceOnlyInBurst == refreed => phase = "gc" /\ deletes > 1

(* What the free list holds when its frame ends is freed: the root of a    *)
(* destroyed entity returns to the buddy allocator, unless another entity  *)
(* is destroyed in the same frame, whose push unlinks it.                  *)
RootsAreFreed == \A b \in Blocks : (free_list = b) ~> (b \notin live \/ deletes > 1)

(* GarbageCollectTask comes to its end, and the next frame begins.         *)
CollectorEnds == (phase = "gc") ~> (phase = "frame")
=============================================================================
