---------------------------- MODULE DeletionQueue -----------------------------
(***************************************************************************)
(* ng/src/r/deletion_queue.c: what a frame no longer needs is pushed to    *)
(* the queue of its frame slot and destroyed when the queue is flushed.    *)
(* A queue has one list per kind of object; the flush empties all of them  *)
(* but allocated_images, the list of textures.                             *)
(*                                                                         *)
(* The engine initialises and flushes the queues; no caller of the push    *)
(* functions exists yet, so the clients of FrameResources are any that     *)
(* push an object once.                                                    *)
(***************************************************************************)
EXTENDS Naturals

CONSTANTS
  Queues,              \* VD_DeletionQueues, one per frame slot
  Objects,             \* what can be pushed
  Textures             \* those that vd_deletion_queue_push_image takes

ASSUME DeletionQueueAssumption == Textures \subseteq Objects

VARIABLES
  queued,              \* queue -> the objects in its lists
  deleted              \* object -> how often it was destroyed, counted up to 2

queueVars == <<queued, deleted>>

-----------------------------------------------------------------------------
QueuesInit ==
  /\ queued = [q \in Queues |-> {}]
  /\ deleted = [o \in Objects |-> 0]

(* vd_deletion_queue_init: new lists, whatever the old ones held. *)
NewQueue(q) ==
  /\ queued' = [queued EXCEPT ![q] = {}]
  /\ UNCHANGED deleted

(* vd_deletion_queue_push_buffer and its like *)
Push(q, o) ==
  /\ queued' = [queued EXCEPT ![q] = @ \cup {o}]
  /\ UNCHANGED deleted

(* Variant: no list is emptied. *)
FlushKeepsAll(q) ==
  /\ deleted' = [o \in Objects |->
       IF o \in queued[q] /\ deleted[o] < 2 THEN deleted[o] + 1 ELSE deleted[o]]
  /\ UNCHANGED queued

(* vd_deletion_queue_flush: there is no array_clear of allocated_images. *)
Flush(q) ==
  /\ deleted' = [o \in Objects |->
       IF o \in queued[q] /\ deleted[o] < 2 THEN deleted[o] + 1 ELSE deleted[o]]
  /\ queued' = [queued EXCEPT ![q] = @ \cap Textures]
=============================================================================
