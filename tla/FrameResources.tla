---------------------------- MODULE FrameResources ----------------------------
(***************************************************************************)
(* What a frame slot owns while the GPU works for it: WindowFrames with    *)
(* the slot's descriptor allocator and deletion queue, as renderer.c       *)
(* drives them.  A window's slots get their allocator and queue when it    *)
(* opens; a frame clears and flushes those of its slot once its fence is   *)
(* signaled, allocates sets for what it draws, and may put off the         *)
(* destruction of something it used; a closing window ends them.           *)
(*                                                                         *)
(* A submission reads the sets its frame was given and every object that   *)
(* was not put off before that frame.                                      *)
(***************************************************************************)
EXTENDS WindowFrames, DescriptorAllocator, DeletionQueue

CONSTANTS
  MaxObjects,          \* bound: window -> objects drawn in a frame
  MaxDeferred          \* bound: objects put off in all

ASSUME FrameResourcesAssumption ==
  /\ Allocators = Windows \X Slots /\ Queues = Allocators
  /\ MaxObjects \in [Windows -> Nat] /\ MaxDeferred \in Nat

VARIABLE reads         \* per submission in queue: what it reads

resourceVars == <<descriptorVars, queueVars, reads>>
allVars == <<vars, resourceVars>>

-----------------------------------------------------------------------------
FRInit == Init /\ DescriptorInit /\ QueuesInit /\ reads = <<>>

(* What happens to windows and frames without touching a slot's resources. *)
FramesOnly(A) == A /\ UNCHANGED resourceVars

Slot == <<pc.w, pc.s>>

(* rebuild_frame_data, slot by slot ... *)
InitSlot ==
  /\ pc.at = "open" /\ Idle
  /\ \E s \in Slots :
       /\ \A t \in 0 .. s - 1 : <<pc.w, t>> \in open
       /\ AllocatorInit(<<pc.w, s>>)
       /\ NewQueue(<<pc.w, s>>)
  /\ UNCHANGED <<vars, reads>>

(* ... then the window can be drawn to. *)
FinishOpen ==
  /\ FramesOnly(OpenWindow)
  /\ \A s \in Slots : <<pc.w, s>> \in open

(* Variant: the queue of the slot is not flushed. *)
EndSlotUnflushed ==
  /\ pc.at = "close" /\ Idle
  /\ \E s \in Slots :
       /\ \A t \in 0 .. s - 1 : <<pc.w, t>> \notin open
       /\ AllocatorDeinit(<<pc.w, s>>)
  /\ UNCHANGED <<vars, queueVars, reads>>

(* on_window_component_immediate_destroy, slot by slot ... *)
EndSlot ==
  /\ pc.at = "close" /\ Idle
  /\ \E s \in Slots :
       /\ \A t \in 0 .. s - 1 : <<pc.w, t>> \notin open
       /\ Flush(<<pc.w, s>>)
       /\ AllocatorDeinit(<<pc.w, s>>)
  /\ UNCHANGED <<vars, reads>>

(* ... then the window is gone. *)
FinishClose ==
  /\ FramesOnly(CloseWindow)
  /\ \A s \in Slots : <<pc.w, s>> \notin open

(* render_window_surface between the wait for the fence and the recording. *)
BeginSlot ==
  /\ ResetSlot
  /\ BeginFrame(Slot)
  /\ Flush(Slot)
  /\ UNCHANGED reads

(* The loop over the render list: smat_prep for each object. When it       *)
(* aborts, the main thread stays where it is for good.                     *)
Draw ==
  /\ pc.at = "record"
  /\ \/ Cardinality(held[Slot]) < 2 * MaxObjects[pc.w] /\ Prep
     \/ Allocated \/ NextSet \/ OutOfPool \/ RetryFails
  /\ UNCHANGED <<vars, queueVars, reads>>

Deferred == {o \in Objects : deleted[o] > 0 \/ \E q \in Queues : o \in queued[q]}

(* A client puts off the destruction of something this frame still uses. *)
Defer ==
  /\ pc.at = "record" /\ step # "aborted" /\ Cardinality(Deferred) < MaxDeferred
  /\ \E o \in Objects \ Deferred : Push(Slot, o)
  /\ UNCHANGED <<vars, descriptorVars, reads>>

Needed(o) == deleted[o] = 0 /\ \A q \in Queues \ {Slot} : o \notin queued[q]

(* smat_end_frame and vkQueueSubmit2. *)
EndAndSubmit ==
  /\ Submit
  /\ EndFrame
  /\ reads' = Append(reads, [sets |-> held[Slot], objects |-> {o \in Objects : Needed(o)}])
  /\ UNCHANGED queueVars

Finish ==
  /\ Complete
  /\ reads' = Tail(reads)
  /\ UNCHANGED <<descriptorVars, queueVars>>

FRNext ==
  \/ \E kind \in {"open", "resize", "close"}, w \in Windows : FramesOnly(StartEvent(kind, w))
  \/ InitSlot \/ FinishOpen \/ EndSlot \/ FinishClose
  \/ FramesOnly(ResizeWindow) \/ FramesOnly(StartRender)
  \/ \E w \in Windows : FramesOnly(PickSlot(w))
  \/ FramesOnly(WaitFence) \/ BeginSlot \/ Draw \/ Defer \/ EndAndSubmit
  \/ FramesOnly(Abort) \/ Finish

FRSpec == FRInit /\ [][FRNext]_allVars

-----------------------------------------------------------------------------
(* Properties. *)

(* Nothing a frame in flight reads is taken from it: its descriptor sets   *)
(* stay allocated and are given to no other frame, their pools are neither *)
(* reset nor destroyed, and what was put off is destroyed by               *)
(* vd_deletion_queue_flush only after every submission that was made, in   *)
(* any window, while it was still in use.                                  *)
InFlightIntact ==
  \A i \in DOMAIN reads :
    /\ \A set \in reads[i].sets : destroyed[set[1]] = 0 /\ set[2] <= used[set[1]]
    /\ \A o \in reads[i].objects : deleted[o] = 0
    /\ \A j \in DOMAIN reads \ {i} : reads[i].sets \cap reads[j].sets = {}

(* An object pushed once is destroyed once, by the next use of its slot or *)
(* by the end of its window; only textures, whose list no flush empties,   *)
(* are destroyed again by each further flush. With no window left, none is *)
(* still waiting.                                                          *)
DeferredOnce ==
  /\ \A o \in Objects \ Textures : deleted[o] <= 1
  /\ open = {} => \A q \in Queues : \A o \in queued[q] : deleted[o] > 0
=============================================================================
