---------------------------- MODULE WindowFrames -----------------------------
(***************************************************************************)
(* Frames in flight (ng/src/renderer.c): how the main thread and the GPU   *)
(* share what a window owns.  Every window has a ring of frame slots       *)
(* (VD_RendererFrameData: command buffer, fence, semaphore, descriptor     *)
(* allocator, deletion queue) and a swapchain with its images.  To render, *)
(* the main thread takes the next slot, waits for its fence, resets what   *)
(* the slot holds, records and submits; the GPU works off the graphics     *)
(* queue in order and signals the fences.  Opening, resizing and closing a *)
(* window first wait for the device to be idle.                            *)
(*                                                                         *)
(* Windows are opened, resized and closed between the render passes of two *)
(* frames; what is drawn, and the presentation engine, are left out.  A    *)
(* Vulkan call that fails or times out aborts the process (VD_VK_CHECK).   *)
(***************************************************************************)
EXTENDS Naturals, Sequences, FiniteSets

CONSTANTS
  Windows,
  Inflight,          \* the cvar r.inflight-frame-count
  FrameWrap,         \* current_frame counts modulo this (bound)
  MaxSwapchains      \* bound: window -> swapchains made for it

ASSUME WindowFramesAssumption ==
  /\ Inflight \in Nat \ {0} /\ FrameWrap \in Nat \ {0}
  /\ MaxSwapchains \in [Windows -> Nat]

Slots == 0 .. Inflight - 1

VARIABLES
  surface,           \* window -> a WindowSurfaceComponent exists
  swapchain,         \* window -> number of its current swapchain (and images)
  current_frame,     \* window -> WindowSurfaceComponent.current_frame
  fence,             \* window -> slot -> fnc_render_complete is signaled
  available,         \* window -> slot -> sem_image_available is signaled
  queue,             \* the submissions the GPU has not finished, oldest first
  pc,                \* the main thread: what it does, for which window and slot
  todo               \* windows still to render in this frame

gpu  == <<fence, available, queue>>
vars == <<surface, swapchain, current_frame, fence, available, queue, pc, todo>>

-----------------------------------------------------------------------------
Between == [at |-> "between"]          \* no window is being worked on

Init ==
  /\ surface = [w \in Windows |-> FALSE] /\ swapchain = [w \in Windows |-> 0]
  /\ current_frame = [w \in Windows |-> 0]
  /\ fence = [w \in Windows |-> [s \in Slots |-> FALSE]]
  /\ available = [w \in Windows |-> [s \in Slots |-> FALSE]]
  /\ queue = <<>> /\ pc = Between /\ todo = {}

(* A window event: the handler first calls vkDeviceWaitIdle. *)
StartEvent(kind, w) ==
  /\ pc = Between /\ todo = {}
  /\ (kind = "open") = ~surface[w]
  /\ kind # "close" => swapchain[w] < MaxSwapchains[w]
  /\ pc' = [at |-> kind, w |-> w]
  /\ UNCHANGED <<surface, swapchain, current_frame, gpu, todo>>

Idle == queue = <<>>                   \* vkDeviceWaitIdle returns

(* Variant: the fences are created unsignaled. *)
OpenWindowUnsignaled ==
  /\ pc.at = "open" /\ Idle
  /\ surface' = [surface EXCEPT ![pc.w] = TRUE]
  /\ swapchain' = [swapchain EXCEPT ![pc.w] = @ + 1]
  /\ current_frame' = [current_frame EXCEPT ![pc.w] = 0]
  /\ fence' = [fence EXCEPT ![pc.w] = [s \in Slots |-> FALSE]]
  /\ available' = [available EXCEPT ![pc.w] = [s \in Slots |-> FALSE]]
  /\ pc' = Between
  /\ UNCHANGED <<queue, todo>>

(* RendererOnWindowComponentSet for a window without a surface. The fences *)
(* are created signaled (rebuild_frame_data).                              *)
OpenWindow ==
  /\ pc.at = "open" /\ Idle
  /\ surface' = [surface EXCEPT ![pc.w] = TRUE]
  /\ swapchain' = [swapchain EXCEPT ![pc.w] = @ + 1]
  /\ current_frame' = [current_frame EXCEPT ![pc.w] = 0]
  /\ fence' = [fence EXCEPT ![pc.w] = [s \in Slots |-> TRUE]]
  /\ available' = [available EXCEPT ![pc.w] = [s \in Slots |-> FALSE]]
  /\ pc' = Between
  /\ UNCHANGED <<queue, todo>>

(* Variant: the device is not waited for. *)
ResizeWindowAtOnce ==
  /\ pc.at = "resize"
  /\ swapchain' = [swapchain EXCEPT ![pc.w] = @ + 1]
  /\ current_frame' = [current_frame EXCEPT ![pc.w] = 0]
  /\ pc' = Between
  /\ UNCHANGED <<surface, gpu, todo>>

(* RendererCheckWindowComponentSizeChange: a new swapchain and new images; *)
(* the frame slots are kept as they are and the count starts again.        *)
ResizeWindow ==
  /\ pc.at = "resize" /\ Idle
  /\ swapchain' = [swapchain EXCEPT ![pc.w] = @ + 1]
  /\ current_frame' = [current_frame EXCEPT ![pc.w] = 0]
  /\ pc' = Between
  /\ UNCHANGED <<surface, gpu, todo>>

(* on_window_component_immediate_destroy: slots, images and swapchain go.  *)
CloseWindow ==
  /\ pc.at = "close" /\ Idle
  /\ surface' = [surface EXCEPT ![pc.w] = FALSE]
  /\ pc' = Between
  /\ UNCHANGED <<swapchain, current_frame, gpu, todo>>

(* RendererRenderToWindowSurfaceComponents: every surface, in some order.  *)
StartRender ==
  /\ pc = Between /\ todo = {} /\ \E w \in Windows : surface[w]
  /\ todo' = {w \in Windows : surface[w]}
  /\ UNCHANGED <<surface, swapchain, current_frame, gpu, pc>>

(* render_window_surface, one window: the next slot ... *)
PickSlot(w) ==
  /\ pc = Between /\ w \in todo
  /\ pc' = [at |-> "wait", w |-> w, s |-> current_frame[w] % Inflight]
  /\ current_frame' = [current_frame EXCEPT ![w] = (@ + 1) % FrameWrap]
  /\ UNCHANGED <<surface, swapchain, gpu, todo>>

(* Variant: the fence is not waited for. *)
WaitFenceSkipped ==
  /\ pc.at = "wait"
  /\ pc' = [pc EXCEPT !.at = "reset"]
  /\ UNCHANGED <<surface, swapchain, current_frame, gpu, todo>>

(* ... vkWaitForFences returns because the fence is signaled ... *)
WaitFence ==
  /\ pc.at = "wait" /\ fence[pc.w][pc.s]
  /\ pc' = [pc EXCEPT !.at = "reset"]
  /\ UNCHANGED <<surface, swapchain, current_frame, gpu, todo>>

(* ... vkResetFences, smat_begin_frame, the flush of the deletion queue,   *)
(* then vkAcquireNextImageKHR, which signals sem_image_available ...       *)
ResetSlot ==
  /\ pc.at = "reset"
  /\ fence' = [fence EXCEPT ![pc.w][pc.s] = FALSE]
  /\ available' = [available EXCEPT ![pc.w][pc.s] = TRUE]
  /\ pc' = [pc EXCEPT !.at = "record"]
  /\ UNCHANGED <<surface, swapchain, current_frame, queue, todo>>

(* Variant: the iteration over the surfaces does not advance. *)
SubmitSameWindow ==
  /\ pc.at = "record"
  /\ queue' = Append(queue, [w |-> pc.w, s |-> pc.s, swapchain |-> swapchain[pc.w]])
  /\ pc' = Between
  /\ UNCHANGED <<surface, swapchain, current_frame, fence, available, todo>>

(* ... and after recording the command buffer vkQueueSubmit2 and the       *)
(* present. The submission uses the slot, the swapchain and its images.    *)
Submit ==
  /\ pc.at = "record"
  /\ queue' = Append(queue, [w |-> pc.w, s |-> pc.s, swapchain |-> swapchain[pc.w]])
  /\ todo' = todo \ {pc.w}
  /\ pc' = Between
  /\ UNCHANGED <<surface, swapchain, current_frame, fence, available>>

(* A wait or an acquire times out, or acquiring reports an outdated        *)
(* swapchain: VD_VK_CHECK aborts.                                          *)
Abort ==
  /\ \/ pc.at = "wait" /\ ~fence[pc.w][pc.s]
     \/ pc.at = "reset"
  /\ pc' = [at |-> "aborted"]
  /\ UNCHANGED <<surface, swapchain, current_frame, gpu, todo>>

(* The GPU finishes the oldest submission: it consumed the semaphore and   *)
(* signals the fence.                                                      *)
Complete ==
  /\ queue # <<>>
  /\ LET job == Head(queue)
     IN  /\ fence' = [fence EXCEPT ![job.w][job.s] = TRUE]
         /\ available' = [available EXCEPT ![job.w][job.s] = FALSE]
  /\ queue' = Tail(queue)
  /\ UNCHANGED <<surface, swapchain, current_frame, pc, todo>>

Render ==
  \/ StartRender \/ WaitFence \/ ResetSlot \/ Submit
  \/ \E w \in Windows : PickSlot(w)

Next ==
  \/ \E kind \in {"open", "resize", "close"}, w \in Windows : StartEvent(kind, w)
  \/ OpenWindow \/ ResizeWindow \/ CloseWindow
  \/ Render \/ Abort \/ Complete

(* The GPU works off its queue; the main thread runs on once it may.       *)
Spec == /\ Init /\ [][Next]_vars
        /\ WF_vars(Complete)
        /\ WF_vars(OpenWindow \/ ResizeWindow \/ CloseWindow \/ Render)

-----------------------------------------------------------------------------
(* Properties. *)

Busy(w, s) == \E i \in 1 .. Len(queue) : queue[i].w = w /\ queue[i].s = s

(* While the main thread resets or records a slot, no submission that uses *)
(* the slot is in flight: the reset of its command buffer, the reset of    *)
(* its descriptor pools (smat_begin_frame) and the flush of its deletion   *)
(* queue touch nothing the GPU still reads, for any number of slots, after *)
(* a resize that restarts current_frame and across its wrap-around.        *)
SlotIdleWhenReused == pc.at \in {"reset", "record"} => ~Busy(pc.w, pc.s)

(* The GPU never works for a window that is gone, nor on a swapchain that  *)
(* a resize replaced: what on_window_component_immediate_destroy and       *)
(* RendererCheckWindowComponentSizeChange destroy is idle.                 *)
WorkUsesLiveSurface ==
  \A i \in 1 .. Len(queue) :
    surface[queue[i].w] /\ queue[i].swapchain = swapchain[queue[i].w]

(* A slot whose fence is not signaled is either in flight or just now      *)
(* being recorded, so vkWaitForFences never waits for a signal that        *)
(* nothing will bring (a reset without a submission would hang the next    *)
(* round).                                                                 *)
FenceWillCome ==
  \A w \in Windows, s \in Slots :
    surface[w] /\ ~fence[w][s] =>
      Busy(w, s) \/ pc = [at |-> "record", w |-> w, s |-> s]

(* A window whose turn it is gets its submission, unless the process       *)
(* aborts: no combination of windows and slots makes the main thread wait  *)
(* for a fence for ever.                                                   *)
EveryWindowRendered ==
  \A w \in Windows : w \in todo ~> (w \notin todo \/ pc.at = "aborted")
=============================================================================
