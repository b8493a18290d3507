------------------------ MODULE FrameResourcesProofs ------------------------
(***************************************************************************)
(* Frames in flight with their descriptor allocators and deletion queues,  *)
(* for any windows, frame slots, capacities and objects.  The invariant    *)
(* has three parts: that of the frames (first section), that of the       *)
(* pools (every pool that exists is in one place of its slot, and between  *)
(* two allocations only the last free one holds sets), and what ties them  *)
(* to the submissions: each reads the sets its slot was given, and what it *)
(* reads waits in no queue that is flushed before it is done.              *)
(***************************************************************************)
EXTENDS FrameResources, SequenceTheorems, FiniteSetTheorems, TLAPS

-----------------------------------------------------------------------------
(***************************************************************************)
(* The safety of frames in flight for any windows, any number of frame     *)
(* slots and any wrap of the frame counter, by one inductive invariant:    *)
(* a signaled fence means that no submission uses the slot, and no slot is *)
(* in the queue twice.                                                     *)
(***************************************************************************)

Jobs == [w : Windows, s : Slots, swapchain : Nat]

TypeOK ==
  /\ surface \in [Windows -> BOOLEAN] /\ swapchain \in [Windows -> Nat]
  /\ current_frame \in [Windows -> Nat]
  /\ fence \in [Windows -> [Slots -> BOOLEAN]]
  /\ available \in [Windows -> [Slots -> BOOLEAN]]
  /\ queue \in Seq(Jobs)
  /\ pc \in {Between, [at |-> "aborted"]}
            \cup [at : {"open", "resize", "close"}, w : Windows]
            \cup [at : {"wait", "reset", "record"}, w : Windows, s : Slots]
  /\ todo \subseteq Windows

(* What the main thread works on: windows are opened when they have no     *)
(* surface, and rendered, resized and closed when they have one.           *)
Position ==
  /\ \A w \in todo : surface[w]
  /\ pc.at \in {"open", "resize", "close"} => todo = {}
  /\ pc.at = "open" => ~surface[pc.w]
  /\ pc.at \in {"resize", "close", "wait", "reset", "record"} => surface[pc.w]

(* A slot in flight has its fence unsignaled, and is in flight once. *)
InFlight ==
  /\ \A i \in 1 .. Len(queue) : ~fence[queue[i].w][queue[i].s]
  /\ \A i, j \in 1 .. Len(queue) :
       queue[i].w = queue[j].w /\ queue[i].s = queue[j].s => i = j

(* The fence was signaled when the slot was taken, and is not any more     *)
(* when the slot is recorded.                                              *)
Taken ==
  /\ pc.at = "reset" => fence[pc.w][pc.s]
  /\ pc.at = "record" => ~fence[pc.w][pc.s] /\ ~Busy(pc.w, pc.s)

Inv ==
  /\ TypeOK /\ Position /\ InFlight /\ Taken
  /\ WorkUsesLiveSurface /\ FenceWillCome

-----------------------------------------------------------------------------
LEMMA JobTypes ==
  ASSUME TypeOK, NEW i \in 1 .. Len(queue)
  PROVE  /\ queue[i] \in Jobs /\ queue[i].w \in Windows /\ queue[i].s \in Slots
<1>1. queue \in Seq(Jobs)
  BY DEF TypeOK
<1>2. queue[i] \in Jobs
  BY <1>1, ElementOfSeq
<1> QED
  BY <1>2 DEF Jobs

LEMMA NextSlot ==
  ASSUME NEW n \in Nat
  PROVE  n % Inflight \in Slots /\ (n + 1) % FrameWrap \in Nat
  BY WindowFramesAssumption DEF Slots

LEMMA InitInv == Init => Inv
  BY WindowFramesAssumption DEF Init, Between, Inv, TypeOK, Position, InFlight, Taken,
     WorkUsesLiveSurface, FenceWillCome

(* A step of the main thread that leaves the GPU and the surfaces alone,   *)
(* and does not stand at the recording of a slot before or after.          *)
LEMMA SameGpu ==
  ASSUME Inv, TypeOK', Position', UNCHANGED <<surface, swapchain, gpu>>,
         pc.at # "record", pc'.at # "record",
         pc'.at = "reset" => fence[pc'.w][pc'.s]
  PROVE  Inv'
<1>1. InFlight' /\ Taken' /\ WorkUsesLiveSurface'
  BY DEF Inv, InFlight, Taken, WorkUsesLiveSurface, gpu
<1>2. FenceWillCome'
  BY DEF Inv, FenceWillCome, Busy, gpu
<1> QED
  BY <1>1, <1>2 DEF Inv

(* Nothing is in flight: a window is opened, resized or closed. *)
LEMMA IdleChange ==
  ASSUME Inv, TypeOK', Position', queue = <<>>, queue' = <<>>, pc' = Between,
         pc.at # "record",
         \A w \in Windows, s \in Slots :
           surface'[w] => fence'[w][s] \/ (surface[w] /\ fence'[w][s] = fence[w][s])
  PROVE  Inv'
<1>1. \A w, s : ~Busy(w, s)
  BY DEF Busy
<1>2. FenceWillCome'
  BY <1>1 DEF Inv, FenceWillCome
<1>3. InFlight' /\ Taken' /\ WorkUsesLiveSurface'
  BY DEF InFlight, Taken, WorkUsesLiveSurface, Between
<1> QED
  BY <1>2, <1>3 DEF Inv

LEMMA NextInv == Inv /\ [Next]_vars => Inv'
<1> SUFFICES ASSUME Inv, [Next]_vars PROVE Inv'
  OBVIOUS
<1>0. TypeOK /\ Position /\ InFlight /\ Taken /\ WorkUsesLiveSurface /\ FenceWillCome
  BY DEF Inv
<1>1. ASSUME NEW kind \in {"open", "resize", "close"}, NEW w \in Windows, StartEvent(kind, w)
      PROVE  Inv'
  <2>1. pc' = [at |-> kind, w |-> w] /\ pc = Between /\ todo = {}
        /\ (kind = "open") = ~surface[w]
        /\ UNCHANGED <<surface, swapchain, current_frame, gpu, todo>>
    BY <1>1 DEF StartEvent
  <2>2. pc'.at = kind /\ pc'.w = w /\ pc.at = "between"
    BY <2>1 DEF Between
  <2>3. TypeOK'
    BY <1>0, <2>1 DEF TypeOK, gpu
  <2>4. Position'
    BY <1>0, <2>1, <2>2 DEF Position
  <2> QED
    BY <2>1, <2>2, <2>3, <2>4, SameGpu
<1>2. CASE OpenWindow
  <2>1. pc.at = "open" /\ pc.w \in Windows
    BY <1>0, <1>2 DEF OpenWindow, TypeOK, Between
  <2>2. TypeOK'
    BY <1>0, <1>2, <2>1 DEF OpenWindow, TypeOK
  <2>3. Position'
    BY <1>0, <1>2, <2>1 DEF OpenWindow, Position, Between, TypeOK
  <2>4. \A w \in Windows, s \in Slots :
          surface'[w] => fence'[w][s] \/ (surface[w] /\ fence'[w][s] = fence[w][s])
    BY <1>0, <1>2, <2>1 DEF OpenWindow, TypeOK
  <2> QED
    BY <1>2, <2>1, <2>2, <2>3, <2>4, IdleChange DEF OpenWindow, Idle
<1>3. CASE ResizeWindow
  <2>1. pc.at = "resize" /\ pc.w \in Windows
    BY <1>0, <1>3 DEF ResizeWindow, TypeOK, Between
  <2>2. TypeOK'
    BY <1>0, <1>3, <2>1 DEF ResizeWindow, TypeOK, gpu
  <2>3. Position'
    BY <1>0, <1>3, <2>1 DEF ResizeWindow, Position, Between
  <2> QED
    BY <1>3, <2>1, <2>2, <2>3, IdleChange DEF ResizeWindow, Idle, gpu
<1>4. CASE CloseWindow
  <2>1. pc.at = "close" /\ pc.w \in Windows
    BY <1>0, <1>4 DEF CloseWindow, TypeOK, Between
  <2>2. TypeOK'
    BY <1>0, <1>4, <2>1 DEF CloseWindow, TypeOK, gpu
  <2>3. Position'
    BY <1>0, <1>4, <2>1 DEF CloseWindow, Position, Between
  <2>4. \A w \in Windows : surface'[w] => surface[w]
    BY <1>0, <1>4, <2>1 DEF CloseWindow, TypeOK
  <2> QED
    BY <1>4, <2>1, <2>2, <2>3, <2>4, IdleChange DEF CloseWindow, Idle, gpu
<1>5. CASE StartRender
  <2>1. TypeOK' /\ Position'
    BY <1>0, <1>5 DEF StartRender, TypeOK, Position, Between, gpu
  <2> QED
    BY <1>5, <2>1, SameGpu DEF StartRender, Between
<1>6. ASSUME NEW w \in Windows, PickSlot(w) PROVE Inv'
  <2> DEFINE s == current_frame[w] % Inflight
  <2>1. /\ pc' = [at |-> "wait", w |-> w, s |-> s] /\ pc = Between /\ w \in todo
        /\ current_frame' = [current_frame EXCEPT ![w] = (@ + 1) % FrameWrap]
        /\ UNCHANGED <<surface, swapchain, gpu, todo>>
    BY <1>6 DEF PickSlot
  <2>2. s \in Slots /\ (current_frame[w] + 1) % FrameWrap \in Nat
    BY <1>0, NextSlot DEF TypeOK
  <2>3. current_frame' \in [Windows -> Nat]
    BY <1>0, <2>1, <2>2 DEF TypeOK
  <2> HIDE DEF s
  <2>4. pc'.at = "wait" /\ pc'.w = w /\ pc.at = "between"
    BY <2>1 DEF Between
  <2>5. TypeOK'
    BY <1>0, <2>1, <2>2, <2>3 DEF TypeOK, gpu
  <2>6. Position'
    BY <1>0, <2>1, <2>4 DEF Position
  <2> QED
    BY <2>1, <2>4, <2>5, <2>6, SameGpu
<1>7. CASE WaitFence
  <2>1. /\ pc.at = "wait" /\ pc \in [at : {"wait", "reset", "record"}, w : Windows, s : Slots]
        /\ fence[pc.w][pc.s]
    BY <1>0, <1>7 DEF WaitFence, TypeOK, Between
  <2>2. /\ pc' = [at |-> "reset", w |-> pc.w, s |-> pc.s]
        /\ UNCHANGED <<surface, swapchain, current_frame, gpu, todo>>
    BY <1>7, <2>1 DEF WaitFence
  <2>3. TypeOK'
    BY <1>0, <2>1, <2>2 DEF TypeOK, gpu
  <2>4. Position'
    BY <1>0, <2>1, <2>2 DEF Position
  <2> QED
    BY <2>1, <2>2, <2>3, <2>4, SameGpu
<1>8. CASE ResetSlot
  <2> DEFINE w == pc.w
             s == pc.s
  <2>1. pc.at = "reset" /\ pc \in [at : {"wait", "reset", "record"}, w : Windows, s : Slots]
    BY <1>0, <1>8 DEF ResetSlot, TypeOK, Between
  <2>2. /\ pc' = [at |-> "record", w |-> w, s |-> s]
        /\ fence' = [fence EXCEPT ![w][s] = FALSE]
        /\ available' = [available EXCEPT ![w][s] = TRUE]
        /\ UNCHANGED <<surface, swapchain, current_frame, queue, todo>>
    BY <1>8, <2>1 DEF ResetSlot
  <2>3. w \in Windows /\ s \in Slots /\ fence[w][s]
    BY <1>0, <2>1 DEF Taken
  <2>4. pc'.at = "record" /\ pc'.w = w /\ pc'.s = s
    BY <2>2
  <2> HIDE DEF w, s
  <2>5. TypeOK'
    BY <1>0, <2>2, <2>3 DEF TypeOK
  <2>6. Position'
    BY <1>0, <2>1, <2>2, <2>4 DEF Position, w
  <2>7. \A v \in Windows, t \in Slots :
          fence'[v][t] = IF v = w /\ t = s THEN FALSE ELSE fence[v][t]
    BY <1>0, <2>2, <2>3 DEF TypeOK
  <2>8. ~Busy(w, s)
    BY <1>0, <2>3 DEF InFlight, Busy
  <2>9. InFlight'
    BY <1>0, <2>2, <2>7, JobTypes DEF InFlight
  <2>10. Taken'
    BY <2>2, <2>3, <2>4, <2>7, <2>8 DEF Taken, Busy
  <2>11. WorkUsesLiveSurface'
    BY <1>0, <2>2 DEF WorkUsesLiveSurface
  <2>12. FenceWillCome'
    BY <1>0, <2>1, <2>2, <2>7 DEF FenceWillCome, Busy
  <2> QED
    BY <2>5, <2>6, <2>9, <2>10, <2>11, <2>12 DEF Inv
<1>9. CASE Submit
  <2> DEFINE job == [w |-> pc.w, s |-> pc.s, swapchain |-> swapchain[pc.w]]
  <2>1. pc.at = "record" /\ pc \in [at : {"wait", "reset", "record"}, w : Windows, s : Slots]
    BY <1>0, <1>9 DEF Submit, TypeOK, Between
  <2>2. /\ queue' = Append(queue, job) /\ pc' = Between /\ todo' = todo \ {pc.w}
        /\ UNCHANGED <<surface, swapchain, current_frame, fence, available>>
    BY <1>9 DEF Submit
  <2>3. job \in Jobs
    BY <1>0, <2>1 DEF Jobs, TypeOK
  <2>4. job.w = pc.w /\ job.s = pc.s /\ job.swapchain = swapchain[pc.w]
    OBVIOUS
  <2> HIDE DEF job
  <2>5. /\ queue' \in Seq(Jobs) /\ Len(queue') = Len(queue) + 1 /\ Len(queue) \in Nat
        /\ \A i \in 1 .. Len(queue) : queue'[i] = queue[i]
        /\ queue'[Len(queue) + 1] = job
    BY <1>0, <2>2, <2>3, AppendProperties, LenProperties DEF TypeOK
  <2>6. \A i \in 1 .. Len(queue') : i \in 1 .. Len(queue) \/ i = Len(queue) + 1
    BY <2>5
  <2>7. ~fence[pc.w][pc.s] /\ surface[pc.w]
        /\ \A i \in 1 .. Len(queue) : ~(queue[i].w = pc.w /\ queue[i].s = pc.s)
    BY <1>0, <2>1 DEF Taken, Busy, Position
  <2>8. TypeOK'
    BY <1>0, <2>2, <2>5 DEF TypeOK
  <2>9. Position'
    BY <1>0, <2>2 DEF Position, Between
  <2>10. InFlight'
    <3>1. \A i \in 1 .. Len(queue') : ~fence'[queue'[i].w][queue'[i].s]
      BY <1>0, <2>2, <2>4, <2>5, <2>6, <2>7 DEF InFlight
    <3>2. \A i, j \in 1 .. Len(queue') :
            queue'[i].w = queue'[j].w /\ queue'[i].s = queue'[j].s => i = j
      BY <1>0, <2>4, <2>5, <2>6, <2>7 DEF InFlight
    <3> QED
      BY <3>1, <3>2 DEF InFlight
  <2>11. Taken'
    BY <2>2 DEF Taken, Between
  <2>12. WorkUsesLiveSurface'
    BY <1>0, <2>2, <2>4, <2>5, <2>6, <2>7 DEF WorkUsesLiveSurface
  <2>13. FenceWillCome'
    <3> SUFFICES ASSUME NEW w \in Windows, NEW s \in Slots, surface[w], ~fence[w][s]
                 PROVE  Busy(w, s)'
      BY <2>2 DEF FenceWillCome
    <3>1. CASE Busy(w, s)
      BY <2>5, <3>1 DEF Busy
    <3>2. CASE pc = [at |-> "record", w |-> w, s |-> s]
      <4>1. pc.w = w /\ pc.s = s
        BY <3>2
      <4>2. Len(queue) + 1 \in 1 .. Len(queue')
        BY <2>5
      <4> QED
        BY <2>4, <2>5, <4>1, <4>2 DEF Busy
    <3> QED
      BY <1>0, <3>1, <3>2 DEF FenceWillCome
  <2> QED
    BY <2>8, <2>9, <2>10, <2>11, <2>12, <2>13 DEF Inv
<1>10. CASE Abort
  <2>1. pc.at # "record" /\ pc' = [at |-> "aborted"] /\ pc'.at = "aborted"
        /\ UNCHANGED <<surface, swapchain, current_frame, gpu, todo>>
    BY <1>10 DEF Abort
  <2>2. TypeOK' /\ Position'
    BY <1>0, <2>1 DEF TypeOK, Position, gpu
  <2> QED
    BY <2>1, <2>2, SameGpu
<1>11. CASE Complete
  <2> DEFINE job == Head(queue)
  <2>1. /\ queue # <<>> /\ queue' = Tail(queue)
        /\ fence' = [fence EXCEPT ![job.w][job.s] = TRUE]
        /\ available' = [available EXCEPT ![job.w][job.s] = FALSE]
        /\ UNCHANGED <<surface, swapchain, current_frame, pc, todo>>
    BY <1>11 DEF Complete
  <2>2. /\ queue' \in Seq(Jobs) /\ Len(queue) \in Nat \ {0} /\ Len(queue') = Len(queue) - 1
        /\ \A i \in 1 .. Len(queue') : queue'[i] = queue[i + 1]
        /\ job = queue[1] /\ job \in Jobs
    <3>1. Len(queue) \in Nat \ {0}
      BY <1>0, <2>1, EmptySeq, LenProperties DEF TypeOK
    <3>2. /\ queue' \in Seq(Jobs) /\ Len(queue') = Len(queue) - 1
          /\ \A i \in 1 .. Len(queue') : queue'[i] = queue[i + 1]
          /\ job = queue[1]
      BY <1>0, <2>1, <3>1, HeadTailProperties DEF TypeOK
    <3> QED
      BY <1>0, <3>1, <3>2, JobTypes
  <2>3. job.w \in Windows /\ job.s \in Slots
    BY <2>2 DEF Jobs
  <2> HIDE DEF job
  <2>4. \A w \in Windows, s \in Slots :
          fence'[w][s] = IF w = job.w /\ s = job.s THEN TRUE ELSE fence[w][s]
    BY <1>0, <2>1, <2>3 DEF TypeOK
  <2>5. \A i \in 1 .. Len(queue') :
          /\ i + 1 \in 1 .. Len(queue) /\ queue'[i] = queue[i + 1]
          /\ queue[i + 1].w \in Windows /\ queue[i + 1].s \in Slots
          /\ ~(queue[i + 1].w = job.w /\ queue[i + 1].s = job.s)
    <3> SUFFICES ASSUME NEW i \in 1 .. Len(queue')
                 PROVE  /\ i + 1 \in 1 .. Len(queue)
                        /\ queue[i + 1].w \in Windows /\ queue[i + 1].s \in Slots
                        /\ ~(queue[i + 1].w = job.w /\ queue[i + 1].s = job.s)
      BY <2>2
    <3>1. i + 1 \in 1 .. Len(queue) /\ 1 \in 1 .. Len(queue) /\ i + 1 # 1
      BY <2>2
    <3> QED
      BY <1>0, <2>2, <3>1, JobTypes DEF InFlight
  <2>6. TypeOK'
    BY <1>0, <2>1, <2>2, <2>3 DEF TypeOK
  <2>7. Position'
    BY <1>0, <2>1 DEF Position
  <2>8. InFlight'
    <3>1. \A i \in 1 .. Len(queue') : ~fence'[queue'[i].w][queue'[i].s]
      <4> TAKE i \in 1 .. Len(queue')
      <4>1. ~fence[queue[i + 1].w][queue[i + 1].s]
        BY <1>0, <2>5 DEF InFlight
      <4>2. fence'[queue[i + 1].w][queue[i + 1].s] = fence[queue[i + 1].w][queue[i + 1].s]
        BY <2>4, <2>5
      <4> QED
        BY <2>5, <4>1, <4>2
    <3>2. \A i, j \in 1 .. Len(queue') :
            queue'[i].w = queue'[j].w /\ queue'[i].s = queue'[j].s => i = j
      <4> TAKE i, j \in 1 .. Len(queue')
      <4> HAVE queue'[i].w = queue'[j].w /\ queue'[i].s = queue'[j].s
      <4>1. i + 1 = j + 1
        BY <1>0, <2>5 DEF InFlight
      <4> QED
        BY <2>2, <4>1
    <3> QED
      BY <3>1, <3>2 DEF InFlight
  <2>9. \A w, s : Busy(w, s)' => Busy(w, s)
    BY <2>5 DEF Busy
  <2>10. Taken'
    <3>1. CASE pc.at = "reset"
      <4>1. pc.w \in Windows /\ pc.s \in Slots
        BY <1>0, <3>1 DEF TypeOK, Between
      <4> QED
        BY <1>0, <2>1, <2>4, <3>1, <4>1 DEF Taken
    <3>2. CASE pc.at = "record"
      <4>1. pc.w \in Windows /\ pc.s \in Slots
        BY <1>0, <3>2 DEF TypeOK, Between
      <4>2. ~Busy(pc.w, pc.s) /\ ~fence[pc.w][pc.s]
        BY <1>0, <3>2 DEF Taken
      <4>3. ~(pc.w = job.w /\ pc.s = job.s)
        <5>1. 1 \in 1 .. Len(queue)
          BY <2>2
        <5> QED
          BY <2>2, <4>2, <5>1 DEF Busy
      <4>4. ~fence'[pc.w][pc.s]
        BY <2>4, <4>1, <4>2, <4>3
      <4>5. ~Busy(pc.w, pc.s)'
        BY <2>1, <2>9, <4>2 DEF Busy
      <4> QED
        BY <2>1, <3>2, <4>4, <4>5 DEF Taken
    <3> QED
      BY <2>1, <3>1, <3>2 DEF Taken
  <2>11. WorkUsesLiveSurface'
    BY <1>0, <2>1, <2>5 DEF WorkUsesLiveSurface
  <2>12. FenceWillCome'
    <3> SUFFICES ASSUME NEW w \in Windows, NEW s \in Slots, surface[w], ~fence'[w][s]
                 PROVE  Busy(w, s)' \/ pc = [at |-> "record", w |-> w, s |-> s]
      BY <2>1 DEF FenceWillCome
    <3>1. ~fence[w][s] /\ ~(w = job.w /\ s = job.s)
      BY <2>4
    <3>2. ASSUME Busy(w, s) PROVE Busy(w, s)'
      <4>1. PICK i \in 1 .. Len(queue) : queue[i].w = w /\ queue[i].s = s
        BY <3>2 DEF Busy
      <4>2. i # 1
        BY <2>2, <3>1, <4>1
      <4>3. i - 1 \in 1 .. Len(queue') /\ queue'[i - 1] = queue[i]
        BY <2>2, <4>1, <4>2
      <4> QED
        BY <4>1, <4>3 DEF Busy
    <3> QED
      BY <1>0, <3>1, <3>2 DEF FenceWillCome
  <2> QED
    BY <2>6, <2>7, <2>8, <2>10, <2>11, <2>12 DEF Inv
<1>12. CASE UNCHANGED vars
  <2>1. TypeOK' /\ Position' /\ InFlight' /\ WorkUsesLiveSurface'
    BY <1>0, <1>12 DEF vars, gpu, TypeOK, Position, InFlight, WorkUsesLiveSurface
  <2>2. Taken' /\ FenceWillCome'
    BY <1>0, <1>12 DEF vars, gpu, Taken, FenceWillCome, Busy
  <2> QED
    BY <2>1, <2>2 DEF Inv
<1> QED
  BY <1>1, <1>2, <1>3, <1>4, <1>5, <1>6, <1>7, <1>8, <1>9, <1>10, <1>11, <1>12
     DEF Next, Render

LEMMA SpecInv == Spec => []Inv
  BY InitInv, NextInv, PTL DEF Spec

-----------------------------------------------------------------------------
(* render_window_surface resets the command buffer, the descriptor pools   *)
(* and the deletion queue of a slot only when no submission uses it, for   *)
(* any number of slots and wherever current_frame wraps or starts again.   *)
THEOREM SlotsAreIdleWhenReused == Spec => []SlotIdleWhenReused
<1>1. Inv => SlotIdleWhenReused
  BY DEF Inv, Taken, InFlight, Busy, SlotIdleWhenReused
<1> QED
  BY <1>1, SpecInv, PTL

(* What on_window_component_immediate_destroy and the resize destroy is    *)
(* used by no submission in flight.                                        *)
THEOREM NoWorkOnDeadSurfaces == Spec => []WorkUsesLiveSurface
<1>1. Inv => WorkUsesLiveSurface
  BY DEF Inv
<1> QED
  BY <1>1, SpecInv, PTL

(* vkWaitForFences of a slot always has a submission to wait for: a fence  *)
(* that is not signaled belongs to a slot in flight or being recorded.     *)
THEOREM EveryFenceWillCome == Spec => []FenceWillCome
<1>1. Inv => FenceWillCome
  BY DEF Inv
<1> QED
  BY <1>1, SpecInv, PTL

-----------------------------------------------------------------------------
(* Sequences: the last element apart from the others, one more element.    *)

LEMMA FrontLast ==
  ASSUME NEW S, NEW s \in Seq(S), s # <<>>
  PROVE  /\ Len(s) \in Nat \ {0} /\ DOMAIN s = 1 .. Len(s)
         /\ Front(s) \in Seq(S) /\ DOMAIN Front(s) = 1 .. Len(s) - 1
         /\ \A i \in 1 .. Len(s) - 1 : Front(s)[i] = s[i]
         /\ Last(s) = s[Len(s)] /\ Last(s) \in S
<1>1. Len(s) \in Nat \ {0} /\ DOMAIN s = 1 .. Len(s)
  BY EmptySeq, LenProperties
<1>2. \A i \in 1 .. Len(s) : s[i] \in S
  BY ElementOfSeq
<1>3. /\ Front(s) \in Seq(S) /\ Len(Front(s)) = Len(s) - 1
      /\ \A i \in 1 .. Len(s) - 1 : Front(s)[i] = s[i]
  <2>1. \A i \in 1 .. Len(s) - 1 : s[i] \in S
    BY <1>1, <1>2
  <2>2. /\ SubSeq(s, 1, Len(s) - 1) \in Seq(S)
        /\ Len(SubSeq(s, 1, Len(s) - 1)) = IF 1 <= Len(s) - 1 THEN Len(s) - 1 - 1 + 1 ELSE 0
        /\ \A i \in 1 .. Len(s) - 1 - 1 + 1 : SubSeq(s, 1, Len(s) - 1)[i] = s[1 + i - 1]
    <3>1. 1 \in Int /\ Len(s) - 1 \in Int
      BY <1>1
    <3> QED
      BY ONLY <2>1, <3>1, SubSeqProperties
  <2> QED
    BY <1>1, <2>2 DEF Front
<1>4. Last(s) = s[Len(s)] /\ Last(s) \in S
  BY <1>1, <1>2 DEF Last
<1> QED
  BY <1>1, <1>3, <1>4, LenProperties

LEMMA Appended ==
  ASSUME NEW S, NEW s \in Seq(S), NEW x \in S
  PROVE  /\ Append(s, x) \in Seq(S) /\ Len(s) \in Nat
         /\ DOMAIN s = 1 .. Len(s) /\ DOMAIN Append(s, x) = 1 .. Len(s) + 1
         /\ \A i \in 1 .. Len(s) : Append(s, x)[i] = s[i]
         /\ Append(s, x)[Len(s) + 1] = x
<1>1. /\ Append(s, x) \in Seq(S) /\ Len(Append(s, x)) = Len(s) + 1
      /\ \A i \in 1 .. Len(s) : Append(s, x)[i] = s[i]
      /\ Append(s, x)[Len(s) + 1] = x
  BY AppendProperties
<1> QED
  BY <1>1, LenProperties

LEMMA LargerSeq ==
  ASSUME NEW S, NEW T, S \subseteq T, NEW s \in Seq(S)
  PROVE  s \in Seq(T)
<1>1. Len(s) \in Nat /\ s = [i \in 1 .. Len(s) |-> s[i]] /\ \A i \in 1 .. Len(s) : s[i] \in T
  BY LenProperties, ElementOfSeq
<1> QED
  BY <1>1, SeqDef

-----------------------------------------------------------------------------
(* The pools of the descriptor allocators. *)

PoolTypes ==
  /\ IsFiniteSet(Pools) /\ Pools \subseteq Allocators \X Nat
  /\ \A p \in Pools : p[2] <= PoolsMadeFor(p[1])
  /\ cap \in [Pools -> Nat \ {0}] /\ used \in [Pools -> Nat] /\ destroyed \in [Pools -> {0, 1}]

AllocatorTypes ==
  /\ open \subseteq Allocators
  /\ free_pools \in [Allocators -> Seq(Pools)] /\ full_pools \in [Allocators -> Seq(Pools)]
  /\ sets_per_pool \in [Allocators -> Nat] /\ \A s \in open : sets_per_pool[s] # 0
  /\ held \in [Allocators -> SUBSET (Pools \X Nat)]
  /\ desc_allocator \in open \cup {None}
  /\ step \in {"idle", "first", "next", "second", "aborted"} /\ pool \in Pools \cup {None}
  /\ step \in {"first", "second", "aborted"} <=> pool # None
  /\ desc_allocator = None => step = "idle"

(* Undestroyed pools of an allocator. *)
Owned(s) == {p \in Pools : p[1] = s /\ destroyed[p] = 0}

(* Every pool of an open allocator that exists is in one place of it. *)
Ownership ==
  /\ \A s \in open :
       /\ \A i \in DOMAIN free_pools[s] : free_pools[s][i] \in Owned(s)
       /\ \A i \in DOMAIN full_pools[s] : full_pools[s][i] \in Owned(s)
       /\ \A i, j \in DOMAIN free_pools[s] : free_pools[s][i] = free_pools[s][j] => i = j
       /\ \A i, j \in DOMAIN full_pools[s] : full_pools[s][i] = full_pools[s][j] => i = j
       /\ \A i \in DOMAIN free_pools[s], j \in DOMAIN full_pools[s] :
            free_pools[s][i] # full_pools[s][j]
  /\ pool # None =>
       /\ pool \in Owned(desc_allocator)
       /\ \A i \in DOMAIN free_pools[desc_allocator] : free_pools[desc_allocator][i] # pool
       /\ \A i \in DOMAIN full_pools[desc_allocator] : full_pools[desc_allocator][i] # pool
  /\ \A p \in Pools : destroyed[p] = 0 =>
       /\ p[1] \in open
       /\ \/ \E i \in DOMAIN free_pools[p[1]] : free_pools[p[1]][i] = p
          \/ \E i \in DOMAIN full_pools[p[1]] : full_pools[p[1]][i] = p
          \/ pool = p

(* During a frame only the last of its free pools holds any sets, and none *)
(* does while a pool is taken from them.                                   *)
Freshness ==
  desc_allocator # None =>
    /\ \A i \in DOMAIN free_pools[desc_allocator] :
         i < Len(free_pools[desc_allocator]) \/ pool # None
           => used[free_pools[desc_allocator][i]] = 0
    /\ step = "second" => used[pool] = 0

(* The sets a frame holds are sets of pools of its allocator. *)
HeldSets ==
  \A s \in Allocators : \A set \in held[s] :
    set[1] \in Owned(s) /\ set[2] <= used[set[1]]

PoolInv == PoolTypes /\ AllocatorTypes /\ Ownership /\ Freshness /\ HeldSets

(* Only a driver that counts by type makes the second attempt fail. *)
AbortsByType == step = "aborted" => by_type

-----------------------------------------------------------------------------
LEMMA Growth ==
  /\ (3 * InitialSets) \div 2 \in Nat \ {0} /\ InitialSets \in Nat \ {0}
  /\ \A n \in Nat \ {0} : (3 * n) \div 2 \in Nat \ {0}
  BY DescriptorAllocatorAssumption

(* vkCreateDescriptorPool makes a pool there was not. *)
LEMMA Creates ==
  ASSUME PoolTypes, NEW s \in Allocators, NEW n \in Nat \ {0}, CreatePool(s, n)
  PROVE  /\ NewPool(s) \notin Pools /\ NewPool(s)[1] = s /\ NewPool(s) # None
         /\ Pools' = Pools \cup {NewPool(s)}
         /\ \A p \in Pools : used'[p] = used[p] /\ destroyed'[p] = destroyed[p]
         /\ used'[NewPool(s)] = 0 /\ destroyed'[NewPool(s)] = 0
         /\ PoolTypes'
<1> DEFINE new == NewPool(s)
           Of(t) == {p \in Pools : p[1] = t}
<1>1. \A t : IsFiniteSet(Of(t)) /\ Cardinality(Of(t)) \in Nat
  <2> TAKE t
  <2>1. Of(t) \in SUBSET Pools
    OBVIOUS
  <2> QED
    BY <2>1, FS_Subset, FS_CardinalityType DEF PoolTypes
<1>2. /\ new = <<s, Cardinality(Of(s)) + 1>> /\ \A p \in Pools : p[2] <= Cardinality(Of(p[1]))
      /\ Pools \subseteq Allocators \X Nat
  BY DEF NewPool, PoolsMadeFor, PoolTypes
<1>3. new \in Allocators \X Nat /\ new[1] = s /\ new[2] = Cardinality(Of(s)) + 1 /\ new # None
  <2>1. Cardinality(Of(s)) + 1 \in Nat
    BY <1>1
  <2>2. new \in Allocators \X Nat /\ new[1] = s /\ new[2] = Cardinality(Of(s)) + 1
    <3> HIDE DEF new, Of
    <3> QED
      BY <1>2, <2>1
  <2> QED
    BY <2>2, DescriptorAllocatorAssumption
<1>4. new \notin Pools
  BY <1>1, <1>2, <1>3
<1>5. /\ cap' = [p \in Pools \cup {new} |-> IF p \in Pools THEN cap[p] ELSE n]
      /\ used' = [p \in Pools \cup {new} |-> IF p \in Pools THEN used[p] ELSE 0]
      /\ destroyed' = [p \in Pools \cup {new} |-> IF p \in Pools THEN destroyed[p] ELSE 0]
  BY DEF CreatePool
<1> HIDE DEF new
<1>6. Pools' = Pools \cup {new}
  BY <1>5 DEF Pools
<1>7. /\ cap' \in [Pools' -> Nat \ {0}] /\ used' \in [Pools' -> Nat]
      /\ destroyed' \in [Pools' -> {0, 1}]
  BY <1>5, <1>6 DEF PoolTypes
<1>8. IsFiniteSet(Pools') /\ Pools' \subseteq Allocators \X Nat
  BY <1>2, <1>3, <1>6, FS_AddElement DEF PoolTypes
<1>9. \A p \in Pools' : p[2] <= PoolsMadeFor(p[1])'
  <2>1. \A t : Of(t)' = IF t = s THEN Of(s) \cup {new} ELSE Of(t)
    BY <1>3, <1>6
  <2>2. Cardinality(Of(s) \cup {new}) = Cardinality(Of(s)) + 1
    <3>1. IsFiniteSet(Of(s)) /\ new \notin Of(s)
      BY <1>1, <1>4
    <3> HIDE DEF Of
    <3> QED
      BY <3>1, FS_AddElement
  <2>3. \A p : PoolsMadeFor(p[1])' = Cardinality(Of(p[1])')
    BY DEF PoolsMadeFor
  <2> SUFFICES ASSUME NEW p \in Pools' PROVE p[2] <= Cardinality(Of(p[1])')
    BY <2>3
  <2> HIDE DEF Of
  <2>4. CASE p = new
    BY <1>1, <1>3, <2>1, <2>2, <2>4
  <2>5. CASE p # new
    <3>1. p \in Pools /\ p[2] \in Nat /\ p[2] <= Cardinality(Of(p[1]))
      BY <1>2, <1>6, <2>5
    <3>2. /\ Cardinality(Of(p[1])) \in Nat
          /\ \/ Cardinality(Of(p[1])') = Cardinality(Of(p[1]))
             \/ Cardinality(Of(p[1])') = Cardinality(Of(p[1])) + 1
      BY <1>1, <2>1, <2>2
    <3> QED
      BY <3>1, <3>2
  <2> QED
    BY <2>4, <2>5
<1>10. PoolTypes'
  BY <1>7, <1>8, <1>9 DEF PoolTypes
<1> QED
  BY <1>3, <1>4, <1>5, <1>6, <1>10 DEF new

-----------------------------------------------------------------------------
(* get_pool takes the last free pool, or makes one: a pool that is nowhere *)
(* else; and if a pool was taken before, this one holds no sets.           *)
LEMMA Gets ==
  ASSUME PoolInv, NEW d, d = desc_allocator, d # None, GetPool(d)
  PROVE  /\ PoolTypes' /\ Pools \subseteq Pools'
         /\ \A p \in Pools : used'[p] = used[p] /\ destroyed'[p] = destroyed[p]
         /\ \A p \in Pools' : p \in Pools \/ p = pool'
         /\ free_pools' \in [Allocators -> Seq(Pools')]
         /\ sets_per_pool' \in [Allocators -> Nat] /\ \A s \in open : sets_per_pool'[s] # 0
         /\ \A s \in Allocators : s # d => free_pools'[s] = free_pools[s]
         /\ pool' \in Pools' /\ pool' # None /\ pool'[1] = d /\ destroyed'[pool'] = 0
         /\ pool # None => pool # pool' /\ used'[pool'] = 0
         /\ \A i \in DOMAIN free_pools'[d] :
              /\ i \in DOMAIN free_pools[d] /\ free_pools'[d][i] = free_pools[d][i]
              /\ free_pools[d][i] # pool' /\ used'[free_pools[d][i]] = 0
         /\ \A i \in DOMAIN free_pools[d] :
              i \in DOMAIN free_pools'[d] \/ free_pools[d][i] = pool'
         /\ \A i \in DOMAIN full_pools[d] : full_pools[d][i] # pool'
<1>0. /\ PoolTypes /\ AllocatorTypes /\ Ownership /\ Freshness
      /\ d \in open /\ d \in Allocators
      /\ free_pools[d] \in Seq(Pools) /\ full_pools[d] \in Seq(Pools)
  BY DEF PoolInv, AllocatorTypes
<1>1. CASE /\ free_pools[d] # <<>>
           /\ pool' = Last(free_pools[d])
           /\ free_pools' = [free_pools EXCEPT ![d] = Front(@)]
           /\ UNCHANGED <<sets_per_pool, driver>>
  <2> DEFINE n == Len(free_pools[d])
  <2>1. /\ n \in Nat \ {0} /\ DOMAIN free_pools[d] = 1 .. n
        /\ Front(free_pools[d]) \in Seq(Pools) /\ DOMAIN Front(free_pools[d]) = 1 .. n - 1
        /\ \A i \in 1 .. n - 1 : Front(free_pools[d])[i] = free_pools[d][i]
        /\ pool' = free_pools[d][n] /\ pool' \in Pools
    BY <1>0, <1>1, FrontLast
  <2>2. /\ free_pools'[d] = Front(free_pools[d])
        /\ \A s \in Allocators : s # d => free_pools'[s] = free_pools[s]
        /\ free_pools' \in [Allocators -> Seq(Pools)]
    BY <1>0, <1>1, <2>1 DEF AllocatorTypes
  <2>3. Pools' = Pools /\ UNCHANGED <<cap, used, destroyed, sets_per_pool>>
    BY <1>1 DEF driver, Pools
  <2>4. PoolTypes'
    <3>1. \A p : PoolsMadeFor(p[1])' = PoolsMadeFor(p[1])
      BY <2>3 DEF PoolsMadeFor
    <3> QED
      BY <1>0, <2>3, <3>1 DEF PoolTypes
  <2> HIDE DEF n
  <2>5. n \in DOMAIN free_pools[d] /\ \A i \in 1 .. n - 1 : i \in DOMAIN free_pools[d] /\ i # n /\ i < n
    BY <2>1
  <2>6. pool' \in Owned(d)
    BY <1>0, <2>1, <2>5 DEF Ownership
  <2>7. \A i \in 1 .. n - 1 : free_pools[d][i] # pool' /\ used[free_pools[d][i]] = 0
    BY <1>0, <2>1, <2>5 DEF Ownership, Freshness, n
  <2>8. \A i \in DOMAIN free_pools[d] : i \in 1 .. n - 1 \/ i = n
    BY <2>1
  <2>9. pool # None => pool # pool' /\ used[pool'] = 0
    BY <1>0, <2>1, <2>5 DEF Ownership, Freshness
  <2>10. \A i \in DOMAIN full_pools[d] : full_pools[d][i] # pool'
    BY <1>0, <2>1, <2>5 DEF Ownership
  <2>11. pool' # None
    BY <1>0, <2>1, DescriptorAllocatorAssumption DEF PoolTypes
  <2>12. pool'[1] = d /\ destroyed[pool'] = 0
    BY <2>6 DEF Owned
  <2>13. \A s \in open : sets_per_pool'[s] # 0
    BY <1>0, <2>3 DEF AllocatorTypes
  <2>14. sets_per_pool' \in [Allocators -> Nat]
    BY <1>0, <2>3 DEF AllocatorTypes
  <2>15. DOMAIN free_pools'[d] = 1 .. n - 1 /\ \A i \in 1 .. n - 1 : free_pools'[d][i] = free_pools[d][i]
    BY <2>1, <2>2
  <2>16. \A i \in DOMAIN free_pools'[d] :
            /\ i \in DOMAIN free_pools[d] /\ free_pools'[d][i] = free_pools[d][i]
            /\ free_pools[d][i] # pool' /\ used'[free_pools[d][i]] = 0
    BY <2>3, <2>5, <2>7, <2>15
  <2>17. \A i \in DOMAIN free_pools[d] : i \in DOMAIN free_pools'[d] \/ free_pools[d][i] = pool'
    BY <2>1, <2>8, <2>15
  <2>18. /\ free_pools' \in [Allocators -> Seq(Pools')] /\ pool' \in Pools'
         /\ Pools \subseteq Pools' /\ \A p \in Pools' : p \in Pools \/ p = pool'
    BY <2>1, <2>2, <2>3
  <2>19. /\ \A p \in Pools : used'[p] = used[p] /\ destroyed'[p] = destroyed[p]
         /\ destroyed'[pool'] = 0
         /\ pool # None => pool # pool' /\ used'[pool'] = 0
    BY <2>3, <2>9, <2>12
  <2> QED
    BY <2>2, <2>4, <2>10, <2>11, <2>12, <2>13, <2>14, <2>16, <2>17, <2>18, <2>19
<1>2. CASE /\ free_pools[d] = <<>>
           /\ CreatePool(d, sets_per_pool[d]) /\ pool' = NewPool(d)
           /\ LET grown == (3 * sets_per_pool[d]) \div 2
              IN  sets_per_pool' =
                    [sets_per_pool EXCEPT ![d] = IF grown > MaxSets THEN MaxSets ELSE grown]
           /\ UNCHANGED free_pools
  <2>1. sets_per_pool[d] \in Nat \ {0}
    BY <1>0 DEF AllocatorTypes
  <2>2. /\ pool' \notin Pools /\ pool'[1] = d /\ pool' # None
        /\ Pools' = Pools \cup {pool'}
        /\ \A p \in Pools : used'[p] = used[p] /\ destroyed'[p] = destroyed[p]
        /\ used'[pool'] = 0 /\ destroyed'[pool'] = 0 /\ PoolTypes'
    BY <1>0, <1>2, <2>1, Creates
  <2>3. \E m \in Nat \ {0} : sets_per_pool' = [sets_per_pool EXCEPT ![d] = m]
    <3>1. (3 * sets_per_pool[d]) \div 2 \in Nat \ {0}
      BY <2>1, Growth
    <3> QED
      BY <1>2, <3>1, DescriptorAllocatorAssumption
  <2>4. sets_per_pool' \in [Allocators -> Nat] /\ \A s \in open : sets_per_pool'[s] # 0
    BY <1>0, <2>3 DEF AllocatorTypes
  <2>5. free_pools' = free_pools /\ DOMAIN free_pools[d] = {}
    BY <1>2
  <2>6. free_pools' \in [Allocators -> Seq(Pools')]
    <3>1. \A s \in Allocators : free_pools[s] \in Seq(Pools')
      BY <1>0, <2>2, LargerSeq DEF AllocatorTypes
    <3> QED
      BY <1>0, <2>5, <3>1 DEF AllocatorTypes
  <2>7. \A i \in DOMAIN full_pools[d] : full_pools[d][i] # pool'
    BY <1>0, <2>2 DEF Ownership, Owned
  <2>8. pool # None => pool # pool'
    BY <1>0, <2>2 DEF AllocatorTypes
  <2> QED
    BY <2>2, <2>4, <2>5, <2>6, <2>7, <2>8
<1> QED
  BY <1>1, <1>2 DEF GetPool

(* A pool is taken, by a first attempt, or by a second one that puts the   *)
(* pool of the first aside.                                                *)
LEMMA AfterGet ==
  ASSUME PoolInv, NEW d, d = desc_allocator, d # None, GetPool(d),
         UNCHANGED <<open, desc_allocator, held>>,
         step' = IF pool = None THEN "first" ELSE "second",
         full_pools' = IF pool = None THEN full_pools
                       ELSE [full_pools EXCEPT ![d] = Append(@, pool)]
  PROVE  PoolInv'
<1>0. /\ PoolTypes /\ AllocatorTypes /\ Ownership /\ Freshness /\ HeldSets
      /\ d \in open /\ d \in Allocators /\ open \subseteq Allocators
      /\ full_pools \in [Allocators -> Seq(Pools)]
  BY DEF PoolInv, AllocatorTypes
<1>1. /\ PoolTypes' /\ Pools \subseteq Pools'
      /\ \A p \in Pools : used'[p] = used[p] /\ destroyed'[p] = destroyed[p]
      /\ \A p \in Pools' : p \in Pools \/ p = pool'
      /\ free_pools' \in [Allocators -> Seq(Pools')]
      /\ sets_per_pool' \in [Allocators -> Nat] /\ \A s \in open : sets_per_pool'[s] # 0
      /\ \A s \in Allocators : s # d => free_pools'[s] = free_pools[s]
      /\ pool' \in Pools' /\ pool' # None /\ pool'[1] = d /\ destroyed'[pool'] = 0
      /\ pool # None => pool # pool' /\ used'[pool'] = 0
      /\ \A i \in DOMAIN free_pools'[d] :
           /\ i \in DOMAIN free_pools[d] /\ free_pools'[d][i] = free_pools[d][i]
           /\ free_pools[d][i] # pool' /\ used'[free_pools[d][i]] = 0
      /\ \A i \in DOMAIN free_pools[d] :
           i \in DOMAIN free_pools'[d] \/ free_pools[d][i] = pool'
      /\ \A i \in DOMAIN full_pools[d] : full_pools[d][i] # pool'
  BY Gets
<1>2. /\ full_pools' \in [Allocators -> Seq(Pools')]
      /\ \A s \in Allocators : s # d => full_pools'[s] = full_pools[s]
      /\ \A i \in DOMAIN full_pools[d] :
           i \in DOMAIN full_pools'[d] /\ full_pools'[d][i] = full_pools[d][i]
      /\ \A i \in DOMAIN full_pools'[d] :
           i \in DOMAIN full_pools[d]
             \/ (pool # None /\ i = Len(full_pools[d]) + 1 /\ full_pools'[d][i] = pool)
      /\ pool # None => \E i \in DOMAIN full_pools'[d] : full_pools'[d][i] = pool
  <2>1. \A s \in Allocators : full_pools[s] \in Seq(Pools')
    BY <1>0, <1>1, LargerSeq
  <2>2. CASE pool = None
    BY <1>0, <2>1, <2>2
  <2>3. CASE pool # None
    <3>1. pool \in Pools'
      BY <1>0, <1>1, <2>3 DEF AllocatorTypes
    <3>2. /\ full_pools'[d] = Append(full_pools[d], pool)
          /\ \A s \in Allocators : s # d => full_pools'[s] = full_pools[s]
          /\ DOMAIN full_pools' = Allocators
      BY <1>0, <2>3
    <3>3. /\ Append(full_pools[d], pool) \in Seq(Pools') /\ Len(full_pools[d]) \in Nat
          /\ DOMAIN full_pools[d] = 1 .. Len(full_pools[d])
          /\ DOMAIN full_pools'[d] = 1 .. Len(full_pools[d]) + 1
          /\ \A i \in 1 .. Len(full_pools[d]) : full_pools'[d][i] = full_pools[d][i]
          /\ full_pools'[d][Len(full_pools[d]) + 1] = pool
      BY <1>0, <2>1, <3>1, <3>2, Appended
    <3>4. full_pools' \in [Allocators -> Seq(Pools')]
      BY <1>0, <2>1, <2>3, <3>2, <3>3
    <3>5. /\ \A i \in 1 .. Len(full_pools[d]) : i \in 1 .. Len(full_pools[d]) + 1
          /\ \A i \in 1 .. Len(full_pools[d]) + 1 :
               i \in 1 .. Len(full_pools[d]) \/ i = Len(full_pools[d]) + 1
          /\ Len(full_pools[d]) + 1 \in 1 .. Len(full_pools[d]) + 1
      BY <3>3
    <3> QED
      BY <2>3, <3>2, <3>3, <3>4, <3>5
  <2> QED
    BY <2>2, <2>3
<1>11. \A p \in Pools : p # None
  BY <1>0, DescriptorAllocatorAssumption DEF PoolTypes
<1>3. \A s : Owned(s) \subseteq Owned(s)'
  BY <1>1 DEF Owned
<1>4. pool' \in Owned(d)'
  BY <1>1 DEF Owned
<1>5. AllocatorTypes'
  <2>1. held \in [Allocators -> SUBSET (Pools' \X Nat)]
    BY <1>0, <1>1 DEF AllocatorTypes
  <2> QED
    BY <1>0, <1>1, <1>2, <2>1 DEF AllocatorTypes
<1>6. pool # None => pool \in Owned(d)
        /\ (\A i \in DOMAIN free_pools[d] : free_pools[d][i] # pool)
        /\ (\A i \in DOMAIN full_pools[d] : full_pools[d][i] # pool)
  BY <1>0 DEF Ownership
<1>7. /\ \A i \in DOMAIN free_pools[d] : free_pools[d][i] \in Owned(d)
      /\ \A i \in DOMAIN full_pools[d] : full_pools[d][i] \in Owned(d)
      /\ \A i, j \in DOMAIN free_pools[d] : free_pools[d][i] = free_pools[d][j] => i = j
      /\ \A i, j \in DOMAIN full_pools[d] : full_pools[d][i] = full_pools[d][j] => i = j
      /\ \A i \in DOMAIN free_pools[d], j \in DOMAIN full_pools[d] :
           free_pools[d][i] # full_pools[d][j]
  BY <1>0 DEF Ownership
<1>8. Ownership'
  <2>1. ASSUME NEW s \in open
        PROVE  /\ \A i \in DOMAIN free_pools'[s] : free_pools'[s][i] \in Owned(s)'
               /\ \A i \in DOMAIN full_pools'[s] : full_pools'[s][i] \in Owned(s)'
               /\ \A i, j \in DOMAIN free_pools'[s] : free_pools'[s][i] = free_pools'[s][j] => i = j
               /\ \A i, j \in DOMAIN full_pools'[s] : full_pools'[s][i] = full_pools'[s][j] => i = j
               /\ \A i \in DOMAIN free_pools'[s], j \in DOMAIN full_pools'[s] :
                    free_pools'[s][i] # full_pools'[s][j]
    <3>1. CASE s # d
      <4>1. free_pools'[s] = free_pools[s] /\ full_pools'[s] = full_pools[s]
        BY <1>0, <1>1, <1>2, <3>1
      <4> QED
        BY <1>0, <1>3, <4>1 DEF Ownership
    <3>2. CASE s = d
      <4>1. \A i \in DOMAIN free_pools'[d] : free_pools'[d][i] \in Owned(d)'
        BY <1>1, <1>3, <1>7
      <4>2. \A i \in DOMAIN full_pools'[d] : full_pools'[d][i] \in Owned(d)'
        BY <1>2, <1>3, <1>6, <1>7
      <4>3. \A i, j \in DOMAIN free_pools'[d] : free_pools'[d][i] = free_pools'[d][j] => i = j
        BY <1>1, <1>7
      <4>4. \A i, j \in DOMAIN full_pools'[d] : full_pools'[d][i] = full_pools'[d][j] => i = j
        BY <1>2, <1>6, <1>7
      <4>5. \A i \in DOMAIN free_pools'[d], j \in DOMAIN full_pools'[d] :
              free_pools'[d][i] # full_pools'[d][j]
        <5> TAKE i \in DOMAIN free_pools'[d], j \in DOMAIN full_pools'[d]
        <5>1. i \in DOMAIN free_pools[d] /\ free_pools'[d][i] = free_pools[d][i]
          BY <1>1
        <5>2. CASE j \in DOMAIN full_pools[d]
          BY <1>2, <1>7, <5>1, <5>2
        <5>3. CASE pool # None /\ full_pools'[d][j] = pool
          BY <1>6, <5>1, <5>3
        <5> QED
          BY <1>2, <5>2, <5>3
      <4> QED
        BY <3>2, <4>1, <4>2, <4>3, <4>4, <4>5
    <3> QED
      BY <3>1, <3>2
  <2>2. /\ \A i \in DOMAIN free_pools'[d] : free_pools'[d][i] # pool'
        /\ \A i \in DOMAIN full_pools'[d] : full_pools'[d][i] # pool'
    BY <1>1, <1>2
  <2>3. ASSUME NEW p \in Pools', destroyed'[p] = 0
        PROVE  /\ p[1] \in open
               /\ \/ \E i \in DOMAIN free_pools'[p[1]] : free_pools'[p[1]][i] = p
                  \/ \E i \in DOMAIN full_pools'[p[1]] : full_pools'[p[1]][i] = p
                  \/ pool' = p
    <3>1. CASE p = pool'
      BY <1>0, <1>1, <3>1
    <3>2. CASE p # pool'
      <4>1. p \in Pools /\ destroyed[p] = 0
        BY <1>1, <2>3, <3>2
      <4>2. /\ p[1] \in open
            /\ \/ \E i \in DOMAIN free_pools[p[1]] : free_pools[p[1]][i] = p
               \/ \E i \in DOMAIN full_pools[p[1]] : full_pools[p[1]][i] = p
               \/ pool = p
        BY <1>0, <4>1 DEF Ownership
      <4>3. CASE p[1] # d
        <5>1. free_pools'[p[1]] = free_pools[p[1]] /\ full_pools'[p[1]] = full_pools[p[1]]
          BY <1>0, <1>1, <1>2, <4>2, <4>3
        <5>2. pool # p
          BY <1>6, <1>11, <4>1, <4>3 DEF Owned
        <5> QED
          BY <4>2, <5>1, <5>2
      <4>4. CASE p[1] = d
        BY <1>0, <1>1, <1>2, <1>11, <3>2, <4>1, <4>2, <4>4
      <4> QED
        BY <4>3, <4>4
    <3> QED
      BY <3>1, <3>2
  <2> QED
    BY <1>4, <2>1, <2>2, <2>3 DEF Ownership
<1>9. Freshness'
  BY <1>1 DEF Freshness
<1>10. HeldSets'
  <2> SUFFICES ASSUME NEW s \in Allocators, NEW set \in held[s]
               PROVE  set[1] \in Owned(s)' /\ set[2] <= used'[set[1]]
    BY DEF HeldSets
  <2>1. set[1] \in Owned(s) /\ set[2] <= used[set[1]]
    BY <1>0 DEF HeldSets
  <2>2. set[1] \in Pools
    BY <2>1 DEF Owned
  <2> QED
    BY <1>1, <1>3, <2>1, <2>2
<1> QED
  BY <1>1, <1>5, <1>8, <1>9, <1>10 DEF PoolInv

LEMMA PoolsMadeSame ==
  ASSUME PoolTypes, cap' = cap, used' \in [Pools -> Nat], destroyed' \in [Pools -> {0, 1}]
  PROVE  PoolTypes' /\ Pools' = Pools
<1>1. Pools' = Pools /\ \A s : PoolsMadeFor(s)' = PoolsMadeFor(s)
  BY DEF Pools, PoolsMadeFor
<1> QED
  BY <1>1 DEF PoolTypes

LEMMA NoPoolIsNone == PoolTypes => None \notin Pools
  BY DescriptorAllocatorAssumption DEF PoolTypes

(* vkAllocateDescriptorSets succeeds. *)
LEMMA AfterAllocated == PoolInv /\ Allocated => PoolInv'
<1> SUFFICES ASSUME PoolInv, Allocated PROVE PoolInv'
  OBVIOUS
<1> DEFINE d == desc_allocator
           n == Len(free_pools[d])
<1>0. /\ PoolTypes /\ AllocatorTypes /\ Ownership /\ Freshness /\ HeldSets
  BY DEF PoolInv
<1>1. /\ pool # None /\ pool \in Pools /\ d # None /\ d \in open /\ d \in Allocators
      /\ free_pools[d] \in Seq(Pools)
  BY <1>0 DEF Allocated, AllocatorTypes
<1>2. /\ used' = [used EXCEPT ![pool] = @ + 1]
      /\ free_pools' = [free_pools EXCEPT ![d] = Append(@, pool)]
      /\ held' = [held EXCEPT ![d] = @ \cup {<<pool, used[pool] + 1>>}]
      /\ step' \in {"idle", "next"} /\ pool' = None
      /\ UNCHANGED <<open, full_pools, sets_per_pool, cap, destroyed, desc_allocator>>
  BY DEF Allocated
<1>3. /\ pool \in Owned(d)
      /\ \A i \in DOMAIN free_pools[d] : free_pools[d][i] # pool
      /\ \A i \in DOMAIN full_pools[d] : full_pools[d][i] # pool
  BY <1>0, <1>1 DEF Ownership
<1>4. /\ Append(free_pools[d], pool) \in Seq(Pools) /\ n \in Nat
      /\ DOMAIN free_pools[d] = 1 .. n /\ DOMAIN Append(free_pools[d], pool) = 1 .. n + 1
      /\ \A i \in 1 .. n : Append(free_pools[d], pool)[i] = free_pools[d][i]
      /\ Append(free_pools[d], pool)[n + 1] = pool
  BY <1>1, Appended
<1>5. /\ free_pools'[d] = Append(free_pools[d], pool)
      /\ \A s \in Allocators : s # d => free_pools'[s] = free_pools[s]
      /\ free_pools' \in [Allocators -> Seq(Pools)]
  BY <1>0, <1>1, <1>2, <1>4 DEF AllocatorTypes
<1> HIDE DEF n
<1>6. /\ \A i \in 1 .. n + 1 : i \in 1 .. n \/ i = n + 1
      /\ \A i \in 1 .. n : i \in 1 .. n + 1 /\ i # n + 1 /\ n + 1 \in 1 .. n + 1
      /\ n + 1 \in 1 .. n + 1
  BY <1>4
<1>7. used[pool] \in Nat /\ used' \in [Pools -> Nat] /\ used'[pool] = used[pool] + 1
      /\ \A p \in Pools : used[p] <= used'[p] /\ (p # pool => used'[p] = used[p])
  BY <1>0, <1>1, <1>2 DEF PoolTypes
<1>8. PoolTypes' /\ Pools' = Pools
  BY <1>0, <1>2, <1>7, PoolsMadeSame DEF PoolTypes
<1>9. \A s : Owned(s)' = Owned(s)
  BY <1>2, <1>8 DEF Owned
<1>10. held' \in [Allocators -> SUBSET (Pools \X Nat)]
  BY <1>0, <1>1, <1>2, <1>7 DEF AllocatorTypes
<1>11. AllocatorTypes'
  BY <1>0, <1>1, <1>2, <1>5, <1>8, <1>10 DEF AllocatorTypes
<1>12. Ownership'
  <2>1. ASSUME NEW s \in open
        PROVE  /\ \A i \in DOMAIN free_pools'[s] : free_pools'[s][i] \in Owned(s)
               /\ \A i, j \in DOMAIN free_pools'[s] : free_pools'[s][i] = free_pools'[s][j] => i = j
               /\ \A i \in DOMAIN free_pools'[s], j \in DOMAIN full_pools[s] :
                    free_pools'[s][i] # full_pools[s][j]
    <3>1. CASE s # d
      <4>1. s \in Allocators /\ free_pools'[s] = free_pools[s]
        BY <1>0, <1>5, <3>1 DEF AllocatorTypes
      <4> QED
        BY <1>0, <4>1 DEF Ownership
    <3>2. CASE s = d
      <4>1. /\ \A i \in 1 .. n : free_pools[d][i] \in Owned(d)
            /\ \A i, j \in 1 .. n : free_pools[d][i] = free_pools[d][j] => i = j
            /\ \A i \in 1 .. n, j \in DOMAIN full_pools[d] : free_pools[d][i] # full_pools[d][j]
        BY <1>0, <1>1, <1>4 DEF Ownership
      <4>2. /\ DOMAIN free_pools'[d] = 1 .. n + 1 /\ free_pools'[d][n + 1] = pool
            /\ \A i \in 1 .. n : free_pools'[d][i] = free_pools[d][i] /\ free_pools[d][i] # pool
        BY <1>3, <1>4, <1>5
      <4>3. \A i \in DOMAIN free_pools'[d] : free_pools'[d][i] \in Owned(d)
        BY <1>3, <1>6, <4>1, <4>2
      <4>4. \A i, j \in DOMAIN free_pools'[d] : free_pools'[d][i] = free_pools'[d][j] => i = j
        <5> TAKE i, j \in DOMAIN free_pools'[d]
        <5>1. CASE i \in 1 .. n /\ j \in 1 .. n
          BY <4>1, <4>2, <5>1
        <5>2. CASE i = n + 1 \/ j = n + 1
          BY <1>6, <4>2, <5>2
        <5> QED
          BY <1>6, <4>2, <5>1, <5>2
      <4>5. \A i \in DOMAIN free_pools'[d], j \in DOMAIN full_pools[d] :
              free_pools'[d][i] # full_pools[d][j]
        BY <1>3, <1>6, <4>1, <4>2
      <4> QED
        BY <3>2, <4>3, <4>4, <4>5
    <3> QED
      BY <3>1, <3>2
  <2>2. ASSUME NEW s \in open
        PROVE  /\ \A i \in DOMAIN full_pools[s] : full_pools[s][i] \in Owned(s)
               /\ \A i, j \in DOMAIN full_pools[s] : full_pools[s][i] = full_pools[s][j] => i = j
    BY <1>0 DEF Ownership
  <2>3. ASSUME NEW p \in Pools, destroyed[p] = 0
        PROVE  /\ p[1] \in open
               /\ \/ \E i \in DOMAIN free_pools'[p[1]] : free_pools'[p[1]][i] = p
                  \/ \E i \in DOMAIN full_pools[p[1]] : full_pools[p[1]][i] = p
    <3>1. /\ p[1] \in open
          /\ \/ \E i \in DOMAIN free_pools[p[1]] : free_pools[p[1]][i] = p
             \/ \E i \in DOMAIN full_pools[p[1]] : full_pools[p[1]][i] = p
             \/ pool = p
      BY <1>0, <2>3 DEF Ownership
    <3>2. CASE p[1] # d
      <4>1. free_pools'[p[1]] = free_pools[p[1]] /\ pool # p
        BY <1>0, <1>3, <1>5, <3>1, <3>2 DEF AllocatorTypes, Owned
      <4> QED
        BY <3>1, <4>1
    <3>3. CASE p[1] = d
      BY <1>4, <1>5, <1>6, <3>1, <3>3
    <3> QED
      BY <3>2, <3>3
  <2> QED
    BY <1>2, <1>8, <1>9, <2>1, <2>2, <2>3 DEF Ownership
<1>13. Freshness'
  <2>1. \A i \in 1 .. n : used[free_pools[d][i]] = 0 /\ free_pools[d][i] \in Pools
    BY <1>0, <1>1, <1>4 DEF Freshness, Ownership, Owned
  <2>2. Len(free_pools'[d]) = n + 1
    BY <1>4, <1>5, <1>8, LenProperties
  <2>3. \A i \in 1 .. n + 1 : i < n + 1 => i \in 1 .. n
    BY <1>4
  <2> QED
    BY <1>2, <1>3, <1>4, <1>5, <1>7, <2>1, <2>2, <2>3 DEF Freshness
<1>14. HeldSets'
  <2> SUFFICES ASSUME NEW s \in Allocators, NEW set \in held'[s]
               PROVE  set[1] \in Owned(s) /\ set[2] <= used'[set[1]]
    BY <1>9 DEF HeldSets
  <2>1. CASE set \in held[s]
    <3>1. set[1] \in Owned(s) /\ set[2] <= used[set[1]] /\ set[1] \in Pools /\ set[2] \in Nat
      BY <1>0, <2>1 DEF HeldSets, Owned, AllocatorTypes
    <3>2. used[set[1]] \in Nat /\ used'[set[1]] \in Nat
      BY <1>0, <1>7, <3>1 DEF PoolTypes
    <3> QED
      BY <1>7, <3>1, <3>2
  <2>2. CASE set \notin held[s]
    <3>1. s = d /\ set = <<pool, used[pool] + 1>>
      BY <1>0, <1>2, <2>2 DEF AllocatorTypes
    <3> QED
      BY <1>3, <1>7, <3>1
  <2> QED
    BY <2>1, <2>2
<1> QED
  BY <1>8, <1>11, <1>12, <1>13, <1>14 DEF PoolInv

(* A slot gets its allocator, with one pool. *)
LEMMA AfterInit ==
  ASSUME PoolInv, NEW s \in Allocators, AllocatorInit(s)
  PROVE  PoolInv'
<1> DEFINE new == NewPool(s)
<1>0. /\ PoolTypes /\ AllocatorTypes /\ Ownership /\ Freshness /\ HeldSets
      /\ s \notin open /\ desc_allocator = None /\ step = "idle" /\ pool = None
  BY DEF PoolInv, AllocatorInit, AllocatorTypes
<1>1. /\ new \notin Pools /\ new[1] = s /\ new # None /\ Pools' = Pools \cup {new}
      /\ \A p \in Pools : used'[p] = used[p] /\ destroyed'[p] = destroyed[p]
      /\ used'[new] = 0 /\ destroyed'[new] = 0 /\ PoolTypes'
  BY <1>0, Growth, Creates DEF AllocatorInit
<1>2. /\ open' = open \cup {s}
      /\ free_pools' = [free_pools EXCEPT ![s] = <<new>>]
      /\ full_pools' = [full_pools EXCEPT ![s] = <<>>]
      /\ sets_per_pool' = [sets_per_pool EXCEPT ![s] = (3 * InitialSets) \div 2]
      /\ held' = [held EXCEPT ![s] = {}]
      /\ UNCHANGED <<desc_allocator, step, pool, sets_left>>
  BY DEF AllocatorInit
<1> HIDE DEF new
<1>3. /\ \A t \in Allocators : free_pools[t] \in Seq(Pools') /\ full_pools[t] \in Seq(Pools')
      /\ <<new>> \in Seq(Pools') /\ <<>> \in Seq(Pools')
      /\ DOMAIN <<new>> = {1} /\ <<new>>[1] = new
  BY <1>0, <1>1, LargerSeq DEF AllocatorTypes
<1>4. /\ \A t \in Allocators : t # s =>
           free_pools'[t] = free_pools[t] /\ full_pools'[t] = full_pools[t] /\ held'[t] = held[t]
      /\ free_pools'[s] = <<new>> /\ full_pools'[s] = <<>> /\ held'[s] = {}
  BY <1>0, <1>2 DEF AllocatorTypes
<1>5. free_pools' \in [Allocators -> Seq(Pools')] /\ full_pools' \in [Allocators -> Seq(Pools')]
  BY <1>0, <1>2, <1>3 DEF AllocatorTypes
<1>6. /\ sets_per_pool' \in [Allocators -> Nat]
      /\ \A t \in open' : sets_per_pool'[t] # 0
  <2>1. \E m \in Nat \ {0} : sets_per_pool' = [sets_per_pool EXCEPT ![s] = m]
    BY <1>2, Growth
  <2> QED
    BY <1>0, <1>2, <2>1 DEF AllocatorTypes
<1>7. held' \in [Allocators -> SUBSET (Pools' \X Nat)]
  BY <1>0, <1>1, <1>2 DEF AllocatorTypes
<1>8. AllocatorTypes'
  BY <1>0, <1>2, <1>5, <1>6, <1>7 DEF AllocatorTypes
<1>9. \A t : Owned(t) \subseteq Owned(t)'
  BY <1>1 DEF Owned
<1>10. new \in Owned(s)'
  BY <1>1 DEF Owned
<1>11. Ownership'
  <2>1. ASSUME NEW t \in open'
        PROVE  /\ \A i \in DOMAIN free_pools'[t] : free_pools'[t][i] \in Owned(t)'
               /\ \A i \in DOMAIN full_pools'[t] : full_pools'[t][i] \in Owned(t)'
               /\ \A i, j \in DOMAIN free_pools'[t] : free_pools'[t][i] = free_pools'[t][j] => i = j
               /\ \A i, j \in DOMAIN full_pools'[t] : full_pools'[t][i] = full_pools'[t][j] => i = j
               /\ \A i \in DOMAIN free_pools'[t], j \in DOMAIN full_pools'[t] :
                    free_pools'[t][i] # full_pools'[t][j]
    <3>1. CASE t # s
      <4>1. t \in open /\ free_pools'[t] = free_pools[t] /\ full_pools'[t] = full_pools[t]
        BY <1>0, <1>2, <1>4, <3>1 DEF AllocatorTypes
      <4> QED
        BY <1>0, <1>9, <4>1 DEF Ownership
    <3>2. CASE t = s
      BY <1>3, <1>4, <1>10, <3>2
    <3> QED
      BY <3>1, <3>2
  <2>2. ASSUME NEW p \in Pools', destroyed'[p] = 0
        PROVE  /\ p[1] \in open'
               /\ \/ \E i \in DOMAIN free_pools'[p[1]] : free_pools'[p[1]][i] = p
                  \/ \E i \in DOMAIN full_pools'[p[1]] : full_pools'[p[1]][i] = p
    <3>1. CASE p = new
      BY <1>1, <1>2, <1>3, <1>4, <3>1
    <3>2. CASE p # new
      <4>1. /\ p[1] \in open
            /\ \/ \E i \in DOMAIN free_pools[p[1]] : free_pools[p[1]][i] = p
               \/ \E i \in DOMAIN full_pools[p[1]] : full_pools[p[1]][i] = p
        BY <1>0, <1>1, <2>2, <3>2, NoPoolIsNone DEF Ownership
      <4>2. p[1] # s /\ p[1] \in Allocators
        BY <1>0, <4>1 DEF AllocatorTypes
      <4> QED
        BY <1>2, <1>4, <4>1, <4>2
    <3> QED
      BY <3>1, <3>2
  <2> QED
    BY <1>0, <1>2, <2>1, <2>2 DEF Ownership
<1>12. Freshness'
  BY <1>0, <1>2 DEF Freshness
<1>13. HeldSets'
  <2> SUFFICES ASSUME NEW t \in Allocators, NEW set \in held'[t]
               PROVE  set[1] \in Owned(t)' /\ set[2] <= used'[set[1]]
    BY DEF HeldSets
  <2>1. set \in held[t]
    BY <1>4
  <2>2. set[1] \in Owned(t) /\ set[2] <= used[set[1]]
    BY <1>0, <2>1 DEF HeldSets
  <2>3. set[1] \in Pools
    BY <2>2 DEF Owned
  <2> QED
    BY <1>1, <1>9, <2>2, <2>3
<1> QED
  BY <1>1, <1>8, <1>11, <1>12, <1>13 DEF PoolInv

-----------------------------------------------------------------------------
(* How often an element occurs in a list. *)
LEMMA Occurrences ==
  ASSUME NEW l, NEW p, \A i, j \in DOMAIN l : l[i] = l[j] => i = j
  PROVE  Cardinality({i \in DOMAIN l : l[i] = p}) = IF \E i \in DOMAIN l : l[i] = p THEN 1 ELSE 0
<1>1. CASE \E i \in DOMAIN l : l[i] = p
  <2>1. PICK i \in DOMAIN l : l[i] = p
    BY <1>1
  <2>2. {j \in DOMAIN l : l[j] = p} = {i}
    BY <2>1
  <2> QED
    BY <1>1, <2>2, FS_Singleton
<1>2. CASE ~\E i \in DOMAIN l : l[i] = p
  <2>1. {j \in DOMAIN l : l[j] = p} = {}
    BY <1>2
  <2> QED
    BY <1>2, <2>1, FS_EmptySet
<1> QED
  BY <1>1, <1>2

(* vd_descriptor_allocator_deinit destroys the pools of its slot, each of  *)
(* them once, and no other.                                                *)
LEMMA Deinits ==
  ASSUME PoolInv, NEW s \in Allocators, AllocatorDeinit(s)
  PROVE  destroyed' = [p \in Pools |-> IF p[1] = s THEN 1 ELSE destroyed[p]]
<1> DEFINE Free(p) == Cardinality({i \in DOMAIN free_pools[s] : free_pools[s][i] = p})
           Full(p) == Cardinality({i \in DOMAIN full_pools[s] : full_pools[s][i] = p})
<1>0. /\ PoolTypes /\ Ownership /\ s \in open /\ pool = None
  BY DEF PoolInv, AllocatorDeinit, AllocatorTypes
<1>1. \A p : /\ Free(p) = IF \E i \in DOMAIN free_pools[s] : free_pools[s][i] = p THEN 1 ELSE 0
             /\ Full(p) = IF \E i \in DOMAIN full_pools[s] : full_pools[s][i] = p THEN 1 ELSE 0
  <2>1. /\ \A i, j \in DOMAIN free_pools[s] : free_pools[s][i] = free_pools[s][j] => i = j
        /\ \A i, j \in DOMAIN full_pools[s] : full_pools[s][i] = full_pools[s][j] => i = j
    BY <1>0 DEF Ownership
  <2> QED
    BY <2>1, Occurrences
<1>2. ASSUME NEW p \in Pools
      PROVE  destroyed[p] + Free(p) + Full(p) = IF p[1] = s THEN 1 ELSE destroyed[p]
  <2> HIDE DEF Free, Full
  <2>1. destroyed[p] \in {0, 1}
    BY <1>0 DEF PoolTypes
  <2>2. CASE p \in Owned(s)
    <3>1. p[1] = s /\ destroyed[p] = 0 /\ p # None
      BY <1>0, <2>2, NoPoolIsNone DEF Owned
    <3>2. \/ \E i \in DOMAIN free_pools[s] : free_pools[s][i] = p
          \/ \E i \in DOMAIN full_pools[s] : full_pools[s][i] = p
      BY <1>0, <3>1 DEF Ownership
    <3>3. ~ /\ \E i \in DOMAIN free_pools[s] : free_pools[s][i] = p
            /\ \E i \in DOMAIN full_pools[s] : full_pools[s][i] = p
      BY <1>0 DEF Ownership
    <3> QED
      BY <1>1, <3>1, <3>2, <3>3
  <2>3. CASE p \notin Owned(s)
    <3>1. /\ ~\E i \in DOMAIN free_pools[s] : free_pools[s][i] = p
          /\ ~\E i \in DOMAIN full_pools[s] : full_pools[s][i] = p
      BY <1>0, <2>3 DEF Ownership
    <3>2. p[1] = s => destroyed[p] = 1
      BY <2>1, <2>3 DEF Owned
    <3> QED
      BY <1>1, <2>1, <3>1, <3>2
  <2> QED
    BY <2>2, <2>3
<1> QED
  BY <1>2 DEF AllocatorDeinit

LEMMA AfterDeinit ==
  ASSUME PoolInv, NEW s \in Allocators, AllocatorDeinit(s)
  PROVE  PoolInv'
<1>0. /\ PoolTypes /\ AllocatorTypes /\ Ownership /\ HeldSets
      /\ s \in open /\ step = "idle" /\ pool = None /\ desc_allocator = None
  BY DEF PoolInv, AllocatorDeinit, AllocatorTypes
<1>1. destroyed' = [p \in Pools |-> IF p[1] = s THEN 1 ELSE destroyed[p]]
  BY Deinits
<1>2. /\ open' = open \ {s}
      /\ held' = [held EXCEPT ![s] = {}]
      /\ UNCHANGED <<free_pools, full_pools, sets_per_pool, cap, used,
                     desc_allocator, step, pool, sets_left>>
  BY DEF AllocatorDeinit
<1>3. PoolTypes' /\ Pools' = Pools
  BY <1>0, <1>1, <1>2, PoolsMadeSame DEF PoolTypes
<1>4. AllocatorTypes'
  BY <1>0, <1>2, <1>3 DEF AllocatorTypes
<1>5. \A t : t # s => Owned(t)' = Owned(t)
  BY <1>1, <1>3 DEF Owned
<1>6. Ownership'
  <2>1. \A t \in open' : t \in open /\ Owned(t)' = Owned(t)
    BY <1>2, <1>5
  <2>2. \A p \in Pools' : destroyed'[p] = 0 => p[1] # s /\ destroyed[p] = 0
    BY <1>1, <1>3
  <2> QED
    BY <1>0, <1>2, <1>3, <2>1, <2>2 DEF Ownership
<1>7. Freshness'
  BY <1>0, <1>2 DEF Freshness
<1>8. HeldSets'
  BY <1>0, <1>2, <1>5 DEF HeldSets, AllocatorTypes
<1> QED
  BY <1>3, <1>4, <1>6, <1>7, <1>8 DEF PoolInv

-----------------------------------------------------------------------------
(* One list behind another. *)
LEMMA Joined ==
  ASSUME NEW S, NEW a \in Seq(S), NEW b \in Seq(S)
  PROVE  /\ a \o b \in Seq(S)
         /\ \A i \in DOMAIN (a \o b) :
              \/ i \in DOMAIN a /\ (a \o b)[i] = a[i]
              \/ \E j \in DOMAIN b : i = Len(a) + j /\ (a \o b)[i] = b[j]
         /\ \A i \in DOMAIN a : i \in DOMAIN (a \o b) /\ (a \o b)[i] = a[i]
         /\ \A j \in DOMAIN b : Len(a) + j \in DOMAIN (a \o b) /\ (a \o b)[Len(a) + j] = b[j]
<1> DEFINE m == Len(a)
           n == Len(b)
           c == a \o b
<1>1. /\ m \in Nat /\ DOMAIN a = 1 .. m /\ n \in Nat /\ DOMAIN b = 1 .. n
      /\ c \in Seq(S) /\ Len(c) = m + n
      /\ \A i \in 1 .. m + n : c[i] = IF i <= m THEN a[i] ELSE b[i - m]
  BY LenProperties, ConcatProperties
<1>2. DOMAIN c = 1 .. m + n
  BY <1>1, LenProperties
<1> HIDE DEF m, n, c
<1>3. ASSUME NEW i \in 1 .. m + n
      PROVE  \/ i \in 1 .. m /\ c[i] = a[i]
             \/ \E j \in 1 .. n : i = m + j /\ c[i] = b[j]
  <2>1. CASE i <= m
    BY <1>1, <2>1
  <2>2. CASE ~(i <= m)
    <3>1. i - m \in 1 .. n /\ i = m + (i - m) /\ c[i] = b[i - m]
      BY <1>1, <2>2
    <3> QED
      BY <3>1
  <2> QED
    BY <2>1, <2>2
<1>4. \A i \in 1 .. m : i \in 1 .. m + n /\ i <= m
  BY <1>1
<1>5. \A j \in 1 .. n : m + j \in 1 .. m + n /\ ~(m + j <= m) /\ (m + j) - m = j
  BY <1>1
<1> QED
  BY <1>1, <1>2, <1>3, <1>4, <1>5 DEF m, n, c

(* vd_descriptor_allocator_clear: no pool of the slot holds sets any more, *)
(* and all of them are free.                                               *)
LEMMA AfterBegin ==
  ASSUME PoolInv, NEW s \in Allocators, BeginFrame(s)
  PROVE  PoolInv'
<1> DEFINE both == free_pools[s] \o full_pools[s]
<1>0. /\ PoolTypes /\ AllocatorTypes /\ Ownership /\ HeldSets
      /\ s \in open /\ step = "idle" /\ pool = None
      /\ free_pools[s] \in Seq(Pools) /\ full_pools[s] \in Seq(Pools)
  BY DEF PoolInv, BeginFrame, AllocatorTypes
<1>1. /\ desc_allocator' = s
      /\ used' = [p \in Pools |->
                    IF p \in Range(free_pools[s]) \cup Range(full_pools[s]) THEN 0 ELSE used[p]]
      /\ free_pools' = [free_pools EXCEPT ![s] = both]
      /\ full_pools' = [full_pools EXCEPT ![s] = <<>>]
      /\ held' = [held EXCEPT ![s] = {}]
      /\ UNCHANGED <<open, sets_per_pool, cap, destroyed, step, pool, sets_left>>
  BY DEF BeginFrame
<1>2. /\ both \in Seq(Pools)
      /\ \A i \in DOMAIN both :
           \/ i \in DOMAIN free_pools[s] /\ both[i] = free_pools[s][i]
           \/ \E j \in DOMAIN full_pools[s] : i = Len(free_pools[s]) + j /\ both[i] = full_pools[s][j]
      /\ \A i \in DOMAIN free_pools[s] : i \in DOMAIN both /\ both[i] = free_pools[s][i]
      /\ \A j \in DOMAIN full_pools[s] :
           Len(free_pools[s]) + j \in DOMAIN both /\ both[Len(free_pools[s]) + j] = full_pools[s][j]
  <2> DEFINE a == free_pools[s]
             b == full_pools[s]
  <2>1. a \in Seq(Pools) /\ b \in Seq(Pools)
    BY <1>0
  <2> HIDE DEF a, b
  <2>2. a \o b \in Seq(Pools)
    BY <2>1, Joined
  <2>3. \A i \in DOMAIN (a \o b) :
             \/ i \in DOMAIN a /\ (a \o b)[i] = a[i]
             \/ \E j \in DOMAIN b : i = Len(a) + j /\ (a \o b)[i] = b[j]
    BY <2>1, Joined
  <2>4. \A i \in DOMAIN a : i \in DOMAIN (a \o b) /\ (a \o b)[i] = a[i]
    BY <2>1, Joined
  <2>5. \A j \in DOMAIN b : Len(a) + j \in DOMAIN (a \o b) /\ (a \o b)[Len(a) + j] = b[j]
    BY <2>1, Joined
  <2> QED
    BY <2>2, <2>3, <2>4, <2>5 DEF a, b
<1> HIDE DEF both
<1>3. used' \in [Pools -> Nat]
  BY <1>0, <1>1 DEF PoolTypes
<1>4. PoolTypes' /\ Pools' = Pools
  BY <1>0, <1>1, <1>3, PoolsMadeSame DEF PoolTypes
<1>5. \A t : Owned(t)' = Owned(t)
  BY <1>1, <1>4 DEF Owned
<1>6. /\ free_pools' \in [Allocators -> Seq(Pools)] /\ full_pools' \in [Allocators -> Seq(Pools)]
      /\ \A t \in Allocators : t # s =>
           free_pools'[t] = free_pools[t] /\ full_pools'[t] = full_pools[t] /\ held'[t] = held[t]
      /\ free_pools'[s] = both /\ full_pools'[s] = <<>> /\ held'[s] = {}
      /\ held' \in [Allocators -> SUBSET (Pools \X Nat)]
  BY <1>0, <1>1, <1>2 DEF AllocatorTypes
<1>7. AllocatorTypes'
  BY <1>0, <1>1, <1>4, <1>6 DEF AllocatorTypes
<1>8. /\ \A i \in DOMAIN both : both[i] \in Owned(s) /\ both[i] \in Pools
      /\ \A i \in DOMAIN both : both[i] \in Range(free_pools[s]) \cup Range(full_pools[s])
  <2>1. /\ \A i \in DOMAIN free_pools[s] :
             free_pools[s][i] \in Owned(s) /\ free_pools[s][i] \in Range(free_pools[s])
        /\ \A i \in DOMAIN full_pools[s] :
             full_pools[s][i] \in Owned(s) /\ full_pools[s][i] \in Range(full_pools[s])
    BY <1>0 DEF Ownership, Range
  <2>2. Owned(s) \subseteq Pools
    BY DEF Owned
  <2> QED
    BY <1>2, <2>1, <2>2
<1>9. \A i, j \in DOMAIN both : both[i] = both[j] => i = j
  <2>1. /\ \A i, j \in DOMAIN free_pools[s] : free_pools[s][i] = free_pools[s][j] => i = j
        /\ \A i, j \in DOMAIN full_pools[s] : full_pools[s][i] = full_pools[s][j] => i = j
        /\ \A i \in DOMAIN free_pools[s], j \in DOMAIN full_pools[s] :
             free_pools[s][i] # full_pools[s][j]
    BY <1>0 DEF Ownership
  <2> QED
    BY <1>2, <2>1
<1>10. Ownership'
  <2>1. ASSUME NEW t \in open, t # s
        PROVE  free_pools'[t] = free_pools[t] /\ full_pools'[t] = full_pools[t]
    BY <1>0, <1>6, <2>1 DEF AllocatorTypes
  <2>2. ASSUME NEW t \in open
        PROVE  /\ \A i \in DOMAIN free_pools'[t] : free_pools'[t][i] \in Owned(t)
               /\ \A i \in DOMAIN full_pools'[t] : full_pools'[t][i] \in Owned(t)
               /\ \A i, j \in DOMAIN free_pools'[t] : free_pools'[t][i] = free_pools'[t][j] => i = j
               /\ \A i, j \in DOMAIN full_pools'[t] : full_pools'[t][i] = full_pools'[t][j] => i = j
               /\ \A i \in DOMAIN free_pools'[t], j \in DOMAIN full_pools'[t] :
                    free_pools'[t][i] # full_pools'[t][j]
    <3>1. CASE t # s
      BY <1>0, <2>1, <3>1 DEF Ownership
    <3>2. CASE t = s
      BY <1>6, <1>8, <1>9, <3>2
    <3> QED
      BY <3>1, <3>2
  <2>3. ASSUME NEW p \in Pools, destroyed[p] = 0
        PROVE  /\ p[1] \in open
               /\ \/ \E i \in DOMAIN free_pools'[p[1]] : free_pools'[p[1]][i] = p
                  \/ \E i \in DOMAIN full_pools'[p[1]] : full_pools'[p[1]][i] = p
    <3>1. /\ p[1] \in open
          /\ \/ \E i \in DOMAIN free_pools[p[1]] : free_pools[p[1]][i] = p
             \/ \E i \in DOMAIN full_pools[p[1]] : full_pools[p[1]][i] = p
      BY <1>0, <2>3, NoPoolIsNone DEF Ownership
    <3>2. CASE p[1] # s
      BY <2>1, <3>1, <3>2
    <3>3. CASE p[1] = s
      BY <1>2, <1>6, <3>1, <3>3
    <3> QED
      BY <3>2, <3>3
  <2> QED
    BY <1>0, <1>1, <1>4, <1>5, <2>2, <2>3 DEF Ownership
<1>11. Freshness'
  <2>1. \A i \in DOMAIN both : used'[both[i]] = 0
    BY <1>1, <1>8
  <2> QED
    BY <1>0, <1>1, <1>6, <2>1 DEF Freshness
<1>12. HeldSets'
  <2> SUFFICES ASSUME NEW t \in Allocators, NEW set \in held'[t]
               PROVE  set[1] \in Owned(t) /\ set[2] <= used'[set[1]]
    BY <1>5 DEF HeldSets
  <2>1. t # s /\ set \in held[t]
    BY <1>6
  <2>2. set[1] \in Owned(t) /\ set[2] <= used[set[1]]
    BY <1>0, <2>1 DEF HeldSets
  <2>3. set[1] \in Pools /\ set[1] \notin Range(free_pools[s]) \cup Range(full_pools[s])
    BY <1>0, <2>1, <2>2 DEF Ownership, Owned, Range
  <2> QED
    BY <1>1, <2>2, <2>3
<1> QED
  BY <1>4, <1>7, <1>10, <1>11, <1>12 DEF PoolInv

-----------------------------------------------------------------------------
LEMMA AfterEnd == PoolInv /\ EndFrame => PoolInv'
<1> SUFFICES ASSUME PoolInv, EndFrame PROVE PoolInv'
  OBVIOUS
<1>0. /\ PoolTypes /\ AllocatorTypes /\ Ownership /\ HeldSets
      /\ step = "idle" /\ pool = None /\ desc_allocator' = None
      /\ UNCHANGED <<open, free_pools, full_pools, sets_per_pool, step, pool, sets_left, held>>
      /\ UNCHANGED <<cap, used, destroyed>>
  BY DEF PoolInv, EndFrame, AllocatorTypes, driver
<1>1. PoolTypes' /\ Pools' = Pools
  BY <1>0, PoolsMadeSame DEF PoolTypes
<1>2. \A s : Owned(s)' = Owned(s)
  BY <1>0, <1>1 DEF Owned
<1> QED
  BY <1>0, <1>1, <1>2 DEF PoolInv, AllocatorTypes, Ownership, Freshness, HeldSets

LEMMA PoolsUntouched == PoolInv /\ UNCHANGED descriptorVars => PoolInv'
<1> SUFFICES ASSUME PoolInv, UNCHANGED descriptorVars PROVE PoolInv'
  OBVIOUS
<1>0. /\ PoolTypes /\ AllocatorTypes /\ Ownership /\ Freshness /\ HeldSets
      /\ UNCHANGED <<open, free_pools, full_pools, sets_per_pool, step, pool, held,
                     desc_allocator, cap, used, destroyed>>
  BY DEF PoolInv, descriptorVars
<1>1. PoolTypes' /\ Pools' = Pools
  BY <1>0, PoolsMadeSame DEF PoolTypes
<1>2. \A s : Owned(s)' = Owned(s)
  BY <1>0, <1>1 DEF Owned
<1> QED
  BY <1>0, <1>1, <1>2 DEF PoolInv, AllocatorTypes, Ownership, Freshness, HeldSets

LEMMA PoolStart == DescriptorInit => PoolInv
<1> SUFFICES ASSUME DescriptorInit PROVE PoolInv
  OBVIOUS
<1>1. /\ open = {} /\ desc_allocator = None /\ step = "idle" /\ pool = None
      /\ free_pools = [s \in Allocators |-> <<>>] /\ full_pools = [s \in Allocators |-> <<>>]
      /\ sets_per_pool = [s \in Allocators |-> 0] /\ held = [s \in Allocators |-> {}]
      /\ Pools = {} /\ cap = [p \in {} |-> 0] /\ used = cap /\ destroyed = cap
  BY DEF DescriptorInit, Pools
<1>2. PoolTypes
  BY <1>1, FS_EmptySet DEF PoolTypes
<1>3. AllocatorTypes
  BY <1>1 DEF AllocatorTypes
<1> QED
  BY <1>1, <1>2, <1>3 DEF PoolInv, Ownership, Freshness, HeldSets

(* The second attempt fails: nothing but step changes. *)
LEMMA AfterRetryFails == PoolInv /\ RetryFails => PoolInv'
<1> SUFFICES ASSUME PoolInv, RetryFails PROVE PoolInv'
  OBVIOUS
<1>0. /\ PoolTypes /\ AllocatorTypes /\ Ownership /\ Freshness /\ HeldSets
      /\ step = "second" /\ step' = "aborted"
      /\ UNCHANGED <<open, free_pools, full_pools, sets_per_pool, pool, held,
                     desc_allocator, cap, used, destroyed>>
  BY DEF PoolInv, RetryFails, driver
<1>1. PoolTypes' /\ Pools' = Pools
  BY <1>0, PoolsMadeSame DEF PoolTypes
<1>2. \A s : Owned(s)' = Owned(s)
  BY <1>0, <1>1 DEF Owned
<1>3. AllocatorTypes'
  BY <1>0, <1>1 DEF AllocatorTypes
<1>4. Ownership' /\ Freshness' /\ HeldSets'
  BY <1>0, <1>1, <1>2 DEF Ownership, Freshness, HeldSets
<1> QED
  BY <1>1, <1>3, <1>4 DEF PoolInv

(* Every step of the allocators keeps the invariant. *)
LEMMA PoolStep == PoolInv /\ DescriptorNext => PoolInv'
<1> SUFFICES ASSUME PoolInv, DescriptorNext PROVE PoolInv'
  OBVIOUS
<1>0. /\ None \notin open
      /\ pool # None => step \in {"first", "second", "aborted"}
      /\ step \in {"first", "second", "aborted"} => pool # None
      /\ step # "idle" => desc_allocator # None
  BY DescriptorAllocatorAssumption DEF PoolInv, AllocatorTypes
<1>1. ASSUME NEW s \in Allocators, AllocatorInit(s) PROVE PoolInv'
  BY <1>1, AfterInit
<1>2. ASSUME NEW s \in Allocators, AllocatorDeinit(s) PROVE PoolInv'
  BY <1>2, AfterDeinit
<1>3. ASSUME NEW s \in Allocators, BeginFrame(s) PROVE PoolInv'
  BY <1>3, AfterBegin
<1>4. CASE EndFrame
  BY <1>4, AfterEnd
<1>5. CASE Prep
  <2>1. pool = None /\ desc_allocator # None
    BY <1>0, <1>5 DEF Prep
  <2> QED
    BY <1>5, <2>1, AfterGet DEF Prep
<1>6. CASE Allocated
  BY <1>6, AfterAllocated
<1>7. CASE NextSet
  <2>1. pool = None /\ desc_allocator # None
    BY <1>0, <1>7 DEF NextSet
  <2> QED
    BY <1>7, <2>1, AfterGet DEF NextSet
<1>8. CASE OutOfPool
  <2>1. pool # None /\ desc_allocator # None
    BY <1>0, <1>8 DEF OutOfPool
  <2> QED
    BY <1>8, <2>1, AfterGet DEF OutOfPool
<1>9. CASE RetryFails
  BY <1>9, AfterRetryFails
<1> QED
  BY <1>1, <1>2, <1>3, <1>4, <1>5, <1>6, <1>7, <1>8, <1>9 DEF DescriptorNext

(* The second attempt gets a pool in which no set was allocated. *)
LEMMA RoomIsFound == ASSUME PoolInv, step = "second" PROVE used[pool] < cap[pool]
<1>1. desc_allocator # None /\ pool \in Pools
  BY DEF PoolInv, AllocatorTypes
<1>2. used[pool] = 0 /\ cap[pool] \in Nat \ {0}
  BY <1>1 DEF PoolInv, PoolTypes, Freshness
<1> QED
  BY <1>2

(* So a set that it does not hold is refused for its types. *)
LEMMA AbortStep ==
  PoolInv /\ AbortsByType /\ (DescriptorNext \/ UNCHANGED descriptorVars) => AbortsByType'
<1> SUFFICES ASSUME PoolInv, AbortsByType, DescriptorNext \/ UNCHANGED descriptorVars
             PROVE  AbortsByType'
  OBVIOUS
<1>1. CASE RetryFails
  <2>1. step = "second" /\ ~HasRoom(pool) /\ by_type' = by_type
    BY <1>1 DEF RetryFails, driver
  <2> QED
    BY <2>1, RoomIsFound DEF HasRoom, AbortsByType
<1>2. CASE UNCHANGED descriptorVars
  BY <1>2 DEF descriptorVars, AbortsByType
<1>3. ASSUME NEW s \in Allocators, AllocatorInit(s) \/ AllocatorDeinit(s) \/ BeginFrame(s)
      PROVE  AbortsByType'
  BY <1>3 DEF AllocatorInit, AllocatorDeinit, BeginFrame, AbortsByType
<1>4. CASE EndFrame \/ Prep \/ NextSet \/ OutOfPool
  BY <1>4 DEF EndFrame, Prep, NextSet, OutOfPool, AbortsByType
<1>5. CASE Allocated
  <2>1. step' \in {"idle", "next"}
    BY <1>5 DEF Allocated
  <2> QED
    BY <2>1 DEF AbortsByType
<1> QED
  BY <1>1, <1>2, <1>3, <1>4, <1>5 DEF DescriptorNext

(* A list of pools, in which a pool is found only under its own slot and   *)
(* once, has no more than one place for it.                                *)
LEMMA OnePlace ==
  ASSUME NEW list, NEW p, p[1] \in open,
         \A s \in open : \A i \in DOMAIN list[s] : list[s][i] = p => s = p[1],
         \A s \in open : \A i, j \in DOMAIN list[s] : list[s][i] = list[s][j] => i = j
  PROVE  Cardinality(Places(list, p))
           = IF \E i \in DOMAIN list[p[1]] : list[p[1]][i] = p THEN 1 ELSE 0
<1>1. \A x : x \in Places(list, p) <=>
         \E i \in DOMAIN list[p[1]] : list[p[1]][i] = p /\ x = <<p[1], i>>
  BY DEF Places
<1>2. CASE \E i \in DOMAIN list[p[1]] : list[p[1]][i] = p
  <2>1. PICK i \in DOMAIN list[p[1]] : list[p[1]][i] = p
    BY <1>2
  <2>2. Places(list, p) = {<<p[1], i>>}
    BY <1>1, <2>1
  <2> QED
    BY <1>2, <2>2, FS_Singleton
<1>3. CASE ~\E i \in DOMAIN list[p[1]] : list[p[1]][i] = p
  <2>1. Places(list, p) = {}
    BY <1>1, <1>3
  <2> QED
    BY <1>3, <2>1, FS_EmptySet
<1> QED
  BY <1>2, <1>3

LEMMA NoPlace ==
  ASSUME NEW list, NEW p, \A s \in open : \A i \in DOMAIN list[s] : list[s][i] # p
  PROVE  Cardinality(Places(list, p)) = 0
<1>1. Places(list, p) = {}
  BY DEF Places
<1> QED
  BY <1>1, FS_EmptySet

LEMMA PoolsAreOnce == PoolInv => EveryPoolOnce
<1> SUFFICES ASSUME PoolInv, NEW p \in Pools
             PROVE  destroyed[p] + Cardinality(Places(free_pools, p))
                      + Cardinality(Places(full_pools, p))
                      + Cardinality({s \in open : p \in InUse(s)}) = 1
  BY DEF EveryPoolOnce
<1> DEFINE Users == {s \in open : p \in InUse(s)}
<1>0. /\ PoolTypes /\ AllocatorTypes /\ Ownership /\ destroyed[p] \in {0, 1} /\ p # None
      /\ pool # None => desc_allocator \in open
  BY NoPoolIsNone, DescriptorAllocatorAssumption DEF PoolInv, PoolTypes, AllocatorTypes
<1>1. Cardinality(Users) = IF pool = p THEN 1 ELSE 0
  <2>1. CASE pool = p
    <3>1. Users = {desc_allocator}
      BY <1>0, <2>1 DEF InUse
    <3> QED
      BY <2>1, <3>1, FS_Singleton
  <2>2. CASE pool # p
    <3>1. Users = {}
      BY <2>2 DEF InUse
    <3> QED
      BY <2>2, <3>1, FS_EmptySet
  <2> QED
    BY <2>1, <2>2
<1>2. CASE destroyed[p] = 1
  <2>1. \A s : p \notin Owned(s)
    BY <1>2 DEF Owned
  <2>2. pool # p
    BY <1>0, <2>1 DEF Ownership
  <2>3. /\ \A s \in open : \A i \in DOMAIN free_pools[s] : free_pools[s][i] # p
        /\ \A s \in open : \A i \in DOMAIN full_pools[s] : full_pools[s][i] # p
    BY <1>0, <2>1 DEF Ownership
  <2>4. Cardinality(Places(free_pools, p)) = 0 /\ Cardinality(Places(full_pools, p)) = 0
    BY <2>3, NoPlace
  <2> QED
    BY <1>1, <1>2, <2>2, <2>4
<1>3. CASE destroyed[p] = 0
  <2> DEFINE InFree == \E i \in DOMAIN free_pools[p[1]] : free_pools[p[1]][i] = p
             InFull == \E i \in DOMAIN full_pools[p[1]] : full_pools[p[1]][i] = p
  <2>1. p[1] \in open /\ (InFree \/ InFull \/ pool = p)
    BY <1>0, <1>3 DEF Ownership
  <2>2. \A s : p \in Owned(s) => s = p[1]
    BY DEF Owned
  <2>3. /\ \A s \in open : \A i \in DOMAIN free_pools[s] : free_pools[s][i] = p => s = p[1]
        /\ \A s \in open : \A i \in DOMAIN full_pools[s] : full_pools[s][i] = p => s = p[1]
        /\ \A s \in open : \A i, j \in DOMAIN free_pools[s] :
             free_pools[s][i] = free_pools[s][j] => i = j
        /\ \A s \in open : \A i, j \in DOMAIN full_pools[s] :
             full_pools[s][i] = full_pools[s][j] => i = j
    BY <1>0, <2>2 DEF Ownership
  <2>4. /\ Cardinality(Places(free_pools, p)) = IF InFree THEN 1 ELSE 0
        /\ Cardinality(Places(full_pools, p)) = IF InFull THEN 1 ELSE 0
    BY <2>1, <2>3, OnePlace
  <2>5. ~(InFree /\ InFull)
    BY <1>0, <2>1 DEF Ownership
  <2>6. pool = p => ~InFree /\ ~InFull
    <3> SUFFICES ASSUME pool = p PROVE ~InFree /\ ~InFull
      OBVIOUS
    <3>1. desc_allocator = p[1]
      BY <1>0 DEF Ownership, Owned
    <3> QED
      BY <1>0, <3>1 DEF Ownership
  <2>7. CASE pool = p
    BY <1>1, <1>3, <2>4, <2>6, <2>7
  <2>8. CASE pool # p /\ InFree
    BY <1>1, <1>3, <2>4, <2>5, <2>8
  <2>9. CASE pool # p /\ ~InFree
    BY <1>1, <1>3, <2>1, <2>4, <2>9
  <2> QED
    BY <2>7, <2>8, <2>9
<1> QED
  BY <1>0, <1>2, <1>3

-----------------------------------------------------------------------------
(* The deletion queues, and what the submissions in flight read. *)

QueueTypes == queued \in [Queues -> SUBSET Objects] /\ deleted \in [Objects -> Nat]

(* An object waits in one queue, and an object that is no texture waits no *)
(* longer once it was destroyed.                                           *)
WaitsOnce ==
  /\ \A q, r \in Queues : \A o \in queued[q] : o \in queued[r] => q = r
  /\ \A o \in Objects \ Textures :
       deleted[o] <= 1 /\ (deleted[o] > 0 => \A q \in Queues : o \notin queued[q])

(* What is left in the queue of a slot that ended was destroyed. *)
EndedFlushed == \A q \in Queues : q \notin open => \A o \in queued[q] : deleted[o] > 0

QueueInv == QueueTypes /\ WaitsOnce /\ EndedFlushed

Reading == [sets : SUBSET ((Allocators \X Nat) \X Nat), objects : SUBSET Objects]

SlotOf(i) == <<queue[i].w, queue[i].s>>

ReadTypes == reads \in Seq(Reading) /\ Len(reads) = Len(queue)

(* A submission reads the sets its slot was given. *)
ReadSets == \A i \in 1 .. Len(queue) : reads[i].sets = held[SlotOf(i)]

(* What a submission reads waits, if it does, in the queue of a slot that  *)
(* is in use at least as long.                                             *)
InUseUntil(i, q) ==
  \/ \E k \in 1 .. Len(queue) : i <= k /\ SlotOf(k) = q
  \/ pc.at = "record" /\ Slot = q

ReadObjects ==
  \A i \in 1 .. Len(queue) : \A o \in reads[i].objects :
    deleted[o] = 0 /\ \A q \in Queues : o \in queued[q] => InUseUntil(i, q)

(* A frame is begun in the allocators while its slot is recorded. *)
Coupled ==
  /\ pc.at = "record" => desc_allocator = Slot
  /\ pc.at # "record" => desc_allocator = None

FRInv ==
  /\ Inv /\ PoolInv /\ AbortsByType /\ QueueInv
  /\ Coupled /\ ReadTypes /\ ReadSets /\ ReadObjects

-----------------------------------------------------------------------------
LEMMA FRStart == FRInit => FRInv
<1> SUFFICES ASSUME FRInit PROVE FRInv
  OBVIOUS
<1>1. Inv /\ PoolInv /\ AbortsByType
  BY InitInv, PoolStart DEF FRInit, DescriptorInit, AbortsByType
<1>2. /\ open = {} /\ desc_allocator = None /\ queue = <<>> /\ reads = <<>> /\ pc = Between
      /\ queued = [q \in Queues |-> {}] /\ deleted = [o \in Objects |-> 0]
  BY DEF FRInit, Init, DescriptorInit, QueuesInit
<1>3. QueueInv
  BY <1>2 DEF QueueInv, QueueTypes, WaitsOnce, EndedFlushed
<1>4. Coupled /\ ReadTypes /\ ReadSets /\ ReadObjects
  BY <1>2 DEF Coupled, ReadTypes, ReadSets, ReadObjects, Between
<1> QED
  BY <1>1, <1>3, <1>4 DEF FRInv

(* The slot the main thread works on is one of the slots, and while it is  *)
(* reset or recorded no submission uses it.                                *)
LEMMA SlotTypes ==
  ASSUME FRInv
  PROVE  /\ pc.at \in {"open", "resize", "close", "wait", "reset", "record"} => pc.w \in Windows
         /\ pc.at \in {"wait", "reset", "record"} => Slot \in Allocators /\ Slot \in Queues
         /\ pc.at \in {"reset", "record"} => \A i \in 1 .. Len(queue) : SlotOf(i) # Slot
         /\ pc.at = "record" => Slot \in open /\ pc.w \in Windows /\ pc.s \in Slots
         /\ \A i \in 1 .. Len(queue) : SlotOf(i) \in Allocators /\ SlotOf(i) \in Queues
         /\ \A i, j \in 1 .. Len(queue) : SlotOf(i) = SlotOf(j) => i = j
         /\ Len(queue) \in Nat /\ DOMAIN reads = 1 .. Len(queue)
<1>0. Inv /\ TypeOK /\ Taken /\ InFlight
  BY DEF FRInv, Inv
<1>1. pc.at \in {"open", "resize", "close", "wait", "reset", "record"} => pc.w \in Windows
  BY <1>0 DEF TypeOK, Between
<1>2. pc.at \in {"wait", "reset", "record"} => pc.w \in Windows /\ pc.s \in Slots
  BY <1>0 DEF TypeOK, Between
<1>3. pc.at \in {"reset", "record"} => ~Busy(pc.w, pc.s)
  BY <1>0 DEF Taken, InFlight, Busy
<1>4. pc.at \in {"reset", "record"} => \A i \in 1 .. Len(queue) : SlotOf(i) # Slot
  BY <1>3 DEF Busy, SlotOf, Slot
<1>5. pc.at = "record" => Slot \in open
  <2>1. pc.at = "record" => desc_allocator = Slot /\ Slot # None
    BY <1>2, DescriptorAllocatorAssumption, FrameResourcesAssumption DEF FRInv, Coupled, Slot
  <2> QED
    BY <2>1 DEF FRInv, PoolInv, AllocatorTypes
<1>6. \A i \in 1 .. Len(queue) : SlotOf(i) \in Windows \X Slots
  BY <1>0, JobTypes DEF SlotOf
<1>7. \A i, j \in 1 .. Len(queue) : SlotOf(i) = SlotOf(j) => i = j
  BY <1>0 DEF InFlight, SlotOf
<1>8. Len(queue) \in Nat /\ DOMAIN reads = 1 .. Len(queue)
  BY LenProperties DEF FRInv, ReadTypes
<1> QED
  BY <1>1, <1>2, <1>4, <1>5, <1>6, <1>7, <1>8, FrameResourcesAssumption DEF Slot

(* Both parts keep their invariants under the steps of the whole. *)
LEMMA PartsStep == FRInv /\ [FRNext]_allVars => Inv' /\ PoolInv' /\ AbortsByType'
<1> SUFFICES ASSUME FRInv, [FRNext]_allVars PROVE Inv' /\ PoolInv' /\ AbortsByType'
  OBVIOUS
<1>0. Inv /\ PoolInv /\ AbortsByType
  BY DEF FRInv
<1>1. [Next]_vars => Inv'
  BY <1>0, NextInv
<1>2. DescriptorNext \/ UNCHANGED descriptorVars => PoolInv' /\ AbortsByType'
  BY <1>0, PoolStep, PoolsUntouched, AbortStep
<1>3. UNCHANGED vars => Inv'
  BY <1>1
<1>4. UNCHANGED resourceVars => PoolInv' /\ AbortsByType'
  BY <1>2 DEF resourceVars
<1>5. ASSUME NEW s \in Slots, pc.at \in {"open", "close"} PROVE <<pc.w, s>> \in Allocators
  BY <1>5, SlotTypes, FrameResourcesAssumption
<1>6. ASSUME NEW kind \in {"open", "resize", "close"}, NEW w \in Windows,
             FramesOnly(StartEvent(kind, w))
      PROVE  Inv' /\ PoolInv' /\ AbortsByType'
  <2>1. Next
    BY <1>6 DEF FramesOnly, Next
  <2> QED
    BY <1>1, <1>4, <1>6, <2>1 DEF FramesOnly
<1>7. CASE InitSlot
  BY <1>2, <1>3, <1>5, <1>7 DEF InitSlot, DescriptorNext
<1>8. CASE FinishOpen
  BY <1>1, <1>4, <1>8 DEF FinishOpen, FramesOnly, Next
<1>9. CASE EndSlot
  BY <1>2, <1>3, <1>5, <1>9 DEF EndSlot, DescriptorNext
<1>10. CASE FinishClose
  BY <1>1, <1>4, <1>10 DEF FinishClose, FramesOnly, Next
<1>11. CASE FramesOnly(ResizeWindow) \/ FramesOnly(StartRender)
  BY <1>1, <1>4, <1>11 DEF FramesOnly, Next, Render
<1>12. ASSUME NEW w \in Windows, FramesOnly(PickSlot(w)) PROVE Inv' /\ PoolInv' /\ AbortsByType'
  <2>1. Next
    BY <1>12 DEF FramesOnly, Next, Render
  <2> QED
    BY <1>1, <1>4, <1>12, <2>1 DEF FramesOnly
<1>13. CASE FramesOnly(WaitFence) \/ FramesOnly(Abort)
  BY <1>1, <1>4, <1>13 DEF FramesOnly, Next, Render
<1>14. CASE BeginSlot
  <2>1. Slot \in Allocators
    BY <1>14, SlotTypes DEF BeginSlot, ResetSlot
  <2>2. Next /\ DescriptorNext
    BY <1>14, <2>1 DEF BeginSlot, Next, Render, DescriptorNext
  <2> QED
    BY <1>1, <1>2, <2>2
<1>15. CASE Draw
  BY <1>2, <1>3, <1>15 DEF Draw, DescriptorNext
<1>16. CASE Defer
  BY <1>2, <1>3, <1>16 DEF Defer
<1>17. CASE EndAndSubmit
  BY <1>1, <1>2, <1>17 DEF EndAndSubmit, Next, Render, DescriptorNext
<1>18. CASE Finish
  BY <1>1, <1>2, <1>18 DEF Finish, Next
<1>19. CASE UNCHANGED allVars
  BY <1>3, <1>4, <1>19 DEF allVars
<1> QED
  BY <1>6, <1>7, <1>8, <1>9, <1>10, <1>11, <1>12, <1>13, <1>14, <1>15, <1>16, <1>17, <1>18, <1>19
     DEF FRNext

(* What concerns the resources and the frames together. *)
Together == QueueInv /\ Coupled /\ ReadTypes /\ ReadSets /\ ReadObjects

(* vd_deletion_queue_flush destroys what waits in its queue, and that only.*)
LEMMA Flushes ==
  ASSUME QueueInv, NEW q \in Queues, Flush(q), open' = open \/ open' = open \ {q}
  PROVE  /\ QueueInv'
         /\ \A o \in Objects : o \notin queued[q] => deleted'[o] = deleted[o]
         /\ \A r \in Queues : queued'[r] \subseteq queued[r]
<1>0. QueueTypes /\ WaitsOnce /\ EndedFlushed
  BY DEF QueueInv
<1>1. /\ \A o \in Objects : o \notin queued[q] => deleted'[o] = deleted[o]
      /\ \A o \in Objects : deleted'[o] \in Nat /\ deleted[o] \in Nat /\ deleted[o] <= deleted'[o]
      /\ \A o \in queued[q] : deleted'[o] > 0 /\ (deleted[o] = 0 => deleted'[o] = 1)
      /\ deleted' \in [Objects -> Nat]
  BY <1>0 DEF Flush, QueueTypes
<1>2. /\ \A r \in Queues : r # q => queued'[r] = queued[r]
      /\ queued'[q] = queued[q] \cap Textures
      /\ queued' \in [Queues -> SUBSET Objects]
      /\ \A r \in Queues : queued'[r] \subseteq queued[r] /\ queued[r] \subseteq Objects
  BY <1>0 DEF Flush, QueueTypes
<1>3. WaitsOnce'
  <2>1. ASSUME NEW o \in Objects \ Textures
        PROVE  deleted'[o] <= 1 /\ (deleted'[o] > 0 => \A r \in Queues : o \notin queued'[r])
    <3>1. /\ deleted[o] \in Nat /\ deleted[o] <= 1
          /\ deleted[o] > 0 => \A r \in Queues : o \notin queued[r]
      BY <1>0, <1>1 DEF WaitsOnce
    <3>2. CASE o \in queued[q]
      <4>1. deleted[o] = 0
        BY <3>1, <3>2
      <4>2. \A r \in Queues : o \in queued[r] => r = q
        BY <1>0, <3>2 DEF WaitsOnce
      <4> QED
        BY <1>1, <1>2, <3>2, <4>1, <4>2
    <3>3. CASE o \notin queued[q]
      BY <1>1, <1>2, <3>1, <3>3
    <3> QED
      BY <3>2, <3>3
  <2>2. \A r, t \in Queues : \A o \in queued'[r] : o \in queued'[t] => r = t
    BY <1>0, <1>2 DEF WaitsOnce
  <2> QED
    BY <2>1, <2>2 DEF WaitsOnce
<1>4. EndedFlushed'
  <2> SUFFICES ASSUME NEW r \in Queues, r \notin open', NEW o \in queued'[r]
               PROVE  deleted'[o] > 0
    BY DEF EndedFlushed
  <2>1. o \in queued[r] /\ o \in Objects
    BY <1>2
  <2>2. CASE r = q
    BY <1>1, <2>1, <2>2
  <2>3. CASE r # q
    <3>1. deleted[o] > 0
      BY <1>0, <2>1, <2>3 DEF EndedFlushed
    <3> QED
      BY <1>1, <2>1, <3>1
  <2> QED
    BY <2>2, <2>3
<1> QED
  BY <1>1, <1>2, <1>3, <1>4 DEF QueueInv, QueueTypes

LEMMA ReadsObjects ==
  ASSUME ReadTypes, NEW i \in 1 .. Len(queue)
  PROVE  reads[i] \in Reading /\ reads[i].objects \subseteq Objects
<1>1. reads \in Seq(Reading) /\ i \in 1 .. Len(reads)
  BY DEF ReadTypes
<1>2. reads[i] \in Reading
  BY <1>1, ElementOfSeq
<1> QED
  BY <1>2 DEF Reading

(* Nothing changes for the resources, nor for the queue of the GPU, and no *)
(* slot is recorded before or after.                                       *)
LEMMA Quiet ==
  ASSUME FRInv, UNCHANGED resourceVars, queue' = queue,
         \/ pc.at # "record" /\ pc'.at # "record"
         \/ pc' = pc
  PROVE  Together'
<1>0. /\ QueueInv /\ Coupled /\ ReadTypes /\ ReadSets /\ ReadObjects
      /\ UNCHANGED <<open, desc_allocator, held, queued, deleted, reads, queue>>
  BY DEF FRInv, resourceVars, descriptorVars, queueVars
<1>1. QueueInv'
  BY <1>0 DEF QueueInv, QueueTypes, WaitsOnce, EndedFlushed
<1>2. Coupled'
  BY <1>0 DEF Coupled, Slot
<1>3. ReadTypes' /\ ReadSets'
  BY <1>0 DEF ReadTypes, ReadSets, SlotOf
<1>4. ReadObjects'
  BY <1>0 DEF ReadObjects, InUseUntil, SlotOf, Slot
<1> QED
  BY <1>1, <1>2, <1>3, <1>4 DEF Together

(* While nothing is in flight, slots get their resources or lose them. *)
LEMMA AtRest ==
  ASSUME FRInv, queue = <<>>, UNCHANGED <<vars, reads, desc_allocator>>, QueueInv'
  PROVE  Together'
<1>0. Coupled /\ ReadTypes /\ pc' = pc /\ queue' = queue /\ Len(queue) = 0
  BY DEF FRInv, vars, gpu
<1>1. Coupled'
  BY <1>0 DEF Coupled, Slot
<1>2. ReadTypes' /\ ReadSets' /\ ReadObjects'
  BY <1>0 DEF ReadTypes, ReadSets, ReadObjects
<1> QED
  BY <1>1, <1>2 DEF Together

LEMMA InitSlotStep == FRInv /\ InitSlot => Together'
<1> SUFFICES ASSUME FRInv, InitSlot PROVE Together'
  OBVIOUS
<1>1. PICK s \in Slots : AllocatorInit(<<pc.w, s>>) /\ NewQueue(<<pc.w, s>>)
  BY DEF InitSlot
<1> DEFINE q == <<pc.w, s>>
<1>2. /\ queued' = [queued EXCEPT ![q] = {}] /\ deleted' = deleted
      /\ open' = open \cup {q} /\ desc_allocator' = desc_allocator
      /\ queue = <<>> /\ UNCHANGED <<vars, reads>>
  BY <1>1 DEF NewQueue, AllocatorInit, InitSlot, Idle
<1> HIDE DEF q
<1>3. QueueTypes /\ WaitsOnce /\ EndedFlushed
  BY DEF FRInv, QueueInv
<1>4. /\ queued' \in [Queues -> SUBSET Objects]
      /\ \A r \in Queues : queued'[r] = IF r = q THEN {} ELSE queued[r]
  BY <1>2, <1>3 DEF QueueTypes
<1>5. QueueInv'
  BY <1>2, <1>3, <1>4 DEF QueueInv, QueueTypes, WaitsOnce, EndedFlushed
<1> QED
  BY <1>2, <1>5, AtRest

LEMMA EndSlotStep == FRInv /\ EndSlot => Together'
<1> SUFFICES ASSUME FRInv, EndSlot PROVE Together'
  OBVIOUS
<1>1. PICK s \in Slots : Flush(<<pc.w, s>>) /\ AllocatorDeinit(<<pc.w, s>>)
  BY DEF EndSlot
<1>2. <<pc.w, s>> \in Queues /\ open' = open \ {<<pc.w, s>>}
      /\ queue = <<>> /\ UNCHANGED <<vars, reads, desc_allocator>>
  BY <1>1, SlotTypes, FrameResourcesAssumption DEF EndSlot, AllocatorDeinit, Idle
<1>3. QueueInv'
  BY <1>1, <1>2, Flushes DEF FRInv
<1> QED
  BY <1>2, <1>3, AtRest

(* The slot that is begun is in no submission: its sets and its queue are  *)
(* nobody's.                                                               *)
LEMMA BeginSlotStep == FRInv /\ BeginSlot => Together'
<1> SUFFICES ASSUME FRInv, BeginSlot PROVE Together'
  OBVIOUS
<1>0. QueueInv /\ ReadTypes /\ ReadSets /\ ReadObjects /\ PoolInv /\ QueueTypes
  BY DEF FRInv, QueueInv
<1>1. /\ pc.at = "reset" /\ pc' = [pc EXCEPT !.at = "record"] /\ queue' = queue
      /\ desc_allocator' = Slot /\ open' = open /\ held' = [held EXCEPT ![Slot] = {}]
      /\ Flush(Slot) /\ reads' = reads
  BY DEF BeginSlot, ResetSlot, BeginFrame
<1>2. /\ Slot \in Queues /\ Slot \in Allocators
      /\ \A i \in 1 .. Len(queue) : SlotOf(i) # Slot /\ SlotOf(i) \in Allocators
      /\ DOMAIN reads = 1 .. Len(queue)
  BY <1>1, SlotTypes
<1>3. pc'.at = "record" /\ Slot' = Slot
  <2>1. pc \in [at : {"wait", "reset", "record"}, w : Windows, s : Slots]
    BY <1>1 DEF FRInv, Inv, TypeOK, Between
  <2> QED
    BY <1>1, <2>1 DEF Slot
<1>4. /\ QueueInv'
      /\ \A o \in Objects : o \notin queued[Slot] => deleted'[o] = deleted[o]
      /\ \A r \in Queues : queued'[r] \subseteq queued[r]
  BY <1>0, <1>1, <1>2, Flushes
<1>5. Coupled'
  BY <1>1, <1>3 DEF Coupled
<1>6. ReadTypes'
  BY <1>0, <1>1 DEF ReadTypes
<1>7. ReadSets'
  <2>1. \A s \in Allocators : s # Slot => held'[s] = held[s]
    BY <1>0, <1>1, <1>2 DEF PoolInv, AllocatorTypes
  <2> QED
    BY <1>0, <1>1, <1>2, <2>1 DEF ReadSets, SlotOf
<1>8. ReadObjects'
  <2> SUFFICES ASSUME NEW i \in 1 .. Len(queue), NEW o \in reads[i].objects
               PROVE  deleted'[o] = 0 /\ \A q \in Queues : o \in queued'[q] => InUseUntil(i, q)'
    BY <1>1 DEF ReadObjects
  <2>1. deleted[o] = 0 /\ \A q \in Queues : o \in queued[q] => InUseUntil(i, q)
    BY <1>0 DEF ReadObjects
  <2>2. o \in Objects
    BY <1>0, ReadsObjects
  <2>3. \A q \in Queues : InUseUntil(i, q) => InUseUntil(i, q)'
    BY <1>1 DEF InUseUntil, SlotOf
  <2>4. o \notin queued[Slot]
    BY <1>1, <1>2, <2>1 DEF InUseUntil
  <2> QED
    BY <1>4, <2>1, <2>2, <2>3, <2>4
<1> QED
  BY <1>4, <1>5, <1>6, <1>7, <1>8 DEF Together

(* A frame allocates sets for the slot that is recorded only. *)
LEMMA DrawStep == FRInv /\ Draw => Together'
<1> SUFFICES ASSUME FRInv, Draw PROVE Together'
  OBVIOUS
<1>0. QueueInv /\ Coupled /\ ReadTypes /\ ReadSets /\ ReadObjects /\ PoolInv
  BY DEF FRInv
<1>1. /\ pc.at = "record" /\ UNCHANGED <<pc, queue, reads, queued, deleted>>
      /\ UNCHANGED <<open, desc_allocator>>
      /\ \A s \in Allocators : s # desc_allocator => held'[s] = held[s]
  <2>1. pc.at = "record" /\ UNCHANGED <<pc, queue, reads, queued, deleted>>
    BY DEF Draw, vars, gpu, queueVars
  <2>2. CASE Prep \/ NextSet \/ OutOfPool \/ RetryFails
    BY <2>1, <2>2 DEF Prep, NextSet, OutOfPool, RetryFails
  <2>3. CASE Allocated
    BY <1>0, <2>1, <2>3 DEF Allocated, PoolInv, AllocatorTypes
  <2> QED
    BY <2>1, <2>2, <2>3 DEF Draw
<1>2. QueueInv'
  BY <1>0, <1>1 DEF QueueInv, QueueTypes, WaitsOnce, EndedFlushed
<1>3. Coupled' /\ ReadTypes'
  BY <1>0, <1>1 DEF Coupled, Slot, ReadTypes
<1>4. ReadSets'
  <2>1. \A i \in 1 .. Len(queue) : SlotOf(i) \in Allocators /\ SlotOf(i) # desc_allocator
    BY <1>0, <1>1, SlotTypes DEF Coupled
  <2> QED
    BY <1>0, <1>1, <2>1 DEF ReadSets, SlotOf
<1>5. ReadObjects'
  BY <1>0, <1>1 DEF ReadObjects, InUseUntil, SlotOf, Slot
<1> QED
  BY <1>2, <1>3, <1>4, <1>5 DEF Together

(* What is put off waits in the queue of the slot that is recorded. *)
LEMMA DeferStep == FRInv /\ Defer => Together'
<1> SUFFICES ASSUME FRInv, Defer PROVE Together'
  OBVIOUS
<1>0. /\ Coupled /\ ReadTypes /\ ReadSets /\ ReadObjects
      /\ QueueTypes /\ WaitsOnce /\ EndedFlushed
  BY DEF FRInv, QueueInv
<1>1. PICK x \in Objects \ Deferred : Push(Slot, x)
  BY DEF Defer
<1>2. /\ pc.at = "record" /\ UNCHANGED <<pc, queue, reads, held, open, desc_allocator>>
      /\ queued' = [queued EXCEPT ![Slot] = @ \cup {x}] /\ deleted' = deleted
  BY <1>1 DEF Defer, Push, vars, gpu, descriptorVars
<1>3. Slot \in Queues /\ Slot \in open
  BY <1>2, SlotTypes
<1>4. /\ queued' \in [Queues -> SUBSET Objects]
      /\ \A q \in Queues : queued'[q] = IF q = Slot THEN queued[q] \cup {x} ELSE queued[q]
  BY <1>0, <1>2, <1>3 DEF QueueTypes
<1>5. ~(deleted[x] > 0) /\ \A q \in Queues : x \notin queued[q]
  BY <1>1 DEF Deferred
<1>6. WaitsOnce'
  BY <1>0, <1>2, <1>4, <1>5 DEF WaitsOnce
<1>7. QueueInv'
  BY <1>0, <1>2, <1>3, <1>4, <1>6 DEF QueueInv, QueueTypes, EndedFlushed
<1>8. Coupled' /\ ReadTypes' /\ ReadSets'
  BY <1>0, <1>2 DEF Coupled, Slot, ReadTypes, ReadSets, SlotOf
<1>9. ReadObjects'
  <2>1. \A i, q : InUseUntil(i, q)' <=> InUseUntil(i, q)
    BY <1>2 DEF InUseUntil, SlotOf, Slot
  <2>2. \A i : InUseUntil(i, Slot)
    BY <1>2 DEF InUseUntil
  <2> QED
    BY <1>0, <1>2, <1>4, <2>1, <2>2 DEF ReadObjects
<1> QED
  BY <1>7, <1>8, <1>9 DEF Together

(* A new submission reads the sets of its slot, and of the objects those   *)
(* that wait for no other slot.                                            *)
LEMMA SubmitStep == FRInv /\ EndAndSubmit => Together'
<1> SUFFICES ASSUME FRInv, EndAndSubmit PROVE Together'
  OBVIOUS
<1> DEFINE job == [w |-> pc.w, s |-> pc.s, swapchain |-> swapchain[pc.w]]
           read == [sets |-> held[Slot], objects |-> {o \in Objects : Needed(o)}]
<1>0. /\ Coupled /\ ReadTypes /\ ReadSets /\ ReadObjects /\ QueueInv
      /\ PoolTypes /\ AllocatorTypes /\ TypeOK
  BY DEF FRInv, Inv, PoolInv
<1>1. /\ pc.at = "record" /\ pc' = Between /\ queue' = Append(queue, job)
      /\ desc_allocator' = None /\ reads' = Append(reads, read)
      /\ UNCHANGED <<open, held, queued, deleted>>
  BY DEF EndAndSubmit, Submit, EndFrame, queueVars
<1>2. /\ Slot \in Allocators /\ pc.w \in Windows /\ pc.s \in Slots /\ Len(queue) \in Nat
  BY <1>1, SlotTypes
<1> PICK n \in Nat, slot \in Allocators : n = Len(queue) /\ slot = Slot
  BY <1>2
<1>3. job \in Jobs /\ <<job.w, job.s>> = slot
  BY <1>0, <1>2 DEF Jobs, TypeOK, Slot
<1>4. read \in Reading
  BY <1>0, <1>2 DEF Reading, PoolTypes, AllocatorTypes
<1>5. read.sets = held[slot]
      /\ \A o \in read.objects : deleted[o] = 0 /\ \A q \in Queues : o \in queued[q] => q = slot
  BY DEF Needed
<1> HIDE DEF job, read
<1>6. /\ n \in Nat /\ Len(queue') = n + 1 /\ queue'[n + 1] = job
      /\ \A i \in 1 .. n : queue'[i] = queue[i]
      /\ reads' \in Seq(Reading) /\ Len(reads') = n + 1 /\ reads'[n + 1] = read
      /\ \A i \in 1 .. n : reads'[i] = reads[i]
  <2>1. queue \in Seq(Jobs) /\ reads \in Seq(Reading) /\ Len(reads) = n
    BY <1>0 DEF TypeOK, ReadTypes
  <2> QED
    BY <1>1, <1>3, <1>4, <2>1, AppendProperties, LenProperties
<1>7. /\ \A i \in 1 .. n + 1 : i \in 1 .. n \/ i = n + 1
      /\ \A i \in 1 .. n + 1 : i <= n + 1 /\ i \in 1 .. n + 1
      /\ n + 1 \in 1 .. n + 1 /\ \A i \in 1 .. n : i \in 1 .. n + 1
  BY <1>6
<1>8. SlotOf(n + 1)' = slot /\ \A i \in 1 .. n : SlotOf(i)' = SlotOf(i)
  BY <1>3, <1>6 DEF SlotOf
<1>9. QueueInv'
  BY <1>0, <1>1 DEF QueueInv, QueueTypes, WaitsOnce, EndedFlushed
<1>10. Coupled' /\ ReadTypes'
  BY <1>1, <1>6 DEF Coupled, ReadTypes, Between
<1>11. ReadSets'
  <2> SUFFICES ASSUME NEW i \in 1 .. n + 1 PROVE reads'[i].sets = held[SlotOf(i)']
    BY <1>1, <1>6 DEF ReadSets
  <2>1. CASE i \in 1 .. n
    BY <1>0, <1>6, <1>8, <2>1 DEF ReadSets
  <2>2. CASE i = n + 1
    BY <1>5, <1>6, <1>8, <2>2
  <2> QED
    BY <1>7, <2>1, <2>2
<1>12. \A i \in 1 .. n + 1 : InUseUntil(i, slot)'
  BY <1>6, <1>7, <1>8 DEF InUseUntil
<1>13. \A i \in 1 .. n, q \in Queues : InUseUntil(i, q) => InUseUntil(i, q)'
  <2> SUFFICES ASSUME NEW i \in 1 .. n, NEW q \in Queues, InUseUntil(i, q), q # slot
               PROVE  InUseUntil(i, q)'
    BY <1>7, <1>12
  <2>1. PICK k \in 1 .. n : i <= k /\ SlotOf(k) = q
    BY DEF InUseUntil
  <2>2. k \in 1 .. Len(queue') /\ SlotOf(k)' = q
    BY <1>6, <1>7, <1>8, <2>1
  <2> QED
    BY <2>1, <2>2 DEF InUseUntil
<1>14. ReadObjects'
  <2> SUFFICES ASSUME NEW i \in 1 .. n + 1, NEW o \in reads'[i].objects
               PROVE  deleted[o] = 0 /\ \A q \in Queues : o \in queued[q] => InUseUntil(i, q)'
    BY <1>1, <1>6 DEF ReadObjects
  <2>1. CASE i \in 1 .. n
    BY <1>0, <1>6, <1>13, <2>1 DEF ReadObjects
  <2>2. CASE i = n + 1
    BY <1>5, <1>6, <1>12, <2>2
  <2> QED
    BY <1>7, <2>1, <2>2
<1> QED
  BY <1>9, <1>10, <1>11, <1>14 DEF Together

(* The GPU is done with the oldest submission. *)
LEMMA FinishStep == FRInv /\ Finish => Together'
<1> SUFFICES ASSUME FRInv, Finish PROVE Together'
  OBVIOUS
<1> DEFINE n == Len(queue)
<1>0. Coupled /\ ReadTypes /\ ReadSets /\ ReadObjects /\ QueueInv /\ TypeOK
  BY DEF FRInv, Inv
<1>1. /\ queue # <<>> /\ queue' = Tail(queue) /\ reads' = Tail(reads)
      /\ UNCHANGED <<pc, open, held, desc_allocator, queued, deleted>>
  BY DEF Finish, Complete, descriptorVars, queueVars
<1>2. /\ n \in Nat \ {0} /\ Len(queue') = n - 1
      /\ \A i \in 1 .. n - 1 : queue'[i] = queue[i + 1]
      /\ reads' \in Seq(Reading) /\ Len(reads') = n - 1
      /\ \A i \in 1 .. n - 1 : reads'[i] = reads[i + 1]
  <2>1. queue \in Seq(Jobs) /\ reads \in Seq(Reading) /\ Len(reads) = n
    BY <1>0 DEF TypeOK, ReadTypes
  <2>2. n \in Nat \ {0} /\ reads # <<>>
    BY <1>1, <2>1, EmptySeq, LenProperties
  <2> QED
    BY <1>1, <2>1, <2>2, HeadTailProperties
<1> HIDE DEF n
<1>3. \A i \in 1 .. n - 1 : i + 1 \in 1 .. n /\ SlotOf(i)' = SlotOf(i + 1)
  BY <1>2 DEF SlotOf
<1>4. QueueInv'
  BY <1>0, <1>1 DEF QueueInv, QueueTypes, WaitsOnce, EndedFlushed
<1>5. Coupled' /\ ReadTypes'
  BY <1>0, <1>1, <1>2 DEF Coupled, Slot, ReadTypes
<1>6. ReadSets'
  BY <1>0, <1>1, <1>2, <1>3 DEF ReadSets, n
<1>7. ASSUME NEW i \in 1 .. n - 1, NEW q, InUseUntil(i + 1, q) PROVE InUseUntil(i, q)'
  <2>1. CASE pc.at = "record" /\ Slot = q
    BY <1>1, <2>1 DEF InUseUntil, Slot
  <2>2. CASE \E k \in 1 .. n : i + 1 <= k /\ SlotOf(k) = q
    <3>1. PICK k \in 1 .. n : i + 1 <= k /\ SlotOf(k) = q
      BY <2>2
    <3>2. k - 1 \in 1 .. n - 1 /\ i <= k - 1 /\ (k - 1) + 1 = k
      BY <1>2, <3>1
    <3>3. SlotOf(k - 1)' = q
      BY <1>3, <3>1, <3>2
    <3> QED
      BY <1>2, <3>2, <3>3 DEF InUseUntil
  <2> QED
    BY <1>7, <2>1, <2>2 DEF InUseUntil, n
<1>8. ReadObjects'
  <2> SUFFICES ASSUME NEW i \in 1 .. n - 1, NEW o \in reads[i + 1].objects
               PROVE  deleted[o] = 0 /\ \A q \in Queues : o \in queued[q] => InUseUntil(i, q)'
    BY <1>1, <1>2 DEF ReadObjects
  <2>1. i + 1 \in 1 .. Len(queue)
    BY <1>3 DEF n
  <2> QED
    BY <1>0, <1>7, <2>1 DEF ReadObjects
<1> QED
  BY <1>4, <1>5, <1>6, <1>8 DEF Together

-----------------------------------------------------------------------------
LEMMA FRStep == FRInv /\ [FRNext]_allVars => FRInv'
<1> SUFFICES ASSUME FRInv, [FRNext]_allVars PROVE Together'
  BY PartsStep DEF FRInv, Together
<1>1. ASSUME NEW kind \in {"open", "resize", "close"}, NEW w \in Windows,
             FramesOnly(StartEvent(kind, w))
      PROVE  Together'
  <2>1. pc.at # "record" /\ pc'.at # "record"
    BY <1>1 DEF FramesOnly, StartEvent, Between
  <2> QED
    BY <1>1, <2>1, Quiet DEF FramesOnly, StartEvent, gpu
<1>2. CASE InitSlot
  BY <1>2, InitSlotStep
<1>3. CASE FinishOpen
  <2>1. pc.at # "record" /\ pc'.at # "record"
    BY <1>3 DEF FinishOpen, FramesOnly, OpenWindow, Between
  <2> QED
    BY <1>3, <2>1, Quiet DEF FinishOpen, FramesOnly, OpenWindow
<1>4. CASE EndSlot
  BY <1>4, EndSlotStep
<1>5. CASE FinishClose
  <2>1. pc.at # "record" /\ pc'.at # "record"
    BY <1>5 DEF FinishClose, FramesOnly, CloseWindow, Between
  <2> QED
    BY <1>5, <2>1, Quiet DEF FinishClose, FramesOnly, CloseWindow, gpu
<1>6. CASE FramesOnly(ResizeWindow)
  <2>1. pc.at # "record" /\ pc'.at # "record"
    BY <1>6 DEF FramesOnly, ResizeWindow, Between
  <2> QED
    BY <1>6, <2>1, Quiet DEF FramesOnly, ResizeWindow, gpu
<1>7. CASE FramesOnly(StartRender)
  BY <1>7, Quiet DEF FramesOnly, StartRender, gpu
<1>8. ASSUME NEW w \in Windows, FramesOnly(PickSlot(w)) PROVE Together'
  <2>1. pc.at # "record" /\ pc'.at # "record"
    BY <1>8 DEF FramesOnly, PickSlot, Between
  <2> QED
    BY <1>8, <2>1, Quiet DEF FramesOnly, PickSlot, gpu
<1>9. CASE FramesOnly(WaitFence)
  <2>1. pc \in [at : {"wait", "reset", "record"}, w : Windows, s : Slots] /\ pc.at = "wait"
    BY <1>9 DEF FramesOnly, WaitFence, FRInv, Inv, TypeOK, Between
  <2>2. pc.at # "record" /\ pc'.at # "record"
    BY <1>9, <2>1 DEF FramesOnly, WaitFence
  <2> QED
    BY <1>9, <2>2, Quiet DEF FramesOnly, WaitFence, gpu
<1>10. CASE BeginSlot
  BY <1>10, BeginSlotStep
<1>11. CASE Draw
  BY <1>11, DrawStep
<1>12. CASE Defer
  BY <1>12, DeferStep
<1>13. CASE EndAndSubmit
  BY <1>13, SubmitStep
<1>14. CASE FramesOnly(Abort)
  <2>1. pc.at # "record" /\ pc'.at # "record"
    BY <1>14 DEF FramesOnly, Abort
  <2> QED
    BY <1>14, <2>1, Quiet DEF FramesOnly, Abort, gpu
<1>15. CASE Finish
  BY <1>15, FinishStep
<1>16. CASE UNCHANGED allVars
  BY <1>16, Quiet DEF allVars, vars, gpu
<1> QED
  BY <1>1, <1>2, <1>3, <1>4, <1>5, <1>6, <1>7, <1>8, <1>9, <1>10, <1>11, <1>12, <1>13, <1>14,
     <1>15, <1>16 DEF FRNext

LEMMA FRSpecInv == FRSpec => []FRInv
  BY FRStart, FRStep, PTL DEF FRSpec

(* vd_descriptor_allocator_allocate: the second attempt gets a pool with   *)
(* room for the set (RetryFindsRoom), for any capacities, number of slots, *)
(* of objects in a frame and of frames. Its VD_VK_CHECK ends the program   *)
(* on a driver that counts descriptors by type, and on no other.           *)
THEOREM SecondPoolHasRoom == FRSpec => []RetryFindsRoom
<1>1. FRInv => RetryFindsRoom
  BY RoomIsFound DEF FRInv, AbortsByType, RetryFindsRoom
<1> QED
  BY <1>1, FRSpecInv, PTL

(* get_pool, vd_descriptor_allocator_clear and                             *)
(* vd_descriptor_allocator_deinit lose no pool, list none twice and        *)
(* destroy each one once (EveryPoolOnce).                                  *)
THEOREM NoPoolIsLost == FRSpec => []EveryPoolOnce
<1>1. FRInv => EveryPoolOnce
  BY PoolsAreOnce DEF FRInv
<1> QED
  BY <1>1, FRSpecInv, PTL

(* smat_begin_frame, vd_deletion_queue_flush and the end of a window take  *)
(* nothing from a submission in flight (InFlightIntact), however the slots *)
(* of several windows follow each other.                                   *)
THEOREM SubmissionsKeepWhatTheyRead == FRSpec => []InFlightIntact
<1>1. FRInv => InFlightIntact
  <2> SUFFICES ASSUME FRInv, NEW i \in 1 .. Len(queue)
               PROVE  /\ \A set \in reads[i].sets :
                           destroyed[set[1]] = 0 /\ set[2] <= used[set[1]]
                      /\ \A o \in reads[i].objects : deleted[o] = 0
                      /\ \A j \in 1 .. Len(queue) \ {i} :
                           reads[i].sets \cap reads[j].sets = {}
    BY SlotTypes DEF InFlightIntact
  <2>1. /\ \A j \in 1 .. Len(queue) : reads[j].sets = held[SlotOf(j)]
        /\ \A o \in reads[i].objects : deleted[o] = 0
    BY DEF FRInv, ReadSets, ReadObjects
  <2>2. /\ \A j \in 1 .. Len(queue) : SlotOf(j) \in Allocators
        /\ \A j \in 1 .. Len(queue) : SlotOf(i) = SlotOf(j) => i = j
    BY SlotTypes
  <2>3. \A j \in 1 .. Len(queue) : \A set \in reads[j].sets :
          set[1] \in Owned(SlotOf(j)) /\ set[2] <= used[set[1]]
    BY <2>1, <2>2 DEF FRInv, PoolInv, HeldSets
  <2>4. \A p, s, t : p \in Owned(s) /\ p \in Owned(t) => s = t /\ destroyed[p] = 0
    BY DEF Owned
  <2> QED
    BY <2>1, <2>2, <2>3, <2>4
<1> QED
  BY <1>1, FRSpecInv, PTL

(* vd_deletion_queue_flush destroys what was put off, and once unless it   *)
(* is a texture (DeferredOnce).                                            *)
THEOREM PutOffIsDestroyedOnce == FRSpec => []DeferredOnce
<1>1. FRInv => DeferredOnce
  BY DEF FRInv, QueueInv, WaitsOnce, EndedFlushed, DeferredOnce
<1> QED
  BY <1>1, FRSpecInv, PTL
=============================================================================
