------------------------------ MODULE AppShell -------------------------------
(***************************************************************************)
(* The life of windows and of the application: w_sdl/w_sdl.c, the main     *)
(* loop and the shutdown of ng/src/instance.c, and the window systems of   *)
(* the renderer in the order one ecs_progress runs them:                   *)
(*   OnLoad    PollSDLEvents                                               *)
(*   PostLoad  RendererCheckWindowComponentSizeChange                      *)
(*   OnStore   RendererRenderToWindowSurfaceComponents and                 *)
(*             ClearWindowComponentFrameChanges                            *)
(*   then the deferred commands of all of them are applied.                *)
(* Flecs (external) puts off what a system does to the set of entities:    *)
(* ecs_add and ecs_delete wait in a command queue until no system runs,    *)
(* while a component that is there is written in place.  No engine system  *)
(* declares a write that would make flecs flush between them.              *)
(*                                                                         *)
(* All windows have the same components, so they are rows of one table;    *)
(* deleting a row moves the last row into its place.                       *)
(***************************************************************************)
EXTENDS Naturals, Sequences, FiniteSets, SequencesExt

CONSTANTS
  Windows,           \* windows that can ever be created
  MainWindow,        \* the window made before the main loop
  MaxEvents          \* bound on the events one PollSDLEvents finds

ASSUME AppShellAssumption == MainWindow \in Windows /\ MaxEvents \in Nat \ {0}

VARIABLES
  rows,              \* the entities with a WindowComponent, in table order
  just_resized,      \* windows with WindowComponent.just_resized set
  stale,             \* windows whose swapchain does not have the window's size
  cmds,              \* the deferred commands, oldest first
  unused,            \* windows not created yet (static int counter)
  should_close,      \* instance->should_close
  device,            \* the VkDevice exists
  phase, events      \* where ecs_progress is; events taken in this poll

vars == <<rows, just_resized, stale, cmds, unused, should_close, device, phase, events>>

-----------------------------------------------------------------------------
Init ==
  /\ rows = <<MainWindow>> /\ unused = Windows \ {MainWindow}
  /\ just_resized = {} /\ stale = {}
  /\ cmds = <<>> /\ should_close = FALSE /\ device = TRUE
  /\ phase = "poll" /\ events = 0

TakesEvent ==
  /\ phase = "poll" /\ events < MaxEvents
  /\ events' = events + 1
  /\ UNCHANGED <<device, phase>>

(* SDL_EVENT_KEY_DOWN with N: a new window, once commands are applied. *)
KeyN ==
  /\ TakesEvent
  /\ \E w \in unused : /\ cmds' = Append(cmds, [op |-> "add", w |-> w])
                       /\ unused' = unused \ {w}
  /\ UNCHANGED <<rows, just_resized, stale, should_close>>

(* Variant: the count begins at the second row. *)
RemainingFromSecond(w) == ToSet(Tail(rows)) \ {w}

(* The windows a close request counts as remaining: every row but the      *)
(* closed one, rows that wait for their deletion included.                 *)
Remaining(w) == ToSet(rows) \ {w}

(* Variant: AppQuitEvent is not emitted. *)
CloseRequestedNoQuit(w) ==
  /\ TakesEvent
  /\ cmds' = Append(cmds, [op |-> "delete", w |-> w])
  /\ UNCHANGED <<rows, just_resized, stale, unused, should_close>>

(* SDL_EVENT_WINDOW_CLOSE_REQUESTED; with nothing remaining AppQuitEvent   *)
(* is emitted and OnApplicationQuit sets should_close.                     *)
CloseRequested(w) ==
  /\ TakesEvent
  /\ cmds' = Append(cmds, [op |-> "delete", w |-> w])
  /\ should_close' = (should_close \/ Remaining(w) = {})
  /\ UNCHANGED <<rows, just_resized, stale, unused>>

(* SDL_EVENT_WINDOW_RESIZED *)
Resized(w) ==
  /\ TakesEvent
  /\ just_resized' = just_resized \cup {w}
  /\ stale' = stale \cup {w}
  /\ UNCHANGED <<rows, cmds, unused, should_close>>

(* SDL_PollEvent has no more events. *)
EndPoll ==
  /\ phase = "poll" /\ phase' = "resize"
  /\ UNCHANGED <<rows, just_resized, stale, cmds, unused, should_close, device, events>>

(* Variant: only the first row is looked at. *)
CheckSizeChangeFirst ==
  /\ phase = "resize" /\ phase' = "store"
  /\ stale' = IF rows = <<>> THEN stale ELSE stale \ (just_resized \cap {Head(rows)})
  /\ UNCHANGED <<rows, just_resized, cmds, unused, should_close, device, events>>

(* RendererCheckWindowComponentSizeChange: new swapchains. *)
CheckSizeChange ==
  /\ phase = "resize" /\ phase' = "store"
  /\ stale' = stale \ (just_resized \cap ToSet(rows))
  /\ UNCHANGED <<rows, just_resized, cmds, unused, should_close, device, events>>

(* ClearWindowComponentFrameChanges: "w->just_resized = 0" for every row,  *)
(* which is the flag of the first row each time.                           *)
ClearFrameChanges ==
  /\ phase = "store" /\ phase' = "apply"
  /\ just_resized' = IF rows = <<>> THEN just_resized ELSE just_resized \ {Head(rows)}
  /\ UNCHANGED <<rows, stale, cmds, unused, should_close, device, events>>

(* Flecs: row removal. *)
WithoutRow(r, w) ==
  IF w \notin ToSet(r) THEN r
  ELSE LET i == CHOOSE j \in DOMAIN r : r[j] = w
       IN  IF i = Len(r) THEN Front(r) ELSE [Front(r) EXCEPT ![i] = Last(r)]

(* Flecs: a command reaches the table. Adding runs OnAddWindowComponent    *)
(* and RendererOnWindowComponentSet, deleting OnWindowComponentRemoveHook; *)
(* a second deletion of the same window is discarded.                      *)
Applied(r, c) == IF c.op = "add" THEN Append(r, c.w) ELSE WithoutRow(r, c.w)

(* What the table holds once the commands are applied, oldest first. *)
RowsAfter ==
  LET after[n \in 0 .. Len(cmds)] ==
        IF n = 0 THEN rows ELSE Applied(after[n - 1], cmds[n])
  IN  after[Len(cmds)]

(* ecs_progress applies the commands and returns to vd_instance_main. *)
ApplyCommands ==
  /\ phase = "apply"
  /\ rows' = RowsAfter
  /\ just_resized' = just_resized \cap ToSet(rows')
  /\ stale' = stale \cap ToSet(rows')
  /\ cmds' = <<>> /\ events' = 0
  /\ phase' = IF should_close THEN "quit" ELSE "poll"
  /\ UNCHANGED <<unused, should_close, device>>

(* vd_instance_deinit: vd_renderer_deinit, before ecs_fini. *)
RendererDeinit ==
  /\ phase = "quit" /\ phase' = "fini"
  /\ device' = FALSE
  /\ UNCHANGED <<rows, just_resized, stale, cmds, unused, should_close, events>>

Frame == EndPoll \/ CheckSizeChange \/ ClearFrameChanges \/ ApplyCommands

Next ==
  \/ KeyN
  \/ \E w \in ToSet(rows) : CloseRequested(w) \/ Resized(w)
  \/ Frame
  \/ RendererDeinit

Spec == Init /\ [][Next]_vars

-----------------------------------------------------------------------------
(* Properties. *)

(* No frame is rendered into a swapchain of another size than its window,  *)
(* whatever resizes, closes and row moves came before: the flag that       *)
(* PollSDLEvents sets is still set when the size is checked.               *)
RenderedAtSize == phase = "store" => stale \cap ToSet(rows) = {}

(* The application never quits over a window the user keeps: when quitting *)
(* is decided every window in the table has its deletion queued, whatever  *)
(* other events the same poll found. So no window but one that this very   *)
(* poll opened is left when vd_renderer_deinit destroys the device, before *)
(* ecs_fini runs on_window_component_immediate_destroy on what remains.    *)
QuitMeansAllClosed ==
  should_close /\ phase \in {"poll", "resize", "store", "apply"} =>
    \A w \in ToSet(rows) : [op |-> "delete", w |-> w] \in ToSet(cmds)

(* The main loop of vd_instance_main never goes round without a window:    *)
(* when the last one is closed the application quits ("No more windows.    *)
(* Closing...", w_sdl.c:166).                                              *)
LoopHasWindow == phase = "poll" => rows # <<>>

Asked(op) == {c.w : c \in {d \in ToSet(cmds) : d.op = op}}

(* A frame that has windows and closes at most one of them (however often  *)
(* it is asked to) does not leave the main loop without a window: closing  *)
(* the last one decides to quit. Windows opened in the same poll, resizes  *)
(* and rows moved by earlier deletions make no difference.                 *)
LastCloseQuits ==
  phase = "apply" /\ rows # <<>> /\ Cardinality(Asked("delete")) <= 1
    /\ RowsAfter = <<>>
    => should_close
=============================================================================
