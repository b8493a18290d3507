-------------------------------- MODULE Arena ---------------------------------
(***************************************************************************)
(* Frame memory: lib/arena.h and its use by ng/src/mm.c.  An arena hands   *)
(* out memory by moving begin towards end; nothing is given back but       *)
(* everything at once, when FreeFrameAllocationSystem resets the arena of  *)
(* the frame.                                                              *)
(*                                                                         *)
(* There are two ways to allocate. vd_arena_alloc (arrays and texts, via   *)
(* vd_mm_get_frame_allocator and vd_snfmt) is for one thread at a time.    *)
(* vd_arena_alloc_t (vd_mm_alloc) is for the threads of flecs, four after  *)
(* vd_instance_init; it is a step per access to begin here, because other  *)
(* threads can come in between.  Flecs (external) runs a system either on  *)
(* the main thread alone or on all of them, with a barrier in between; no  *)
(* system of the engine asks for all threads yet, so parallel stands for   *)
(* what vd_mm_alloc is written for.                                        *)
(***************************************************************************)
EXTENDS Integers, Sequences, FiniteSets, FiniteSetsExt, Functions

CONSTANTS
  Threads,           \* the threads of flecs
  Data, End,         \* where the memory of the arena begins and ends
  Align,             \* 8 in the macros of arena.h
  AllocSizes         \* the sizes that are asked for

ASSUME ArenaAssumption ==
  /\ Data \in Nat /\ End \in Nat /\ Data <= End
  /\ Align \in Nat \ {0}
  /\ AllocSizes \subseteq Nat

VARIABLES
  begin,             \* arena->begin
  taken,             \* what was handed out since the last reset, oldest first
  parallel,          \* does a system run on all threads?
  step, ask          \* per thread: where in vd_arena_alloc_t, for what

arenaVars == <<begin, taken, parallel, step, ask>>

Block(at, size) == [at |-> at, size |-> size]
Stop(b) == b.at + b.size

Nothing == [size |-> 0, padding |-> 0]

(* -(uintptr_t)arena->begin & (align - 1) *)
Padding(b) == (Align - (b % Align)) % Align

(* Variant: what was handed out does not count. *)
AvailableOfAll(b, padding) == End - Data - padding

(* What is left behind the padding; the size does not enter. *)
Available(b, padding) == End - b - padding

-----------------------------------------------------------------------------
(* vd_arena_new, by vd_mm_init *)
ArenaInit ==
  /\ begin = Data /\ taken = <<>> /\ parallel = FALSE
  /\ step = [t \in Threads |-> "idle"]
  /\ ask = [t \in Threads |-> Nothing]

(* vd_arena_alloc: returns 0, or a block that may reach past the end.      *)
ArenaAlloc(size) ==
  /\ ~parallel
  /\ Available(begin, Padding(begin)) >= 0
  /\ begin' = begin + Padding(begin) + size
  /\ taken' = Append(taken, Block(begin + Padding(begin), size))
  /\ UNCHANGED <<parallel, step, ask>>

(* vd_arena_proc_alloc: nothing for 0 bytes (so a block is never given     *)
(* back), else a new block, into which the old contents are copied.        *)
ProcAlloc(size) == size # 0 /\ ArenaAlloc(size)

(* vd_arena_alloc_t: begin is read for the padding, *)
ReadPadding(t, size) ==
  /\ parallel /\ step[t] = "idle"
  /\ step' = [step EXCEPT ![t] = "check"]
  /\ ask' = [ask EXCEPT ![t] = [size |-> size, padding |-> Padding(begin)]]
  /\ UNCHANGED <<begin, taken, parallel>>

AllocEnds(t) ==
  /\ step' = [step EXCEPT ![t] = "idle"]
  /\ ask' = [ask EXCEPT ![t] = Nothing]

(* again for what is available (0 is returned when nothing is), *)
Check(t) ==
  /\ step[t] = "check"
  /\ IF Available(begin, ask[t].padding) < 0 THEN AllocEnds(t)
     ELSE step' = [step EXCEPT ![t] = "reserve"] /\ UNCHANGED ask
  /\ UNCHANGED <<begin, taken, parallel>>

(* Variant: the padding is not reserved. *)
ReserveSizeOnly(t) ==
  LET block == Block(begin + ask[t].padding, ask[t].size)
  IN  /\ step[t] = "reserve"
      /\ begin' = begin + ask[t].size
      /\ taken' = IF Stop(block) > End THEN taken ELSE Append(taken, block)
      /\ AllocEnds(t)
      /\ UNCHANGED parallel

(* Variant: the end is not looked at again. *)
ReserveUnchecked(t) ==
  /\ step[t] = "reserve"
  /\ begin' = begin + ask[t].padding + ask[t].size
  /\ taken' = Append(taken, Block(begin + ask[t].padding, ask[t].size))
  /\ AllocEnds(t)
  /\ UNCHANGED parallel

(* and moved by an atomic addition; a block past the end is not returned,  *)
(* though begin stays where it is then.                                    *)
Reserve(t) ==
  LET block == Block(begin + ask[t].padding, ask[t].size)
  IN  /\ step[t] = "reserve"
      /\ begin' = begin + ask[t].padding + ask[t].size
      /\ taken' = IF Stop(block) > End THEN taken ELSE Append(taken, block)
      /\ AllocEnds(t)
      /\ UNCHANGED parallel

(* Flecs: the next system runs on all threads, or no longer. *)
Barrier ==
  /\ \A t \in Threads : step[t] = "idle"
  /\ parallel' = ~parallel
  /\ UNCHANGED <<begin, taken, step, ask>>

(* FreeFrameAllocationSystem: vd_mm_end_frame, vd_arena_reset *)
Reset ==
  /\ ~parallel
  /\ begin' = Data /\ taken' = <<>>
  /\ UNCHANGED <<parallel, step, ask>>

ArenaNext ==
  \/ \E size \in AllocSizes : ArenaAlloc(size) \/ ProcAlloc(size)
  \/ \E t \in Threads, size \in AllocSizes : ReadPadding(t, size)
  \/ \E t \in Threads : Check(t) \/ Reserve(t)
  \/ Barrier \/ Reset

ArenaSpec == ArenaInit /\ [][ArenaNext]_arenaVars

-----------------------------------------------------------------------------
(* Properties. *)

ArenaTypeOK ==
  /\ begin \in Nat
  /\ taken \in Seq([at : Nat, size : Nat])
  /\ parallel \in BOOLEAN
  /\ step \in [Threads -> {"idle", "check", "reserve"}]
  /\ ask \in [Threads -> [size : AllocSizes \cup {0}, padding : 0 .. Align - 1]]

(* No two allocations of a frame share memory, so that clearing and        *)
(* filling one leaves the others alone (arena.h:38, :59): also when        *)
(* threads read begin before others move it, and pad for where it was.     *)
BlocksDisjoint ==
  \A i, j \in DOMAIN taken :
    i # j => Stop(taken[i]) <= taken[j].at \/ Stop(taken[j]) <= taken[i].at

Frame == INSTANCE Allocator WITH
  Blocks <- [at : Data .. End, size : AllocSizes \cup {0}],
  inUse  <- Range(taken)

(* To its clients frame memory is an allocator that never takes back a     *)
(* single block: vd_arena_alloc and vd_arena_alloc_t, on any number of     *)
(* threads, hand out only memory that is not in use, until the frame ends. *)
FrameIsAllocator == Frame!Spec

(* vd_arena_alloc does not compare the size with what is available: the    *)
(* block it hands out can reach past the end. Between two resets this      *)
(* happens at most once, whichever threads were between the check and the  *)
(* addition of vd_arena_alloc_t when begin passed the end.                 *)
OneBlockPastEnd ==
  \A i, j \in DOMAIN taken : Stop(taken[i]) > End /\ Stop(taken[j]) > End => i = j

(* A refused allocation leaves begin past the end, where other threads     *)
(* that were behind the check move it on. There is one such addition per   *)
(* thread at most, so a full arena, asked over and over again, does not    *)
(* let begin wrap around and hand out memory from the start.               *)
BeginStaysNear ==
  begin <= End + Cardinality(Threads) * (Align - 1 + Max(AllocSizes))
=============================================================================
