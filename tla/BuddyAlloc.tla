----------------------------- MODULE BuddyAlloc ------------------------------
(***************************************************************************)
(* lib/vd_buddy_alloc.h, the heap under the entity memory: one piece of    *)
(* memory tiled by blocks, each with a header (size, is_free) at its start.*)
(* An allocation walks over pairs of neighbours, merging those that are    *)
(* free and of one size on its way, picks the best fitting block and       *)
(* halves it, always to the right, down to the size wanted; if nothing is  *)
(* found it merges what it can and tries once more.  Freeing only sets     *)
(* is_free.                                                                *)
(*                                                                         *)
(* Addresses and sizes count units of "alignment", which is at least the   *)
(* size of a header, so a block of s units holds s - 1 units of payload.   *)
(* hdr is defined where a header lies: the header of a block that was      *)
(* merged away is gone, as its place may hold a client's data later.  Each *)
(* pass of a loop of the code is a step.                                   *)
(***************************************************************************)
EXTENDS Naturals, FiniteSets

CONSTANTS
  Sizes,             \* the powers of two up to the size of the heap
  Total,             \* initial_size
  Requests,          \* payloads the clients ask for
  NoBlock            \* the null block

ASSUME BuddyAllocAssumption ==
  /\ Sizes \subseteq Nat \ {0} /\ Total \in Sizes
  /\ \A s \in Sizes : s <= Total /\ (s < Total => 2 * s \in Sizes)
  /\ \A s \in Sizes, t \in Sizes : s < t => \E h \in Sizes : t = 2 * h /\ s <= h
  /\ Requests \subseteq Nat /\ \A n \in Requests : n < 2 * Total
  /\ NoBlock \notin Nat

VARIABLES
  hdr,               \* address of a block -> its header
  pc,                \* where vd_buddy_alloc_realloc is
  req, want,         \* the payload asked for; the size of block it takes
  block, buddy,      \* the pair of neighbours the walk is at
  best,              \* the best block so far, later the one to split
  second,            \* vd_buddy_alloc__find runs for the second time
  merged,            \* ~no_coalescence
  given              \* history: address of a block in use -> payload asked for

walk == <<block, buddy, best>>
heapVars == <<hdr, pc, req, want, block, buddy, best, second, merged, given>>

-----------------------------------------------------------------------------
Addr == 0 .. Total

(* Variant: the header is forgotten. *)
SizeReqNoHeader(n, s) == n <= s /\ \A t \in Sizes : n <= t => s <= t

(* vd_buddy_alloc__size_req: s is the smallest power of two that holds the *)
(* payload and the header (2 * Total: more than the heap has).             *)
SizeReq(n, s) == n + 1 <= s /\ \A t \in Sizes : n + 1 <= t => s <= t

NextBlock(h, b) == b + h[b].size

(* The walk starts or goes on with the pair at b; at the tail buddy stays. *)
GoTo(h, b) ==
  /\ block' = b
  /\ buddy' = IF b < Total THEN NextBlock(h, b) ELSE buddy

Walking == block < Total /\ buddy < Total

(* Variant: blocks of different sizes are merged. *)
MergeableAnySize == hdr[block].free /\ hdr[buddy].free

Mergeable == hdr[block].free /\ hdr[buddy].free /\ hdr[block].size = hdr[buddy].size

(* block takes in buddy: "block->size <<= 1". *)
Merged ==
  [b \in DOMAIN hdr \ {buddy} |->
     IF b = block THEN [hdr[b] EXCEPT !.size = 2 * @] ELSE hdr[b]]

HeapInit ==
  /\ hdr = [b \in {0} |-> [size |-> Total, free |-> TRUE]]
  /\ pc = "idle" /\ req = 0 /\ want = 0
  /\ block = 0 /\ buddy = 0 /\ best = NoBlock
  /\ second = FALSE /\ merged = FALSE
  /\ given = [b \in {} |-> 0]

(* The call is over: its locals are gone. *)
Return ==
  /\ pc' = "idle" /\ req' = 0 /\ want' = 0
  /\ block' = 0 /\ buddy' = 0 /\ best' = NoBlock
  /\ second' = FALSE /\ merged' = FALSE

(* The beginning of vd_buddy_alloc__find: one free block is split at once. *)
StartFind ==
  /\ GoTo(hdr, 0)
  /\ IF buddy' = Total /\ hdr[0].free
       THEN best' = 0 /\ pc' = "split"
       ELSE best' = NoBlock /\ pc' = "find"

(* vd_buddy_alloc_realloc(alloc, 0, size) *)
Alloc(n) ==
  /\ pc = "idle"
  /\ req' = n /\ second' = FALSE
  /\ want' \in Sizes \cup {2 * Total} /\ SizeReq(n, want')
  /\ StartFind
  /\ UNCHANGED <<hdr, merged, given>>

Fits(h, b) == h[b].free /\ want <= h[b].size

(* vd_buddy_alloc__find at two free neighbours of one size. *)
FindMerge ==
  /\ pc = "find" /\ Walking /\ Mergeable
  /\ hdr' = Merged
  /\ best' = IF Fits(hdr', block) /\ (best = NoBlock \/ hdr'[block].size <= hdr'[best].size)
               THEN block ELSE best
  /\ GoTo(hdr', NextBlock(hdr, buddy))
  /\ UNCHANGED <<pc, req, want, second, merged, given>>

(* Variant: the second block of the pair is no candidate. *)
FindPassFirstOnly ==
  /\ pc = "find" /\ Walking /\ ~Mergeable
  /\ best' = IF Fits(hdr, block) /\ (best = NoBlock \/ hdr[block].size <= hdr[best].size)
               THEN block ELSE best
  /\ GoTo(hdr, IF hdr[block].size <= hdr[buddy].size
                 THEN NextBlock(hdr, buddy) ELSE buddy)
  /\ UNCHANGED <<hdr, pc, req, want, second, merged, given>>

(* vd_buddy_alloc__find at any other pair: both are candidates, then the   *)
(* walk goes on behind buddy, or with it when it is the smaller one.       *)
FindPass ==
  /\ pc = "find" /\ Walking /\ ~Mergeable
  /\ LET one == IF Fits(hdr, block) /\ (best = NoBlock \/ hdr[block].size <= hdr[best].size)
                  THEN block ELSE best
     IN  best' = IF Fits(hdr, buddy) /\ (one = NoBlock \/ hdr[buddy].size < hdr[one].size)
                   THEN buddy ELSE one
  /\ GoTo(hdr, IF hdr[block].size <= hdr[buddy].size
                 THEN NextBlock(hdr, buddy) ELSE buddy)
  /\ UNCHANGED <<hdr, pc, req, want, second, merged, given>>

StartCoalescence ==
  /\ pc' = "coalesce" /\ merged' = FALSE
  /\ GoTo(hdr, 0)

(* The walk is over: split what was found; after a first failure merge     *)
(* what can be merged; after a second one give up.                         *)
FindEnd ==
  /\ pc = "find" /\ ~Walking
  /\ \/ best # NoBlock /\ pc' = "split" /\ UNCHANGED <<block, buddy, merged>>
     \/ best = NoBlock /\ ~second /\ StartCoalescence
     \/ best = NoBlock /\ second /\ pc' = "failed" /\ UNCHANGED <<block, buddy, merged>>
  /\ UNCHANGED <<hdr, req, want, best, second, given>>

(* A block is halved. *)
Halved(b, half) ==
  [c \in DOMAIN hdr \cup {b + half} |->
     IF c = b THEN [hdr[b] EXCEPT !.size = half]
     ELSE IF c = b + half THEN [size |-> half, free |-> TRUE] ELSE hdr[c]]

(* vd_buddy_alloc__split, one pass: halve the block, go on with the right. *)
Split ==
  /\ pc = "split" /\ want < hdr[best].size
  /\ hdr' = Halved(best, hdr[best].size \div 2)
  /\ best' = best + hdr[best].size \div 2
  /\ UNCHANGED <<pc, req, want, block, buddy, second, merged, given>>

(* The block has the size wanted: it is handed out. *)
Found ==
  /\ pc = "split" /\ want = hdr[best].size
  /\ hdr' = [hdr EXCEPT ![best].free = FALSE]
  /\ given' = [b \in DOMAIN given \cup {best} |-> IF b = best THEN req ELSE given[b]]
  /\ Return

(* The one free block is too small: split returns 0. *)
SplitFails ==
  /\ pc = "split" /\ want > hdr[best].size
  /\ IF second THEN pc' = "failed" /\ UNCHANGED <<block, buddy, merged>>
               ELSE StartCoalescence
  /\ best' = NoBlock
  /\ UNCHANGED <<hdr, req, want, second, given>>

(* Variant: every pass counts as one that merged. *)
CoalesceAlways ==
  /\ pc = "coalesce" /\ Walking
  /\ hdr' = IF Mergeable THEN Merged ELSE hdr
  /\ GoTo(hdr', IF hdr[block].size < hdr[buddy].size
                  THEN buddy ELSE NextBlock(hdr, buddy))
  /\ merged' = TRUE
  /\ UNCHANGED <<pc, req, want, best, second, given>>

(* vd_buddy_alloc__coalescence, one pair. A merge of the last pair of the  *)
(* heap does not count as one.                                             *)
Coalesce ==
  /\ pc = "coalesce" /\ Walking
  /\ IF Mergeable
       THEN /\ hdr' = Merged
            /\ GoTo(hdr', NextBlock(hdr', block))
            /\ merged' = (merged \/ block' < Total)
       ELSE /\ GoTo(hdr, IF hdr[block].size < hdr[buddy].size
                           THEN buddy ELSE NextBlock(hdr, buddy))
            /\ UNCHANGED <<hdr, merged>>
  /\ UNCHANGED <<pc, req, want, best, second, given>>

CoalesceEnd ==
  /\ pc = "coalesce" /\ ~Walking
  /\ IF merged THEN StartCoalescence /\ UNCHANGED <<best, second>>
               ELSE StartFind /\ second' = TRUE /\ UNCHANGED merged
  /\ UNCHANGED <<hdr, req, want, given>>

(* vd_buddy_alloc_realloc returns 0. *)
GiveUp ==
  /\ pc = "failed" /\ Return
  /\ UNCHANGED <<hdr, given>>

(* vd_buddy_alloc_realloc(alloc, ptr, 0) *)
Free(b) ==
  /\ pc = "idle" /\ b \in DOMAIN given
  /\ hdr' = [hdr EXCEPT ![b].free = TRUE]
  /\ given' = [c \in DOMAIN given \ {b} |-> given[c]]
  /\ UNCHANGED <<pc, req, want, walk, second, merged>>

Walk == FindMerge \/ FindPass \/ FindEnd \/ Split \/ Found \/ SplitFails
          \/ Coalesce \/ CoalesceEnd \/ GiveUp

HeapNext == (\E n \in Requests : Alloc(n)) \/ Walk \/ (\E b \in Addr : Free(b))

HeapSpec == HeapInit /\ [][HeapNext]_heapVars /\ WF_heapVars(Walk)

-----------------------------------------------------------------------------
(* Properties. *)

Headers(h) == DOMAIN h \subseteq Addr /\ h \in [DOMAIN h -> [size : Sizes, free : BOOLEAN]]

HeapTypeOK ==
  /\ Headers(hdr)
  /\ pc \in {"idle", "find", "split", "coalesce", "failed"}
  /\ req \in Nat /\ want \in Nat
  /\ block \in Addr /\ buddy \in Addr /\ best \in DOMAIN hdr \cup {NoBlock}
  /\ second \in BOOLEAN /\ merged \in BOOLEAN
  /\ DOMAIN given \subseteq DOMAIN hdr /\ given \in [DOMAIN given -> Nat]

Tiles(h) ==
  /\ 0 \in DOMAIN h
  /\ \A b \in DOMAIN h :
       /\ NextBlock(h, b) \in DOMAIN h \cup {Total}
       /\ \A c \in DOMAIN h : b < c => NextBlock(h, b) <= c

(* The headers tile the heap at every moment, in the middle of a walk too: *)
(* from each header the next one, or the tail, is reached, and none lies   *)
(* in between, so neither a walk nor vd_buddy_alloc_get_stats ever reads   *)
(* a client's data as a header.                                            *)
Tiled == Tiles(hdr)

(* No two allocations overlap, none reaches into a header or beyond the    *)
(* heap, whatever was merged and split before.                             *)
NoOverlap ==
  \A b \in DOMAIN given :
    /\ b + given[b] < Total
    /\ \A c \in DOMAIN hdr : b < c => b + given[b] < c

(* A block in use, with its header. *)
InUse(b) == [at |-> b, size |-> 1 + given[b]]

Heap == INSTANCE Allocator WITH
  Blocks <- [at : Addr, size : {1 + n : n \in Requests}],
  inUse  <- {InUse(b) : b \in DOMAIN given}

(* To its clients the heap is an allocator: a block handed out by          *)
(* vd_buddy_alloc_realloc overlaps none that is in use, header included,   *)
(* and stays where it is until it is freed, whatever is merged and split   *)
(* around it.                                                              *)
HeapIsAllocator == Heap!Spec

(* An allocation fails only if no free block is large enough - but for the *)
(* block at the end of the heap, which the walk over pairs can miss.       *)
OnlyLastIsMissed ==
  pc = "failed" =>
    \A b \in DOMAIN hdr : Fits(hdr, b) => NextBlock(hdr, b) = Total

(* Every call returns: the merging passes come to an end. *)
CallsReturn == pc # "idle" ~> pc = "idle"
=============================================================================
