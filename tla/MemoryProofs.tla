---------------------------- MODULE MemoryProofs -----------------------------
(***************************************************************************)
(* The three regions vd_mm_init sets up, for every value of the constants: *)
(* the entity heap, the buddy allocator below it, the arena of the frame.  *)
(***************************************************************************)
EXTENDS MCMemory, FiniteSetTheorems, TLAPS

-----------------------------------------------------------------------------
(***************************************************************************)
(* The safety of the entity heap for any entities, any blocks and any      *)
(* number of allocations and of deletions in a frame.                      *)
(***************************************************************************)

TypeOK ==
  /\ live \subseteq Blocks /\ next \in [Blocks -> Blocks \cup {Null}]
  /\ root \in [Entities -> Blocks \cup {Null}]
  /\ owner \in [Blocks -> Entities \cup {Null}]
  /\ free_list \in Blocks \cup {Null} /\ curr_info \in Blocks \cup {Null}
  /\ phase \in {"frame", "gc"} /\ deletes \in Nat

(* A block of the free list that is still to be freed: nobody's, in use    *)
(* unless it was freed before, and the last of its list; after several     *)
(* deletions it is its own successor.                                      *)
Waiting(b) ==
  /\ owner[b] = Null /\ (b \in live \/ deletes > 1)
  /\ next[b] = IF deletes > 1 THEN b ELSE Null

(* Each entity owns its root; the list begins with that of the entity that *)
(* was deleted last, until the collector has passed it.  Where a block is  *)
(* freed again the collector does not get past it.                         *)
Lists ==
  /\ \A e \in Entities : root[e] # Null => owner[root[e]] = e
  /\ phase = "frame" /\ free_list = Null => deletes = 0
  /\ phase = "frame" /\ free_list # Null =>
       deletes > 0 /\ free_list \in live /\ Waiting(free_list)
  /\ phase = "gc" /\ curr_info # Null => Waiting(curr_info)
  /\ refreed => phase = "gc" /\ curr_info # Null /\ deletes > 1

EntityInv == TypeOK /\ OwnedStaysLive /\ Lists

-----------------------------------------------------------------------------
(* A push into an empty list, and one into a list that is not empty. *)
LEMMA PushedOnto ==
  ASSUME NEW h, NEW info, h # info, info # Null
  PROVE  /\ Pushed(h, info).head = info
         /\ Pushed(h, info).next = IF h = Null THEN Null ELSE info
  BY DEF Pushed, Attempt

(* A push into a list of any length links the block to a block or to none. *)
LEMMA PushedType ==
  ASSUME NEW h \in Blocks \cup {Null}, NEW info \in Blocks
  PROVE  /\ Pushed(h, info).head \in Blocks \cup {Null}
         /\ Pushed(h, info).next \in Blocks \cup {Null}
  BY DEF Pushed, Attempt

LEMMA EntityInitInv == Init => EntityInv
  BY EntityMemoryAssumption DEF Init, EntityInv, TypeOK, OwnedStaysLive, Lists

LEMMA EntityNextInv == EntityInv /\ [Next]_vars => EntityInv'
<1> SUFFICES ASSUME EntityInv, [Next]_vars PROVE EntityInv'
  OBVIOUS
<1>0. TypeOK /\ OwnedStaysLive /\ Lists /\ \A e \in Entities : e # Null
  BY EntityMemoryAssumption DEF EntityInv
<1>1. ASSUME NEW e \in Entities, NEW bs \in SUBSET Blocks, NEW last \in bs,
             FirstAlloc(e, bs, last)
      PROVE  EntityInv'
  <2>1. TypeOK' /\ OwnedStaysLive'
    BY <1>0, <1>1 DEF FirstAlloc, TypeOK, OwnedStaysLive
  <2>2. \A d \in Entities : root'[d] # Null => owner'[root'[d]] = d
    BY <1>0, <1>1 DEF FirstAlloc, TypeOK, OwnedStaysLive, Lists
  <2>3. Lists'
    BY <1>0, <1>1, <2>2 DEF FirstAlloc, TypeOK, Lists, Waiting
  <2> QED
    BY <2>1, <2>3 DEF EntityInv
<1>2. ASSUME NEW e \in Entities, NEW b \in Blocks, MoreAlloc(e, b) PROVE EntityInv'
  <2> DEFINE pushed == Pushed(next[root[e]], b)
  <2>1. /\ phase = "frame" /\ root[e] # Null /\ b \notin live /\ live' = live \cup {b}
        /\ next' = [next EXCEPT ![b] = pushed.next, ![root[e]] = pushed.head]
        /\ owner' = [owner EXCEPT ![b] = e]
        /\ UNCHANGED <<root, free_list, phase, curr_info, deletes, orphans, refreed>>
    BY <1>2 DEF MoreAlloc
  <2>2. pushed.head \in Blocks \cup {Null} /\ pushed.next \in Blocks \cup {Null}
    BY <1>0, <2>1, PushedType DEF TypeOK
  <2> HIDE DEF pushed
  <2>3. TypeOK' /\ OwnedStaysLive'
    BY <1>0, <2>1, <2>2 DEF TypeOK, OwnedStaysLive
  <2>4. root[e] \in Blocks /\ owner[root[e]] = e
    BY <1>0, <2>1 DEF TypeOK, Lists
  <2>5. \A d \in Entities : root[d] # Null => owner'[root[d]] = d
    BY <1>0, <2>1 DEF TypeOK, OwnedStaysLive, Lists
  <2>6. \A c \in live : Waiting(c) => Waiting(c)'
    BY <1>0, <2>1, <2>4 DEF TypeOK, Waiting
  <2>7. Lists'
    BY <1>0, <2>1, <2>5, <2>6 DEF TypeOK, Lists
  <2> QED
    BY <2>3, <2>7 DEF EntityInv
<1>3. ASSUME NEW e \in Entities, Delete(e) PROVE EntityInv'
  <2> DEFINE info == root[e]
             link == IF free_list = Null THEN Null ELSE info
  <2>1. phase = "frame" /\ info # Null
    BY <1>3 DEF Delete
  <2>2. info \in Blocks /\ owner[info] = e /\ info \in live
    BY <1>0, <2>1 DEF TypeOK, Lists, OwnedStaysLive
  <2>3. free_list # info
    BY <1>0, <2>1, <2>2 DEF Lists, Waiting
  <2>4. /\ free_list' = info /\ next' = [next EXCEPT ![info] = link]
        /\ root' = [root EXCEPT ![e] = Null] /\ deletes' = deletes + 1
        /\ owner' = [b \in Blocks |-> IF owner[b] = e THEN Null ELSE owner[b]]
        /\ UNCHANGED <<live, phase, curr_info, refreed>>
    BY <1>3, <2>1, <2>3, PushedOnto DEF Delete
  <2>5. link \in Blocks \cup {Null} /\ link = IF deletes' > 1 THEN info ELSE Null
    BY <1>0, <2>1, <2>2, <2>4 DEF Lists, TypeOK
  <2> HIDE DEF info, link
  <2>6. TypeOK' /\ OwnedStaysLive'
    BY <1>0, <2>2, <2>4, <2>5 DEF TypeOK, OwnedStaysLive
  <2>7. \A d \in Entities : root'[d] # Null => owner'[root'[d]] = d
    BY <1>0, <2>4 DEF TypeOK, Lists
  <2>8. owner'[info] = Null /\ next'[info] = link /\ info \in live' /\ deletes' > 0
    BY <1>0, <2>2, <2>4 DEF TypeOK
  <2>9. free_list' # Null /\ free_list' \in live' /\ Waiting(free_list)'
    BY <2>1, <2>4, <2>5, <2>8 DEF Waiting
  <2>10. ~refreed'
    BY <1>0, <2>1, <2>4 DEF Lists
  <2>11. Lists'
    BY <2>1, <2>4, <2>7, <2>8, <2>9, <2>10 DEF Lists, Waiting
  <2> QED
    BY <2>6, <2>11 DEF EntityInv
<1>4. CASE StartGC
  <2>1. /\ phase = "frame" /\ phase' = "gc" /\ curr_info' = free_list
        /\ UNCHANGED <<live, next, root, free_list, deletes, owner, refreed>>
    BY <1>4 DEF StartGC
  <2>2. TypeOK' /\ OwnedStaysLive'
    BY <1>0, <2>1 DEF TypeOK, OwnedStaysLive
  <2>3. Lists'
    BY <1>0, <2>1 DEF Lists, Waiting
  <2> QED
    BY <2>2, <2>3 DEF EntityInv
<1>5. CASE Collect
  <2>1. /\ phase = "gc" /\ curr_info # Null /\ curr_info \in Blocks /\ Waiting(curr_info)
        /\ live' = live \ {curr_info} /\ refreed' = (refreed \/ curr_info \notin live)
        /\ curr_info' = next[curr_info]
        /\ UNCHANGED <<next, root, free_list, phase, deletes, owner>>
    BY <1>0, <1>5 DEF Collect, TypeOK, Lists
  <2>2. OwnedStaysLive'
    BY <1>0, <2>1 DEF OwnedStaysLive, Waiting
  <2>3. TypeOK'
    BY <1>0, <2>1 DEF TypeOK
  <2>4. curr_info' = IF deletes > 1 THEN curr_info ELSE Null
    BY <2>1 DEF Waiting
  <2>5. curr_info' # Null => Waiting(curr_info)'
    BY <2>1, <2>4 DEF Waiting
  <2>6. refreed' => curr_info' # Null /\ deletes' > 1
    BY <1>0, <2>1, <2>4 DEF Lists, Waiting
  <2>7. Lists'
    BY <1>0, <2>1, <2>5, <2>6 DEF Lists
  <2> QED
    BY <2>2, <2>3, <2>7 DEF EntityInv
<1>6. CASE EndGC
  BY <1>0, <1>6 DEF EndGC, EntityInv, TypeOK, OwnedStaysLive, Lists
<1>7. CASE UNCHANGED vars
  BY <1>0, <1>7 DEF vars, EntityInv, TypeOK, OwnedStaysLive, Lists, Waiting
<1>8. \A bs \in kSubset(FirstAllocs, Blocks) : bs \in SUBSET Blocks
  BY DEF kSubset
<1> QED
  BY <1>1, <1>2, <1>3, <1>4, <1>5, <1>6, <1>7, <1>8 DEF Next

LEMMA EntitySpecInv == Spec => []EntityInv
  BY EntityInitInv, EntityNextInv, PTL DEF Spec

-----------------------------------------------------------------------------
(* No collection frees what vd_entity_alloc gave to an entity that still   *)
(* lives, however blocks were recycled in between and however many         *)
(* entities were deleted in a frame.                                       *)
THEOREM OwnedBlocksStay == Spec => []OwnedStaysLive
<1>1. EntityInv => OwnedStaysLive
  BY DEF EntityInv
<1> QED
  BY <1>1, EntitySpecInv, PTL

(* GarbageCollectTask frees a block again only in a frame that deleted     *)
(* several entities, and never leaves that frame.                          *)
THEOREM CollectorFreesOnce == Spec => []FreedTwiceOnlyInBurst
<1>1. EntityInv => FreedTwiceOnlyInBurst
  BY DEF EntityInv, Lists, FreedTwiceOnlyInBurst
<1> QED
  BY <1>1, EntitySpecInv, PTL

-----------------------------------------------------------------------------
(***************************************************************************)
(* For every heap size and every set of requests: the headers of the buddy *)
(* allocator tile the heap at every step, and no two allocations overlap.  *)
(*                                                                         *)
(* Neither is inductive.  Merging keeps the tiling only if the walk's      *)
(* second block really is the neighbour of the first (WalkInv); the block  *)
(* remembered as the best one must not be merged away by a later pass,     *)
(* which holds because the walk has left it behind (BestInv); and an       *)
(* allocation stays inside its block because no block in use is ever       *)
(* merged or split (GivenInv).                                             *)
(***************************************************************************)

WalkInv ==
  pc \in {"find", "coalesce"} =>
    block = Total \/ (block \in DOMAIN hdr /\ buddy = NextBlock(hdr, block))

BestInv ==
  /\ best # NoBlock => pc \in {"find", "split"} /\ best \in DOMAIN hdr /\ hdr[best].free
  /\ best # NoBlock /\ pc = "find" => best <= block
  /\ pc = "split" => best # NoBlock

WantInv ==
  pc # "idle" => want \in Sizes \cup {2 * Total} /\ req + 1 <= want /\ req \in Requests

GivenInv ==
  \A b \in DOMAIN given :
    /\ b \in DOMAIN hdr /\ ~hdr[b].free /\ given[b] + 1 <= hdr[b].size
    /\ given[b] \in Requests

HeapInv == HeapTypeOK /\ Tiled /\ WalkInv /\ BestInv /\ WantInv /\ GivenInv

-----------------------------------------------------------------------------
(* The sizes are positive and no larger than the heap. *)
LEMMA SizeFacts ==
  /\ Total \in Sizes /\ Total \in Nat /\ Total > 0
  /\ \A s \in Sizes : s \in Nat /\ s > 0 /\ s <= Total
  BY BuddyAllocAssumption

(* What a tiling gives: a block is not empty, its end is in the heap, and  *)
(* the block behind it, if there is one, is a block too.                   *)
LEMMA BlockFacts ==
  ASSUME NEW h, Headers(h), Tiles(h), NEW b \in DOMAIN h
  PROVE  /\ b \in Nat /\ h[b].size \in Sizes /\ h[b].size \in Nat /\ h[b].size > 0
         /\ h[b].free \in BOOLEAN
         /\ NextBlock(h, b) \in Nat /\ b < NextBlock(h, b) /\ NextBlock(h, b) <= Total
         /\ b < Total
         /\ NextBlock(h, b) < Total => NextBlock(h, b) \in DOMAIN h
  <1>1. Total \in Nat /\ Total > 0
    BY SizeFacts
  <1>2. b \in Nat /\ b <= Total /\ h[b].size \in Sizes /\ h[b].free \in BOOLEAN
    BY <1>1 DEF Headers, Addr
  <1>3. h[b].size \in Nat /\ h[b].size > 0
    BY <1>2, SizeFacts
  <1>4. NextBlock(h, b) \in DOMAIN h \cup {Total}
    BY DEF Tiles
  <1>5. \A c \in DOMAIN h : c \in Nat /\ c <= Total
    BY <1>1 DEF Headers, Addr
  <1>6. NextBlock(h, b) \in Nat /\ b < NextBlock(h, b) /\ NextBlock(h, b) <= Total
    BY <1>1, <1>2, <1>3, <1>4, <1>5 DEF NextBlock
  <1> QED
    BY <1>1, <1>2, <1>3, <1>4, <1>6

(* Merging a block with the free neighbour of its size keeps the tiling.   *)
LEMMA MergeTiles ==
  ASSUME Headers(hdr), Tiles(hdr), block \in DOMAIN hdr,
         buddy = NextBlock(hdr, block), buddy < Total, Mergeable
  PROVE  /\ Headers(Merged) /\ Tiles(Merged)
         /\ DOMAIN Merged = DOMAIN hdr \ {buddy} /\ block # buddy
         /\ \A b \in DOMAIN Merged :
              /\ Merged[b].free = hdr[b].free
              /\ b # block => Merged[b] = hdr[b]
         /\ Merged[block].size = 2 * hdr[block].size
         /\ NextBlock(Merged, block) = NextBlock(hdr, buddy)
         /\ block < buddy /\ buddy < NextBlock(hdr, buddy)
  <1> DEFINE s == hdr[block].size
  <1>1. buddy \in DOMAIN hdr /\ block < buddy
    BY BlockFacts
  <1>2. /\ block \in Nat /\ buddy \in Nat /\ s \in Nat /\ s > 0 /\ s \in Sizes
        /\ buddy = block + s /\ hdr[buddy].size = s
        /\ NextBlock(hdr, buddy) = buddy + s /\ buddy + s <= Total
        /\ Total \in Nat
    BY <1>1, BlockFacts, BuddyAllocAssumption DEF NextBlock, Mergeable
  <1>3. 2 * s \in Sizes
    BY <1>2, BuddyAllocAssumption
  <1>4. DOMAIN Merged = DOMAIN hdr \ {buddy}
    BY DEF Merged
  <1>5. \A b \in DOMAIN hdr : hdr[b] \in [size : Sizes, free : BOOLEAN]
    BY DEF Headers
  <1>6. \A b \in DOMAIN Merged :
          /\ Merged[b] \in [size : Sizes, free : BOOLEAN]
          /\ Merged[b].free = hdr[b].free
          /\ b # block => Merged[b] = hdr[b]
    BY <1>3, <1>5 DEF Merged
  <1>7. Merged[block].size = 2 * s
    BY <1>1, <1>2, <1>5 DEF Merged
  <1>8. Headers(Merged)
    <2>1. Merged = [b \in DOMAIN Merged |-> Merged[b]]
      BY DEF Merged
    <2> QED
      BY <2>1, <1>4, <1>6 DEF Headers
  <1>9. NextBlock(Merged, block) = NextBlock(hdr, buddy)
    BY <1>2, <1>7 DEF NextBlock
  <1>10. ASSUME NEW b \in DOMAIN Merged, b # block
         PROVE  NextBlock(Merged, b) = NextBlock(hdr, b) /\ NextBlock(hdr, b) # buddy
    <2>1. NextBlock(Merged, b) = NextBlock(hdr, b)
      BY <1>6, <1>10 DEF NextBlock
    <2>2. b \in DOMAIN hdr /\ b # buddy /\ b \in Nat
      BY <1>4, BlockFacts
    <2>3. CASE b < block
      BY <2>1, <2>2, <2>3, <1>1, <1>2 DEF Tiles
    <2>4. CASE block < b
      <3>0. NextBlock(hdr, block) <= b
        BY <2>2, <2>4 DEF Tiles
      <3>1. buddy <= b /\ buddy < b
        BY <3>0, <2>2, <1>2
      <3>2. b < NextBlock(hdr, b) /\ NextBlock(hdr, b) \in Nat
        BY <2>2, BlockFacts
      <3> QED
        BY <2>1, <2>2, <3>1, <3>2, <1>2
    <2> QED
      BY <2>1, <2>2, <2>3, <2>4, <1>2, <1>10
  <1>11. Tiles(Merged)
    <2>1. 0 \in DOMAIN Merged
      BY <1>1, <1>2, <1>4 DEF Tiles
    <2>2. ASSUME NEW b \in DOMAIN Merged
          PROVE  NextBlock(Merged, b) \in DOMAIN Merged \cup {Total}
      <3>1. CASE b = block
        BY <3>1, <1>1, <1>2, <1>4, <1>9 DEF Tiles
      <3>2. CASE b # block
        BY <3>2, <1>4, <1>10 DEF Tiles
      <3> QED
        BY <3>1, <3>2
    <2>3. ASSUME NEW b \in DOMAIN Merged, NEW c \in DOMAIN Merged, b < c
          PROVE  NextBlock(Merged, b) <= c
      <3>1. CASE b = block
        <4>1. c \in DOMAIN hdr /\ c # buddy /\ c \in Nat
          BY <1>4, BlockFacts
        <4>2. buddy <= c
          BY <4>1, <3>1, <2>3 DEF Tiles
        <4>3. buddy < c
          BY <4>1, <4>2, <1>2
        <4> QED
          BY <4>1, <4>3, <3>1, <1>1, <1>9 DEF Tiles
      <3>2. CASE b # block
        BY <3>2, <2>3, <1>4, <1>10 DEF Tiles
      <3> QED
        BY <3>1, <3>2
    <2> QED
      BY <2>1, <2>2, <2>3 DEF Tiles
  <1> QED
    BY <1>1, <1>2, <1>4, <1>6, <1>7, <1>8, <1>9, <1>11

(* Halving a block keeps the tiling: the new header lies where no header   *)
(* was.                                                                    *)
LEMMA SplitTiles ==
  ASSUME Headers(hdr), Tiles(hdr), NEW b \in DOMAIN hdr, NEW half \in Sizes,
         hdr[b].size = 2 * half
  PROVE  LET h == Halved(b, half)
         IN  /\ Headers(h) /\ Tiles(h)
             /\ DOMAIN h = DOMAIN hdr \cup {b + half}
             /\ h[b + half] = [size |-> half, free |-> TRUE]
             /\ \A c \in DOMAIN hdr : c # b + half /\ (c # b => h[c] = hdr[c])
  <1> DEFINE h == Halved(b, half)
             n == b + half
  <1>1. /\ b \in Nat /\ half \in Nat /\ half > 0 /\ n \in Nat /\ b < n
        /\ NextBlock(hdr, b) = n + half /\ n + half <= Total /\ Total \in Nat
    BY BlockFacts, SizeFacts DEF NextBlock
  <1>2. \A c \in DOMAIN hdr : c \in Nat /\ c # n /\ (b < c => n + half <= c)
    BY <1>1, BlockFacts DEF Tiles
  <1>3. DOMAIN h = DOMAIN hdr \cup {n}
    BY DEF Halved
  <1>4. \A c \in DOMAIN hdr : hdr[c] \in [size : Sizes, free : BOOLEAN]
    BY DEF Headers
  <1>5. /\ h[n] = [size |-> half, free |-> TRUE]
        /\ h[n] \in [size : Sizes, free : BOOLEAN]
    BY <1>1 DEF Halved
  <1>6. h[b].size = half /\ h[b] \in [size : Sizes, free : BOOLEAN]
    BY <1>4 DEF Halved
  <1>7. \A c \in DOMAIN hdr : c # b => h[c] = hdr[c]
    BY <1>2 DEF Halved
  <1>8. Headers(h)
    <2>1. h = [c \in DOMAIN h |-> h[c]]
      BY DEF Halved
    <2>2. \A c \in DOMAIN h : h[c] \in [size : Sizes, free : BOOLEAN]
      BY <1>3, <1>4, <1>5, <1>6, <1>7
    <2>3. DOMAIN h \subseteq Addr
      BY <1>1, <1>3 DEF Headers, Addr
    <2> QED
      BY <2>1, <2>2, <2>3 DEF Headers
  <1>9. NextBlock(h, b) = n /\ NextBlock(h, n) = NextBlock(hdr, b)
    BY <1>1, <1>5, <1>6 DEF NextBlock
  <1>10. \A c \in DOMAIN hdr : c # b => NextBlock(h, c) = NextBlock(hdr, c)
    BY <1>7 DEF NextBlock
  <1>11. Tiles(h)
    <2>1. 0 \in DOMAIN h
      BY <1>3 DEF Tiles
    <2>2. ASSUME NEW c \in DOMAIN h
          PROVE  NextBlock(h, c) \in DOMAIN h \cup {Total}
      BY <1>3, <1>9, <1>10 DEF Tiles
    <2>3. ASSUME NEW c \in DOMAIN h, NEW d \in DOMAIN h, c < d
          PROVE  NextBlock(h, c) <= d
      <3>1. CASE c = b
        BY <3>1, <2>3, <1>1, <1>2, <1>3, <1>9
      <3>2. CASE c = n
        BY <3>2, <2>3, <1>1, <1>2, <1>3, <1>9
      <3>3. CASE c # b /\ c # n /\ d = n
        <4>1. c \in DOMAIN hdr /\ c < b
          BY <3>3, <2>3, <1>1, <1>2, <1>3
        <4>2. NextBlock(hdr, c) <= b /\ NextBlock(hdr, c) \in Nat
          BY <4>1, BlockFacts DEF Tiles
        <4> QED
          BY <4>1, <4>2, <3>3, <1>1, <1>10
      <3>4. CASE c # b /\ c # n /\ d # n
        BY <3>4, <2>3, <1>3, <1>10 DEF Tiles
      <3> QED
        BY <3>1, <3>2, <3>3, <3>4
    <2> QED
      BY <2>1, <2>2, <2>3 DEF Tiles
  <1> QED
    BY <1>2, <1>3, <1>5, <1>7, <1>8, <1>11

-----------------------------------------------------------------------------
LEMMA HeapInitInv == HeapInit => HeapInv
  <1> SUFFICES ASSUME HeapInit PROVE HeapInv
    OBVIOUS
  <1>1. Headers(hdr)
    BY SizeFacts DEF HeapInit, Headers, Addr
  <1>2. Tiles(hdr)
    BY SizeFacts DEF HeapInit, Tiles, NextBlock
  <1>3. HeapTypeOK
    <2>1. DOMAIN given \subseteq DOMAIN hdr /\ given \in [DOMAIN given -> Nat]
      BY DEF HeapInit
    <2>2. 0 \in Addr
      BY SizeFacts DEF Addr
    <2>3. /\ pc = "idle" /\ req = 0 /\ want = 0 /\ block = 0 /\ buddy = 0
          /\ best = NoBlock /\ second = FALSE /\ merged = FALSE
      BY DEF HeapInit
    <2> QED
      BY <1>1, <2>1, <2>2, <2>3 DEF HeapTypeOK
  <1>4. WalkInv /\ BestInv /\ WantInv /\ GivenInv
    BY DEF HeapInit, WalkInv, BestInv, WantInv, GivenInv
  <1> QED
    BY <1>2, <1>3, <1>4 DEF HeapInv, Tiled

(* Where the walk goes is a pair of neighbours again, or the tail. *)
LEMMA GoToPair ==
  ASSUME NEW h, Headers(h), Tiles(h), NEW x \in DOMAIN h \cup {Total},
         buddy \in Addr, GoTo(h, x)
  PROVE  /\ block' = x /\ block' \in Addr /\ buddy' \in Addr
         /\ block' = Total \/ (block' \in DOMAIN h /\ buddy' = NextBlock(h, block'))
  <1>1. CASE x = Total
    BY <1>1, SizeFacts DEF GoTo, Addr
  <1>2. CASE x \in DOMAIN h
    <2>1. x < Total /\ x \in Nat /\ NextBlock(h, x) \in Nat /\ NextBlock(h, x) <= Total
      BY <1>2, BlockFacts
    <2> QED
      BY <1>2, <2>1, SizeFacts DEF GoTo, Addr
  <1> QED
    BY <1>1, <1>2

(* A find that starts leaves the rest of the call as it should be. *)
LEMMA StartFindInv ==
  ASSUME Headers(hdr), Tiles(hdr), buddy \in Addr, StartFind, UNCHANGED hdr
  PROVE  /\ pc' \in {"find", "split"} /\ block' \in Addr /\ buddy' \in Addr
         /\ best' \in DOMAIN hdr' \cup {NoBlock} /\ WalkInv' /\ BestInv'
  <1>1. 0 \in DOMAIN hdr /\ GoTo(hdr, 0)
    BY DEF Tiles, StartFind
  <1>2. /\ block' = 0 /\ block' \in Addr /\ buddy' \in Addr
        /\ block' = Total \/ (block' \in DOMAIN hdr /\ buddy' = NextBlock(hdr, block'))
    BY <1>1, GoToPair
  <1>3. 0 # NoBlock
    BY BuddyAllocAssumption
  <1>4. WalkInv'
    BY <1>2 DEF WalkInv, NextBlock
  <1>5. /\ pc' \in {"find", "split"} /\ BestInv' /\ best' \in DOMAIN hdr' \cup {NoBlock}
    BY <1>1, <1>3 DEF StartFind, BestInv
  <1> QED
    BY <1>2, <1>4, <1>5

(* Parts of the invariant that a step keeps when it leaves the heap alone. *)
LEMMA HeapSame ==
  ASSUME HeapInv, UNCHANGED <<hdr, given>>
  PROVE  /\ Headers(hdr)' /\ Tiled' /\ GivenInv'
         /\ DOMAIN given' \subseteq DOMAIN hdr' /\ given' \in [DOMAIN given' -> Nat]
  <1>1. Headers(hdr) /\ Tiles(hdr) /\ GivenInv /\ DOMAIN given \subseteq DOMAIN hdr
        /\ given \in [DOMAIN given -> Nat]
    BY DEF HeapInv, HeapTypeOK, Tiled
  <1>2. hdr' = hdr /\ given' = given
    OBVIOUS
  <1>3. Tiled'
    BY <1>1, <1>2 DEF Tiled, Tiles, NextBlock
  <1>4. Headers(hdr)'
    BY <1>1, <1>2 DEF Headers, Addr
  <1>5. GivenInv'
    BY <1>1, <1>2 DEF GivenInv
  <1> QED
    BY <1>1, <1>2, <1>3, <1>4, <1>5

(* What a merge in the middle of a walk leaves: a tiling without buddy in  *)
(* which every block in use is as before.                                  *)
LEMMA MergeInv ==
  ASSUME HeapInv, pc \in {"find", "coalesce"}, Walking, Mergeable,
         hdr' = Merged, given' = given
  PROVE  /\ Headers(hdr)' /\ Tiled' /\ GivenInv' /\ DOMAIN given' \subseteq DOMAIN hdr'
         /\ NextBlock(hdr', block) = NextBlock(hdr, buddy)
         /\ NextBlock(hdr, buddy) \in DOMAIN hdr' \cup {Total}
         /\ NextBlock(hdr, buddy) \in Nat /\ block < NextBlock(hdr, buddy)
         /\ block \in DOMAIN hdr' /\ hdr'[block].free /\ block \in Nat
         /\ \A b \in DOMAIN hdr : b <= block => b \in DOMAIN hdr' /\ hdr'[b].free = hdr[b].free
  <1>1. /\ Headers(hdr) /\ Tiles(hdr) /\ GivenInv
        /\ block \in DOMAIN hdr /\ buddy = NextBlock(hdr, block) /\ buddy < Total
        /\ block \in Nat /\ buddy \in Nat /\ Total \in Nat
    BY SizeFacts DEF HeapInv, HeapTypeOK, Tiled, Walking, WalkInv, Addr
  <1>2. /\ Headers(Merged) /\ Tiles(Merged)
        /\ DOMAIN Merged = DOMAIN hdr \ {buddy} /\ block # buddy
        /\ \A b \in DOMAIN Merged :
             /\ Merged[b].free = hdr[b].free
             /\ b # block => Merged[b] = hdr[b]
        /\ Merged[block].size = 2 * hdr[block].size
        /\ NextBlock(Merged, block) = NextBlock(hdr, buddy)
        /\ block < buddy /\ buddy < NextBlock(hdr, buddy)
    BY <1>1, MergeTiles
  <1>3. Headers(hdr') /\ Tiles(hdr')
    BY <1>2
  <1>4. Headers(hdr)' /\ Tiled'
    BY <1>3 DEF Headers, Tiled, Tiles, NextBlock, Addr
  <1>5. block \in DOMAIN hdr' /\ hdr'[block].free
    BY <1>1, <1>2 DEF Mergeable
  <1>6. /\ NextBlock(hdr', block) = NextBlock(hdr, buddy)
        /\ NextBlock(hdr, buddy) \in DOMAIN hdr' \cup {Total}
        /\ NextBlock(hdr, buddy) \in Nat /\ block < NextBlock(hdr, buddy)
    <2>1. NextBlock(hdr', block) = NextBlock(hdr, buddy)
      BY <1>2
    <2>2. /\ NextBlock(hdr', block) \in Nat /\ block < NextBlock(hdr', block)
          /\ NextBlock(hdr', block) \in DOMAIN hdr' \cup {Total}
      BY <1>3, <1>5, BlockFacts DEF Tiles
    <2> QED
      BY <2>1, <2>2
  <1>7. \A b \in DOMAIN hdr : b <= block => b \in DOMAIN hdr' /\ hdr'[b].free = hdr[b].free
    <2>1. ~(buddy <= block)
      BY <1>1, <1>2
    <2> QED
      BY <1>2, <2>1
  <1>8. ASSUME NEW b \in DOMAIN given
        PROVE  /\ b \in DOMAIN hdr' /\ ~hdr'[b].free /\ given[b] + 1 <= hdr'[b].size
               /\ given[b] \in Requests
    <2>1. /\ b \in DOMAIN hdr /\ ~hdr[b].free /\ given[b] + 1 <= hdr[b].size
          /\ given[b] \in Requests
      BY <1>1 DEF GivenInv
    <2>2. b # block /\ b # buddy
      BY <2>1 DEF Mergeable
    <2> QED
      BY <2>1, <2>2, <1>2
  <1>9. GivenInv' /\ DOMAIN given' \subseteq DOMAIN hdr'
    BY <1>8 DEF GivenInv
  <1> QED
    BY <1>1, <1>4, <1>5, <1>6, <1>7, <1>9

(* Every step keeps the invariant. *)
LEMMA HeapNextInv == HeapInv /\ [HeapNext]_heapVars => HeapInv'
  <1> SUFFICES ASSUME HeapInv, [HeapNext]_heapVars PROVE HeapInv'
    OBVIOUS
  <1>0. /\ HeapTypeOK /\ Tiled /\ WalkInv /\ BestInv /\ WantInv /\ GivenInv
        /\ Headers(hdr) /\ Tiles(hdr) /\ buddy \in Addr /\ block \in Addr
        /\ block \in Nat /\ buddy \in Nat /\ Total \in Nat
    BY SizeFacts DEF HeapInv, HeapTypeOK, Tiled, Addr
  <1>1. ASSUME NEW n \in Requests, Alloc(n) PROVE HeapInv'
    <2>1. hdr' = hdr /\ given' = given /\ merged' = merged /\ second' = FALSE /\ StartFind
      BY <1>1 DEF Alloc
    <2>2. /\ pc' \in {"find", "split"} /\ block' \in Addr /\ buddy' \in Addr
          /\ best' \in DOMAIN hdr' \cup {NoBlock} /\ WalkInv' /\ BestInv'
      BY <1>0, <2>1, StartFindInv
    <2>3. /\ req' \in Nat /\ want' \in Nat /\ WantInv'
      BY <1>1, SizeFacts, BuddyAllocAssumption DEF Alloc, WantInv, SizeReq
    <2> QED
      BY <1>0, <2>1, <2>2, <2>3, HeapSame DEF HeapInv, HeapTypeOK
  <1>2. CASE FindMerge
    <2>1. /\ pc = "find" /\ Walking /\ Mergeable /\ hdr' = Merged
          /\ pc' = pc /\ req' = req /\ want' = want /\ second' = second
          /\ merged' = merged /\ given' = given /\ best' \in {best, block}
          /\ GoTo(hdr', NextBlock(hdr, buddy))
      BY <1>2 DEF FindMerge
    <2>2. /\ Headers(hdr)' /\ Tiled' /\ GivenInv' /\ DOMAIN given' \subseteq DOMAIN hdr'
          /\ NextBlock(hdr, buddy) \in DOMAIN hdr' \cup {Total}
          /\ NextBlock(hdr, buddy) \in Nat /\ block < NextBlock(hdr, buddy)
          /\ block \in DOMAIN hdr' /\ hdr'[block].free
          /\ \A b \in DOMAIN hdr : b <= block => b \in DOMAIN hdr' /\ hdr'[b].free = hdr[b].free
      BY <2>1, MergeInv
    <2>3. Headers(hdr') /\ Tiles(hdr')
      BY <2>2 DEF Headers, Tiled, Tiles, NextBlock, Addr
    <2>4. /\ block' = NextBlock(hdr, buddy) /\ block' \in Addr /\ buddy' \in Addr
          /\ block' = Total \/ (block' \in DOMAIN hdr' /\ buddy' = NextBlock(hdr', block'))
      BY <1>0, <2>1, <2>2, <2>3, GoToPair
    <2>5. best # NoBlock => best \in DOMAIN hdr' /\ hdr'[best].free /\ best \in Nat /\ best <= block
      BY <1>0, <2>1, <2>2, BlockFacts DEF BestInv
    <2>6. BestInv' /\ best' \in DOMAIN hdr' \cup {NoBlock}
      BY <1>0, <2>1, <2>2, <2>4, <2>5 DEF BestInv
    <2>7. WalkInv' /\ WantInv'
      BY <1>0, <2>1, <2>4 DEF WalkInv, NextBlock, WantInv
    <2> QED
      BY <1>0, <2>1, <2>2, <2>4, <2>6, <2>7 DEF HeapInv, HeapTypeOK
  <1>3. CASE FindPass
    <2>1. /\ pc = "find" /\ Walking /\ hdr' = hdr /\ given' = given
          /\ pc' = pc /\ req' = req /\ want' = want /\ second' = second
          /\ merged' = merged
          /\ \E x \in {buddy, NextBlock(hdr, buddy)} : GoTo(hdr, x)
      BY <1>3 DEF FindPass
    <2>2. /\ block \in DOMAIN hdr /\ buddy \in DOMAIN hdr /\ block < buddy
          /\ NextBlock(hdr, buddy) \in DOMAIN hdr \cup {Total}
          /\ NextBlock(hdr, buddy) \in Nat /\ buddy < NextBlock(hdr, buddy)
      <3>1. block \in DOMAIN hdr /\ buddy = NextBlock(hdr, block) /\ buddy < Total
        BY <1>0, <2>1 DEF WalkInv, Walking
      <3>2. buddy \in DOMAIN hdr /\ block < buddy
        BY <1>0, <3>1, BlockFacts
      <3> QED
        BY <1>0, <3>1, <3>2, BlockFacts DEF Tiles
    <2>3. /\ block' \in Nat /\ buddy <= block' /\ block' \in Addr /\ buddy' \in Addr
          /\ block' = Total \/ (block' \in DOMAIN hdr /\ buddy' = NextBlock(hdr, block'))
      <3>1. PICK x \in {buddy, NextBlock(hdr, buddy)} : GoTo(hdr, x)
        BY <2>1
      <3>2. x \in DOMAIN hdr \cup {Total} /\ x \in Nat /\ buddy <= x
        BY <1>0, <2>2, <3>1
      <3> QED
        BY <1>0, <3>1, <3>2, GoToPair
    <2>4. best' # NoBlock => best' \in DOMAIN hdr /\ hdr[best'].free /\ best' \in Nat /\ best' <= buddy
      <3>1. \/ best' = best
            \/ best' = block /\ hdr[block].free
            \/ best' = buddy /\ hdr[buddy].free
        BY <1>3 DEF FindPass, Fits
      <3>2. best # NoBlock => best \in DOMAIN hdr /\ hdr[best].free /\ best \in Nat /\ best <= block
        BY <1>0, <2>1, BlockFacts DEF BestInv
      <3> QED
        BY <1>0, <2>2, <3>1, <3>2
    <2>5. BestInv' /\ best' \in DOMAIN hdr' \cup {NoBlock}
      BY <1>0, <2>1, <2>3, <2>4 DEF BestInv
    <2>6. WalkInv' /\ WantInv'
      BY <1>0, <2>1, <2>3 DEF WalkInv, NextBlock, WantInv
    <2> QED
      BY <1>0, <2>1, <2>3, <2>5, <2>6, HeapSame DEF HeapInv, HeapTypeOK
  <1>4. ASSUME StartCoalescence, UNCHANGED <<hdr, req, want, given>>, pc # "idle",
               best' = NoBlock, second' = second
        PROVE  HeapInv'
    <2>1. pc' = "coalesce" /\ merged' = FALSE /\ GoTo(hdr, 0) /\ 0 \in DOMAIN hdr
      BY <1>0, <1>4 DEF StartCoalescence, Tiles
    <2>2. /\ block' \in Addr /\ buddy' \in Addr
          /\ block' = Total \/ (block' \in DOMAIN hdr /\ buddy' = NextBlock(hdr, block'))
      BY <1>0, <2>1, GoToPair
    <2>3. WalkInv' /\ WantInv' /\ BestInv'
      BY <1>0, <1>4, <2>1, <2>2 DEF WalkInv, NextBlock, WantInv, BestInv
    <2> QED
      BY <1>0, <1>4, <2>1, <2>2, <2>3, HeapSame DEF HeapInv, HeapTypeOK
  <1>5. CASE FindEnd
    <2>1. CASE best # NoBlock
      <3>1. /\ pc = "find" /\ pc' = "split" /\ UNCHANGED <<hdr, req, want, block, buddy, best,
                                                 second, merged, given>>
        BY <1>5, <2>1 DEF FindEnd
      <3>2. WalkInv' /\ WantInv' /\ BestInv'
        BY <1>0, <2>1, <3>1 DEF WalkInv, WantInv, BestInv
      <3> QED
        BY <1>0, <3>1, <3>2, HeapSame DEF HeapInv, HeapTypeOK
    <2>2. CASE best = NoBlock /\ ~second
      BY <1>4, <1>5, <2>2 DEF FindEnd
    <2>3. CASE best = NoBlock /\ second
      <3>1. /\ pc = "find" /\ pc' = "failed" /\ UNCHANGED <<hdr, req, want, block, buddy, best,
                                                 second, merged, given>>
        BY <1>5, <2>3 DEF FindEnd
      <3>2. WalkInv' /\ WantInv' /\ BestInv'
        BY <1>0, <2>3, <3>1 DEF WalkInv, WantInv, BestInv
      <3> QED
        BY <1>0, <3>1, <3>2, HeapSame DEF HeapInv, HeapTypeOK
    <2> QED
      BY <1>0, <2>1, <2>2, <2>3 DEF HeapTypeOK
  <1>6. CASE Split
    <2> DEFINE half == hdr[best].size \div 2
    <2>1. /\ pc = "split" /\ want < hdr[best].size /\ hdr' = Halved(best, half)
          /\ best' = best + half /\ pc' = pc /\ req' = req /\ want' = want
          /\ block' = block /\ buddy' = buddy /\ second' = second /\ merged' = merged
          /\ given' = given
      BY <1>6 DEF Split
    <2>2. best \in DOMAIN hdr /\ hdr[best].free
      BY <1>0, <2>1 DEF BestInv
    <2>3. /\ hdr[best].size \in Sizes /\ hdr[best].size <= Total /\ best \in Nat
          /\ hdr[best].size \in Nat
      BY <1>0, <2>2, BlockFacts, SizeFacts
    <2>4. want \in Sizes
      <3>1. want \in Sizes \cup {2 * Total}
        BY <1>0, <2>1 DEF WantInv
      <3>2. want # 2 * Total
        <4>1. want \in Nat
          BY <1>0 DEF HeapTypeOK
        <4> QED
          BY <4>1, <1>0, <2>1, <2>3, SizeFacts
      <3> QED
        BY <3>1, <3>2
    <2>5. \E x \in Sizes : hdr[best].size = 2 * x
      BY <2>1, <2>3, <2>4, BuddyAllocAssumption
    <2>6. half \in Sizes /\ hdr[best].size = 2 * half
      <3>1. PICK x \in Sizes : hdr[best].size = 2 * x
        BY <2>5
      <3>2. x \in Nat
        BY SizeFacts
      <3>3. (2 * x) \div 2 = x
        BY <3>2
      <3> QED
        BY <3>1, <3>3
    <2>7. /\ Headers(hdr') /\ Tiles(hdr')
          /\ DOMAIN hdr' = DOMAIN hdr \cup {best + half}
          /\ hdr'[best + half] = [size |-> half, free |-> TRUE]
          /\ \A c \in DOMAIN hdr : c # best + half /\ (c # best => hdr'[c] = hdr[c])
      <3> HIDE DEF half
      <3> QED
        BY <1>0, <2>1, <2>2, <2>6, SplitTiles
    <2>8. Headers(hdr)' /\ Tiled'
      BY <2>7 DEF Headers, Tiled, Tiles, NextBlock, Addr
    <2>9. best' \in DOMAIN hdr' /\ hdr'[best'].free /\ BestInv'
      <3>1. best' \in DOMAIN hdr' /\ hdr'[best'].free
        BY <2>1, <2>7
      <3>2. best' # NoBlock
        BY <2>8, <3>1, BuddyAllocAssumption DEF Headers, Addr
      <3> QED
        BY <2>1, <3>1, <3>2 DEF BestInv
    <2>10. ASSUME NEW b \in DOMAIN given
           PROVE  /\ b \in DOMAIN hdr' /\ ~hdr'[b].free /\ given[b] + 1 <= hdr'[b].size
                  /\ given[b] \in Requests
      BY <1>0, <2>2, <2>7 DEF GivenInv
    <2>11. GivenInv' /\ DOMAIN given' \subseteq DOMAIN hdr'
      BY <2>1, <2>10 DEF GivenInv
    <2>12. WalkInv' /\ WantInv'
      BY <1>0, <2>1 DEF WalkInv, WantInv
    <2> QED
      BY <1>0, <2>1, <2>8, <2>9, <2>11, <2>12 DEF HeapInv, HeapTypeOK
  <1>7. ASSUME Return
        PROVE  /\ pc' = "idle" /\ req' \in Nat /\ want' \in Nat /\ block' \in Addr
               /\ buddy' \in Addr /\ best' = NoBlock /\ second' \in BOOLEAN
               /\ merged' \in BOOLEAN /\ WalkInv' /\ BestInv' /\ WantInv'
    <2>1. 0 \in Addr
      BY <1>0 DEF Addr
    <2> QED
      BY <1>7, <2>1 DEF Return, WalkInv, BestInv, WantInv
  <1>8. CASE Found
    <2>1. /\ pc = "split" /\ want = hdr[best].size /\ Return
          /\ hdr' = [hdr EXCEPT ![best].free = FALSE]
          /\ given' = [b \in DOMAIN given \cup {best} |-> IF b = best THEN req ELSE given[b]]
      BY <1>8 DEF Found
    <2>2. best \in DOMAIN hdr /\ req + 1 <= hdr[best].size /\ req \in Requests
      BY <1>0, <2>1 DEF BestInv, WantInv
    <2>3. /\ DOMAIN hdr' = DOMAIN hdr
          /\ \A b \in DOMAIN hdr : hdr'[b].size = hdr[b].size /\ (b # best => hdr'[b] = hdr[b])
          /\ hdr'[best].free = FALSE
      BY <1>0, <2>1, <2>2 DEF Headers
    <2>4. Headers(hdr)'
      BY <1>0, <2>1, <2>2 DEF Headers, Addr
    <2>5. Tiled'
      BY <1>0, <2>3 DEF Tiles, Tiled, NextBlock
    <2>6. /\ DOMAIN given' = DOMAIN given \cup {best} /\ given'[best] = req
          /\ \A b \in DOMAIN given : b # best => given'[b] = given[b]
      BY <2>1
    <2>7. GivenInv'
      BY <1>0, <2>2, <2>3, <2>6 DEF GivenInv
    <2>8. DOMAIN given' \subseteq DOMAIN hdr' /\ given' \in [DOMAIN given' -> Nat]
      BY <1>0, <2>1, <2>2, <2>3, <2>6 DEF HeapTypeOK
    <2> QED
      BY <1>7, <2>1, <2>4, <2>5, <2>7, <2>8 DEF HeapInv, HeapTypeOK
  <1>9. CASE SplitFails
    <2>1. CASE ~second
      BY <1>4, <1>9, <2>1 DEF SplitFails
    <2>2. CASE second
      <3>1. /\ pc = "split" /\ pc' = "failed" /\ best' = NoBlock
            /\ UNCHANGED <<hdr, req, want, block, buddy, second, merged, given>>
        BY <1>9, <2>2 DEF SplitFails
      <3>2. WalkInv' /\ WantInv' /\ BestInv'
        BY <1>0, <3>1 DEF WalkInv, WantInv, BestInv
      <3> QED
        BY <1>0, <3>1, <3>2, HeapSame DEF HeapInv, HeapTypeOK
    <2> QED
      BY <1>0, <2>1, <2>2 DEF HeapTypeOK
  <1>10. CASE Coalesce
    <2>1. /\ pc = "coalesce" /\ Walking /\ pc' = pc /\ req' = req /\ want' = want
          /\ best' = best /\ second' = second /\ given' = given /\ best = NoBlock
      BY <1>0, <1>10 DEF Coalesce, BestInv
    <2>2. CASE Mergeable
      <3>1. hdr' = Merged /\ GoTo(hdr', NextBlock(hdr', block)) /\ merged' \in BOOLEAN
        BY <1>0, <1>10, <2>2 DEF Coalesce, HeapTypeOK
      <3>2. /\ Headers(hdr)' /\ Tiled' /\ GivenInv' /\ DOMAIN given' \subseteq DOMAIN hdr'
            /\ NextBlock(hdr', block) \in DOMAIN hdr' \cup {Total}
        BY <2>1, <2>2, <3>1, MergeInv
      <3>3. Headers(hdr') /\ Tiles(hdr')
        BY <3>2 DEF Headers, Tiled, Tiles, NextBlock, Addr
      <3>4. /\ block' \in Addr /\ buddy' \in Addr
            /\ block' = Total \/ (block' \in DOMAIN hdr' /\ buddy' = NextBlock(hdr', block'))
        BY <1>0, <3>1, <3>2, <3>3, GoToPair
      <3>5. WalkInv' /\ WantInv' /\ BestInv'
        BY <1>0, <2>1, <3>4 DEF WalkInv, NextBlock, WantInv, BestInv
      <3> QED
        BY <1>0, <2>1, <3>1, <3>2, <3>4, <3>5 DEF HeapInv, HeapTypeOK
    <2>3. CASE ~Mergeable
      <3>1. /\ hdr' = hdr /\ merged' = merged
            /\ \E x \in {buddy, NextBlock(hdr, buddy)} : GoTo(hdr, x)
        BY <1>10, <2>3 DEF Coalesce
      <3>2. buddy \in DOMAIN hdr /\ NextBlock(hdr, buddy) \in DOMAIN hdr \cup {Total}
        <4>1. block \in DOMAIN hdr /\ buddy = NextBlock(hdr, block) /\ buddy < Total
          BY <1>0, <2>1 DEF WalkInv, Walking
        <4>2. buddy \in DOMAIN hdr
          BY <1>0, <4>1, BlockFacts
        <4> QED
          BY <1>0, <4>2 DEF Tiles
      <3>3. PICK x \in {buddy, NextBlock(hdr, buddy)} : GoTo(hdr, x)
        BY <3>1
      <3>4. /\ block' \in Addr /\ buddy' \in Addr
            /\ block' = Total \/ (block' \in DOMAIN hdr /\ buddy' = NextBlock(hdr, block'))
        BY <1>0, <3>2, <3>3, GoToPair
      <3>5. WalkInv' /\ WantInv' /\ BestInv'
        BY <1>0, <2>1, <3>1, <3>4 DEF WalkInv, NextBlock, WantInv, BestInv
      <3> QED
        BY <1>0, <2>1, <3>1, <3>4, <3>5, HeapSame DEF HeapInv, HeapTypeOK
    <2> QED
      BY <2>2, <2>3
  <1>11. CASE CoalesceEnd
    <2>1. pc = "coalesce" /\ UNCHANGED <<hdr, req, want, given>> /\ best = NoBlock
      BY <1>0, <1>11 DEF CoalesceEnd, BestInv
    <2>2. CASE merged
      BY <1>4, <1>11, <2>1, <2>2 DEF CoalesceEnd
    <2>3. CASE ~merged
      <3>1. StartFind /\ second' = TRUE /\ merged' = merged
        BY <1>11, <2>3 DEF CoalesceEnd
      <3>2. /\ pc' \in {"find", "split"} /\ block' \in Addr /\ buddy' \in Addr
            /\ best' \in DOMAIN hdr' \cup {NoBlock} /\ WalkInv' /\ BestInv'
        BY <1>0, <2>1, <3>1, StartFindInv
      <3>3. WantInv'
        BY <1>0, <2>1 DEF WantInv
      <3> QED
        BY <1>0, <2>1, <3>1, <3>2, <3>3, HeapSame DEF HeapInv, HeapTypeOK
    <2> QED
      BY <1>0, <2>2, <2>3 DEF HeapTypeOK
  <1>12. CASE GiveUp
    <2>1. Return /\ UNCHANGED <<hdr, given>>
      BY <1>12 DEF GiveUp
    <2> QED
      BY <1>7, <2>1, HeapSame DEF HeapInv, HeapTypeOK
  <1>13. ASSUME NEW b \in Addr, Free(b) PROVE HeapInv'
    <2>1. /\ pc = "idle" /\ b \in DOMAIN given /\ hdr' = [hdr EXCEPT ![b].free = TRUE]
          /\ given' = [c \in DOMAIN given \ {b} |-> given[c]]
          /\ UNCHANGED <<pc, req, want, block, buddy, best, second, merged>>
      BY <1>13 DEF Free, walk
    <2>2. b \in DOMAIN hdr
      BY <1>0, <2>1 DEF GivenInv
    <2>3. /\ DOMAIN hdr' = DOMAIN hdr
          /\ \A c \in DOMAIN hdr : hdr'[c].size = hdr[c].size /\ (c # b => hdr'[c] = hdr[c])
      BY <1>0, <2>1, <2>2 DEF Headers
    <2>4. Headers(hdr)'
      BY <1>0, <2>1, <2>2 DEF Headers, Addr
    <2>5. Tiled'
      BY <1>0, <2>3 DEF Tiles, Tiled, NextBlock
    <2>6. DOMAIN given' = DOMAIN given \ {b} /\ \A c \in DOMAIN given' : given'[c] = given[c]
      BY <2>1
    <2>7. GivenInv'
      BY <1>0, <2>3, <2>6 DEF GivenInv
    <2>8. DOMAIN given' \subseteq DOMAIN hdr' /\ given' \in [DOMAIN given' -> Nat]
      BY <1>0, <2>1, <2>3, <2>6 DEF HeapTypeOK
    <2>9. WalkInv' /\ WantInv' /\ BestInv' /\ best = NoBlock
      BY <1>0, <2>1 DEF WalkInv, WantInv, BestInv
    <2> QED
      BY <1>0, <2>1, <2>4, <2>5, <2>7, <2>8, <2>9 DEF HeapInv, HeapTypeOK
  <1>14. CASE UNCHANGED heapVars
    <2>1. WalkInv' /\ WantInv' /\ BestInv'
      BY <1>0, <1>14 DEF heapVars, WalkInv, WantInv, BestInv, NextBlock
    <2> QED
      BY <1>0, <1>14, <2>1, HeapSame DEF heapVars, HeapInv, HeapTypeOK
  <1> QED
    BY <1>1, <1>2, <1>3, <1>5, <1>6, <1>8, <1>9, <1>10, <1>11, <1>12, <1>13, <1>14
    DEF HeapNext, Walk

-----------------------------------------------------------------------------
(* The types are kept in every heap: no walk of find, split or coalescence *)
(* leaves the heap, and sizes stay powers of two.                          *)
THEOREM HeapTypeCorrect == HeapSpec => []HeapTypeOK
  <1>1. HeapInv => HeapTypeOK
    BY DEF HeapInv
  <1> QED
    BY HeapInitInv, HeapNextInv, <1>1, PTL DEF HeapSpec

(* The headers tile the heap at every step of every call of                *)
(* vd_buddy_alloc_realloc, for every heap size and every requests.         *)
THEOREM HeapStaysTiled == HeapSpec => []Tiled
  <1>1. HeapInv => Tiled
    BY DEF HeapInv
  <1> QED
    BY HeapInitInv, HeapNextInv, <1>1, PTL DEF HeapSpec

(* Blocks in use are apart, header and payload, and inside the heap. *)
LEMMA InUseApart == HeapInv => NoOverlap
  <1> SUFFICES ASSUME HeapInv, NEW b \in DOMAIN given
               PROVE  /\ b + given[b] < Total
                      /\ \A c \in DOMAIN hdr : b < c => b + given[b] < c
    BY DEF NoOverlap
  <1>1. Headers(hdr) /\ Tiles(hdr) /\ b \in DOMAIN hdr /\ given[b] \in Nat
        /\ given[b] + 1 <= hdr[b].size /\ Total \in Nat
    BY SizeFacts DEF HeapInv, HeapTypeOK, Tiled, GivenInv
  <1>2. /\ b \in Nat /\ hdr[b].size \in Nat /\ NextBlock(hdr, b) <= Total
        /\ NextBlock(hdr, b) = b + hdr[b].size
    BY <1>1, BlockFacts DEF NextBlock
  <1>3. ASSUME NEW c \in DOMAIN hdr, b < c PROVE b + given[b] < c
    <2>1. NextBlock(hdr, b) <= c /\ c \in Nat
      BY <1>1, <1>3, BlockFacts DEF Tiles
    <2> QED
      BY <1>1, <1>2, <2>1
  <1> QED
    BY <1>1, <1>2, <1>3

(* What Found hands out is a new block, apart from those in use. *)
LEMMA FoundGives ==
  ASSUME HeapInv, Found
  PROVE  Heap!Next
  <1> DEFINE new == [at |-> best, size |-> 1 + req]
  <1>1. /\ best \in DOMAIN hdr /\ hdr[best].free /\ best \in Addr
        /\ best \notin DOMAIN given /\ req \in Nat
    BY DEF HeapInv, BestInv, GivenInv, HeapTypeOK, Headers, Found
  <1>2. /\ DOMAIN given' = DOMAIN given \cup {best}
        /\ given'[best] = req
        /\ \A b \in DOMAIN given : given'[b] = given[b]
    BY <1>1 DEF Found
  <1>3. {InUse(b) : b \in DOMAIN given}' = {InUse(b) : b \in DOMAIN given} \cup {new}
    BY <1>1, <1>2 DEF InUse
  <1>4. ASSUME NEW b \in DOMAIN given
        PROVE  Heap!Apart(new, InUse(b))
    <2>1. /\ b \in Nat /\ best \in Nat /\ given[b] \in Nat /\ b # best
      BY <1>1, SizeFacts DEF HeapInv, HeapTypeOK, Headers, Addr
    <2>2. b < best => b + given[b] < best
      BY <1>1, InUseApart DEF NoOverlap
    <2>3. best < b => best + req < b
      <3>1. /\ req + 1 <= hdr[best].size /\ b \in DOMAIN hdr
            /\ hdr[best].size \in Nat
        BY <1>1, BlockFacts DEF HeapInv, Found, WantInv, GivenInv, HeapTypeOK, Tiled
      <3>2. best < b => best + hdr[best].size <= b
        BY <1>1, <3>1 DEF HeapInv, Tiled, Tiles, NextBlock
      <3> QED
        BY <1>1, <2>1, <3>1, <3>2
    <2> QED
      BY <1>1, <2>1, <2>2, <2>3 DEF Heap!Apart, InUse
  <1>5. req \in Requests
    BY DEF HeapInv, WantInv, Found
  <1> QED
    BY <1>1, <1>3, <1>4, <1>5 DEF Heap!Next, Heap!Give

(* Free takes back one block, and no other is lost with it. *)
LEMMA FreeTakesBack ==
  ASSUME HeapInv, NEW b \in Addr, Free(b)
  PROVE  Heap!Next
  <1>1. /\ b \in DOMAIN given /\ DOMAIN given' = DOMAIN given \ {b}
        /\ \A c \in DOMAIN given' : given'[c] = given[c]
    BY DEF Free
  <1>2. {InUse(c) : c \in DOMAIN given}' = {InUse(c) : c \in DOMAIN given} \ {InUse(b)}
    BY <1>1 DEF InUse
  <1>3. InUse(b) \in [at : Addr, size : {1 + n : n \in Requests}]
    BY <1>1 DEF HeapInv, GivenInv, InUse
  <1> QED
    BY <1>1, <1>2, <1>3 DEF Heap!Next, Heap!TakeBack

(* No two allocations of vd_buddy_alloc_realloc overlap, and none reaches  *)
(* into a header, for every heap size and every requests.                  *)
THEOREM AllocationsDisjoint == HeapSpec => []NoOverlap
  <1>1. HeapInv => NoOverlap
    BY InUseApart
  <1> QED
    BY HeapInitInv, HeapNextInv, <1>1, PTL DEF HeapSpec

(* The heap implements the abstract allocator, for every heap size and     *)
(* every requests: vd_buddy_alloc_realloc hands out blocks that overlap    *)
(* none in use, and nothing but freeing a block takes it back.             *)
THEOREM HeapImplementsAllocator == HeapSpec => HeapIsAllocator
  <1> DEFINE used == {InUse(b) : b \in DOMAIN given}
  <1>1. HeapInit => Heap!Init
    BY DEF HeapInit, Heap!Init
  <1>2. HeapInv /\ [HeapNext]_heapVars => [Heap!Next]_used
    <2> SUFFICES ASSUME HeapInv, [HeapNext]_heapVars
                 PROVE  Heap!Next \/ UNCHANGED used
      OBVIOUS
    <2>1. CASE Found
      BY <2>1, FoundGives
    <2>2. ASSUME NEW b \in Addr, Free(b) PROVE Heap!Next
      BY <2>2, FreeTakesBack
    <2>3. ASSUME UNCHANGED given PROVE UNCHANGED used
      BY <2>3 DEF InUse
    <2> QED
      BY <2>1, <2>2, <2>3
      DEF HeapNext, Walk, Alloc, FindMerge, FindPass, FindEnd, Split, SplitFails,
          Coalesce, CoalesceEnd, GiveUp, heapVars
  <1> QED
    BY HeapInitInv, HeapNextInv, <1>1, <1>2, PTL DEF HeapSpec, HeapIsAllocator, Heap!Spec

-----------------------------------------------------------------------------
(* What a search has behind it, and that a block it found is large enough. *)
Searched ==
  /\ pc = "find" /\ best = NoBlock =>
       \A b \in DOMAIN hdr : b < block => ~Fits(hdr, b)
  /\ pc = "find" /\ best # NoBlock => want <= hdr[best].size
  /\ pc = "split" => want <= hdr[best].size \/ DOMAIN hdr = {best}
  /\ OnlyLastIsMissed

(* A search begins with nothing behind it, or with the only block there is.*)
LEMMA StartFindSearched ==
  ASSUME HeapInv, StartFind, UNCHANGED hdr
  PROVE  Searched'
  <1>1. Headers(hdr) /\ Tiles(hdr) /\ 0 \in DOMAIN hdr
    BY DEF HeapInv, HeapTypeOK, Tiled, Tiles
  <1>2. \A b \in DOMAIN hdr : b \in Nat /\ b < Total /\ b # NoBlock
    BY <1>1, BlockFacts, BuddyAllocAssumption
  <1>3. /\ block' = 0 /\ buddy' = NextBlock(hdr, 0)
        /\ \/ pc' = "split" /\ best' = 0 /\ buddy' = Total
           \/ pc' = "find" /\ best' = NoBlock
    BY <1>1, <1>2 DEF StartFind, GoTo
  <1>4. buddy' = Total => DOMAIN hdr = {0}
    <2>1. \A c \in DOMAIN hdr : 0 < c => NextBlock(hdr, 0) <= c
      BY <1>1 DEF Tiles
    <2>2. ASSUME buddy' = Total, NEW c \in DOMAIN hdr PROVE c = 0
      BY <1>2, <1>3, <2>1, <2>2, SizeFacts
    <2> QED
      BY <1>1, <2>2
  <1>5. \A b \in DOMAIN hdr : ~(b < 0)
    BY <1>2
  <1> QED
    BY <1>3, <1>4, <1>5 DEF Searched, OnlyLastIsMissed

LEMMA SearchedNext == HeapInv /\ Searched /\ [HeapNext]_heapVars => Searched'
  <1> SUFFICES ASSUME HeapInv, Searched, [HeapNext]_heapVars PROVE Searched'
    OBVIOUS
  <1>0. /\ HeapTypeOK /\ WalkInv /\ BestInv /\ WantInv /\ Headers(hdr) /\ Tiles(hdr)
        /\ block \in Nat /\ buddy \in Nat /\ Total \in Nat /\ NoBlock \notin Nat
    BY SizeFacts, BuddyAllocAssumption DEF HeapInv, HeapTypeOK, Tiled, Addr
  <1>1. \A b \in DOMAIN hdr : /\ b \in Nat /\ b < Total /\ b # NoBlock
                              /\ hdr[b].size \in Nat /\ hdr[b].size > 0
    BY <1>0, BlockFacts
  <1>2. ASSUME pc' \in {"idle", "coalesce"} PROVE Searched'
    BY <1>2 DEF Searched, OnlyLastIsMissed
  <1>3. pc = "find" /\ Walking =>
          /\ block \in DOMAIN hdr /\ buddy \in DOMAIN hdr /\ block < buddy
          /\ buddy = NextBlock(hdr, block)
    <2>1. pc = "find" /\ Walking =>
            block \in DOMAIN hdr /\ buddy = NextBlock(hdr, block) /\ buddy < Total
      BY <1>0 DEF WalkInv, Walking
    <2> QED
      BY <1>0, <2>1, BlockFacts
  <1>4. ASSUME NEW n \in Requests, Alloc(n) PROVE Searched'
    BY <1>4, StartFindSearched DEF Alloc
  <1>5. CASE FindMerge
    <2>1. /\ pc = "find" /\ Walking /\ Mergeable /\ hdr' = Merged /\ pc' = pc /\ want' = want
          /\ best' = IF Fits(hdr', block)
                          /\ (best = NoBlock \/ hdr'[block].size <= hdr'[best].size)
                       THEN block ELSE best
          /\ GoTo(hdr', NextBlock(hdr, buddy))
      BY <1>5 DEF FindMerge
    <2>2. /\ Headers(Merged) /\ Tiles(Merged)
          /\ DOMAIN Merged = DOMAIN hdr \ {buddy} /\ block # buddy
          /\ \A b \in DOMAIN Merged : b # block => Merged[b] = hdr[b]
          /\ Merged[block].size = 2 * hdr[block].size
          /\ NextBlock(Merged, block) = NextBlock(hdr, buddy)
      BY <1>0, <1>3, <2>1, MergeTiles DEF Walking
    <2>3. block \in DOMAIN Merged /\ block \in Nat /\ block # NoBlock
      BY <1>1, <1>3, <2>1, <2>2
    <2>4. block' = NextBlock(Merged, block)
      BY <2>1, <2>2 DEF GoTo
    <2>5. ASSUME best' = NoBlock, NEW b \in DOMAIN Merged, b < block'
          PROVE  ~(Merged[b].free /\ want <= Merged[b].size)
      <3>1. best = NoBlock /\ ~Fits(hdr', block)
        BY <2>1, <2>3, <2>5
      <3>2. CASE b = block
        BY <2>1, <3>1, <3>2 DEF Fits
      <3>3. CASE b # block
        <4>1. b \in DOMAIN hdr /\ b \in Nat /\ Merged[b] = hdr[b]
          BY <1>1, <2>2, <3>3
        <4>2. ~(block < b)
          <5>1. block' \in Nat
            BY <2>2, <2>3, <2>4, BlockFacts
          <5> QED
            BY <2>2, <2>3, <2>4, <2>5, <4>1, <5>1 DEF Tiles
        <4>3. b < block
          BY <1>0, <3>3, <4>1, <4>2
        <4> QED
          BY <2>1, <3>1, <4>1, <4>3 DEF Searched, Fits
      <3> QED
        BY <3>2, <3>3
    <2>6. ASSUME best' # NoBlock PROVE want <= Merged[best'].size
      <3>1. CASE best' = block /\ Fits(hdr', block)
        BY <2>1, <3>1 DEF Fits
      <3>2. CASE best' = best
        <4>1. best \in DOMAIN hdr /\ best <= block /\ want <= hdr[best].size
          BY <1>0, <2>1, <2>6, <3>2 DEF BestInv, Searched
        <4>2. best # buddy /\ hdr[best].size \in Nat /\ want \in Nat
          BY <1>0, <1>1, <1>3, <2>1, <4>1 DEF HeapTypeOK
        <4>3. best \in DOMAIN Merged
          BY <2>2, <4>1, <4>2
        <4>4. CASE best = block
          BY <2>2, <3>2, <4>1, <4>2, <4>4
        <4>5. CASE best # block
          BY <2>2, <3>2, <4>1, <4>3, <4>5
        <4> QED
          BY <4>4, <4>5
      <3> QED
        BY <2>1, <3>1, <3>2
    <2> QED
      BY <2>1, <2>5, <2>6 DEF Searched, Fits, OnlyLastIsMissed
  <1>6. CASE FindPass
    <2> DEFINE one == IF Fits(hdr, block)
                            /\ (best = NoBlock \/ hdr[block].size <= hdr[best].size)
                        THEN block ELSE best
    <2>1. /\ pc = "find" /\ Walking /\ hdr' = hdr /\ pc' = pc /\ want' = want
          /\ best' = IF Fits(hdr, buddy) /\ (one = NoBlock \/ hdr[buddy].size < hdr[one].size)
                       THEN buddy ELSE one
          /\ \E x \in {buddy, NextBlock(hdr, buddy)} : GoTo(hdr, x)
      BY <1>6 DEF FindPass
    <2>2. block \in DOMAIN hdr /\ buddy \in DOMAIN hdr /\ block # NoBlock /\ buddy # NoBlock
      BY <1>1, <1>3, <2>1
    <2>3. block' \in {buddy, NextBlock(hdr, buddy)}
      BY <2>1 DEF GoTo
    <2>4. \A b \in DOMAIN hdr : b < block' => b < block \/ b = block \/ b = buddy
      <3>1. \A b \in DOMAIN hdr : /\ block < b => buddy <= b
                                  /\ buddy < b => NextBlock(hdr, buddy) <= b
        BY <1>0, <1>3, <2>1, <2>2 DEF Tiles
      <3>2. NextBlock(hdr, buddy) \in Nat /\ buddy < NextBlock(hdr, buddy)
        BY <1>0, <2>2, BlockFacts
      <3> QED
        BY <1>0, <1>1, <2>2, <2>3, <3>1, <3>2
    <2>5. best' = NoBlock => best = NoBlock /\ ~Fits(hdr, block) /\ ~Fits(hdr, buddy)
      BY <2>1, <2>2
    <2>6. best' # NoBlock => want <= hdr[best'].size
      <3>1. \/ best' = best
            \/ best' = block /\ Fits(hdr, block)
            \/ best' = buddy /\ Fits(hdr, buddy)
        BY <2>1
      <3>2. best # NoBlock => want <= hdr[best].size
        BY <2>1 DEF Searched
      <3> QED
        BY <3>1, <3>2 DEF Fits
    <2>7. best' = NoBlock => \A b \in DOMAIN hdr : b < block' => ~Fits(hdr, b)
      BY <2>1, <2>4, <2>5 DEF Searched
    <2> HIDE DEF one
    <2> QED
      BY <2>1, <2>6, <2>7 DEF Searched, Fits, OnlyLastIsMissed
  <1>7. CASE FindEnd
    <2>1. pc = "find" /\ ~Walking /\ UNCHANGED <<hdr, want, best>>
      BY <1>7 DEF FindEnd
    <2>2. CASE best # NoBlock /\ pc' = "split"
      BY <2>1, <2>2 DEF Searched, OnlyLastIsMissed
    <2>3. CASE best = NoBlock /\ pc' = "failed"
      <3> SUFFICES ASSUME NEW b \in DOMAIN hdr, Fits(hdr, b) PROVE NextBlock(hdr, b) = Total
        BY <2>1, <2>3 DEF Searched, OnlyLastIsMissed, Fits, NextBlock
      <3>1. ~(b < block)
        BY <2>1, <2>3 DEF Searched
      <3>2. block \in DOMAIN hdr /\ buddy = NextBlock(hdr, block) /\ ~(buddy < Total)
        BY <1>0, <1>1, <2>1, <3>1 DEF WalkInv, Walking
      <3>3. buddy = Total
        BY <1>0, <3>2, BlockFacts
      <3>4. block < b => NextBlock(hdr, block) <= b
        BY <1>0, <3>2 DEF Tiles
      <3>5. b \in Nat /\ b < Total /\ Total \in Nat
        BY <1>0, <1>1
      <3>6. ~(block < b)
        BY <3>2, <3>3, <3>4, <3>5
      <3>7. b = block
        BY <1>0, <3>1, <3>5, <3>6
      <3> QED
        BY <3>2, <3>3, <3>7
    <2> QED
      BY <1>2, <1>7, <2>2, <2>3 DEF FindEnd, StartCoalescence
  <1>8. CASE Split
    <2> DEFINE size == hdr[best].size
    <2>1. /\ pc = "split" /\ want < size /\ hdr' = Halved(best, size \div 2)
          /\ best' = best + size \div 2 /\ pc' = pc /\ want' = want
      BY <1>8 DEF Split
    <2>2. best \in DOMAIN hdr /\ size \in Sizes /\ want \in Sizes \cup {2 * Total}
      BY <1>0, <2>1, BlockFacts DEF BestInv, WantInv
    <2>3. want \in Sizes
      <3>1. size \in Nat /\ size <= Total /\ Total > 0
        BY <2>2, SizeFacts, BuddyAllocAssumption
      <3>2. want < size
        BY <2>1
      <3> HIDE DEF size
      <3>3. want # 2 * Total
        BY <1>0, <3>1, <3>2
      <3> QED
        BY <2>2, <3>3
    <2>4. PICK half \in Sizes : size = 2 * half /\ want <= half
      BY <2>1, <2>2, <2>3, BuddyAllocAssumption
    <2>5. size \div 2 = half /\ half > 0 /\ half \in Nat
      BY <2>4, SizeFacts
    <2>6. best \in Nat /\ best' = best + half /\ best' # best
      BY <1>1, <2>1, <2>2, <2>5
    <2>7. hdr'[best'].size = half
      BY <2>1, <2>5, <2>6 DEF Halved
    <2> QED
      BY <2>1, <2>4, <2>7 DEF Searched, OnlyLastIsMissed
  <1>9. CASE SplitFails
    <2>1. pc = "split" /\ want > hdr[best].size /\ UNCHANGED <<hdr, want>>
          /\ pc' \in {"failed", "coalesce"}
      BY <1>9 DEF SplitFails, StartCoalescence
    <2>2. best \in DOMAIN hdr /\ want \in Nat
      BY <1>0, <2>1 DEF BestInv, HeapTypeOK
    <2>3. ~(want <= hdr[best].size) /\ DOMAIN hdr = {best}
      BY <1>1, <2>1, <2>2 DEF Searched
    <2>4. \A b \in DOMAIN hdr : ~Fits(hdr, b)
      BY <2>3 DEF Fits
    <2> QED
      BY <2>1, <2>4 DEF Searched, OnlyLastIsMissed, Fits
  <1>10. CASE CoalesceEnd
    BY <1>2, <1>10, StartFindSearched DEF CoalesceEnd, StartCoalescence
  <1>11. CASE Found \/ GiveUp \/ Coalesce \/ \E b \in Addr : Free(b)
    BY <1>2, <1>11 DEF Found, GiveUp, Return, Coalesce, Free
  <1>12. CASE UNCHANGED heapVars
    BY <1>12 DEF heapVars, walk, Searched, OnlyLastIsMissed, Fits, NextBlock
  <1> QED
    BY <1>4, <1>5, <1>6, <1>7, <1>8, <1>9, <1>10, <1>11, <1>12 DEF HeapNext, Walk

(* vd_buddy_alloc_realloc returns 0 only if no free block is large enough, *)
(* but for the one at the end of the heap, whatever was merged on the way. *)
THEOREM FailsOnlyWhenFull == HeapSpec => []OnlyLastIsMissed
  <1>1. HeapInit => Searched
    BY DEF HeapInit, Searched, OnlyLastIsMissed
  <1>2. Searched => OnlyLastIsMissed
    BY DEF Searched
  <1> QED
    BY HeapInitInv, HeapNextInv, SearchedNext, <1>1, <1>2, PTL DEF HeapSpec

-----------------------------------------------------------------------------
(***************************************************************************)
(* What holds of an arena of any size, for any threads, alignment and      *)
(* sizes.  The argument: begin only moves towards the end between two      *)
(* resets, and every block that was handed out lies between the place      *)
(* where begin was and the place where it went, so all of them end at or   *)
(* before begin.  A block past the end leaves begin past the end, where    *)
(* vd_arena_alloc refuses and vd_arena_alloc_t returns nothing.            *)
(***************************************************************************)

(* Everything handed out is behind begin. *)
Behind == Data <= begin /\ \A i \in DOMAIN taken : Stop(taken[i]) <= begin

ArenaInv == ArenaTypeOK /\ Behind /\ BlocksDisjoint /\ OneBlockPastEnd

(* The padding is less than a unit. *)
LEMMA PaddingFact ==
  ASSUME NEW b \in Nat
  PROVE  Padding(b) \in 0 .. Align - 1
BY ArenaAssumption, Z3 DEF Padding

(* What a block of the history is. *)
LEMMA BlockFact ==
  ASSUME taken \in Seq([at : Nat, size : Nat]), NEW i \in DOMAIN taken
  PROVE  taken[i].at \in Nat /\ Stop(taken[i]) \in Nat
<1>1. \A S : \A s \in Seq(S) : \A k \in DOMAIN s : s[k] \in S
  OBVIOUS
<1>2. taken[i] \in [at : Nat, size : Nat]
  BY <1>1, Zenon
<1>3. taken[i].at \in Nat /\ taken[i].size \in Nat
  BY <1>2
<1> QED
  BY <1>3 DEF Stop

LEMMA ArenaInitInv == ArenaInit => ArenaInv
<1> SUFFICES ASSUME ArenaInit PROVE ArenaInv
  OBVIOUS
<1>1. ArenaTypeOK
  <2>1. Nothing \in [size : AllocSizes \cup {0}, padding : 0 .. Align - 1]
    BY ArenaAssumption DEF Nothing
  <2>2. begin \in Nat /\ parallel \in BOOLEAN
    BY ArenaAssumption DEF ArenaInit
  <2>4. taken \in Seq([at : Nat, size : Nat])
    <3>1. \A S : <<>> \in Seq(S)
      OBVIOUS
    <3> QED
      BY <3>1, Zenon DEF ArenaInit
  <2>3. /\ step \in [Threads -> {"idle", "check", "reserve"}]
        /\ ask \in [Threads -> [size : AllocSizes \cup {0}, padding : 0 .. Align - 1]]
    BY <2>1 DEF ArenaInit
  <2> QED
    BY <2>2, <2>3, <2>4 DEF ArenaTypeOK
<1>2. Behind /\ BlocksDisjoint /\ OneBlockPastEnd
  BY ArenaAssumption DEF ArenaInit, Behind, BlocksDisjoint, OneBlockPastEnd
<1> QED
  BY <1>1, <1>2 DEF ArenaInv

(* A block at or after begin joins the others; it may pass the end only    *)
(* if begin did not.                                                       *)
LEMMA OneMore ==
  ASSUME ArenaInv, NEW at \in Nat, NEW size \in Nat, begin <= at,
         Stop(Block(at, size)) <= End \/ begin <= End,
         begin' = Stop(Block(at, size)), taken' = Append(taken, Block(at, size))
  PROVE  begin' \in Nat /\ taken' \in Seq([at : Nat, size : Nat])
         /\ Behind' /\ BlocksDisjoint' /\ OneBlockPastEnd'
<1> DEFINE new == Block(at, size)
           last == Len(taken) + 1
<1>1. new \in [at : Nat, size : Nat] /\ new.at = at /\ Stop(new) = at + size
  BY DEF Block, Stop
<1>2. begin \in Nat /\ taken \in Seq([at : Nat, size : Nat])
  BY DEF ArenaInv, ArenaTypeOK
<1>3. \A i \in DOMAIN taken :
        Stop(taken[i]) \in Nat /\ taken[i].at \in Nat /\ Stop(taken[i]) <= begin
  BY <1>2, BlockFact DEF ArenaInv, Behind
<1>4. begin' = at + size /\ begin' \in Nat /\ begin <= begin'
  BY <1>1, <1>2
<1> HIDE DEF new
<1>5. taken' \in Seq([at : Nat, size : Nat])
  BY <1>1, <1>2 DEF new
<1>6. /\ DOMAIN taken' = (DOMAIN taken) \cup {last}
      /\ taken'[last] = new
      /\ \A i \in DOMAIN taken : i # last /\ taken'[i] = taken[i]
  BY <1>1, <1>2 DEF new
<1> HIDE DEF last
<1>7. Behind'
  <2>1. Data <= begin'
    BY <1>2, <1>4, ArenaAssumption DEF ArenaInv, Behind
  <2>2. \A i \in DOMAIN taken' : Stop(taken'[i]) <= begin'
    BY <1>1, <1>2, <1>3, <1>4, <1>6
  <2> QED
    BY <2>1, <2>2 DEF Behind, Stop
<1>8. BlocksDisjoint'
  <2>1. ASSUME NEW i \in DOMAIN taken', NEW j \in DOMAIN taken', i # j
        PROVE  Stop(taken'[i]) <= taken'[j].at \/ Stop(taken'[j]) <= taken'[i].at
    <3>1. CASE i \in DOMAIN taken /\ j \in DOMAIN taken
      BY <1>6, <2>1, <3>1 DEF ArenaInv, BlocksDisjoint
    <3>2. CASE i = last /\ j \in DOMAIN taken
      BY <1>1, <1>2, <1>3, <1>6, <3>2
    <3>3. CASE j = last /\ i \in DOMAIN taken
      BY <1>1, <1>2, <1>3, <1>6, <3>3
    <3> QED
      BY <1>6, <2>1, <3>1, <3>2, <3>3
  <2> QED
    BY <2>1 DEF BlocksDisjoint, Stop
<1>9. OneBlockPastEnd'
  <2>1. ASSUME NEW i \in DOMAIN taken', NEW j \in DOMAIN taken',
               Stop(taken'[i]) > End, Stop(taken'[j]) > End
        PROVE  i = j
    <3>1. CASE i \in DOMAIN taken /\ j \in DOMAIN taken
      BY <1>6, <2>1, <3>1 DEF ArenaInv, OneBlockPastEnd
    <3>2. CASE i = last /\ j = last
      BY <3>2
    <3>3. CASE (i = last /\ j \in DOMAIN taken) \/ (j = last /\ i \in DOMAIN taken)
      <4>1. Stop(new) > End /\ \E k \in DOMAIN taken : Stop(taken[k]) > End
        BY <1>6, <2>1, <3>3
      <4>2. Stop(new) <= End \/ begin <= End
        BY DEF new
      <4>3. Stop(new) \in Nat /\ End \in Nat
        BY <1>1, ArenaAssumption
      <4> QED
        BY <1>2, <1>3, <4>1, <4>2, <4>3
    <3> QED
      BY <1>6, <3>1, <3>2, <3>3
  <2> QED
    BY <2>1 DEF OneBlockPastEnd, Stop
<1> QED
  BY <1>4, <1>5, <1>7, <1>8, <1>9

(* A step that hands out nothing, and moves begin only on. *)
LEMMA NoMore ==
  ASSUME ArenaInv, taken' = taken, begin' \in Nat, begin <= begin'
  PROVE  taken' \in Seq([at : Nat, size : Nat])
         /\ Behind' /\ BlocksDisjoint' /\ OneBlockPastEnd'
<1>1. begin \in Nat /\ taken \in Seq([at : Nat, size : Nat])
  BY DEF ArenaInv, ArenaTypeOK
<1>2. \A i \in DOMAIN taken : Stop(taken[i]) \in Nat /\ Stop(taken[i]) <= begin
  BY <1>1, BlockFact DEF ArenaInv, Behind
<1>3. Behind'
  BY <1>1, <1>2, ArenaAssumption DEF ArenaInv, Behind, Stop
<1> QED
  BY <1>1, <1>3 DEF ArenaInv, BlocksDisjoint, OneBlockPastEnd, Stop

(* A thread that returns keeps the types of step and ask. *)
LEMMA Returns ==
  ASSUME ArenaTypeOK, NEW t \in Threads, AllocEnds(t)
  PROVE  /\ step' \in [Threads -> {"idle", "check", "reserve"}]
         /\ ask' \in [Threads -> [size : AllocSizes \cup {0}, padding : 0 .. Align - 1]]
<1>1. Nothing \in [size : AllocSizes \cup {0}, padding : 0 .. Align - 1]
  BY ArenaAssumption DEF Nothing
<1> QED
  BY <1>1 DEF ArenaTypeOK, AllocEnds

LEMMA AllocInv ==
  ASSUME ArenaInv, NEW size \in AllocSizes, ArenaAlloc(size)
  PROVE  ArenaInv'
<1> DEFINE at == begin + Padding(begin)
<1>1. begin \in Nat /\ size \in Nat /\ Padding(begin) \in 0 .. Align - 1
  BY PaddingFact, ArenaAssumption DEF ArenaInv, ArenaTypeOK
<1>2. at \in Nat /\ begin <= at
  BY <1>1
<1>3. begin <= End
  BY <1>1, ArenaAssumption DEF ArenaAlloc, Available
<1>4. begin' = Stop(Block(at, size)) /\ taken' = Append(taken, Block(at, size))
  BY DEF ArenaAlloc, Stop, Block
<1>5. begin' \in Nat /\ taken' \in Seq([at : Nat, size : Nat])
      /\ Behind' /\ BlocksDisjoint' /\ OneBlockPastEnd'
  <2> HIDE DEF at
  <2> QED
    BY <1>1, <1>2, <1>3, <1>4, OneMore
<1>6. ArenaTypeOK'
  BY <1>5 DEF ArenaInv, ArenaTypeOK, ArenaAlloc
<1> QED
  BY <1>5, <1>6 DEF ArenaInv

LEMMA ReserveInv ==
  ASSUME ArenaInv, NEW t \in Threads, Reserve(t)
  PROVE  ArenaInv'
<1> DEFINE at == begin + ask[t].padding
           size == ask[t].size
<1>1. begin \in Nat /\ size \in Nat /\ ask[t].padding \in 0 .. Align - 1
  <2>1. begin \in Nat /\ ask[t] \in [size : AllocSizes \cup {0}, padding : 0 .. Align - 1]
    BY DEF ArenaInv, ArenaTypeOK
  <2>2. AllocSizes \cup {0} \subseteq Nat
    BY ArenaAssumption
  <2>3. ask[t].size \in AllocSizes \cup {0} /\ ask[t].padding \in 0 .. Align - 1
    BY <2>1
  <2> QED
    BY <2>1, <2>2, <2>3
<1>2. at \in Nat /\ begin <= at
  BY <1>1, ArenaAssumption
<1>3. begin' = Stop(Block(at, size))
  BY DEF Reserve, Stop, Block
<1>4. begin' \in Nat /\ begin <= begin'
  BY <1>1, <1>2, <1>3 DEF Stop, Block
<1>5. /\ step' \in [Threads -> {"idle", "check", "reserve"}]
      /\ ask' \in [Threads -> [size : AllocSizes \cup {0}, padding : 0 .. Align - 1]]
  BY Returns DEF ArenaInv, Reserve
<1>6. taken' \in Seq([at : Nat, size : Nat])
      /\ Behind' /\ BlocksDisjoint' /\ OneBlockPastEnd'
  <2>1. CASE Stop(Block(at, size)) > End
    <3>1. taken' = taken
      BY <2>1 DEF Reserve
    <3> QED
      BY <1>4, <3>1, NoMore
  <2>2. CASE ~(Stop(Block(at, size)) > End)
    <3>1. taken' = Append(taken, Block(at, size))
      BY <2>2 DEF Reserve
    <3>2. Stop(Block(at, size)) <= End
      BY <1>1, <1>2, <2>2, ArenaAssumption DEF Stop, Block
    <3> HIDE DEF at, size
    <3> QED
      BY <1>1, <1>2, <1>3, <3>1, <3>2, OneMore
  <2> QED
    BY <2>1, <2>2
<1>7. ArenaTypeOK'
  BY <1>4, <1>5, <1>6 DEF ArenaInv, ArenaTypeOK, Reserve
<1> QED
  BY <1>6, <1>7 DEF ArenaInv

LEMMA ArenaNextInv == ArenaInv /\ [ArenaNext]_arenaVars => ArenaInv'
<1> SUFFICES ASSUME ArenaInv, [ArenaNext]_arenaVars PROVE ArenaInv'
  OBVIOUS
<1>1. begin \in Nat /\ taken \in Seq([at : Nat, size : Nat]) /\ ArenaTypeOK
  BY DEF ArenaInv, ArenaTypeOK
<1>2. ASSUME NEW size \in AllocSizes, ArenaAlloc(size) \/ ProcAlloc(size) PROVE ArenaInv'
  BY <1>2, AllocInv DEF ProcAlloc
<1>3. ASSUME NEW t \in Threads, NEW size \in AllocSizes, ReadPadding(t, size) PROVE ArenaInv'
  <2>1. Behind' /\ BlocksDisjoint' /\ OneBlockPastEnd'
    BY <1>1, <1>3, NoMore DEF ReadPadding
  <2>2. [size |-> size, padding |-> Padding(begin)]
          \in [size : AllocSizes \cup {0}, padding : 0 .. Align - 1]
    BY <1>1, PaddingFact, ArenaAssumption
  <2>3. ArenaTypeOK'
    BY <1>3, <2>2 DEF ArenaInv, ArenaTypeOK, ReadPadding
  <2> QED
    BY <2>1, <2>3 DEF ArenaInv
<1>4. ASSUME NEW t \in Threads, Check(t) PROVE ArenaInv'
  <2>1. Behind' /\ BlocksDisjoint' /\ OneBlockPastEnd'
    BY <1>1, <1>4, NoMore DEF Check
  <2>2. /\ step' \in [Threads -> {"idle", "check", "reserve"}]
        /\ ask' \in [Threads -> [size : AllocSizes \cup {0}, padding : 0 .. Align - 1]]
    <3>1. CASE Available(begin, ask[t].padding) < 0
      BY <1>1, <1>4, <3>1, Returns DEF Check
    <3>2. CASE ~(Available(begin, ask[t].padding) < 0)
      BY <1>4, <3>2 DEF ArenaInv, ArenaTypeOK, Check
    <3> QED
      BY <3>1, <3>2
  <2>3. ArenaTypeOK'
    BY <1>4, <2>2 DEF ArenaInv, ArenaTypeOK, Check
  <2> QED
    BY <2>1, <2>3 DEF ArenaInv
<1>5. ASSUME NEW t \in Threads, Reserve(t) PROVE ArenaInv'
  BY <1>5, ReserveInv
<1>6. CASE Barrier
  <2>1. Behind' /\ BlocksDisjoint' /\ OneBlockPastEnd'
    BY <1>1, <1>6, NoMore DEF Barrier
  <2>2. ArenaTypeOK'
    BY <1>6 DEF ArenaInv, ArenaTypeOK, Barrier
  <2> QED
    BY <2>1, <2>2 DEF ArenaInv
<1>7. CASE Reset
  BY <1>7, ArenaAssumption
  DEF ArenaInv, ArenaTypeOK, Behind, BlocksDisjoint, OneBlockPastEnd, Reset
<1>8. CASE UNCHANGED arenaVars
  <2>1. Behind' /\ BlocksDisjoint' /\ OneBlockPastEnd'
    BY <1>1, <1>8, NoMore DEF arenaVars
  <2>2. ArenaTypeOK'
    BY <1>8 DEF ArenaInv, ArenaTypeOK, arenaVars
  <2> QED
    BY <2>1, <2>2 DEF ArenaInv
<1> QED
  BY <1>2, <1>3, <1>4, <1>5, <1>6, <1>7, <1>8 DEF ArenaNext

LEMMA ArenaSpecInv == ArenaSpec => []ArenaInv
BY ArenaInitInv, ArenaNextInv, PTL DEF ArenaSpec

(* For any threads, sizes and alignment: the state keeps its types; in     *)
(* particular vd_arena_alloc_t never pads by a whole unit.                 *)
THEOREM ArenaTypeCorrect == ArenaSpec => []ArenaTypeOK
<1>1. ArenaInv => ArenaTypeOK
  BY DEF ArenaInv
<1> QED
  BY <1>1, ArenaSpecInv, PTL

(* For any number of threads, in any order of their steps, no two          *)
(* allocations of a frame share memory (vd_arena_alloc, vd_arena_alloc_t). *)
THEOREM FrameBlocksDisjoint == ArenaSpec => []BlocksDisjoint
<1>1. ArenaInv => BlocksDisjoint
  BY DEF ArenaInv
<1> QED
  BY <1>1, ArenaSpecInv, PTL

(* For an arena of any size, at most one block of a frame reaches past the *)
(* end of it (vd_arena_alloc does not look at the size).                   *)
THEOREM AtMostOnePastEnd == ArenaSpec => []OneBlockPastEnd
<1>1. ArenaInv => OneBlockPastEnd
  BY DEF ArenaInv
<1> QED
  BY <1>1, ArenaSpecInv, PTL

-----------------------------------------------------------------------------
(* A block at or after begin is apart from everything handed out before.   *)
LEMMA GivesBlock ==
  ASSUME ArenaInv, NEW at \in Data .. End, NEW size \in AllocSizes \cup {0}, begin <= at,
         taken' = Append(taken, Block(at, size))
  PROVE  Frame!Next
<1> DEFINE new == Block(at, size)
<1>1. begin \in Nat /\ taken \in Seq([at : Nat, size : Nat]) /\ at \in Nat /\ size \in Nat
  BY ArenaAssumption DEF ArenaInv, ArenaTypeOK
<1>2. /\ new \in [at : Data .. End, size : AllocSizes \cup {0}]
      /\ new \in [at : Nat, size : Nat] /\ new.at = at /\ new.size = size
  BY <1>1 DEF Block
<1> HIDE DEF new
<1>3. ASSUME NEW c \in Range(taken)
      PROVE  Frame!Apart(new, c)
  <2>1. PICK i \in DOMAIN taken : c = taken[i]
    BY DEF Range
  <2>2. Stop(taken[i]) \in Nat /\ Stop(taken[i]) <= begin
    BY <1>1, BlockFact DEF ArenaInv, Behind
  <2> QED
    BY <1>1, <1>2, <2>1, <2>2 DEF Frame!Apart, Stop
<1>4. Range(taken)' = Range(taken) \cup {new}
  <2>1. /\ DOMAIN taken' = (DOMAIN taken) \cup {Len(taken) + 1}
        /\ taken'[Len(taken) + 1] = new
        /\ \A i \in DOMAIN taken : taken'[i] = taken[i]
    BY <1>1, <1>2 DEF new
  <2> QED
    BY <2>1 DEF Range
<1> QED
  BY <1>2, <1>3, <1>4 DEF Frame!Next, Frame!Give

(* Frame memory implements the abstract allocator, for any threads, sizes  *)
(* and alignment: vd_arena_alloc and vd_arena_alloc_t hand out blocks that *)
(* overlap none in use, and only vd_arena_reset takes them back.           *)
THEOREM FrameImplementsAllocator == ArenaSpec => FrameIsAllocator
<1>1. ArenaInit => Frame!Init
  BY DEF ArenaInit, Frame!Init, Range
<1>2. ArenaInv /\ [ArenaNext]_arenaVars => [Frame!Next]_(Range(taken))
  <2> SUFFICES ASSUME ArenaInv, [ArenaNext]_arenaVars
               PROVE  Frame!Next \/ UNCHANGED Range(taken)
    OBVIOUS
  <2>1. begin \in Nat /\ Data <= begin /\ Data \in Nat /\ End \in Nat
        /\ \A b \in Nat : Padding(b) \in 0 .. Align - 1
    BY PaddingFact, ArenaAssumption DEF ArenaInv, ArenaTypeOK, Behind
  <2>2. ASSUME NEW size \in AllocSizes, ArenaAlloc(size) \/ ProcAlloc(size)
        PROVE  Frame!Next
    <3> DEFINE at == begin + Padding(begin)
    <3>0. Padding(begin) \in Nat /\ End - begin - Padding(begin) >= 0
      BY <2>1, <2>2, ArenaAssumption DEF ProcAlloc, ArenaAlloc, Available
    <3>1. at \in Data .. End /\ begin <= at
      <4> HIDE DEF at
      <4>1. at = begin + Padding(begin)
        BY DEF at
      <4> QED
        BY <2>1, <3>0, <4>1
    <3>2. taken' = Append(taken, Block(at, size))
      BY <2>2 DEF ProcAlloc, ArenaAlloc
    <3> HIDE DEF at
    <3> QED
      BY <3>1, <3>2, GivesBlock
  <2>3. ASSUME NEW t \in Threads, Reserve(t)
        PROVE  Frame!Next \/ UNCHANGED Range(taken)
    <3> DEFINE at == begin + ask[t].padding
               size == ask[t].size
    <3>1. ask[t] \in [size : AllocSizes \cup {0}, padding : 0 .. Align - 1]
      BY DEF ArenaInv, ArenaTypeOK
    <3>2. size \in AllocSizes \cup {0} /\ ask[t].padding \in 0 .. Align - 1
      BY <3>1
    <3>3. size \in Nat /\ at \in Nat /\ begin <= at
      <4>1. AllocSizes \cup {0} \subseteq Nat /\ Align \in Nat
        BY ArenaAssumption
      <4>2. size \in Nat
        BY <3>2, <4>1
      <4>3. ask[t].padding \in Nat
        BY <3>2, <4>1
      <4> QED
        BY <2>1, <4>2, <4>3
    <3>4. CASE Stop(Block(at, size)) > End
      BY <2>3, <3>4 DEF Reserve, Range
    <3>5. CASE ~(Stop(Block(at, size)) > End)
      <4>1. at \in Data .. End
        BY <2>1, <3>3, <3>5 DEF Stop, Block
      <4>2. taken' = Append(taken, Block(at, size))
        BY <2>3, <3>5 DEF Reserve
      <4> HIDE DEF at, size
      <4> QED
        BY <3>2, <3>3, <4>1, <4>2, GivesBlock
    <3> QED
      BY <3>4, <3>5
  <2>4. CASE Reset
    BY <2>4 DEF Reset, Range, Frame!Next, Frame!Reset
  <2>5. ASSUME taken' = taken PROVE UNCHANGED Range(taken)
    BY <2>5 DEF Range
  <2> QED
    BY <2>2, <2>3, <2>4, <2>5 DEF ArenaNext, ReadPadding, Check, Barrier, arenaVars
<1> QED
  BY <1>1, <1>2, ArenaSpecInv, PTL DEF ArenaSpec, FrameIsAllocator, Frame!Spec
-----------------------------------------------------------------------------
(* How far begin goes past the end: every thread that is about to reserve  *)
(* may still move it by one block.                                         *)
Bounded ==
  /\ IsFiniteSet(Threads) /\ Threads # {}
  /\ \E largest \in AllocSizes : \A size \in AllocSizes : size <= largest

Largest == Align - 1 + Max(AllocSizes)

Reserving == {t \in Threads : step[t] = "reserve"}

Near ==
  /\ ~parallel => \A t \in Threads : step[t] = "idle"
  /\ begin + Cardinality(Reserving) * Largest <= End + Cardinality(Threads) * Largest

LEMMA MaxFact ==
  ASSUME Bounded
  PROVE  /\ Max(AllocSizes) \in Nat /\ \A size \in AllocSizes \cup {0} : size <= Max(AllocSizes)
         /\ Largest \in Nat /\ Largest = Align - 1 + Max(AllocSizes)
<1>1. PICK largest \in AllocSizes : \A size \in AllocSizes : largest >= size
  BY ArenaAssumption DEF Bounded
<1>2. Max(AllocSizes) \in AllocSizes /\ \A size \in AllocSizes : Max(AllocSizes) >= size
  BY <1>1 DEF Max
<1>3. Max(AllocSizes) \in Nat /\ \A size \in AllocSizes : size \in Nat
  BY <1>2, ArenaAssumption
<1>4. \A size \in AllocSizes \cup {0} : size <= Max(AllocSizes)
  BY <1>2, <1>3
<1>5. Largest \in Nat
  <2>1. Align - 1 \in Nat
    BY ArenaAssumption
  <2> QED
    BY <1>3, <2>1 DEF Largest
<1> QED
  BY <1>3, <1>4, <1>5 DEF Largest

LEMMA CountFact ==
  ASSUME Bounded, NEW S, S \subseteq Threads
  PROVE  /\ IsFiniteSet(S) /\ Cardinality(S) \in Nat
         /\ Cardinality(Threads) \in Nat \ {0} /\ Cardinality(S) <= Cardinality(Threads)
<1>1. IsFiniteSet(Threads) /\ Threads # {}
  BY DEF Bounded
<1> QED
  BY <1>1, FS_Subset, FS_CardinalityType, FS_EmptySet

LEMMA Times ==
  ASSUME NEW m \in Nat, NEW a \in Nat, NEW b \in Nat, a <= b
  PROVE  /\ a * m \in Nat /\ b * m \in Nat /\ a * m <= b * m
         /\ 0 * m = 0 /\ (a + 1) * m = a * m + m
<1> PICK d \in Nat : b = a + d
  <2>1. b - a \in Nat /\ b = a + (b - a)
    OBVIOUS
  <2> QED
    BY <2>1
<1>1. a * m \in Nat /\ d * m \in Nat /\ b * m = a * m + d * m /\ (a + 1) * m = a * m + m
  BY SMT
<1> QED
  BY <1>1, SMT

LEMMA NearNext == Bounded /\ ArenaInv /\ Near /\ [ArenaNext]_arenaVars => Near'
<1> SUFFICES ASSUME Bounded, ArenaInv, Near, [ArenaNext]_arenaVars PROVE Near'
  OBVIOUS
<1> DEFINE all == Cardinality(Threads)
           count == Cardinality(Reserving)
           count2 == Cardinality(Reserving')
<1>1. /\ begin \in Nat /\ step \in [Threads -> {"idle", "check", "reserve"}]
      /\ Data \in Nat /\ End \in Nat /\ Data <= End
      /\ \A t \in Threads : /\ ask[t].padding \in Nat /\ ask[t].size \in Nat
                            /\ ask[t].padding + ask[t].size <= Largest
  <2>1. /\ begin \in Nat /\ step \in [Threads -> {"idle", "check", "reserve"}]
        /\ ask \in [Threads -> [size : AllocSizes \cup {0}, padding : 0 .. Align - 1]]
    BY DEF ArenaInv, ArenaTypeOK
  <2>2. ASSUME NEW t \in Threads
        PROVE  /\ ask[t].padding \in Nat /\ ask[t].size \in Nat
               /\ ask[t].padding + ask[t].size <= Largest
    <3>1. ask[t] \in [size : AllocSizes \cup {0}, padding : 0 .. Align - 1]
      BY <2>1
    <3>2. ask[t].size \in AllocSizes \cup {0} /\ ask[t].padding \in 0 .. Align - 1
      BY <3>1
    <3>3. AllocSizes \cup {0} \subseteq Nat /\ Align - 1 \in Nat
      BY ArenaAssumption
    <3>4. ask[t].size \in Nat /\ ask[t].size <= Max(AllocSizes) /\ Max(AllocSizes) \in Nat
      BY <3>2, <3>3, MaxFact
    <3>5. ask[t].padding \in Nat /\ ask[t].padding <= Align - 1
      BY <3>2, <3>3
    <3> QED
      BY <3>3, <3>4, <3>5 DEF Largest
  <2> QED
    BY <2>1, <2>2, ArenaAssumption
<1>2. /\ all \in Nat \ {0} /\ count \in Nat /\ count <= all /\ count2 \in Nat /\ count2 <= all
      /\ IsFiniteSet(Reserving) /\ IsFiniteSet(Reserving')
  BY CountFact DEF Reserving
<1>3. Largest \in Nat /\ Max(AllocSizes) <= Largest
  BY MaxFact, ArenaAssumption
<1>4. /\ all * Largest \in Nat /\ count2 * Largest \in Nat /\ count2 * Largest <= all * Largest
      /\ 0 * Largest = 0 /\ Largest <= all * Largest
  <2>1. 1 <= all /\ 1 * Largest = Largest
    BY <1>2, <1>3
  <2> HIDE DEF all, count2
  <2> QED
    BY <1>2, <1>3, <2>1, Times
<1>5. begin + count * Largest <= End + all * Largest
  BY DEF Near
<1>6. ASSUME UNCHANGED <<begin, parallel, step>> PROVE Near'
  BY <1>6 DEF Near, Reserving
<1>7. ASSUME ~parallel, parallel' = parallel, step' = step, begin' <= End + Largest, begin' \in Nat
      PROVE  Near'
  <2>1. \A t \in Threads : step'[t] = "idle"
    BY <1>7 DEF Near
  <2>2. count2 = 0
    <3>1. Reserving' = {}
      BY <2>1 DEF Reserving
    <3> QED
      BY <3>1, FS_EmptySet
  <2>3. begin' + count2 * Largest <= End + all * Largest
    <3> HIDE DEF all, count2
    <3> QED
      BY <1>1, <1>3, <1>4, <1>7, <2>2
  <2> QED
    BY <2>1, <2>3 DEF Near
<1>8. ASSUME NEW size \in AllocSizes, ArenaAlloc(size) \/ ProcAlloc(size) PROVE Near'
  <2>1. /\ ~parallel /\ parallel' = parallel /\ step' = step
        /\ begin' = begin + Padding(begin) + size /\ End - begin - Padding(begin) >= 0
    BY <1>8 DEF ProcAlloc, ArenaAlloc, Available
  <2>2. Padding(begin) \in Nat /\ size \in Nat /\ size <= Largest
    BY <1>1, <1>3, MaxFact, PaddingFact, ArenaAssumption
  <2>3. begin' \in Nat /\ begin' <= End + Largest
    BY <1>1, <1>3, <2>1, <2>2
  <2> QED
    BY <1>7, <2>1, <2>3
<1>9. ASSUME NEW t \in Threads, NEW size \in AllocSizes, ReadPadding(t, size) PROVE Near'
  <2>1. parallel' /\ parallel /\ begin' = begin /\ Reserving' = Reserving
    BY <1>1, <1>9 DEF ReadPadding, Reserving
  <2> QED
    BY <1>5, <2>1 DEF Near
<1>10. ASSUME NEW t \in Threads, Check(t) PROVE Near'
  <2>1. parallel /\ parallel' = parallel /\ begin' = begin
    BY <1>10 DEF Check, Near
  <2>2. CASE Available(begin, ask[t].padding) < 0
    <3>1. Reserving' = Reserving
      BY <1>1, <1>10, <2>2 DEF Check, AllocEnds, Reserving
    <3> QED
      BY <1>5, <2>1, <3>1 DEF Near
  <2>3. CASE ~(Available(begin, ask[t].padding) < 0)
    <3>1. begin <= End
      BY <1>1, <2>3 DEF Available
    <3>2. begin' + count2 * Largest <= End + all * Largest
      <4> HIDE DEF all, count2
      <4> QED
        BY <1>1, <1>4, <2>1, <3>1
    <3> QED
      BY <2>1, <3>2 DEF Near
  <2> QED
    BY <2>2, <2>3
<1>11. ASSUME NEW t \in Threads, Reserve(t) PROVE Near'
  <2>1. /\ parallel /\ parallel' = parallel /\ begin' = begin + ask[t].padding + ask[t].size
        /\ t \in Reserving /\ Reserving' = Reserving \ {t}
    BY <1>1, <1>11 DEF Reserve, AllocEnds, Reserving, Near
  <2>2. count = count2 + 1
    BY <1>2, <2>1, FS_RemoveElement
  <2>3. count * Largest = count2 * Largest + Largest
    <3> HIDE DEF count, count2
    <3> QED
      BY <1>2, <1>3, <2>2, Times
  <2>4. begin' + count2 * Largest <= End + all * Largest
    <3> DEFINE x == count * Largest
               y == count2 * Largest
               z == all * Largest
    <3>1. /\ x = y + Largest /\ y \in Nat /\ z \in Nat /\ begin + x <= End + z
          /\ ask[t].padding + ask[t].size <= Largest
          /\ ask[t].padding \in Nat /\ ask[t].size \in Nat
      BY <1>1, <1>4, <1>5, <2>3
    <3> HIDE DEF x, y, z
    <3>2. begin' + y <= End + z
      BY <1>1, <1>3, <2>1, <3>1
    <3> QED
      BY <3>2 DEF y, z
  <2> QED
    BY <2>1, <2>4 DEF Near
<1>12. CASE Barrier
  <2>1. begin' = begin /\ Reserving' = Reserving /\ \A t \in Threads : step'[t] = "idle"
    BY <1>12 DEF Barrier, Reserving
  <2> QED
    BY <1>5, <2>1 DEF Near
<1>13. CASE Reset
  <2>1. ~parallel /\ parallel' = parallel /\ step' = step /\ begin' = Data
    BY <1>13 DEF Reset
  <2> QED
    BY <1>1, <1>3, <1>7, <2>1
<1> QED
  BY <1>6, <1>8, <1>9, <1>10, <1>11, <1>12, <1>13 DEF ArenaNext, arenaVars

(* However often and by however many threads a full arena is asked, begin  *)
(* stays within one block per thread of the end (vd_arena_alloc_t).        *)
THEOREM BeginStaysInReach == Bounded => (ArenaSpec => []BeginStaysNear)
<1> SUFFICES ASSUME Bounded PROVE ArenaSpec => []BeginStaysNear
  OBVIOUS
<1>1. ArenaInit => Near
  <2> SUFFICES ASSUME ArenaInit PROVE Near
    OBVIOUS
  <2>1. Reserving = {} /\ begin = Data /\ \A t \in Threads : step[t] = "idle"
    BY DEF ArenaInit, Reserving
  <2>2. Cardinality(Threads) \in Nat /\ Cardinality(Reserving) = 0 /\ Largest \in Nat
    BY <2>1, CountFact, MaxFact, FS_EmptySet
  <2>3. 0 * Largest = 0 /\ Cardinality(Threads) * Largest \in Nat
    BY <2>2, Times
  <2> QED
    BY <2>1, <2>2, <2>3, ArenaAssumption DEF Near
<1>2. ArenaInv /\ Near => BeginStaysNear
  <2> SUFFICES ASSUME ArenaInv, Near PROVE BeginStaysNear
    OBVIOUS
  <2> DEFINE x == Cardinality(Reserving) * Largest
             z == Cardinality(Threads) * Largest
  <2>1. /\ Cardinality(Threads) \in Nat /\ Cardinality(Reserving) \in Nat
        /\ Cardinality(Reserving) <= Cardinality(Threads) /\ Largest \in Nat
    BY CountFact, MaxFact DEF Reserving
  <2>2. x \in Nat /\ z \in Nat /\ begin + x <= End + z /\ begin \in Nat
    BY <2>1, Times DEF Near, ArenaInv, ArenaTypeOK
  <2> HIDE DEF x, z
  <2>3. begin <= End + z
    BY <2>2, ArenaAssumption
  <2> QED
    BY <2>3 DEF BeginStaysNear, Largest, z
<1>3. ArenaInv /\ Near /\ [ArenaNext]_arenaVars => Near'
  BY NearNext
<1> QED
  BY <1>1, <1>2, <1>3, ArenaSpecInv, PTL DEF ArenaSpec

-----------------------------------------------------------------------------
(* What the theorems say of each region holds while the others are beside  *)
(* it: a step of one is a step of its own specification and leaves the     *)
(* others alone.                                                           *)
THEOREM RegionsAreApart ==
  MCSpec => /\ Init /\ [][Next]_vars
            /\ HeapInit /\ [][HeapNext]_heapVars
            /\ ArenaSpec
<1>1. MCInit => Init /\ HeapInit /\ ArenaInit
  BY DEF MCInit
<1>2. [MCNext]_memoryVars => [Next]_vars /\ [HeapNext]_heapVars /\ [ArenaNext]_arenaVars
  <2>1. MCNext => [Next]_vars /\ [HeapNext]_heapVars /\ [ArenaNext]_arenaVars
    BY DEF MCNext, Others
  <2>2. UNCHANGED memoryVars => UNCHANGED <<vars, heapVars, arenaVars>>
    BY DEF memoryVars
  <2> QED
    BY <2>1, <2>2
<1> QED
  BY <1>1, <1>2, PTL DEF MCSpec, ArenaSpec
=============================================================================
