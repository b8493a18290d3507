--------------------------- MODULE HandleMapProofs ---------------------------
(***************************************************************************)
(* Proofs about HandleMap for every finite set of holders, every initial   *)
(* capacity but 0 and any number of registrations.                         *)
(***************************************************************************)
EXTENDS HandleMap, FiniteSetTheorems, TLAPS

-----------------------------------------------------------------------------
(* The inductive invariant. Ids and slots are handed out in lock step, so  *)
(* id i always resolves to slot i - 1; while the map is open, refcount, id *)
(* and destructor runs of a counted entry are all functions of the number  *)
(* of its owners; once it is closed, everything was freed once.            *)

IdsDense ==
  /\ next_id = arr_len + 1
  /\ \A i \in 1 .. arr_len : idmap[i] = i - 1

Owned(s) == {h \in Holders : handle[h] = s + 1}

EntryOK(s) ==
  /\ arr[s].refmode = "COUNT" =>
       /\ arr[s].refcount = Cardinality(Owned(s))
       /\ arr[s].id = IF Owned(s) = {} THEN 0 ELSE s + 1
       /\ freed[s] = IF Owned(s) = {} THEN 1 ELSE 0
  /\ arr[s].refmode = "ALWAYS" =>
       /\ arr[s].id = s + 1
       /\ freed[s] = 0

IInv ==
  /\ TypeOK
  /\ IdsDense
  /\ arr_cap # 0 /\ SlotsInBounds
  /\ open => \A s \in Slots : EntryOK(s)
  /\ ~open => \A s \in Slots : freed[s] = 1

-----------------------------------------------------------------------------
(* The holders that resolve to a slot are those that carry its id. *)
LEMMA OwnersAreOwned ==
  ASSUME TypeOK, IdsDense, NEW s \in Slots
  PROVE  Owners(s) = Owned(s)
<1>1. \A h \in Holders : handle[h] \in 0 .. arr_len
  BY DEF TypeOK, IdsDense
<1>2. \A h \in Holders : handle[h] # 0 => SlotOf(h) = handle[h] - 1
  BY <1>1 DEF IdsDense, SlotOf, TypeOK
<1>3. s \in Nat
  BY DEF Slots, TypeOK
<1>4. \A h \in Holders : (handle[h] # 0 /\ SlotOf(h) = s) <=> handle[h] = s + 1
  BY <1>1, <1>2, <1>3 DEF TypeOK
<1> QED BY <1>4 DEF Owners, Owned

(* Sets of holders are finite, and only the empty one has cardinality 0. *)
LEMMA HolderSets ==
  ASSUME NEW S \in SUBSET Holders
  PROVE  /\ IsFiniteSet(S)
         /\ Cardinality(S) \in Nat
         /\ Cardinality(S) = 0 <=> S = {}
<1>1. IsFiniteSet(S)
  BY FS_Subset, HandleMapAssumption
<1> QED BY <1>1, FS_CardinalityType, FS_EmptySet

LEMMA InitIInv == Init => IInv
<1> SUFFICES ASSUME Init PROVE IInv
  OBVIOUS
<1> USE DEF Init
<1>1. Slots = {}
  BY DEF Slots
<1>2. TypeOK
  <2>1. arr \in [Slots -> EntryMetadata] /\ freed \in [Slots -> Nat]
    BY <1>1
  <2>2. 1 .. next_id - 1 = {} /\ 0 .. next_id - 1 = {0}
    OBVIOUS
  <2>3. idmap \in [1 .. next_id - 1 -> Slots] /\ handle \in [Holders -> 0 .. next_id - 1]
    BY <2>2
  <2>4. arr_len \in Nat /\ arr_cap \in Nat /\ next_id \in Nat \ {0}
    BY HandleMapAssumption
  <2> QED BY <2>1, <2>3, <2>4 DEF TypeOK
<1>3. IdsDense /\ arr_cap # 0 /\ SlotsInBounds
  BY HandleMapAssumption DEF IdsDense, SlotsInBounds
<1> QED BY <1>1, <1>2, <1>3 DEF IInv

-----------------------------------------------------------------------------
(* A full array that is doubled keeps all its slots. *)
LEMMA SlotsAreKept ==
  ASSUME arr_len \in Nat, arr_cap \in Nat, SlotsInBounds, DOMAIN arr = Slots, arr = [s \in DOMAIN arr |-> arr[s]]
  PROVE  SlotArray = arr
<1>1. \A s \in Slots : s < arr_cap /\ s < 2 * arr_cap
  BY DEF Slots, SlotsInBounds
<1> QED
  BY <1>1 DEF SlotArray, ProcAlloc

(* vd_handlemap__register preserves the invariant. *)
LEMMA RegisterIInv ==
  ASSUME IInv, NEW h \in Holders, NEW mode \in RefMode, Register(h, mode)
  PROVE  IInv'
<1> USE DEF IInv
<1>1. arr_len \in Nat /\ arr_cap \in Nat /\ next_id = arr_len + 1 /\ arr_len <= arr_cap
  BY DEF TypeOK, IdsDense, SlotsInBounds
<1>2. /\ next_id' = next_id + 1 /\ arr_len' = arr_len + 1
      /\ arr_cap' \in Nat /\ arr_cap' # 0 /\ arr_len' <= arr_cap'
  BY <1>1 DEF Register, AllocateSlot
<1>3. Slots' = Slots \cup {arr_len} /\ arr_len \notin Slots
  BY <1>1, <1>2 DEF Slots
<1>4. /\ DOMAIN arr = Slots /\ DOMAIN freed = Slots /\ DOMAIN idmap = 1 .. arr_len
      /\ SlotArray = arr
  BY <1>1, SlotsAreKept DEF TypeOK
<1>5. /\ arr' = [z \in Slots' |-> IF z = arr_len
                   THEN [refcount |-> 1, refmode |-> mode, id |-> next_id] ELSE arr[z]]
      /\ freed' = [z \in Slots' |-> IF z = arr_len THEN 0 ELSE freed[z]]
      /\ idmap' = [z \in 1 .. arr_len' |-> IF z = next_id THEN arr_len ELSE idmap[z]]
  <2>1. (1 .. arr_len) \cup {next_id} = 1 .. arr_len'
    BY <1>1, <1>2
  <2> QED BY <1>3, <1>4, <2>1 DEF Register, Bind
<1>6. handle' = [handle EXCEPT ![h] = next_id] /\ open' = open /\ open
  BY DEF Register
<1>7. TypeOK'
  <2>1. arr' \in [Slots' -> EntryMetadata]
    BY <1>1, <1>3, <1>5 DEF TypeOK, EntryMetadata
  <2>2. freed' \in [Slots' -> Nat]
    BY <1>3, <1>5 DEF TypeOK
  <2>3. idmap' \in [1 .. next_id' - 1 -> Slots']
    BY <1>1, <1>2, <1>3, <1>5 DEF TypeOK
  <2>4. handle' \in [Holders -> 0 .. next_id' - 1]
    BY <1>1, <1>2, <1>6 DEF TypeOK
  <2>5. open' \in BOOLEAN
    BY <1>6
  <2> QED BY <1>1, <1>2, <2>1, <2>2, <2>3, <2>4, <2>5 DEF TypeOK
<1>8. IdsDense'
  BY <1>1, <1>2, <1>5 DEF IdsDense
<1>9. \A s \in Slots' : EntryOK(s)'
  <2> SUFFICES ASSUME NEW s \in Slots' PROVE EntryOK(s)'
    OBVIOUS
  <2>1. CASE s = arr_len
    <3>1. Owned(s)' = {h}
      BY <1>1, <1>6, <2>1 DEF Owned, TypeOK
    <3>2. Cardinality({h}) = 1
      BY FS_Singleton
    <3>3. arr'[s] = [refcount |-> 1, refmode |-> mode, id |-> next_id] /\ freed'[s] = 0
      BY <1>5, <2>1
    <3> QED BY <1>1, <2>1, <3>1, <3>2, <3>3 DEF EntryOK
  <2>2. CASE s \in Slots
    <3>1. s # arr_len /\ s + 1 # next_id /\ s \in Nat
      BY <1>1, <2>2 DEF Slots
    <3>2. handle[h] = 0
      BY DEF Register
    <3>3. Owned(s)' = Owned(s)
      BY <1>6, <3>1, <3>2 DEF Owned, TypeOK
    <3>4. arr'[s] = arr[s] /\ freed'[s] = freed[s]
      BY <1>5, <3>1
    <3> QED BY <1>6, <2>2, <3>3, <3>4 DEF EntryOK
  <2> QED BY <1>3, <2>1, <2>2
<1> QED BY <1>2, <1>6, <1>7, <1>8, <1>9 DEF SlotsInBounds

-----------------------------------------------------------------------------
(* The slot of a held handle, and what the invariant says of it. *)
LEMMA HeldSlot ==
  ASSUME IInv, open, NEW h \in Holders, handle[h] # 0
  PROVE  /\ SlotOf(h) \in Slots
         /\ SlotOf(h) \in Nat
         /\ handle[h] = SlotOf(h) + 1
         /\ h \in Owned(SlotOf(h))
         /\ EntryOK(SlotOf(h))
         /\ arr[SlotOf(h)] \in EntryMetadata
<1>1. handle[h] \in 1 .. arr_len /\ arr_len \in Nat
  BY DEF IInv, TypeOK, IdsDense
<1>2. SlotOf(h) = handle[h] - 1
  BY <1>1 DEF IInv, IdsDense, SlotOf
<1>3. SlotOf(h) \in Slots /\ SlotOf(h) \in Nat
  BY <1>1, <1>2 DEF Slots
<1>4. arr[SlotOf(h)] \in EntryMetadata
  BY <1>3 DEF IInv, TypeOK
<1> QED BY <1>1, <1>2, <1>3, <1>4 DEF IInv, Owned

(* vd_handlemap_copy preserves the invariant. *)
LEMMA CopyIInv ==
  ASSUME IInv, NEW h \in Holders, NEW g \in Holders, Copy(h, g)
  PROVE  IInv'
<1> DEFINE t == SlotOf(h)
<1>1. open /\ handle[h] # 0 /\ handle[g] = 0
  BY DEF Copy
<1>2. t \in Slots /\ t \in Nat /\ handle[h] = t + 1 /\ EntryOK(t) /\ arr[t] \in EntryMetadata
  BY <1>1, HeldSlot
<1>3. UNCHANGED <<arr_len, arr_cap, idmap, next_id, freed, open>> /\ Slots' = Slots
  BY DEF Copy, Slots
<1>4. handle' = [handle EXCEPT ![g] = t + 1]
  BY <1>2 DEF Copy
<1>5. arr' = [arr EXCEPT ![t].refcount =
                IF arr[t].refmode = "COUNT" THEN @ + 1 ELSE @]
  BY DEF Copy
<1> HIDE DEF t
<1>6. TypeOK'
  <2>1. arr' \in [Slots -> EntryMetadata]
    <3>1. arr \in [Slots -> EntryMetadata]
      BY DEF IInv, TypeOK
    <3>2. (IF arr[t].refmode = "COUNT" THEN arr[t].refcount + 1 ELSE arr[t].refcount) \in Nat
      BY <1>2 DEF EntryMetadata
    <3> QED BY <1>2, <1>5, <3>1, <3>2 DEF EntryMetadata
  <2>2. handle' \in [Holders -> 0 .. next_id - 1]
    <3>1. t + 1 \in 0 .. next_id - 1
      BY <1>2 DEF IInv, TypeOK
    <3> QED BY <1>4, <3>1 DEF IInv, TypeOK
  <2> QED BY <1>3, <2>1, <2>2 DEF IInv, TypeOK
<1>7. IdsDense' /\ SlotsInBounds' /\ arr_cap' # 0
  BY <1>3 DEF IInv, IdsDense, SlotsInBounds
<1>8. ASSUME NEW s \in Slots PROVE EntryOK(s)'
  <2>1. s \in Nat /\ EntryOK(s) /\ arr[s] \in EntryMetadata
    BY <1>1, <1>8 DEF IInv, TypeOK, Slots
  <2>2. CASE s = t
    <3>1. Owned(s)' = Owned(s) \cup {g} /\ g \notin Owned(s)
      BY <1>1, <1>2, <1>4, <2>2 DEF Owned, IInv, TypeOK
    <3>2. Cardinality(Owned(s)') = Cardinality(Owned(s)) + 1
      BY <3>1, HolderSets, FS_AddElement DEF Owned
    <3>3. Owned(s) # {} /\ Owned(s)' # {}
      BY <1>1, <1>2, <2>2, <3>1 DEF Owned
    <3>4. /\ arr'[s].refmode = arr[s].refmode /\ arr'[s].id = arr[s].id
          /\ arr[s].refmode = "COUNT" => arr'[s].refcount = arr[s].refcount + 1
      BY <1>2, <1>5, <2>2 DEF EntryMetadata, IInv, TypeOK
    <3> QED BY <1>3, <2>1, <3>2, <3>3, <3>4 DEF EntryOK
  <2>3. CASE s # t
    <3>1. Owned(s)' = Owned(s)
      BY <1>1, <1>2, <1>4, <2>1, <2>3 DEF Owned, IInv, TypeOK
    <3>2. arr'[s] = arr[s]
      BY <1>5, <2>3 DEF IInv, TypeOK
    <3> QED BY <1>3, <2>1, <3>1, <3>2 DEF EntryOK
  <2> QED BY <2>2, <2>3
<1> QED BY <1>1, <1>3, <1>6, <1>7, <1>8 DEF IInv

(* vd_handle_drop preserves the invariant. *)
LEMMA DropIInv ==
  ASSUME IInv, NEW h \in Holders, Drop(h)
  PROVE  IInv'
<1> DEFINE t == SlotOf(h)
<1>1. open /\ handle[h] # 0
  BY DEF Drop
<1>2. /\ t \in Slots /\ t \in Nat /\ handle[h] = t + 1 /\ h \in Owned(t)
      /\ EntryOK(t) /\ arr[t] \in EntryMetadata
  BY <1>1, HeldSlot
<1>3. UNCHANGED <<arr_len, arr_cap, idmap, next_id, open>> /\ Slots' = Slots
  BY DEF Drop, Slots
<1>4. handle' = [handle EXCEPT ![h] = 0]
  BY DEF Drop
<1>5. /\ arr' = IF arr[t].refmode = "COUNT" THEN Released(t) ELSE arr
      /\ freed' = IF arr[t].refmode = "COUNT" /\ arr[t].refcount = 1
                    THEN [freed EXCEPT ![t] = @ + 1] ELSE freed
  BY DEF Drop
<1> HIDE DEF t
<1>6. arr[t].refmode = "COUNT" => arr[t].refcount \in Nat \ {0}
  <2>1. Cardinality(Owned(t)) # 0 /\ Cardinality(Owned(t)) \in Nat
    BY <1>2, HolderSets DEF Owned
  <2> QED BY <1>2, <2>1 DEF EntryOK
<1>7. TypeOK'
  <2>1. arr' \in [Slots -> EntryMetadata]
    <3>1. arr \in [Slots -> EntryMetadata]
      BY DEF IInv, TypeOK
    <3>2. CASE arr[t].refmode = "COUNT"
      <4>1. arr[t].refcount - 1 \in Nat
        BY <1>6, <3>2
      <4>2. Released(t) \in [Slots -> EntryMetadata]
        BY <1>2, <3>1, <4>1 DEF Released, EntryMetadata
      <4> QED BY <1>5, <3>2, <4>2
    <3> QED BY <1>5, <3>1, <3>2
  <2>2. freed' \in [Slots -> Nat]
    BY <1>2, <1>5 DEF IInv, TypeOK
  <2>3. handle' \in [Holders -> 0 .. next_id - 1]
    BY <1>4 DEF IInv, TypeOK
  <2> QED BY <1>3, <2>1, <2>2, <2>3 DEF IInv, TypeOK
<1>8. IdsDense' /\ SlotsInBounds' /\ arr_cap' # 0
  BY <1>3 DEF IInv, IdsDense, SlotsInBounds
<1>9. ASSUME NEW s \in Slots PROVE EntryOK(s)'
  <2>1. s \in Nat /\ EntryOK(s) /\ arr[s] \in EntryMetadata /\ freed[s] \in Nat
    BY <1>1, <1>9 DEF IInv, TypeOK, Slots
  <2>2. CASE s = t /\ arr[t].refmode = "COUNT"
    <3>1. Owned(s)' = Owned(s) \ {h} /\ h \in Owned(s)
      BY <1>1, <1>2, <1>4, <2>2 DEF Owned, IInv, TypeOK
    <3>2. Cardinality(Owned(s)') = Cardinality(Owned(s)) - 1
      <4>1. IsFiniteSet(Owned(s))
        BY HolderSets DEF Owned
      <4>2. Cardinality(Owned(s) \ {h}) = Cardinality(Owned(s)) - 1
        BY <3>1, <4>1, FS_RemoveElement
      <4> QED BY <3>1, <4>2
    <3>3. Owned(s)' \in SUBSET Holders
      BY DEF Owned
    <3>4. Cardinality(Owned(s)') = 0 <=> Owned(s)' = {}
      BY <3>3, HolderSets
    <3>5. /\ arr[s].refcount = Cardinality(Owned(s)) /\ arr[s].refcount \in Nat
          /\ arr[s].id = s + 1 /\ freed[s] = 0
      BY <2>1, <2>2, <3>1 DEF EntryOK, EntryMetadata
    <3>6. /\ arr'[s].refmode = "COUNT"
          /\ arr'[s].refcount = arr[s].refcount - 1
          /\ arr'[s].id = IF arr[s].refcount = 1 THEN 0 ELSE arr[s].id
          /\ freed'[s] = IF arr[s].refcount = 1 THEN 1 ELSE 0
      <4>1. arr \in [Slots -> EntryMetadata] /\ freed \in [Slots -> Nat]
        BY DEF IInv, TypeOK
      <4> QED BY <1>2, <1>5, <2>1, <2>2, <3>5, <4>1 DEF Released, EntryMetadata
    <3>7. arr[s].refcount = 1 <=> Owned(s)' = {}
      BY <3>2, <3>4, <3>5
    <3> QED BY <3>2, <3>5, <3>6, <3>7 DEF EntryOK
  <2>3. CASE s = t /\ arr[t].refmode # "COUNT"
    BY <1>5, <2>1, <2>3 DEF EntryOK
  <2>4. CASE s # t
    <3>1. Owned(s)' = Owned(s)
      BY <1>1, <1>2, <1>4, <2>1, <2>4 DEF Owned, IInv, TypeOK
    <3>2. arr'[s] = arr[s] /\ freed'[s] = freed[s]
      BY <1>5, <2>4 DEF IInv, TypeOK, Released
    <3> QED BY <2>1, <3>1, <3>2 DEF EntryOK
  <2> QED BY <2>2, <2>3, <2>4
<1> QED BY <1>1, <1>3, <1>7, <1>8, <1>9 DEF IInv

(* vd_handlemap__deinit preserves the invariant: it frees exactly the      *)
(* entries no drop has freed.                                              *)
LEMMA DeinitIInv ==
  ASSUME IInv, Deinit
  PROVE  IInv'
<1>1. open /\ open' = FALSE /\ UNCHANGED <<arr, arr_len, arr_cap, idmap, next_id, handle>>
  BY DEF Deinit
<1>2. Slots' = Slots /\ DOMAIN freed = Slots
  BY <1>1 DEF Slots, IInv, TypeOK
<1>3. freed' = [s \in Slots |-> IF arr[s].id = 0 THEN freed[s] ELSE freed[s] + 1]
  BY <1>2 DEF Deinit
<1>4. ASSUME NEW s \in Slots PROVE freed'[s] = 1
  <2>1. EntryOK(s) /\ s + 1 # 0 /\ arr[s].refmode \in RefMode
    BY <1>1, <1>4 DEF IInv, TypeOK, Slots, EntryMetadata
  <2> QED BY <1>3, <1>4, <2>1 DEF EntryOK, RefMode
<1>5. TypeOK'
  <2>1. freed' \in [Slots -> Nat]
    BY <1>3 DEF IInv, TypeOK
  <2>2. open' \in BOOLEAN
    BY <1>1
  <2> QED BY <1>1, <1>2, <2>1, <2>2 DEF IInv, TypeOK
<1> QED BY <1>1, <1>2, <1>4, <1>5 DEF IInv, IdsDense, SlotsInBounds

LEMMA StepIInv == IInv /\ [Next]_vars => IInv'
<1> SUFFICES ASSUME IInv, [Next]_vars PROVE IInv'
  OBVIOUS
<1>1. ASSUME NEW h \in Holders, NEW mode \in RefMode, Register(h, mode) PROVE IInv'
  BY <1>1, RegisterIInv
<1>2. ASSUME NEW h \in Holders, NEW g \in Holders, Copy(h, g) PROVE IInv'
  BY <1>2, CopyIInv
<1>3. ASSUME NEW h \in Holders, Drop(h) PROVE IInv'
  BY <1>3, DropIInv
<1>4. CASE Deinit
  BY <1>4, DeinitIInv
<1>5. CASE UNCHANGED vars
  BY <1>5 DEF vars, IInv, TypeOK, IdsDense, SlotsInBounds, Slots, EntryOK, Owned
<1> QED BY <1>1, <1>2, <1>3, <1>4, <1>5 DEF Next

LEMMA InvariantHolds == Spec => []IInv
BY InitIInv, StepIInv, PTL DEF Spec

-----------------------------------------------------------------------------
(* Every state of the handle map is well typed: ids resolve into the array *)
(* and no handle carries an id that was never given out.                   *)
THEOREM TypeCorrect == Spec => []TypeOK
<1>1. IInv => TypeOK
  BY DEF IInv
<1> QED BY <1>1, InvariantHolds, PTL

(* allocate_slot never hands out a slot outside the array. *)
THEOREM SlotsStayInBounds == Spec => []SlotsInBounds
<1>1. IInv => SlotsInBounds
  BY DEF IInv
<1> QED BY <1>1, InvariantHolds, PTL

(* The refcount of a counted object is always the number of its owners,    *)
(* so vd_handle_drop's assertion holds.                                    *)
THEOREM RefcountCorrect == Spec => []CountIsOwners
<1>1. IInv => CountIsOwners
  <2> SUFFICES ASSUME IInv, open, NEW s \in Slots, arr[s].refmode = "COUNT"
               PROVE  arr[s].refcount = Cardinality(Owners(s))
    BY DEF CountIsOwners
  <2> QED BY OwnersAreOwned DEF IInv, EntryOK
<1> QED BY <1>1, InvariantHolds, PTL

(* The destructor of a counted object runs when, and only when, its last   *)
(* handle is dropped; that of an ALWAYS object does not run before deinit. *)
THEOREM FreedExactlyWhenUnowned == Spec => []FreedWhenUnowned
<1>1. IInv => FreedWhenUnowned
  <2> SUFFICES ASSUME IInv, open, NEW s \in Slots
               PROVE  freed[s] = IF arr[s].refmode = "COUNT" /\ Owners(s) = {} THEN 1 ELSE 0
    BY DEF FreedWhenUnowned
  <2>1. EntryOK(s) /\ Owners(s) = Owned(s) /\ arr[s].refmode \in RefMode
    BY OwnersAreOwned DEF IInv, TypeOK, EntryMetadata
  <2> QED BY <2>1 DEF EntryOK, RefMode
<1> QED BY <1>1, InvariantHolds, PTL

(* After vd_handlemap__deinit every destructor ran exactly once. *)
THEOREM NothingLeaksNothingFreedTwice == Spec => []AllFreedOnceAtDeinit
<1>1. IInv => AllFreedOnceAtDeinit
  BY DEF IInv, AllFreedOnceAtDeinit
<1> QED BY <1>1, InvariantHolds, PTL

(* A held handle always resolves to the object it was made for, so the     *)
(* failure exits of use, copy and drop are never taken for one.            *)
THEOREM HandlesResolve == Spec => []ResolvesToOwn
<1>1. IInv => ResolvesToOwn
  <2> SUFFICES ASSUME IInv, open, NEW h \in Holders, handle[h] # 0
               PROVE  handle[h] \in DOMAIN idmap /\ arr[SlotOf(h)].id = handle[h]
    BY DEF ResolvesToOwn
  <2>1. /\ handle[h] = SlotOf(h) + 1 /\ h \in Owned(SlotOf(h))
        /\ EntryOK(SlotOf(h)) /\ arr[SlotOf(h)] \in EntryMetadata
    BY HeldSlot
  <2>2. arr[SlotOf(h)].id = handle[h]
    BY <2>1 DEF EntryOK, EntryMetadata, RefMode
  <2>3. handle[h] \in 1 .. next_id - 1
    BY DEF IInv, TypeOK
  <2> QED BY <2>2, <2>3 DEF IInv, TypeOK
<1> QED BY <1>1, InvariantHolds, PTL

-----------------------------------------------------------------------------
(* The refinement of SharedOwnership. *)

OwnersMap == [s \in Slots |-> Owners(s)]
PinnedSet == {s \in Slots : arr[s].refmode = "ALWAYS"}
DeadSet   == {s \in Slots : freed[s] > 0}

(* The refinement mapping in terms of the ids the holders carry. *)
LEMMA MapIsOwned == IInv => OwnersMap = [s \in Slots |-> Owned(s)]
BY OwnersAreOwned DEF OwnersMap, IInv

LEMMA MapIsOwnedNext == (IInv => OwnersMap = [s \in Slots |-> Owned(s)])'
BY MapIsOwned, PTL

(* A holder without a handle owns nothing. *)
LEMMA EmptyIsIdle ==
  ASSUME IInv, NEW h \in Holders, handle[h] = 0
  PROVE  Ownership!Idle(h)
<1>1. \A s \in Slots : h \notin Owners(s)
  BY DEF Owners
<1> QED BY <1>1 DEF Ownership!Idle

LEMMA RegisterCreates ==
  ASSUME IInv, IInv', NEW h \in Holders, NEW mode \in RefMode, Register(h, mode)
  PROVE  \E o \in 0 .. MaxObjects - 1 : Ownership!Create(h, o)
<1>1. PICK n \in Nat : n = arr_len
  BY DEF IInv, TypeOK
<1>2. /\ next_id = n + 1 /\ next_id <= MaxObjects /\ n \in 0 .. MaxObjects - 1
      /\ arr_len' = n + 1 /\ open /\ open' = open /\ handle[h] = 0
      /\ handle' = [handle EXCEPT ![h] = n + 1]
  BY <1>1, HandleMapAssumption DEF Register, AllocateSlot, IInv, TypeOK, IdsDense
<1>3. Slots' = Slots \cup {n} /\ n \notin Slots
  BY <1>1, <1>2 DEF Slots
<1>4. /\ DOMAIN arr = Slots /\ DOMAIN freed = Slots /\ freed \in [Slots -> Nat]
      /\ SlotArray = arr
  BY SlotsAreKept DEF IInv, TypeOK
<1>5. /\ \A s \in Slots : arr'[s] = arr[s] /\ freed'[s] = freed[s]
      /\ arr'[n] = [refcount |-> 1, refmode |-> mode, id |-> next_id]
      /\ freed'[n] = 0
  BY <1>1, <1>3, <1>4 DEF Register, Bind
<1>6. handle \in [Holders -> 0 .. n]
  BY <1>2 DEF IInv, TypeOK
<1>7. \A s \in Slots : Owned(s)' = Owned(s)
  <2>1. \A s \in Slots : s \in Nat /\ s + 1 # n + 1 /\ s + 1 # 0
    BY <1>1 DEF Slots
  <2> QED BY <1>2, <1>6, <2>1 DEF Owned
<1>8. Owned(n)' = {h}
  <2>1. \A g \in Holders : handle[g] # n + 1
    BY <1>6
  <2> QED BY <1>2, <1>6, <2>1 DEF Owned
<1>9. OwnersMap = [s \in Slots |-> Owned(s)] /\ (OwnersMap = [s \in Slots |-> Owned(s)])'
  BY MapIsOwned, MapIsOwnedNext
<1>10. OwnersMap' = [s \in Slots \cup {n} |-> IF s = n THEN {h} ELSE OwnersMap[s]]
  BY <1>3, <1>7, <1>8, <1>9
<1>11. PinnedSet' \in {PinnedSet, PinnedSet \cup {n}}
  BY <1>3, <1>5 DEF PinnedSet, RefMode
<1>12. DeadSet' = DeadSet
  BY <1>3, <1>5 DEF DeadSet
<1>13. Ownership!Idle(h)
  BY <1>2, EmptyIsIdle
<1>14. DOMAIN OwnersMap = Slots
  BY DEF OwnersMap
<1>15. Ownership!Create(h, n)
  BY <1>2, <1>3, <1>10, <1>11, <1>12, <1>13, <1>14
     DEF Ownership!Create, OwnersMap, PinnedSet, DeadSet
<1> QED BY <1>2, <1>15

LEMMA CopyShares ==
  ASSUME IInv, IInv', NEW h \in Holders, NEW g \in Holders, Copy(h, g)
  PROVE  \E o \in Slots : Ownership!Share(g, o)
<1>1. open /\ open' = open /\ handle[h] # 0 /\ handle[g] = 0 /\ freed' = freed
  BY DEF Copy
<1>2. PICK t \in Slots : /\ t = SlotOf(h) /\ t \in Nat
                         /\ handle[h] = t + 1 /\ h \in Owned(t)
  BY <1>1, HeldSlot
<1>3. Slots' = Slots
  BY DEF Copy, Slots
<1>4. handle' = [handle EXCEPT ![g] = t + 1]
  BY <1>2 DEF Copy
<1>5. \A s \in Slots : arr'[s].refmode = arr[s].refmode
  BY <1>2 DEF Copy, IInv, TypeOK, EntryMetadata
<1>6. \A s \in Slots : Owned(s)' = IF s = t THEN Owned(s) \cup {g} ELSE Owned(s)
  <2>1. \A s \in Slots : s \in Nat
    BY DEF Slots, IInv, TypeOK
  <2> QED BY <1>1, <1>2, <1>4, <2>1 DEF Owned, IInv, TypeOK
<1>7. OwnersMap' = [OwnersMap EXCEPT ![t] = @ \cup {g}]
  BY <1>2, <1>3, <1>6, MapIsOwned, MapIsOwnedNext
<1>8. OwnersMap[t] # {}
  BY <1>2, MapIsOwned
<1>9. PinnedSet' = PinnedSet /\ DeadSet' = DeadSet
  BY <1>1, <1>3, <1>5 DEF PinnedSet, DeadSet
<1>10. Ownership!Idle(g)
  BY <1>1, EmptyIsIdle
<1>11. Ownership!Share(g, t)
  BY <1>1, <1>7, <1>8, <1>9, <1>10 DEF Ownership!Share, OwnersMap, PinnedSet, DeadSet
<1> QED BY <1>11

LEMMA DropReleases ==
  ASSUME IInv, IInv', NEW h \in Holders, Drop(h)
  PROVE  \E o \in Slots : Ownership!Release(h, o)
<1>1. open /\ open' = open /\ handle[h] # 0
  BY DEF Drop
<1>2. PICK t \in Slots : /\ t = SlotOf(h) /\ t \in Nat
                         /\ handle[h] = t + 1 /\ h \in Owned(t)
                         /\ EntryOK(t) /\ arr[t] \in EntryMetadata
  BY <1>1, HeldSlot
<1>3. Slots' = Slots
  BY DEF Drop, Slots
<1>4. handle' = [handle EXCEPT ![h] = 0]
  BY DEF Drop
<1>5. /\ arr' = IF arr[t].refmode = "COUNT" THEN Released(t) ELSE arr
      /\ freed' = IF arr[t].refmode = "COUNT" /\ arr[t].refcount = 1
                    THEN [freed EXCEPT ![t] = @ + 1] ELSE freed
  BY <1>2 DEF Drop
<1>6. arr \in [Slots -> EntryMetadata] /\ freed \in [Slots -> Nat]
  BY DEF IInv, TypeOK
<1>7. \A s \in Slots : arr'[s].refmode = arr[s].refmode
  BY <1>2, <1>5, <1>6 DEF Released, EntryMetadata
<1>8. \A s \in Slots : Owned(s)' = IF s = t THEN Owned(s) \ {h} ELSE Owned(s)
  <2>1. \A s \in Slots : s \in Nat
    BY DEF Slots, IInv, TypeOK
  <2> QED BY <1>1, <1>2, <1>4, <2>1 DEF Owned, IInv, TypeOK
<1>9. OwnersMap' = [OwnersMap EXCEPT ![t] = @ \ {h}] /\ OwnersMap[t] = Owned(t)
  BY <1>2, <1>3, <1>8, MapIsOwned, MapIsOwnedNext
<1>10. arr[t].refmode = "COUNT" => (arr[t].refcount = 1 <=> Owned(t) = {h})
  <2>1. IsFiniteSet(Owned(t)) /\ Cardinality(Owned(t)) \in Nat
    BY HolderSets DEF Owned
  <2>2. Cardinality(Owned(t) \ {h}) = Cardinality(Owned(t)) - 1
    BY <1>2, <2>1, FS_RemoveElement
  <2>3. Cardinality(Owned(t) \ {h}) = 0 <=> Owned(t) \ {h} = {}
    BY HolderSets DEF Owned
  <2>4. Owned(t) \ {h} = {} <=> Owned(t) = {h}
    BY <1>2
  <2> QED BY <1>2, <2>1, <2>2, <2>3, <2>4 DEF EntryOK
<1>11. DeadSet' = IF OwnersMap[t] = {h} /\ t \notin PinnedSet
                    THEN DeadSet \cup {t} ELSE DeadSet
  <2>1. t \in PinnedSet <=> arr[t].refmode # "COUNT"
    BY <1>2 DEF PinnedSet, EntryMetadata, RefMode
  <2>2. CASE arr[t].refmode = "COUNT" /\ arr[t].refcount = 1
    <3>1. \A s \in Slots : freed'[s] = IF s = t THEN freed[s] + 1 ELSE freed[s]
      BY <1>5, <1>6, <2>2
    <3>2. \A s \in Slots : freed'[s] > 0 <=> (freed[s] > 0 \/ s = t)
      BY <1>6, <3>1
    <3>3. DeadSet' = DeadSet \cup {t}
      BY <1>3, <3>2 DEF DeadSet
    <3> QED BY <1>9, <1>10, <2>1, <2>2, <3>3
  <2>3. CASE ~(arr[t].refmode = "COUNT" /\ arr[t].refcount = 1)
    <3>1. DeadSet' = DeadSet
      BY <1>3, <1>5, <2>3 DEF DeadSet
    <3> QED BY <1>9, <1>10, <2>1, <2>3, <3>1
  <2> QED BY <2>2, <2>3
<1>12. PinnedSet' = PinnedSet
  BY <1>3, <1>7 DEF PinnedSet
<1>13. Ownership!Release(h, t)
  BY <1>1, <1>2, <1>9, <1>11, <1>12 DEF Ownership!Release, OwnersMap, PinnedSet, DeadSet
<1> QED BY <1>13

LEMMA DeinitShutsDown ==
  ASSUME IInv, IInv', Deinit
  PROVE  Ownership!Shutdown
<1>1. open /\ open' = FALSE /\ Slots' = Slots
  BY DEF Deinit, Slots
<1>2. DeadSet' = Slots
  BY <1>1 DEF DeadSet, IInv
<1>3. PinnedSet' = PinnedSet /\ OwnersMap' = OwnersMap
  BY <1>1 DEF Deinit, PinnedSet, OwnersMap, Owners, SlotOf
<1>4. DOMAIN OwnersMap = Slots
  BY DEF OwnersMap
<1> QED BY <1>1, <1>2, <1>3, <1>4 DEF Ownership!Shutdown, OwnersMap, PinnedSet, DeadSet

(* The handle map with its counters, ids and slots implements shared       *)
(* ownership: register creates, copy shares, drop releases, deinit shuts   *)
(* down, and nothing else happens.                                         *)
THEOREM OwnershipImplemented == Spec => ImplementsOwnership
<1>1. Init => Ownership!Init
  <2> SUFFICES ASSUME Init PROVE Ownership!Init
    OBVIOUS
  <2>1. Slots = {}
    BY DEF Init, Slots
  <2> QED BY <2>1 DEF Init, Ownership!Init
<1>2. IInv /\ IInv' /\ [Next]_vars => [Ownership!Next]_(Ownership!vars)
  <2> SUFFICES ASSUME IInv, IInv', [Next]_vars
               PROVE  [Ownership!Next]_(Ownership!vars)
    OBVIOUS
  <2>1. DOMAIN OwnersMap = Slots
    BY DEF OwnersMap
  <2>2. ASSUME NEW h \in Holders, NEW mode \in RefMode, Register(h, mode)
        PROVE  Ownership!Next
    <3>1. PICK o \in 0 .. MaxObjects - 1 : Ownership!Create(h, o)
      BY <2>2, RegisterCreates
    <3> QED BY <3>1 DEF Ownership!Next
  <2>3. ASSUME NEW h \in Holders, NEW g \in Holders, Copy(h, g)
        PROVE  Ownership!Next
    <3>1. PICK o \in Slots : Ownership!Share(g, o)
      BY <2>3, CopyShares
    <3> QED BY <2>1, <3>1 DEF Ownership!Next, OwnersMap
  <2>4. ASSUME NEW h \in Holders, Drop(h)
        PROVE  Ownership!Next
    <3>1. PICK o \in Slots : Ownership!Release(h, o)
      BY <2>4, DropReleases
    <3> QED BY <2>1, <3>1 DEF Ownership!Next, OwnersMap
  <2>5. CASE Deinit
    BY <2>5, DeinitShutsDown DEF Ownership!Next
  <2>6. CASE UNCHANGED vars
    BY <2>6 DEF vars, Ownership!vars, Slots, Owners, SlotOf
  <2> QED BY <2>2, <2>3, <2>4, <2>5, <2>6 DEF Next
<1> QED BY <1>1, <1>2, InvariantHolds, PTL DEF Spec, ImplementsOwnership, Ownership!Spec
=============================================================================
