------------------------------ MODULE HandleMap ------------------------------
(***************************************************************************)
(* lib/handlemap.c: reference-counted handles to objects kept in one array *)
(* that only grows.  A handle is an id; the idmap (an IntMap) resolves it  *)
(* to the slot of its object.  The destructor on_free_object runs when a   *)
(* counted object loses its last handle, and at vd_handlemap__deinit for   *)
(* every object that is still there.                                       *)
(*                                                                         *)
(* The idmap is represented by what module IntMap shows of it for a client *)
(* that sets fresh keys and deletes none (IntMap!RefinesStore,             *)
(* IntMap!SetNeverFails): a function that keeps every binding.  Clients    *)
(* follow the contract of USE_/COPY_/DROP_HANDLE: they copy and drop       *)
(* handles they hold, every held handle came from a register or a copy,    *)
(* and after the deinit of a map they leave it alone.  The objects         *)
(* themselves are not modelled, only the runs of their destructor.         *)
(***************************************************************************)
EXTENDS Naturals, FiniteSets

CONSTANTS
  Holders,       \* the variables of the engine that can hold a VD_Handle
  InitialCap,    \* VD_HandleMapInitInfo.initial_capacity
  MaxObjects     \* bound on the number of registrations

ASSUME HandleMapAssumption ==
  /\ IsFiniteSet(Holders)
  /\ InitialCap \in Nat \ {0}
  /\ MaxObjects \in Nat

VARIABLES
  arr,           \* slot -> EntryMetadata, for the first arr_len slots
  arr_len, arr_cap,
  idmap,         \* id -> slot
  next_id,
  handle,        \* holder -> the id in its handle; 0: none, or dropped
  freed,         \* history: slot -> number of on_free_object calls
  open           \* vd_handlemap__deinit has not run

vars == <<arr, arr_len, arr_cap, idmap, next_id, handle, freed, open>>

-----------------------------------------------------------------------------
RefMode == {"ALWAYS", "COUNT"}       \* VD_HandleMapRefMode

EntryMetadata == [refcount : Nat, refmode : RefMode, id : Nat]

(* A function with one more (or one replaced) binding. *)
Bind(f, x, y) == [z \in DOMAIN f \cup {x} |-> IF z = x THEN y ELSE f[z]]

(* vd_handlemap__init *)
Init ==
  /\ arr = [s \in {} |-> s] /\ arr_len = 0 /\ arr_cap = InitialCap
  /\ idmap = [i \in {} |-> i]
  /\ next_id = 1
  /\ handle = [h \in Holders |-> 0]
  /\ freed = [s \in {} |-> s]
  /\ open = TRUE

(* proc_alloc of a block of n slots that had old ones: the slots in both   *)
(* keep what they hold, of the others it is not known.                     *)
Unknown == [refcount |-> 0, refmode |-> "ALWAYS", id |-> 0]
ProcAlloc(old, n) == [s \in DOMAIN arr |-> IF s < old /\ s < n THEN arr[s] ELSE Unknown]

(* Variant: the contents of the full array are not carried over. *)
SlotArrayFresh == IF arr_len = arr_cap THEN ProcAlloc(0, 2 * arr_cap) ELSE arr

(* allocate_slot: the slot is arr_len; a full array is doubled first, and  *)
(* this is then the array.                                                 *)
SlotArray == IF arr_len = arr_cap THEN ProcAlloc(arr_cap, 2 * arr_cap) ELSE arr
AllocateSlot ==
  /\ arr_cap' = IF arr_len = arr_cap THEN 2 * arr_cap ELSE arr_cap
  /\ arr_len' = arr_len + 1

(* vd_handlemap__register: a new id, a new slot, one reference. *)
Register(h, mode) ==
  /\ open
  /\ handle[h] = 0
  /\ next_id <= MaxObjects
  /\ next_id' = next_id + 1
  /\ AllocateSlot
  /\ idmap' = Bind(idmap, next_id, arr_len)
  /\ arr' = Bind(SlotArray, arr_len, [refcount |-> 1, refmode |-> mode, id |-> next_id])
  /\ freed' = Bind(freed, arr_len, 0)
  /\ handle' = [handle EXCEPT ![h] = next_id]
  /\ UNCHANGED open

(* The slot a held handle resolves to: the tryget of use, copy and drop.   *)
(* Its "not found" exits cannot be taken for a held handle (ResolvesToOwn).*)
SlotOf(h) == idmap[handle[h]]

(* Variant: the copy is not counted. *)
CopyUncounted(h, g) ==
  /\ open
  /\ handle[h] # 0 /\ handle[g] = 0
  /\ handle' = [handle EXCEPT ![g] = handle[h]]
  /\ UNCHANGED <<arr, arr_len, arr_cap, idmap, next_id, freed, open>>

(* vd_handlemap_copy: the refcount of a counted object goes up. *)
Copy(h, g) ==
  /\ open
  /\ handle[h] # 0 /\ handle[g] = 0
  /\ arr' = [arr EXCEPT ![SlotOf(h)].refcount =
               IF arr[SlotOf(h)].refmode = "COUNT" THEN @ + 1 ELSE @]
  /\ handle' = [handle EXCEPT ![g] = handle[h]]
  /\ UNCHANGED <<arr_len, arr_cap, idmap, next_id, freed, open>>

(* Variant: the freed object's metadata keeps its id. *)
ReleasedKeepsId(s) == [arr EXCEPT ![s].refcount = @ - 1]

(* The counted branch of vd_handle_drop for the object in slot s. *)
Released(s) ==
  IF arr[s].refcount = 1
    THEN [arr EXCEPT ![s].refcount = 0, ![s].id = 0]
    ELSE [arr EXCEPT ![s].refcount = @ - 1]

(* Variant: the destructor runs whatever the count. *)
DropFrees(h) ==
  LET s == SlotOf(h)
      counted == arr[s].refmode = "COUNT"
  IN  /\ open
      /\ handle[h] # 0
      /\ arr' = IF counted THEN Released(s) ELSE arr
      /\ freed' = IF counted THEN [freed EXCEPT ![s] = @ + 1] ELSE freed
      /\ handle' = [handle EXCEPT ![h] = 0]
      /\ UNCHANGED <<arr_len, arr_cap, idmap, next_id, open>>

(* vd_handle_drop *)
Drop(h) ==
  LET s == SlotOf(h)
      counted == arr[s].refmode = "COUNT"
  IN  /\ open
      /\ handle[h] # 0
      /\ arr' = IF counted THEN Released(s) ELSE arr
      /\ freed' = IF counted /\ arr[s].refcount = 1
                    THEN [freed EXCEPT ![s] = @ + 1] ELSE freed
      /\ handle' = [handle EXCEPT ![h] = 0]
      /\ UNCHANGED <<arr_len, arr_cap, idmap, next_id, open>>

(* vd_handlemap__deinit: the destructor for every slot whose id is not 0.  *)
Deinit ==
  /\ open
  /\ open' = FALSE
  /\ freed' = [s \in DOMAIN freed |-> IF arr[s].id = 0 THEN freed[s] ELSE freed[s] + 1]
  /\ UNCHANGED <<arr, arr_len, arr_cap, idmap, next_id, handle>>

Next ==
  \/ \E h \in Holders, mode \in RefMode : Register(h, mode)
  \/ \E h, g \in Holders : Copy(h, g)
  \/ \E h \in Holders : Drop(h)
  \/ Deinit

Spec == Init /\ [][Next]_vars

-----------------------------------------------------------------------------
(* Properties. *)

Slots == 0 .. arr_len - 1

TypeOK ==
  /\ arr_len \in Nat /\ arr_cap \in Nat /\ next_id \in Nat \ {0}
  /\ arr \in [Slots -> EntryMetadata]
  /\ idmap \in [1 .. next_id - 1 -> Slots]
  /\ handle \in [Holders -> 0 .. next_id - 1]
  /\ freed \in [Slots -> Nat]
  /\ open \in BOOLEAN

(* The holders whose handle resolves to slot s. *)
Owners(s) == {h \in Holders : handle[h] # 0 /\ SlotOf(h) = s}

(* Every slot in use lies inside the array, also right after a doubling:   *)
(* the metadata and value pointers of vd_handlemap__register never point   *)
(* past the allocation.                                                    *)
SlotsInBounds == arr_len <= arr_cap

(* The refcount of a counted object is the number of handles that resolve  *)
(* to it, whatever the order of copies and drops: the assertion            *)
(* !(refcount < 0) of vd_handle_drop cannot fail and no reference is lost. *)
CountIsOwners ==
  open => \A s \in Slots :
            arr[s].refmode = "COUNT" => arr[s].refcount = Cardinality(Owners(s))

(* While the map is open the destructor of a counted object ran exactly    *)
(* when no handle to it is left, and that of an ALWAYS object did not run. *)
FreedWhenUnowned ==
  open => \A s \in Slots :
            freed[s] = IF arr[s].refmode = "COUNT" /\ Owners(s) = {} THEN 1 ELSE 0

(* After vd_handlemap__deinit the destructor of every object ever          *)
(* registered ran exactly once: none leaked, none freed by a drop is freed *)
(* again.                                                                  *)
AllFreedOnceAtDeinit == ~open => \A s \in Slots : freed[s] = 1

(* A held handle resolves, through the idmap and across every doubling of  *)
(* the array, to the object it was made for (its metadata still carries    *)
(* the handle's id), so USE_HANDLE never returns a freed or another        *)
(* object.                                                                 *)
ResolvesToOwn ==
  open => \A h \in Holders :
            handle[h] # 0 => /\ handle[h] \in DOMAIN idmap
                             /\ arr[SlotOf(h)].id = handle[h]

Ownership == INSTANCE SharedOwnership WITH
  Objects <- 0 .. MaxObjects - 1,
  owners <- [s \in Slots |-> Owners(s)],
  pinned <- {s \in Slots : arr[s].refmode = "ALWAYS"},
  dead   <- {s \in Slots : freed[s] > 0}

(* Counters, ids and slots implement shared ownership: every step of       *)
(* register, copy, drop and deinit is a step of SharedOwnership.           *)
ImplementsOwnership == Ownership!Spec
=============================================================================
