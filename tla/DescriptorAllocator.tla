------------------------- MODULE DescriptorAllocator -------------------------
(***************************************************************************)
(* ng/src/r/descriptor_allocator.c and its client, the frames of           *)
(* ng/src/r/smat.c.  Each frame slot of a window has an allocator: pools   *)
(* that may have room (free_pools, the last one is used first) and pools   *)
(* that ran out (full_pools).  A frame resets the pools of its slot,       *)
(* then smat_prep allocates two descriptor sets for every object drawn; a  *)
(* pool that is out of memory is put aside and the allocation tried once   *)
(* more in another pool, where a failure ends the program (VD_VK_CHECK).   *)
(*                                                                         *)
(* External: the driver, which gives a pool room for maxSets sets.  Vulkan *)
(* leaves it to the driver whether it also counts descriptors by type: one *)
(* that does refuses a set whose types the pool was not created for.       *)
(***************************************************************************)
EXTENDS Integers, Sequences, FiniteSets, SequencesExt

CONSTANTS
  Allocators,        \* frame slots, each with its allocator
  InitialSets,       \* initial_sets: 1000 in rebuild_frame_data
  MaxSets,           \* the most sets a pool is created for: 4092 in get_pool
  MaxPools,          \* bound on the pools created for one slot
  None               \* no allocator, no pool

ASSUME DescriptorAllocatorAssumption ==
  /\ InitialSets \in Nat \ {0} /\ MaxSets \in Nat \ {0} /\ MaxPools \in Nat
  /\ None \notin Allocators /\ None \notin Allocators \X Nat

VARIABLES
  open,              \* slots whose allocator is initialised
  free_pools, full_pools, sets_per_pool,   \* slot -> its VD_DescriptorAllocator
  cap, used,         \* pool -> maxSets, sets allocated: the driver's state
  destroyed,         \* pool -> calls of vkDestroyDescriptorPool
  by_type,           \* the driver counts descriptors by type: fixed by Init
  desc_allocator,    \* SMat.desc_allocator, or None
  step,              \* where vd_descriptor_allocator_allocate is
  pool,              \* pool_to_use, or None
  sets_left,         \* sets smat_prep has still to allocate
  held               \* history: slot -> the sets its last frame was given

driver == <<cap, used, destroyed, by_type>>
descriptorVars == <<open, free_pools, full_pools, sets_per_pool, cap, used, destroyed,
                    by_type, desc_allocator, step, pool, sets_left, held>>

-----------------------------------------------------------------------------
Pools == DOMAIN cap
PoolsMadeFor(s) == Cardinality({p \in Pools : p[1] = s})
NewPool(s) == <<s, PoolsMadeFor(s) + 1>>

DescriptorInit ==
  /\ open = {}
  /\ free_pools = [s \in Allocators |-> <<>>] /\ full_pools = [s \in Allocators |-> <<>>]
  /\ sets_per_pool = [s \in Allocators |-> 0]
  /\ cap = [p \in {} |-> 0] /\ used = cap /\ destroyed = cap /\ by_type \in BOOLEAN
  /\ desc_allocator = None /\ step = "idle" /\ pool = None /\ sets_left = 0
  /\ held = [s \in Allocators |-> {}]

(* The ratios of rebuild_frame_data, by type; create_pool asks for the     *)
(* first one's type in every entry of pPoolSizes.                          *)
Ratios == <<"storage image", "storage buffer", "uniform buffer", "image sampler">>
AskedTypes == {Ratios[1]}

(* Set 0, the first one smat_prep allocates, has a uniform buffer; the set *)
(* of the material's properties is not reached when set 0 is refused.      *)
Set0Types == {"uniform buffer"}

(* vkAllocateDescriptorSets finds what a set needs in the pool. *)
HasRoom(p) == used[p] < cap[p] /\ (by_type => Set0Types \subseteq AskedTypes)

(* A pool with room for n sets (vkCreateDescriptorPool). *)
CreatePool(s, n) ==
  /\ PoolsMadeFor(s) < MaxPools
  /\ cap' = [p \in Pools \cup {NewPool(s)} |-> IF p \in Pools THEN cap[p] ELSE n]
  /\ used' = [p \in Pools \cup {NewPool(s)} |-> IF p \in Pools THEN used[p] ELSE 0]
  /\ destroyed' = [p \in Pools \cup {NewPool(s)} |-> IF p \in Pools THEN destroyed[p] ELSE 0]
  /\ UNCHANGED by_type

(* vd_descriptor_allocator_init, from rebuild_frame_data *)
AllocatorInit(s) ==
  /\ s \notin open /\ step = "idle" /\ desc_allocator = None
  /\ CreatePool(s, InitialSets)
  /\ open' = open \cup {s}
  /\ free_pools' = [free_pools EXCEPT ![s] = <<NewPool(s)>>]
  /\ full_pools' = [full_pools EXCEPT ![s] = <<>>]
  /\ sets_per_pool' = [sets_per_pool EXCEPT ![s] = (3 * InitialSets) \div 2]
  /\ held' = [held EXCEPT ![s] = {}]
  /\ UNCHANGED <<desc_allocator, step, pool, sets_left>>

(* vd_descriptor_allocator_deinit, when the window is closed *)
AllocatorDeinit(s) ==
  /\ s \in open /\ step = "idle" /\ desc_allocator = None
  /\ destroyed' = [p \in Pools |->
                     destroyed[p] + Cardinality({i \in DOMAIN free_pools[s] : free_pools[s][i] = p})
                                  + Cardinality({i \in DOMAIN full_pools[s] : full_pools[s][i] = p})]
  /\ open' = open \ {s}
  /\ held' = [held EXCEPT ![s] = {}]
  /\ UNCHANGED <<free_pools, full_pools, sets_per_pool, cap, used, by_type,
                 desc_allocator, step, pool, sets_left>>

(* Variant: the full pools are reset but do not become free again. *)
BeginFrameKeepsFull(s) ==
  /\ s \in open /\ step = "idle" /\ desc_allocator = None
  /\ desc_allocator' = s
  /\ used' = [p \in Pools |->
                IF p \in Range(free_pools[s]) \cup Range(full_pools[s]) THEN 0 ELSE used[p]]
  /\ full_pools' = [full_pools EXCEPT ![s] = <<>>]
  /\ held' = [held EXCEPT ![s] = {}]
  /\ UNCHANGED <<open, free_pools, sets_per_pool, cap, destroyed, by_type, step, pool, sets_left>>

(* Variant: the full pools become free again but are not reset. *)
BeginFrameNoReset(s) ==
  /\ s \in open /\ step = "idle" /\ desc_allocator = None
  /\ desc_allocator' = s
  /\ used' = [p \in Pools |-> IF p \in Range(free_pools[s]) THEN 0 ELSE used[p]]
  /\ free_pools' = [free_pools EXCEPT ![s] = @ \o full_pools[s]]
  /\ full_pools' = [full_pools EXCEPT ![s] = <<>>]
  /\ held' = [held EXCEPT ![s] = {}]
  /\ UNCHANGED <<open, sets_per_pool, cap, destroyed, by_type, step, pool, sets_left>>

(* Variant: all pools are reset, those of other slots too. *)
BeginFrameResetsAll(s) ==
  /\ s \in open /\ step = "idle" /\ desc_allocator = None
  /\ desc_allocator' = s
  /\ used' = [p \in Pools |-> 0]
  /\ free_pools' = [free_pools EXCEPT ![s] = @ \o full_pools[s]]
  /\ full_pools' = [full_pools EXCEPT ![s] = <<>>]
  /\ held' = [held EXCEPT ![s] = {}]
  /\ UNCHANGED <<open, sets_per_pool, cap, destroyed, by_type, step, pool, sets_left>>

(* smat_begin_frame: vd_descriptor_allocator_clear resets all the slot's   *)
(* pools; the full ones are free again, behind the others.                 *)
BeginFrame(s) ==
  /\ s \in open /\ step = "idle" /\ desc_allocator = None
  /\ desc_allocator' = s
  /\ used' = [p \in Pools |->
                IF p \in Range(free_pools[s]) \cup Range(full_pools[s]) THEN 0 ELSE used[p]]
  /\ free_pools' = [free_pools EXCEPT ![s] = @ \o full_pools[s]]
  /\ full_pools' = [full_pools EXCEPT ![s] = <<>>]
  /\ held' = [held EXCEPT ![s] = {}]
  /\ UNCHANGED <<open, sets_per_pool, cap, destroyed, by_type, step, pool, sets_left>>

(* smat_end_frame *)
EndFrame ==
  /\ step = "idle" /\ desc_allocator # None
  /\ desc_allocator' = None
  /\ UNCHANGED <<open, free_pools, full_pools, sets_per_pool, driver, step, pool, sets_left, held>>

(* get_pool: the last free pool, or a new one; the next new one is half as *)
(* large again, up to MaxSets.                                             *)
GetPool(s) ==
  \/ /\ free_pools[s] # <<>>
     /\ pool' = Last(free_pools[s])
     /\ free_pools' = [free_pools EXCEPT ![s] = Front(@)]
     /\ UNCHANGED <<sets_per_pool, driver>>
  \/ /\ free_pools[s] = <<>>
     /\ CreatePool(s, sets_per_pool[s]) /\ pool' = NewPool(s)
     /\ LET grown == (3 * sets_per_pool[s]) \div 2
        IN  sets_per_pool' =
              [sets_per_pool EXCEPT ![s] = IF grown > MaxSets THEN MaxSets ELSE grown]
     /\ UNCHANGED free_pools

(* smat_prep: two calls of vd_descriptor_allocator_allocate; each begins   *)
(* with get_pool ...                                                       *)
Prep ==
  /\ step = "idle" /\ desc_allocator # None
  /\ GetPool(desc_allocator)
  /\ step' = "first" /\ sets_left' = 2
  /\ UNCHANGED <<open, full_pools, desc_allocator, held>>

(* ... vkAllocateDescriptorSets succeeds: the pool goes back to the free   *)
(* ones ...                                                                *)
Allocated ==
  /\ step \in {"first", "second"} /\ HasRoom(pool)
  /\ used' = [used EXCEPT ![pool] = @ + 1]
  /\ free_pools' = [free_pools EXCEPT ![desc_allocator] = Append(@, pool)]
  /\ held' = [held EXCEPT ![desc_allocator] = @ \cup {<<pool, used[pool] + 1>>}]
  /\ step' = IF sets_left = 1 THEN "idle" ELSE "next"
  /\ pool' = None /\ sets_left' = sets_left - 1
  /\ UNCHANGED <<open, full_pools, sets_per_pool, cap, destroyed, by_type, desc_allocator>>

(* ... and the second set follows ...                                      *)
NextSet ==
  /\ step = "next"
  /\ GetPool(desc_allocator)
  /\ step' = "first"
  /\ UNCHANGED <<open, full_pools, desc_allocator, sets_left, held>>

(* ... or the pool is out of memory: it is full, and another one is tried, *)
OutOfPool ==
  /\ step = "first" /\ ~HasRoom(pool)
  /\ full_pools' = [full_pools EXCEPT ![desc_allocator] = Append(@, pool)]
  /\ GetPool(desc_allocator)
  /\ step' = "second"
  /\ UNCHANGED <<open, desc_allocator, sets_left, held>>

(* ... but once only: VD_VK_CHECK aborts when that one is refused too.     *)
RetryFails ==
  /\ step = "second" /\ ~HasRoom(pool)
  /\ step' = "aborted"
  /\ UNCHANGED <<open, free_pools, full_pools, sets_per_pool, driver,
                 desc_allocator, pool, sets_left, held>>

DescriptorNext ==
  \/ \E s \in Allocators : AllocatorInit(s) \/ AllocatorDeinit(s) \/ BeginFrame(s)
  \/ EndFrame \/ Prep \/ Allocated \/ NextSet \/ OutOfPool \/ RetryFails

DescriptorSpec == DescriptorInit /\ [][DescriptorNext]_descriptorVars

-----------------------------------------------------------------------------
(* Properties. *)

InUse(s) == IF desc_allocator = s /\ pool # None THEN {pool} ELSE {}

(* On a driver that counts sets only, the one retry of                     *)
(* vd_descriptor_allocator_allocate always succeeds: however many frames   *)
(* and objects came before, only the last of the free pools holds any      *)
(* sets, and every new pool has room for one at least.  Its VD_VK_CHECK    *)
(* ends the program on one that counts by type and nowhere else.           *)
RetryFindsRoom ==
  /\ step = "second" /\ ~by_type => used[pool] < cap[pool]
  /\ step = "aborted" => by_type

Places(list, p) == UNION {{s} \X {i \in DOMAIN list[s] : list[s][i] = p} : s \in open}

(* Every pool ever created is destroyed once, or is in exactly one place   *)
(* of exactly one allocator: none is lost between the two lists, none is   *)
(* in both, and vd_descriptor_allocator_deinit destroys none twice.        *)
EveryPoolOnce ==
  \A p \in Pools :
    destroyed[p] + Cardinality(Places(free_pools, p)) + Cardinality(Places(full_pools, p))
      + Cardinality({s \in open : p \in InUse(s)}) = 1
=============================================================================
