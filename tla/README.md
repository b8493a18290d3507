# Vaudou: a TLA+ verification project

Vaudou is a small C game engine: an ECS world (flecs), a Vulkan renderer, SDL
windows, and a library of containers, allocators and a reflection system written
for it. This directory models the parts of it that carry its own logic, checks
them with TLC on small instances and proves, with TLAPS, what matters most for every
instance: of the integer map, the handle map and the string map, the hooks of the
console variables, the slices paths are cut into, the buddy allocator, the arena,
the entity memory, the application shell, the renderer's resources, and its frames
in flight with their descriptor allocators and deletion queues.

Paths below are relative to `src/`.

## 1. Inventory

| Component | State | Operations | Correct when |
|---|---|---|---|
| Integer hash map, `lib/intmap.c` | table of cells with a `next` link, `usecount` | `init`, `set` (may grow and rehash), `tryget`, `del` | a key is found with its own value; chains end; no insertion is lost |
| Handle map, `lib/handlemap.c` | growing array of objects with refcount, mode and id; id map | `register`, `copy`, `drop`, `use`, `deinit` | refcount = handles held; destructor once, when the last handle goes or at `deinit` |
| String hash map, `lib/strmap.c` | bins with a key, the rest of a long key, and a value | `set`, `get`, `del` | `get` answers with the newest value of that key; the rest of a key is the bin's own |
| Console variables, `ng/src/cvar.c`, `lib/delegate.h` | string map, list of callbacks | `set`, `get`, register/unregister a hook | hooks are told while registered, no longer |
| Entity memory, `ng/src/mm.c` | buddy heap, list per entity, free list | allocate for an entity, destructor of `MemoryComponent`, `GarbageCollectTask` | freed once, after the entity is gone, never before |
| Frames in flight, `ng/src/renderer.c` | per window: frame slots (command buffer, fence, semaphores, descriptor pools, deletion queue), swapchain; the GPU's queue | open, resize, close, render a window | nothing is reused or destroyed while the GPU uses it; no wait for a signal that never comes |
| Windows, main loop, shutdown, `w_sdl/w_sdl.c`, `ng/src/instance.c` | windows as rows of a table, deferred commands, `should_close` | poll events, check sizes, render, clear flags, apply commands, deinit | render at the right size; quit exactly with the last window |
| Descriptor allocator, `ng/src/r/descriptor_allocator.c` | ready and full pools, growth | init, allocate (retry in a fresh pool), clear, deinit | the retry succeeds; a frame keeps its sets; no pool is lost or destroyed twice |
| Materials, geometry, GPU memory, `ng/src/r/smat.c`, `geo_system.c`, `svma.c`, and the upload functions of `ng/src/renderer.c` | materials that hold blueprints, meshes with two buffers, tracked memory, frames in flight | create, write and resize a mesh, draw, drop, shutdown | nothing used after it was freed; nothing but the known leak is left; writes fit |
| Buddy allocator, `lib/vd_buddy_alloc.h` | block headers in one piece of memory | allocate (walk, merge, split, retry), free | headers tile the heap; allocations are disjoint; calls return |
| Arena, frame memory, `lib/arena.*`, `ng/src/mm.c` | `begin` | allocate on one thread or on several, reset each frame | allocations are disjoint |
| Reflection and JSON, `lib/vd_meta.h` | registry of types | register, write an object, read it back | what was written is read, by other versions too; bad text is refused |
| Deletion queue, `ng/src/r/deletion_queue.c` | lists of objects, one queue per frame slot | init, push, flush | an object that was put off is destroyed once, and not while a frame reads it |
| Textures, shaders, `ng/src/r/texture_system.c`, `sshader.c` | handle maps | create, upload, drop, end | destroyed once; nothing left at the end |
| Strings, formatting, `lib/str.*`, `lib/fmt.c`, `lib/vd_fmt.h` | - | measure, print, cut a slice at a separator | the text is what its format means and stays in its buffer; a path is cut where it says |
| RHI, `rhi/` | set-up code of a backend nobody uses yet | - | left out |
| Log, shader front end, sockets, editor, command line | - | - | left out: system calls, entry points, one call of a compiler |

How the parts interact. `vd_instance_main` calls `ecs_progress` until
`should_close`. One `ecs_progress` runs `PollSDLEvents` (which sets
`just_resized`, defers the creation and the deletion of windows, and may emit
`AppQuitEvent`), then `RendererCheckWindowComponentSizeChange`, then
`RendererRenderToWindowSurfaceComponents`, then
`ClearWindowComponentFrameChanges`; the deferred commands are applied when no
system runs any more, and `GarbageCollectTask` runs in the post-frame phase.
Adding a window calls `OnAddWindowComponent` and `RendererOnWindowComponentSet`;
removing one calls `on_window_component_immediate_destroy`. The renderer shares
its frame slots with the GPU, which is the only concurrency the program has at
present: flecs is given four threads (`instance.c:97`), but no system of the
engine is declared multi-threaded. For those that will be, `vd_mm_alloc` takes
frame memory with atomic operations. The handle map resolves ids through the
integer map; materials, geometry, textures and shaders are kept in handle maps;
a material holds a handle of its blueprint; console variables are kept in the
string map; the memory of entities comes from the buddy allocator. Every frame
slot of a window has a descriptor allocator and a deletion queue of its own, which
are cleared and flushed when the slot comes round again. Names of windows and
paths are printed into frame memory by `vd_snfmt`.

What is hard here: the frame slots shared with the GPU; deferred commands,
which make later events of a poll see windows that are already closed; lists
whose links live inside recycled memory; reference counts under any order of
copies and drops; hash chains that run through deleted and reused cells; a heap
that is merged while it is searched; pools that run out in the middle of a
frame; texts written by another version of the program, or cut short; texts that are
measured before they are printed.
`PROJECT.json` lists these hazards with the line where each one bites and the
properties that cover it.

## 2. Modules

| Module | Models | State and actions |
|---|---|---|
| `KVStore` | abstract | a store that keeps every binding |
| `IntMap` | `lib/intmap.c` | `map` is the `VD_IntMap` with its cells; `TryGet`, `SetNoGrow`, `Rehashed`, `DelOp` are the four functions, over cells and `next` links; `Set` and `Del` are the calls; `hash` is any function, fixed by `Init` |
| `SharedOwnership` | abstract | objects, who owns them, which are dead |
| `Allocator` | abstract | `inUse`, blocks with an address and a size, none of which overlap; a block is given, taken back, or all are |
| `HandleMap` | `lib/handlemap.c` | `arr` (metadata per slot), `arr_len`, `arr_cap`, `idmap`, `next_id`; `SlotArray` is the array after `allocate_slot`, which a doubling carries over (`ProcAlloc`); `handle` is the engine's variables of type `VD_Handle`; one action per function; `freed` counts the runs of the destructor |
| `HandleMapProofs` | - | the theorems about `HandleMap` |
| `EntityMemory` | `ng/src/mm.c` | `next` is the link inside each block, `root` the component, `free_list` and `curr_info` as in the code; `Pushed` is `add_entity_allocation`; the collector's loop is a step per pass |
| `WindowFrames` | `ng/src/renderer.c` | `render_window_surface` is split where the GPU can get in between: `PickSlot`, `WaitFence`, `ResetSlot`, `Submit`; `Complete` is the GPU |
| `AppShell` | `w_sdl/w_sdl.c`, `ng/src/instance.c` | one action per event and per system, `ApplyCommands` for the end of `ecs_progress` |
| `ShellAndJsonProofs` | - | the theorems about `AppShell` and those about `MetaJson`, which have nothing to do with each other |
| `StrMap` | `lib/strmap.c` | `bins`, including the one past the end; `Found`, `BinFor` are `vd__strmap_get_bin`; `rest` is what the `key_rest` of a bin points to; `Strays`, `FreesAgain` say when an operation on it is undefined, where a behaviour ends (`undef`) |
| `CVars` | `ng/src/cvar.c`, `lib/delegate.h` | extends `StrMap` by the hook list, a sequence of functions (without their `usrdata`) |
| `Text` | `lib/vd_fmt.h`, `lib/fmt.c`, `lib/str.*` | pure conversions and slices; `job` is a text on its way through `Measure` and `Fill`, `name` a path that is shortened |
| `MCStrings` | - | one model of five clients: of the string map, of console variables, of hooks, of formats, of paths |
| `DescriptorAllocator` | `ng/src/r/descriptor_allocator.c`, allocation in `smat.c` | per frame slot `free_pools`, `full_pools`, `sets_per_pool`; `pool` is the local variable of an allocation between `GetPool` and its return; `used`, `cap`, `destroyed` and `by_type` (does it count descriptors by type?) are the driver's; `RetryFails` is the abort; `held` is what a frame was given |
| `DeletionQueue` | `ng/src/r/deletion_queue.c` | per frame slot the objects in its lists; `deleted` counts destructions |
| `FrameResources` | `renderer.c` | the composition of `WindowFrames` with the two modules above: opening, closing and every frame of a slot drive its allocator and its queue; `reads` is what each submission in the GPU's queue reads |
| `FrameResourcesProofs` | - | the theorems about `WindowFrames` and `FrameResources` |
| `GpuResources` | `smat.c`, `geo_system.c`, `texture_system.c`, `sshader.c`, `svma.c`, uploads and shutdown in `renderer.c` | `material`, `blueprint`, `mesh`, `texture`, `shader` are the handle maps; `used` the list of `svma.c`; `queue` the frames the GPU reads; the shutdown is a step per object and system |
| `GpuResourcesProofs` | - | the theorems about `GpuResources` |
| `BuddyAlloc` | `lib/vd_buddy_alloc.h` | `hdr` maps an address to its header; `block`, `buddy`, `best` are the walk's variables; a step per pass of a loop |
| `Arena` | `lib/arena.h`, frame memory in `mm.c` | `begin`; `vd_arena_alloc_t` is `ReadPadding`, `Check`, `Reserve`, one step per access to `begin`; `taken` is what the frame was given; `Barrier` is flecs between systems |
| `MetaJson` | `lib/vd_meta.h` | pure writer and parser over tokens (`WriteJsonObject`, `ParseJsonObject`, ...). Functions of the code that call each other take what does an object inside of theirs as a parameter, `inner`, and `ObjectWriter` and `ObjectReader` tie the knot level by level; a loop is `Loop` of its pass (`NextElement`, `NextField`, `NextName`). `Printed` is what `"%f"` leaves of a float. A behaviour writes an object, may cut the text and reads it with the registry of some program |
| `MCIntMap` | - | two clients of `IntMap`: one of fresh keys (the handle map), in a table that grows, and one that sets and deletes as it likes on a table that does not; states `RefinesStore` |
| `MCMemory` | - | the regions `vd_mm_init` sets up: `EntityMemory`, `BuddyAlloc` and `Arena`. They share no state; a behaviour exercises one of them |
| `MemoryProofs` | - | the theorems about `EntityMemory`, `BuddyAlloc`, `Arena` and `MCMemory` |
| `IntMapProofs` | - | the theorems about `IntMap` and `MCIntMap` |
| `StringsProofs` | - | the theorems about `StrMap`, `CVars` and `Text` |
| `InductionLemmas` | - | induction over the naturals, least and greatest elements, functions defined by recursion over a range: what the proofs about loops rest on |

`MCHandleMap`, `MCEntityMemory`, `MCMetaJson`, `MCWindowFrames` and
`MCFrameResources` give names to the values of
their runs. Definitions called a *variant* in their comment are the same operation
with one plausible mistake; none of them is part of a specification. They are
used to make sure that each property notices a mistake in the code it is about:
put in place of the original, each makes its property fail.

`HandleMap` represents its id map by a function that keeps every binding. That
is what `IntMap` shows for a client that sets fresh keys and deletes none
(`RefinesStore`, `FreshSetsSucceed`), and `vd_handlemap__register` is such a
client: `next_id` only grows, and nothing calls `vd_intmap_del`.

Facts about flecs used in `AppShell` and `EntityMemory`, read off its source
under `ext/`: a system's `ecs_add` and `ecs_delete` are queued and applied after
the pipeline, since no engine system declares a write that makes flecs merge in
between; `ecs_set` of a component that exists writes in place; `ecs_emit` calls
observers at once; deleting a row moves the last row into its place; an observer
runs in a deferred section, where of several `ecs_set` of a component the last
one stays.

## 3. Runs

| Run | Checks | Bounds |
|---|---|---|
| `intmap` | fresh keys: no insertion fails, `KVStore` is refined (so every lookup is exact); any sets and deletes: chains end, no foreign value | fresh keys: 4 keys, every hash function into {0, 3, 4}, a table of 3 cells that grows to 6; any: 2 keys, 4 cells, no growth (with more keys the history of `next` links explodes, and two keys already share, free and reuse every cell) |
| `handlemap` | counts, destructor runs, resolution through every doubling, refinement of `SharedOwnership` | 3 handle variables (interchangeable), 5 registrations, array doubling 1, 2, 4, 8 |
| `memory` | entities: nothing owned is freed, nothing is freed a second time unless several entities are deleted in a frame, and else roots are freed; heap: tiling, `Allocator` is implemented, what a failed search may have missed, every call returns; frame: `Allocator` is implemented, one past the end at most, `begin` stays near | entities: 2 entities, 5 blocks, 2 first and 2 later allocations each, both entities deleted in frames of their own or in one; heap: 16 units, requests of 1, 2, 7, 15 and 16, which round up to 2, 4, 8, 16 and 32; frame: 3 threads, 6 bytes, alignment 2, sizes 1 and 3 |
| `entity_memory_two_deletes` | **violated**: the collector ends | 2 deletions in one frame |
| `window_frames` | slot idle when reused, live surfaces only, every fence will come, every window gets rendered | 2 windows, 2 slots, 3 swapchains per window; the frame counter wraps at 3 so that a wrap repeats a slot |
| `app_shell` | rendered at the window's size, quit only when all windows are closed, closing one last window quits | 3 windows, up to 3 events in one poll |
| `app_shell_burst` | **violated**: the main loop always has a window | 2 windows, 2 events in one poll |
| `strings` | no operation of the string map is undefined without a key of more than 43 characters, and its lookups are never stale; unregistering a hook silences no other and leaves only the first one behind; a text is what its format means and stays in its buffer (`TextIsExact`); directory and last part make the path again (`NamesComeApart`) | 3 keys, one of them long, 3 home bins, 1 overflow bin, 1 bin past the end; every hash function; 3 callbacks, 5 registrations; every format of two items and some of three, integers at the limits of 8 and 16 bits and at every change of length, a log buffer of 9 characters; names of up to 4 characters with both separators, needles of 2 |
| `frame_resources` | the retry has room for a set, and aborts only on a driver that counts by type; no frame in flight reads a set or an object that was destroyed; no pool lost; a deferred object destroyed once | 2 windows, one of which is resized, 2 slots each, pools of 1 set, 3 pools per slot, one deferred object; both kinds of driver (deadlock is not checked: the bound on pools stops it) |
| `gpu_resources` | blueprints outlive materials, shutdown leaves only the known leak and destroys everything once, mesh writes fit, frames in flight read live memory | 2 materials, 2 blueprints (one with a struct property) with their shaders, 2 textures, a written mesh of up to 3 vertices and indices, a drawn mesh, 2 frames in flight |
| `meta_json` | round trip between versions and layouts; a cut text is refused | 6 types with nested objects, floats and arrays of up to 2 elements; floats with 1 decimal (`Decimals`, 6 in the code), of which 3 characters are kept (`FloatRoom`, 31), 5 values: exact, rounded down to 0, rounded up, cut behind and cut before the point; objects two deep in each other (`Levels` = 3 is enough); the same, an older and a newer reader; every place to cut |
| `meta_json_cut` | **violated**: a return code below 0, or an object | a text that ends behind the colon of the type's name |

The bounds are the smallest at which the interesting cases happen together: a
collision and a rehash; an owner dropping between two others; a block recycled
while the list it was in is still walked; a resize with frames of another window
in flight; a row moved by a deletion while a later row is flagged; a merge and a
split in one call; a thread that adds to `begin` behind two others.

Where a run is marked *violated* the code departs from what its comments or
messages say; `PROJECT.json` quotes both under `findings`. In short:

* `add_entity_allocation` takes the old value that the compare-and-swap returns
  for a failure. A push into a list that is not empty links the allocation to
  itself, so two entities destroyed in one frame hang `GarbageCollectTask`.
* A close request counts windows whose deletion is deferred. Two last windows
  closed in one poll do not end the application.
* `vd_meta_parse_json` takes the type's name without looking whether there was
  one.

Properties state what does hold, and carry these facts as their exceptions:

* Only the *root* of an entity's allocations is freed (`RootsAreFreed` speaks of
  roots): the push overwrites the link to the others.
* A string-map key whose home bin is taken is stored where no lookup goes
  (`strmap.c:126`); what *is* found is never stale. Of a key, 43 characters lie
  in the bin. For a longer one `copy_key` takes the allocator from
  `VD_STRMAP_HEADER(bin)` (`strmap.c:40`), which is the map's header for bin 0
  and the end of the bin before for any other: the set is undefined (`Strays`).
  A deletion frees what `key_rest` points to and leaves the pointer
  (`strmap.c:94-99`), so a short key that reuses bin 0 gets it freed again
  (`FreesAgain`). `FoundIsNewest` says that both need a long key, and what holds
  until then. Setting a console variable
  that exists tells the hooks but stores nothing (`cvar.c:44`).
* The callback at index 0 is never removed (`OnlyFirstStays`).
* A window opened in the very poll that closes the last one is still there when
  the device is destroyed: `QuitMeansAllClosed` excludes it, and does not cover it.
* `create_pool` takes the type of `ratios[0]` for every entry of `pPoolSizes`
  (`descriptor_allocator.c:18-25`): a pool is made for storage images only, while set
  0 has a uniform buffer. On a driver that counts descriptors by type every pool
  refuses it, and the second refusal aborts (`RetryFails`). `RetryFindsRoom` says
  that the pool of the retry has room for a set, and that the abort is met on no
  driver that counts sets only.
* The buddy allocator can fail although a large enough block is free at the end
  of the heap, even when everything is free (`OnlyLastIsMissed`);
  `vd_entity_alloc` then writes through null.
* `vd_arena_alloc` does not compare the size with what is left
  (`OneBlockPastEnd`); with sizes that are no multiples of the alignment a block
  of `vd_arena_alloc_t` may be misaligned, its padding being that of an older
  `begin`.
* `vd_snfmt` measures without room, and an integer conversion without room does
  not take its argument: a string behind an integer is measured with the wrong
  argument, so its text may be longer than what was allocated, or read something
  that is no string (`vd_fmt.h:154`, condition `Measurable`). The log writes as
  many characters as the conversions wanted, which may be more than its buffer
  has (`vd_fmt.h:89`). The smallest value of each signed type has no decimals, and
  an `i8` of absolute value 64 to 99 indexes the table of digits with a negative
  number (`Printable`).
* The directory of a path whose only slash is its first character is the whole
  path (`str.h:39`); `vd_str_last_of_s` may miss an occurrence before which a part
  of another one lies, and of the one it does find says the truth.
* The uniform buffers of a material's struct properties are never freed
  (`num_buffers` is not set): `CleanShutdown` names them as the one leak.
* Floats and doubles are printed with `"%f"` into 32 characters
  (`vd_meta.h:1042-1053`): 1e-7 comes back as 0, 1/3 as 0.333333, and a number of
  more than 31 characters loses its last ones, the digits before the point too if
  need be: `FLT_MAX` has 39 of them and comes back 10^8 times smaller. `ReadsWhatWasWritten` promises the nearest
  number with that many decimals, of numbers that fit.
* `ReadsWhatWasWritten` asks (`Readable`) that the reader knows the last field,
  that growing arrays hold no elements with fields new to the reader (they are
  not cleared), that arrays lie at offset 0, are not empty and are written
  minified. The other cases fail in the model as they do in the code: an array
  at offset n is stored at 2n, since the caller (`vd_meta.h:1739`) and
  `vd_meta_field_array_get` both add the offset; in the spaced layout the writer
  ends the last element with a line break (`vd_meta.h:942`) where the reader
  wants the bracket (`vd_meta.h:1642`); a text whose last field is unknown is
  refused, because skipping it runs to the end.

Further facts seen on the way, in parts whose data is left out: a resize leaks the
old depth view (`renderer.c:2292`); `CollectMeshesSystem` advances its vertex offset by the
index count; the null test of `alloc_copy_or_zero_properties` is inverted;
`INVALID_HANDLE` from the shader system goes unchecked; the scene data of a
second window overwrites that of the first in the uniform buffer of set 0 before
the GPU reads it; the NUL that `%{null}` puts behind the path of the builtins lies
in the middle of the paths made from it (`cli.c:51`); conversions without a
function (`ptr`, `bool`, ...) would call null; `vd_meta_parse_json`
keeps its arena when the type is refused; strings are written without escapes.

### Fairness

* `EntityMemory`: weak fairness of the start, the passes and the end of the
  collector. `vd_instance_main` calls `ecs_progress` again and again, and the
  collector's loop is sequential code. Allocation and deletion are not fair.
* `WindowFrames`: weak fairness of the GPU (the device works off its queue; a
  lost device aborts the process) and of the main thread, which is sequential
  code that goes on when `vkWaitForFences` or `vkDeviceWaitIdle` returns.
  Events are not fair. A timeout (`Abort`) may come at any time and is not fair.
* `BuddyAlloc`: weak fairness of the passes of a call that has begun: sequential
  code. Calls are not fair. `MCMemory` states the same fairness, for the region
  that is exercised.
* `FrameResources` and the other modules state safety only and assume no fairness;
  that frames go on is what `WindowFrames` shows of the slots themselves.

## 4. Proofs

`HandleMapProofs` proves, for any finite set of handle variables, any initial
capacity above 0 and any number of objects (`HandleMapAssumption`):

| Theorem | Statement |
|---|---|
| `TypeCorrect` | `Spec => []TypeOK` |
| `SlotsStayInBounds` | `Spec => []SlotsInBounds` |
| `RefcountCorrect` | `Spec => []CountIsOwners` |
| `FreedExactlyWhenUnowned` | `Spec => []FreedWhenUnowned` |
| `NothingLeaksNothingFreedTwice` | `Spec => []AllFreedOnceAtDeinit` |
| `HandlesResolve` | `Spec => []ResolvesToOwn` |
| `OwnershipImplemented` | `Spec => ImplementsOwnership` |

The argument. None of the properties is inductive alone. That a drop frees at
the right moment needs the count to equal the number of owners; that the count
stays equal needs that a handle resolves to the slot whose metadata carries its
id, since otherwise a drop would count down another object; and that `deinit`
frees the rest exactly once needs that a slot's id is 0 exactly when its
destructor has run. The inductive invariant of the module joins these with the
type invariant. A registration may double the slot array: `SlotsAreKept` says that it
holds what it held before, because the slots in use lie within the old capacity
(`SlotsInBounds`), which is what `proc_alloc` is told to carry over. Each action is one step of the proof. The facts about
cardinality (one owner more after a copy, one fewer after a drop, none left
when the count reaches 0) are lemmas of their own and rest on
`FiniteSetTheorems`. The refinement maps `owners` to the holders of each slot
and `dead` to the slots whose destructor ran, and shows every action to be the
step of `SharedOwnership` of the same name.

`TypeCorrect` and `SlotsStayInBounds` are proved only; no run checks them separately.

`MemoryProofs` proves of the buddy allocator, for any heap whose size and block sizes are as
`vd_buddy_alloc_init` asserts, and any requests smaller than twice the heap
(`BuddyAllocAssumption`):

| Theorem | Statement |
|---|---|
| `HeapTypeCorrect` | `HeapSpec => []HeapTypeOK` |
| `HeapStaysTiled` | `HeapSpec => []Tiled` |
| `AllocationsDisjoint` | `HeapSpec => []NoOverlap` |
| `HeapImplementsAllocator` | `HeapSpec => HeapIsAllocator`, the abstract `Allocator` |
| `FailsOnlyWhenFull` | `HeapSpec => []OnlyLastIsMissed` |

The argument. The headers tile the heap at every step of a walk (`Tiled`) because
a merge joins two blocks that lie side by side, which needs that `buddy` really
is the neighbour of `block` (`WalkInv`), and a split divides a block in two of the
sizes in use. Allocations are disjoint because each stays inside its block
(`GivenInv`): the block handed out is the best one remembered, still a free block
of the heap when it is split (`BestInv`, merges happen behind it) and as large as
the request wants (`WantInv`). `MergeTiles` and `SplitTiles` are the lemmas
about the two changes of the heap; `BlockFacts` says what a tiling gives. For the
refinement, the blocks in use are the requests as they were answered; a call maps
to `Give` at the step that returns a block (`FoundGives`, from `InUseApart`: the
block found overlaps none in use), a free to `TakeBack` (`FreeTakesBack`), and every
pass of a loop to a stutter. That a search misses only the last block adds an
invariant (`Searched`): as long as it has no candidate, no block behind the walk
fits, although the walk merges and passes over blocks by two; so when it ends, at
most the block it stands at fits, and that one reaches the end of the heap.

`MemoryProofs` proves of the arena, for any number of threads, any arena, alignment and sizes
(`ArenaAssumption`):

| Theorem | Statement |
|---|---|
| `ArenaTypeCorrect` | `ArenaSpec => []ArenaTypeOK` |
| `FrameBlocksDisjoint` | `ArenaSpec => []BlocksDisjoint` |
| `AtMostOnePastEnd` | `ArenaSpec => []OneBlockPastEnd` |
| `FrameImplementsAllocator` | `ArenaSpec => FrameIsAllocator`, the abstract `Allocator` |
| `BeginStaysInReach` | `Bounded => (ArenaSpec => []BeginStaysNear)` |

The argument. Everything handed out ends at or before `begin` (`Behind`), and the
next block starts at or after it, wherever `begin` was when its padding was
computed. A block past the end leaves `begin` past the end, where one kind of
allocation refuses and the other returns nothing. `OneMore` is the lemma about a
block that joins, `NoMore` the one about steps that hand out nothing. For the
refinement, each allocation that returns memory is a `Give` (`GivesBlock`: it lies
behind everything handed out), the reset at the end of the frame a `Reset`.
`NoOverlap` and `BlocksDisjoint` are proved and no longer checked on their own: the
refinements say more. `BeginStaysInReach` needs finitely many threads, at least one, and
a largest size (`Bounded`, which the other theorems do without): each thread
about to reserve may still move `begin` on by one block, so `begin` plus those
blocks never exceeds the end of the arena plus one block per thread (`Near`).

`GpuResourcesProofs` proves, for any meshes, textures and blueprints, any finite
set of materials, any counts and any number of frames in flight
(`GpuResourcesAssumption`):

| Theorem | Statement |
|---|---|
| `WritesAlwaysFit` | `Spec => []WritesFit` |
| `FramesReadLiveBuffers` | `Spec => []InFlightIsAlive` |
| `BlueprintsOutlive` | `Spec => []BlueprintOutlivesMaterials` |
| `ShutdownIsClean` | `Spec => []CleanShutdown` |

The argument has three invariants. `Inv`: the counts of a mesh never exceed what was
allocated, which is what makes a resize that compares with the last write safe; the
drawn meshes keep the buffers they were created with, so that the resize, which
frees at once, can only hit the ImGui mesh, and no frame is left when the shutdown
has begun. `EntryInv`: while there are materials, the count of a blueprint is the
client's handle, if he still has it, plus the number of its live materials
(`Balanced`), so the last of either destroys it and none does so earlier; each map
that is ended leaves nothing live. The lemmas on `Dropped` and `Destroyed` say what
a drop does to such an entry, `MaterialGoes` carries the cardinality. `UsedInv`:
whatever `svma.c` tracks belongs to a live mesh or texture, is a staging buffer
during an upload, the buffers of set 0 before the shutdown, or the uniform buffer of a
material, so once the maps are empty only the last are left. The model takes the
handle map by what `HandleMapProofs` proves of it; that only default meshes are drawn is how
the engine uses the renderer, an assumption of the model.

`MemoryProofs` proves of the entity memory, for any entities, blocks, numbers of allocations
and numbers of deletions in a frame (`EntityMemoryAssumption`):

| Theorem | Statement |
|---|---|
| `OwnedBlocksStay` | `Spec => []OwnedStaysLive` |
| `CollectorFreesOnce` | `Spec => []FreedTwiceOnlyInBurst` |

The argument. What the collector reaches is the root of the entity deleted last
(`Lists`): it is nobody's, and its link is decided by how many deletions the frame had
(`Waiting`, `PushedOnto`), whatever the recycled block held. After one deletion the push
found an empty list, the link is null, and the collector, which reads it after
freeing the block, stops there. After several the push linked the block to itself: the
collector frees it again and again and never leaves the frame, so no block is handed
out in between that it could take from an entity. A second free is then the only harm,
and only there, which is what `FreedTwiceOnlyInBurst` says; that the collector does not
end is the finding of the run `entity_memory_two_deletes`.

`ShellAndJsonProofs` proves, for any windows and any length of the event queue
(`AppShellAssumption`):

| Theorem | Statement |
|---|---|
| `FramesHaveWindowSize` | `Spec => []RenderedAtSize` |
| `QuitsWithLastWindow` | `Spec => []QuitMeansAllClosed` |
| `LastCloseAlwaysQuits` | `Spec => []LastCloseQuits` |

The argument. Each window whose size changed keeps its flag until the sizes are
checked in the same frame (`Sizes`); the flag of another window may be cleared late
or survive, which does no harm. `should_close` is set by a close event that finds
every window in the table closed already, and until the commands are applied no row
leaves or joins the table. That the last window closed alone ends the application needs what
`ApplyCommands` leaves of the table: a queued deletion of the only row comes with the
decision to quit (`CloseDecides`), and of the rows only those some command deletes go
(`RowsAfterFacts`, by induction over the commands: a deletion moves the last row into
the place of the one it removes and takes away no other).

`FrameResourcesProofs` proves of the composition, for any windows, number of frame
slots, capacities of pools and objects in a frame (`WindowFramesAssumption`,
`DescriptorAllocatorAssumption`, `DeletionQueueAssumption`,
`FrameResourcesAssumption`), the first three of its frames alone:

| Theorem | Statement |
|---|---|
| `SlotsAreIdleWhenReused` | `Spec => []SlotIdleWhenReused` |
| `NoWorkOnDeadSurfaces` | `Spec => []WorkUsesLiveSurface` |
| `EveryFenceWillCome` | `Spec => []FenceWillCome` |
| `SecondPoolHasRoom` | `FRSpec => []RetryFindsRoom` |
| `NoPoolIsLost` | `FRSpec => []EveryPoolOnce` |
| `SubmissionsKeepWhatTheyRead` | `FRSpec => []InFlightIntact` |
| `PutOffIsDestroyedOnce` | `FRSpec => []DeferredOnce` |

The argument. Of the frames: a slot in flight has its fence unsignaled and is in
flight once (`InFlight`), so a slot whose fence was waited for is idle (`Taken`), and
opening, resizing and closing find the GPU idle. Of the pools (`PoolInv`): a pool
that exists is in one place of its slot's allocator, free, full, or the one being
tried (`Ownership`); of the free pools only the last may hold sets and none while one
is tried, so the pool of a second attempt is fresh (`Freshness`), whichever of the two
lists it came from. Hence a refusal of it is not for want of sets (`AbortStep`): the
program aborts only where the driver counts descriptors by type (`AbortsByType`). Of the queues (`QueueInv`): what waits is in no second queue and
was not destroyed, unless it is a texture. What ties them together (`ReadSets`,
`ReadObjects`): a submission reads the sets its slot was given, and its slot is not
cleared, flushed or closed before the GPU is done with it, which is `Inv` of the
frames again. Each step of the composition is a step, or a stutter, of each part, so
the invariants of the parts are lemmas about their operations and the composed step
cites them.

`RegionsAreApart` joins the three parts of `MemoryProofs`: every behaviour of `MCMemory`,
which has all of `vd_mm_init`'s regions in it, is a behaviour of each region's own
specification, so each theorem about a region holds beside the others.

`IntMapProofs` proves, for any keys, values, hash function, table size, growth and
number of operations (`IntMapAssumption`, `MCIntMapAssumption`):

| Theorem | Statement |
|---|---|
| `ChainsAlwaysEnd` | `AnySpec => []ChainsEnd` |
| `NoValueOfAnotherKey` | `AnySpec => []NoForeignValue` |
| `FreshSetsAlwaysSucceed` | `MCSpec => []FreshSetsSucceed` |
| `IntMapRefinesStore` | `MCSpec => RefinesStore`, the abstract `KVStore` |

The argument. `AnySpec` is a client that sets and deletes whatever it likes. Deleted
cells keep their link and are filled again, so the cells of one chain may belong to many
homes; that a walk ends in spite of it is not visible in any one chain. The invariant is
that the cells can be *numbered* so that every link leads to a smaller number
(`Ordered`): an insertion fills a cell at which no link is changed but that of the end of
one chain, and giving the filled cell the smallest number keeps the order
(`InsertedOK`). A walk of as many steps as there are cells has then reached its end
(`ChainWalkEnds`). That no foreign value is found needs that every cell in use holds a
binding somebody asked for (`AllWritten`). For the client of fresh keys, of which the
handle map is one, nothing is deleted (`OnlyInserted`): cells in use are reached from
their key's home (`Reaches`, said of sets the links do not leave, so that it needs no
recursion), each key is in one cell, and the walk of a search visits it (`SearchFinds`).
`vd_intmap_check_grow` keeps that by an induction over the cells it moves (`Moved`,
`RehashedMoved`), and leaves a table with a free cell, so the set that follows cannot
fail (`GrowMakesRoom`). With it `HandleMap`'s representation of its id map by a
function rests on a proof.

`StringsProofs` proves, for any keys, values, hash, callbacks, table size, and slices of
any characters no longer than a u32 counts, and formats and arguments of any length where
each conversion is handed an argument of its type and range (`StrMapAssumption`,
`CVarsAssumption`, `TextAssumption`):

| Theorem | Statement |
|---|---|
| `MapFindsNewest` | `MCSpec => []DirectFindsNewest` |
| `OnlyFirstHookStays` | `MCSpec => []OnlyFirstStays` |
| `NamesAlwaysComeApart` | `MCSpec => []NamesComeApart` |
| `TextsAreExact` | `MCSpec => []TextIsExact` |

The argument. A key the string map finds sits in its home bin, and a bin that an insertion
takes elsewhere is the home of another key or of none, so copies that collisions
leave behind are never found (`Newest`). `FoundIsNewest` says this until an operation is
undefined, and that none is as long as no key of more than 43 characters was set: without one
the `key_rest` of every bin is null, as `vd__strmap_init` left it (`RestInv`). Of the hooks `OnlyFirstStays` is nearly inductive itself: the
proof counts the places of each callback through a deletion that moves the last entry
into the gap (`Swapped`). The slices: `NamesInv` says that a name stays a slice of known
characters however it is cut; `CutFacts`, `LastPartFacts` and `DirectoryFacts` say where the cuts
are, and `PutTogether` adds the parts up. The loop of `vd_str_last_of_s` is a recursive
function; `PassSees` is the invariant of its passes (what of the needle was seen lies
where the loop stands, `Seen`), from which `FoundIsThere`, and `FoundAtEnd` follows it
through a needle at the end of the slice.

Texts in three parts. *Integers*: `PrintableIsExact` says that digits by pairs out of the
table, the first pair perhaps a single one, are the decimals of the number, for every
number of 8 or 16 bits whose table index fits the type and whose sign can be dropped;
that the other ones are excluded is what `Printable` is for. *One pass*: whatever the
arguments are read as, nothing lies behind the n-th character, and an unknown conversion
returns 0 (`InBounds`, `VsnfmtInBounds`); with the room for the widest text and each
conversion at its own argument, what was written after i items is what these items mean
(`Printed`, `VsnfmtIsExact`). *Two passes*: the measuring one counts the widest text
(`Measured`, `VsnfmtMeasures`), although an integer without room leaves its argument for
the next conversion: up to the first integer the arguments are in step, and behind it, in
a `Measurable` format, no length depends on one. `TextInv` is the inductive invariant: what
`vd_snfmt` allocates for is what its first pass returned, for some reading of the
arguments it misread.

Loops. Where the code's loop runs over a table, a list or a slice, the model has a
recursive function over a range of numbers, and `InductionLemmas` has what a proof needs of
it: that the function exists (`Recursion`), and that what a step keeps holds at every number
(`KeptInRange`). Both come from well-foundedness of the naturals through *sets* of numbers
(`RangeInduction`), as the library's induction theorems over operators are out of the
provers' reach.

And `ShellAndJsonProofs` proves of `MetaJson`, for any registries whose types are
registered after the types of their fields, any objects nested to any depth, both layouts,
any number of decimals and of characters kept of a float, and readers of any other version in
which a field of a float is one of a float or a double still (`SameKind`; a reader that
expects another class of number is not modelled) (`JsonAssumption`):

| Theorem | Statement |
|---|---|
| `CutTextsAreRejected` | `JsonSpec => []CutIsRejected` |
| `TypesAreRead` | `JsonSpec => []TypeIsRead`, the first half of `ReadsWhatWasWritten` |

The argument counts braces. `Braces(txt, n)` is how deep the first n tokens lead, the
`num_braces` of `vd_meta__json_skip_value`. The writer: every text it puts together
from values closes what it opens and nothing else (`Balanced`), from which the text of an
object is `Whole`: its first brace is closed by its last token and by no one before
(`ObjectTextWhole`, with `ObjectWriterOK` going through the levels). Hence a text cut
anywhere is `Open`: behind each of its tokens at least one brace is open
(`CutWholeIsOpen`). The reader: whatever a function of the parser has read when it
returns 0, and whatever `vd_meta__json_skip_value` skips, leads exactly as deep as it
began (`Even`), and an object that was read has closed the brace it started with
(`ObjectOK`, `ObjectReaderOK`); in an open text there is no such place, so 0 is never
returned (`OpenIsRefused`). The loops need a bound: each pass that goes on has left
a comma behind (`LoopOK`), so that `Loop`, which allows two passes more than the text
has commas, never runs out of them. The loop of `vd_meta__json_get_object_type` takes
one pass more where a value has no end, and that is the second. That the loops and the nestings
are functions by recursion that exist is one lemma, `Runs`, over a list of what the
steps are (`Goes`), because no lemma may take an operator.

`CutInv`, the inductive invariant, says that a text that was written is `Whole`, and
one that was cut `Open`, until it is read. `Undefined` has its place in the statement:
behind the colon of the type's name the code reads an uninitialised pointer
(`meta_json_cut`). `TypesAreRead` follows the first tokens of a text through both
layouts: the first name is that of the type, so the first pass answers (`TypeFound`).

Only model-checked: the liveness properties (fairness is out of the prover's reach), and
of `ReadsWhatWasWritten` the values of the fields: `Converted` and `Readable`, which say
what they should be, are `RECURSIVE` operators over nested types, which stay in
`MCMetaJson` where TLC evaluates them.

## 5. What is left out

* Data: what is drawn, file contents, the values of components, names.
* Contract violations: the use of a handle after its own drop (id 0 may resolve
  to slot 0), unregistering a callback that is not registered (writes before the
  list), a variable set with another type (an assertion).
* The presentation engine: nothing in the code orders the reuse of
  `sem_present_image` after its consumption.
* The `usrdata` of a hook: `delegate.h:22` compares the function alone, and so does the
  model, but it says nothing on two callbacks with one function.
* What the program does after an undefined operation of the string map.
* Deletes from an integer map that grows: `usecount` then drifts from the number of used
  cells (`intmap.c:81`). Nothing in the engine deletes from one.
* The blocks of an entity behind its root: the code loses them, and no property asks
  for more.
* Exhaustion of memory above the two allocators modelled: `EntityMemory` and the
  renderer get what they ask for.
* Which decimal a float is and which float a decimal: a number counts its decimals
  exactly, and `strtof` and `strtod` read what is there.
* Integers wider than their field, escapes in strings, hash values of names and
  the growth of buffers in `vd_meta.h`.
* The conversion of draw lists in the ImGui module, pipelines, descriptor
  contents, image layouts, device creation.
* Floats and the replaceable table of conversions in `vd_fmt.h`, the log's file.
* RHI, shader front end, sockets, editor, command line and
  everything vendored under `ext/`: see the notes under `components` in
  `PROJECT.json`.

Almost all lines of the repository are vendored (flecs, Tracy, ImGui, the Vulkan
Memory Allocator, generated tables): they are modelled where the engine depends on
what they do, as external. What the map names is about a third of the engine's own
code; most of the rest is Vulkan set-up in sequence, declarations and data.

## 6. Plan

Done: handle map and integer map with their abstract specifications, entity
memory, frames in flight composed with descriptor allocators and deletion queues,
application shell, string map, console variables, texts and paths, GPU resources
with shaders and textures, buddy allocator and arena with the abstract allocator
both implement, reflection; the theorems of section 4, which state every safety property
of a passing run but one: of `ReadsWhatWasWritten` they state the part about types.

Next, extending the model:

1. `EntityMemory` over `BuddyAlloc`: lists through blocks that are merged and split.
2. The rest of the renderer's start: choice of device, queues and extensions, and
   what is undone when a step of it fails; RHI's set-up likewise.
3. The contents of uniform buffers: what a frame in flight reads of the scene data.
4. The conversion of draw lists in the ImGui module, with more than one list.

And proving more:

1. The values of `ReadsWhatWasWritten` for a reader with the writer's own registry: what
   `Filled` makes of the stores is the object, by the levels that `CutTextsAreRejected` goes
   through.
2. `EntityMemory` over `BuddyAlloc`, once it is modelled: the lists' links lie in
   blocks that `AllocationsDisjoint` keeps apart.
