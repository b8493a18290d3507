---------------------------- MODULE GpuResources -----------------------------
(***************************************************************************)
(* What the renderer's resource systems own (ng/src/r: geo_system.c,       *)
(* smat.c, svma.c; the upload functions of renderer.c): meshes with their  *)
(* two buffers, materials, the blueprints materials hold a handle of, the  *)
(* buffers svma.c tracks, the frames the GPU still reads them for, and the *)
(* order in which vd_renderer_deinit takes everything down.                *)
(*                                                                         *)
(* A handle map is taken by what HandleMapProofs proves of it: an object   *)
(* is destroyed when its count drops to zero or when the map ends.  The    *)
(* clients are the engine's: StaticMeshComponents draw the default meshes, *)
(* the ImGui module writes a mesh of its own in every frame and does not   *)
(* draw it.  Pipelines and layouts follow their blueprint and are not told *)
(* apart; the two shaders a blueprint is made of are created and dropped   *)
(* together (their sources are part of the program, and compile).  Textures*)
(* are created, uploaded and sampled by materials without a handle of      *)
(* their own; no client drops one.                                         *)
(***************************************************************************)
EXTENDS Integers, Sequences, FiniteSets

CONSTANTS
  Materials, Blueprints,   \* what can be registered
  Default,                 \* materials.pbropaque
  StructBlueprints,        \* those with a property of BINDING_TYPE_STRUCT
  DefaultMeshes,           \* quad, sphere, cube
  GuiMesh,                 \* BackendData.mesh_data
  DefaultTextures,         \* white, black, checker_magenta
  GuiTexture,              \* BackendData.font_image
  MaxCount,                \* bound on vertices and on indices of a mesh
  MaxInFlight              \* bound: frames the GPU has not finished

ASSUME GpuResourcesAssumption ==
  /\ Default \in Blueprints /\ StructBlueprints \subseteq Blueprints
  /\ GuiMesh \notin DefaultMeshes /\ GuiTexture \notin DefaultTextures
  /\ IsFiniteSet(Materials)
  /\ MaxCount \in Nat \ {0} /\ MaxInFlight \in Nat

Meshes == DefaultMeshes \cup {GuiMesh}
Textures == DefaultTextures \cup {GuiTexture}
Counts == 1 .. MaxCount

VARIABLES
  mesh,                    \* mesh -> VD_R_GPUMesh, or None
  material,                \* material -> its blueprint and its entry in the map
  blueprint,               \* blueprint -> its entry: held (a client keeps its
                           \* handle), count, and how often it was destroyed
  shader,                  \* blueprint -> the entry of the shaders made for it
  texture,                 \* texture -> its entry
  used,                    \* svma.c: the allocations that were not freed
  render_list,             \* buffers of the objects pushed for this frame
  queue,                   \* per frame in flight, the buffers it reads
  at                       \* the main thread

vars == <<mesh, material, blueprint, shader, texture, used, render_list, queue, at>>

-----------------------------------------------------------------------------
None == [live |-> FALSE]

(* The index and the vertex buffer of a mesh live and die together. A mesh *)
(* that gets new buffers alternates between two names for them: the old    *)
(* ones are gone from every frame in flight before the next write.         *)
Buffers(m, gen) == <<"mesh", m, gen>>

Staging == <<"staging">>
StructBuffer(m) == <<"material", m>>
Set0 == <<"set0">>                     \* smat's set0_buffers
Image(t) == <<"texture", t>>

(* create_buffers *)
Created(nv, ni, gen) ==
  [live |-> TRUE, num_vertices |-> nv, num_indices |-> ni,
   cap_vertices |-> nv, cap_indices |-> ni, gen |-> gen]

Unregistered == [live |-> FALSE, held |-> FALSE, count |-> 0, freed |-> 0]
Registered   == [live |-> TRUE, held |-> TRUE, count |-> 1, freed |-> 0]
Gone         == [live |-> FALSE, held |-> FALSE, count |-> 0, freed |-> 1]

NoMaterial    == [live |-> FALSE, held |-> FALSE, count |-> 0, freed |-> 0, of |-> Default]
MaterialOf(b) == [live |-> TRUE, held |-> TRUE, count |-> 1, freed |-> 0, of |-> b]

(* vd_renderer_init: default meshes, textures, and the default blueprint,  *)
(* whose shaders were dropped again.                                       *)
Init ==
  /\ mesh = [m \in Meshes |-> IF m = GuiMesh THEN None ELSE Created(1, 1, 0)]
  /\ material = [m \in Materials |-> NoMaterial]
  /\ blueprint = [b \in Blueprints |->
       IF b = Default THEN Registered ELSE Unregistered]
  /\ shader = [b \in Blueprints |-> IF b = Default THEN Gone ELSE Unregistered]
  /\ texture = [t \in Textures |-> IF t = GuiTexture THEN Unregistered ELSE Registered]
  /\ used = {Set0} \cup {Buffers(m, 0) : m \in DefaultMeshes}
                  \cup {Image(t) : t \in DefaultTextures}
  /\ render_list = {} /\ queue = <<>> /\ at = "frame"

-----------------------------------------------------------------------------
(* Meshes and frames. *)

(* vd_r_geo_system_new *)
NewMesh(nv, ni) ==
  /\ at = "frame" /\ ~mesh[GuiMesh].live
  /\ mesh' = [mesh EXCEPT ![GuiMesh] = Created(nv, ni, 0)]
  /\ used' = used \cup {Buffers(GuiMesh, 0)}
  /\ UNCHANGED <<material, blueprint, shader, texture, render_list, queue, at>>

(* Variant: only the vertices are compared. *)
TooSmallVertices(r, nv, ni) == r.num_vertices < nv

(* sgeo_resize compares with the counts of the last write, which may be    *)
(* less than the buffers hold.                                             *)
TooSmall(r, nv, ni) == r.num_vertices < nv \/ r.num_indices < ni

(* Variant: the old buffers are kept. *)
ResizedKeepsOld(m) == used \cup {Buffers(m, 1 - mesh[m].gen)}

(* sgeo_resize: free_geo, then create_buffers, with no regard to frames in *)
(* flight.                                                                 *)
Resized(m) ==
  (used \ {Buffers(m, mesh[m].gen)}) \cup {Buffers(m, 1 - mesh[m].gen)}

(* vd_renderer_write_mesh up to the submission of the copy: the staging    *)
(* buffer, the resize, the new counts.                                     *)
WriteMesh(m, nv, ni) ==
  /\ at = "frame" /\ mesh[m].live
  /\ LET grow == TooSmall(mesh[m], nv, ni)
     IN  /\ used' = {Staging} \cup IF grow THEN Resized(m) ELSE used
         /\ mesh' = [mesh EXCEPT ![m] =
              IF grow THEN Created(nv, ni, 1 - mesh[m].gen)
              ELSE [@ EXCEPT !.num_vertices = nv, !.num_indices = ni]]
  /\ at' = "upload"
  /\ UNCHANGED <<material, blueprint, shader, texture, render_list, queue>>

(* vd_renderer_imm_end: the fence of the copy is signaled after everything *)
(* submitted to the queue before it; then the staging buffer is freed.     *)
ImmEnd ==
  /\ at = "upload" /\ queue = <<>>
  /\ used' = used \ {Staging}
  /\ at' = "frame"
  /\ UNCHANGED <<mesh, material, blueprint, shader, texture, render_list, queue>>

(* vd_texture_system_new *)
NewTexture(t) ==
  /\ at = "frame" /\ texture[t] = Unregistered
  /\ texture' = [texture EXCEPT ![t] = Registered]
  /\ used' = used \cup {Image(t)}
  /\ UNCHANGED <<mesh, material, blueprint, shader, render_list, queue, at>>

(* vd_renderer_upload_texture_data up to the submission of the copy; its   *)
(* end is that of a mesh (ImmEnd).                                         *)
UploadTexture(t) ==
  /\ at = "frame" /\ texture[t].live
  /\ used' = used \cup {Staging}
  /\ at' = "upload"
  /\ UNCHANGED <<mesh, material, blueprint, shader, texture, render_list, queue>>

(* CollectMeshesSystem of the ImGui module. *)
CollectMeshes(nv, ni) == WriteMesh(GuiMesh, nv, ni)

(* Variant: the ImGui mesh is drawn as well. *)
GatherAnyMesh(m) ==
  /\ at = "frame" /\ mesh[m].live
  /\ render_list' = render_list \cup {Buffers(m, mesh[m].gen)}
  /\ UNCHANGED <<mesh, material, blueprint, shader, texture, used, queue, at>>

(* RendererGatherStaticMeshComponentSystem: the render object keeps the    *)
(* address the vertex buffer has now.                                      *)
GatherStaticMesh(m) ==
  /\ at = "frame" /\ m \in DefaultMeshes
  /\ render_list' = render_list \cup {Buffers(m, mesh[m].gen)}
  /\ UNCHANGED <<mesh, material, blueprint, shader, texture, used, queue, at>>

(* RendererRenderToWindowSurfaceComponents, once a frame slot is free      *)
(* (WindowFrames).                                                         *)
RenderFrame ==
  /\ at = "frame" /\ Len(queue) < MaxInFlight
  /\ queue' = Append(queue, render_list)
  /\ render_list' = {}
  /\ UNCHANGED <<mesh, material, blueprint, shader, texture, used, at>>

(* The GPU finishes its oldest frame. *)
Complete ==
  /\ queue # <<>>
  /\ queue' = Tail(queue)
  /\ UNCHANGED <<mesh, material, blueprint, shader, texture, used, render_list, at>>

-----------------------------------------------------------------------------
(* Materials and blueprints. *)

(* vd_r_sshader_new, for the vertex and the fragment shader. *)
NewShaders(b) ==
  /\ at = "frame" /\ shader[b] = Unregistered
  /\ shader' = [shader EXCEPT ![b] = Registered]
  /\ UNCHANGED <<mesh, material, blueprint, texture, used, render_list, queue, at>>

(* smat_new_blueprint; the pipeline keeps no handle of its shaders. *)
NewBlueprint(b) ==
  /\ at = "frame" /\ blueprint[b] = Unregistered /\ shader[b].held
  /\ blueprint' = [blueprint EXCEPT ![b] = Registered]
  /\ UNCHANGED <<mesh, shader, texture, material, used, render_list, queue, at>>

(* Variant: the material keeps the client's handle as it is. *)
NewMaterialNoCopy(m, b) ==
  /\ at = "frame" /\ ~material[m].live /\ material[m].freed = 0 /\ blueprint[b].held
  /\ material' = [material EXCEPT ![m] = MaterialOf(b)]
  /\ used' = IF b \in StructBlueprints THEN used \cup {StructBuffer(m)} ELSE used
  /\ UNCHANGED <<mesh, shader, texture, blueprint, render_list, queue, at>>

(* smat_new_from_blueprint: COPY_HANDLE of the blueprint, a uniform buffer *)
(* when it has struct properties.                                          *)
NewMaterial(m, b) ==
  /\ at = "frame" /\ ~material[m].live /\ material[m].freed = 0 /\ blueprint[b].held
  /\ material' = [material EXCEPT ![m] = MaterialOf(b)]
  /\ blueprint' = [blueprint EXCEPT ![b].count = @ + 1]
  /\ used' = IF b \in StructBlueprints THEN used \cup {StructBuffer(m)} ELSE used
  /\ UNCHANGED <<mesh, shader, texture, render_list, queue, at>>

Destroyed(r) == [r EXCEPT !.live = FALSE, !.freed = @ + 1]

(* vd_handle_drop of an entry. *)
Dropped(r) ==
  LET less == [r EXCEPT !.count = @ - 1]
  IN  IF less.count = 0 THEN Destroyed(less) ELSE less

(* free_material: it drops its blueprint, and no buffer, since num_buffers *)
(* of a material is never set.                                             *)
FreeMaterial(m) ==
  blueprint' = [blueprint EXCEPT ![material[m].of] = Dropped(@)]

(* A client drops its material, the only handle of it. *)
DropMaterial(m) ==
  /\ at = "frame" /\ material[m].held
  /\ material' = [material EXCEPT ![m] = Dropped([@ EXCEPT !.held = FALSE])]
  /\ FreeMaterial(m)
  /\ UNCHANGED <<mesh, shader, texture, used, render_list, queue, at>>

(* A client drops the shaders once it has its blueprint, or keeps them. *)
DropShaders(b) ==
  /\ at = "frame" /\ shader[b].held /\ blueprint[b] # Unregistered
  /\ shader' = [shader EXCEPT ![b] = Dropped([@ EXCEPT !.held = FALSE])]
  /\ UNCHANGED <<mesh, material, blueprint, texture, used, render_list, queue, at>>

(* A client drops a blueprint; the renderer keeps the default one. *)
DropBlueprint(b) ==
  /\ at = "frame" /\ blueprint[b].held /\ b # Default
  /\ blueprint' = [blueprint EXCEPT ![b] = Dropped([@ EXCEPT !.held = FALSE])]
  /\ UNCHANGED <<mesh, shader, texture, material, used, render_list, queue, at>>

-----------------------------------------------------------------------------
(* vd_renderer_deinit, system by system. *)

(* vkDeviceWaitIdle returns; smat_deinit begins with the set 0 buffers. *)
StartDeinit ==
  /\ at = "frame" /\ queue = <<>>
  /\ used' = used \ {Set0}
  /\ render_list' = {}
  /\ at' = "materials"
  /\ UNCHANGED <<mesh, material, blueprint, shader, texture, queue>>

(* vd_handlemap__deinit of the materials destroys what is still there. *)
DeinitMaterial(m) ==
  /\ at = "materials" /\ material[m].live
  /\ material' = [material EXCEPT ![m] = Destroyed(@)]
  /\ FreeMaterial(m)
  /\ UNCHANGED <<mesh, shader, texture, used, render_list, queue, at>>

(* ... and then that of the blueprints. *)
DeinitBlueprint(b) ==
  /\ at = "blueprints" /\ blueprint[b].live
  /\ blueprint' = [blueprint EXCEPT ![b] = Destroyed(@)]
  /\ UNCHANGED <<mesh, shader, texture, material, used, render_list, queue, at>>

(* vd_texture_system_deinit: no client dropped any. *)
DeinitTexture(t) ==
  /\ at = "textures" /\ texture[t].live
  /\ texture' = [texture EXCEPT ![t] = Destroyed(@)]
  /\ used' = used \ {Image(t)}
  /\ UNCHANGED <<mesh, material, blueprint, shader, render_list, queue, at>>

(* vd_r_geo_system_deinit *)
DeinitMesh(m) ==
  /\ at = "geos" /\ mesh[m].live
  /\ used' = used \ {Buffers(m, mesh[m].gen)}
  /\ mesh' = [mesh EXCEPT ![m] = None]
  /\ UNCHANGED <<material, blueprint, shader, texture, render_list, queue, at>>

(* vd_r_sshader_deinit *)
DeinitShaders(b) ==
  /\ at = "shaders" /\ shader[b].live
  /\ shader' = [shader EXCEPT ![b] = Destroyed(@)]
  /\ UNCHANGED <<mesh, material, blueprint, texture, used, render_list, queue, at>>

(* The systems in the order they are taken down, svma_deinit the last. *)
After == [materials |-> "blueprints", blueprints |-> "textures",
          textures |-> "geos", geos |-> "shaders", shaders |-> "down"]

(* vd_handlemap__deinit has looked at every slot. *)
Emptied(system) ==
  CASE system = "materials"  -> \A m \in Materials : ~material[m].live
    [] system = "blueprints" -> \A b \in Blueprints : ~blueprint[b].live
    [] system = "textures"   -> \A t \in Textures : ~texture[t].live
    [] system = "geos"       -> \A m \in Meshes : ~mesh[m].live
    [] system = "shaders"    -> \A b \in Blueprints : ~shader[b].live

EndSystem ==
  /\ at \in DOMAIN After /\ Emptied(at)
  /\ at' = After[at]
  /\ UNCHANGED <<mesh, material, blueprint, shader, texture, used, render_list, queue>>

Next ==
  \/ \E nv, ni \in Counts : NewMesh(nv, ni) \/ CollectMeshes(nv, ni)
  \/ ImmEnd \/ RenderFrame \/ Complete \/ StartDeinit \/ EndSystem
  \/ \E m \in Meshes : GatherStaticMesh(m) \/ DeinitMesh(m)
  \/ \E t \in Textures : NewTexture(t) \/ UploadTexture(t) \/ DeinitTexture(t)
  \/ \E b \in Blueprints : \/ NewShaders(b) \/ DropShaders(b) \/ DeinitShaders(b)
                           \/ NewBlueprint(b) \/ DropBlueprint(b) \/ DeinitBlueprint(b)
  \/ \E m \in Materials : \/ DropMaterial(m) \/ DeinitMaterial(m)
                          \/ \E b \in Blueprints : NewMaterial(m, b)

Spec == Init /\ [][Next]_vars

-----------------------------------------------------------------------------
(* Properties. *)

(* smat_prep resolves a material's blueprint without a check: as long as a *)
(* material lives, so does its blueprint, whoever dropped its own handle   *)
(* of it and however far smat_deinit got.                                  *)
BlueprintOutlivesMaterials ==
  \A m \in Materials : material[m].live => blueprint[material[m].of].live

(* Materials, blueprints, shaders and textures are destroyed once, by      *)
(* their last drop or at the end, however the shutdown of one map drops    *)
(* into another, and all are gone then; and when svma_deinit reports what  *)
(* was not freed nothing but the uniform buffers of materials is left: no  *)
(* vertex, index, staging or image memory, whatever was written and        *)
(* resized before (vd_renderer_deinit).                                    *)
CleanShutdown ==
  /\ \A m \in Materials : material[m].freed <= 1
  /\ \A b \in Blueprints : blueprint[b].freed <= 1 /\ shader[b].freed <= 1
  /\ \A t \in Textures : texture[t].freed <= 1
  /\ at = "down" =>
       /\ \A m \in Materials : ~material[m].live
       /\ \A b \in Blueprints : ~blueprint[b].live /\ ~shader[b].live
       /\ used \subseteq {StructBuffer(m) : m \in Materials}

(* The copies of vd_renderer_write_mesh and the draws of a mesh stay       *)
(* within its buffers, after any sequence of smaller and larger writes:    *)
(* the counts the resize decides by never exceed what was allocated.       *)
WritesFit ==
  \A m \in Meshes : mesh[m].live =>
    mesh[m].num_vertices <= mesh[m].cap_vertices /\ mesh[m].num_indices <= mesh[m].cap_indices

(* The buffers a frame in flight reads, and those whose address a render   *)
(* object holds, exist: the unguarded free of sgeo_resize never hits a     *)
(* mesh that is drawn.                                                     *)
InFlightIsAlive ==
  render_list \subseteq used /\ \A i \in DOMAIN queue : queue[i] \subseteq used
=============================================================================
