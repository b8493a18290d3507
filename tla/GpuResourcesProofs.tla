------------------------- MODULE GpuResourcesProofs -------------------------
(***************************************************************************)
(* The invariants of GpuResources for any meshes, materials, blueprints,   *)
(* textures and counts, in three parts: meshes and what is drawn of them   *)
(* (Inv), the entries of the handle maps and how they are counted          *)
(* (EntryInv), and who owns the memory svma.c tracks (UsedInv).            *)
(***************************************************************************)
EXTENDS GpuResources, SequenceTheorems, FiniteSetTheorems, TLAPS

(* A mesh that exists. Its counts never exceed what was allocated for them. *)
MeshRecords ==
  [live : {TRUE}, num_vertices : Nat, num_indices : Nat,
   cap_vertices : Nat, cap_indices : Nat, gen : {0, 1}]

Fits(r) == r.num_vertices <= r.cap_vertices /\ r.num_indices <= r.cap_indices

MeshInv ==
  mesh \in [Meshes -> {None} \cup {r \in MeshRecords : Fits(r)}]

(* The buffers that are drawn. *)
Drawn == {Buffers(m, 0) : m \in DefaultMeshes}

(* Until the meshes' turn to be freed, the drawn meshes have the buffers    *)
(* they were created with; only those are in a frame, and no frame is left  *)
(* when the shutdown has begun.                                             *)
DrawnInv ==
  /\ at \notin {"geos", "shaders", "down"} =>
       /\ Drawn \subseteq used
       /\ \A m \in DefaultMeshes : mesh[m] \in MeshRecords /\ mesh[m].gen = 0
  /\ render_list \subseteq Drawn
  /\ queue \in Seq(SUBSET Drawn)
  /\ at \in {"frame", "upload"} \/ (render_list = {} /\ queue = <<>>)

Inv == MeshInv /\ DrawnInv

-----------------------------------------------------------------------------
(* Buffers of other meshes, and what is no mesh's, can be freed without    *)
(* touching what is drawn.                                                 *)
LEMMA OthersNotDrawn ==
  /\ Staging \notin Drawn /\ Set0 \notin Drawn
  /\ \A t : Image(t) \notin Drawn
  /\ \A g : Buffers(GuiMesh, g) \notin Drawn
  BY GpuResourcesAssumption DEF Drawn, Buffers, Staging, Set0, Image

LEMMA CreatedFits ==
  ASSUME NEW nv \in Nat, NEW ni \in Nat, NEW g \in {0, 1}
  PROVE  Created(nv, ni, g) \in MeshRecords /\ Fits(Created(nv, ni, g))
  BY DEF Created, MeshRecords, Fits

(* A write that needs no new buffers: both counts are at most those of the  *)
(* last write.                                                             *)
LEMMA RewrittenFits ==
  ASSUME NEW r \in MeshRecords, Fits(r), NEW nv \in Nat, NEW ni \in Nat,
         ~TooSmall(r, nv, ni)
  PROVE  LET new == [r EXCEPT !.num_vertices = nv, !.num_indices = ni]
         IN  new \in MeshRecords /\ Fits(new)
<1> DEFINE new == [r EXCEPT !.num_vertices = nv, !.num_indices = ni]
<1>1. /\ r.num_vertices \in Nat /\ r.num_indices \in Nat
      /\ r.cap_vertices \in Nat /\ r.cap_indices \in Nat
  BY DEF MeshRecords
<1>2. nv <= r.cap_vertices /\ ni <= r.cap_indices
  BY <1>1 DEF TooSmall, Fits
<1>3. new \in MeshRecords
  BY DEF MeshRecords
<1>4. /\ new.num_vertices = nv /\ new.num_indices = ni
      /\ new.cap_vertices = r.cap_vertices /\ new.cap_indices = r.cap_indices
  BY DEF MeshRecords
<1>5. Fits(new)
  BY <1>2, <1>4 DEF Fits
<1> QED
  BY <1>3, <1>5

LEMMA InitInv == Init => Inv
<1> SUFFICES ASSUME Init PROVE Inv
  OBVIOUS
<1>1. Created(1, 1, 0) \in MeshRecords /\ Fits(Created(1, 1, 0)) /\ Created(1, 1, 0).gen = 0
  BY CreatedFits DEF Created
<1>2. \A m \in Meshes : mesh[m] = IF m = GuiMesh THEN None ELSE Created(1, 1, 0)
  BY DEF Init
<1>3. MeshInv
  BY <1>1, <1>2 DEF Init, MeshInv
<1>4. /\ Drawn \subseteq used
      /\ \A m \in DefaultMeshes : mesh[m] \in MeshRecords /\ mesh[m].gen = 0
  <2>1. Drawn \subseteq used
    BY DEF Init, Drawn
  <2>2. \A m \in DefaultMeshes : mesh[m] = Created(1, 1, 0)
    BY <1>2, GpuResourcesAssumption DEF Meshes
  <2> QED
    BY <1>1, <2>1, <2>2
<1>5. render_list \subseteq Drawn /\ queue \in Seq(SUBSET Drawn) /\ at = "frame"
  BY DEF Init
<1> QED
  BY <1>3, <1>4, <1>5 DEF Inv, DrawnInv

(* Steps that leave meshes alone, free nothing drawn and put nothing new    *)
(* into a frame.                                                           *)
LEMMA SameMeshes ==
  ASSUME Inv, UNCHANGED <<mesh, render_list, queue>>, used \cap Drawn \subseteq used',
         at' = at \/ (at \in {"frame", "upload"} /\ at' \in {"frame", "upload"})
  PROVE  Inv'
  BY DEF Inv, MeshInv, DrawnInv, Drawn

LEMMA NextInv == Inv /\ [Next]_vars => Inv'
<1> SUFFICES ASSUME Inv, [Next]_vars PROVE Inv'
  OBVIOUS
<1> USE DEF Drawn
<1>1. ASSUME NEW nv \in Counts, NEW ni \in Counts, NewMesh(nv, ni) PROVE Inv'
  <2>1. mesh' = [mesh EXCEPT ![GuiMesh] = Created(nv, ni, 0)] /\ used \subseteq used'
    BY <1>1 DEF NewMesh
  <2>2. nv \in Nat /\ ni \in Nat
    BY GpuResourcesAssumption DEF Counts
  <2>3. MeshInv'
    BY <2>1, <2>2, CreatedFits DEF Inv, MeshInv
  <2>4. \A m \in DefaultMeshes : mesh'[m] = mesh[m]
    BY <2>1, GpuResourcesAssumption DEF Inv, MeshInv, Meshes
  <2> QED
    BY <1>1, <2>1, <2>3, <2>4 DEF Inv, DrawnInv, NewMesh
<1>2. ASSUME NEW nv \in Counts, NEW ni \in Counts, CollectMeshes(nv, ni) PROVE Inv'
  <2> DEFINE r == mesh[GuiMesh]
             new == IF TooSmall(r, nv, ni) THEN Created(nv, ni, 1 - r.gen)
                    ELSE [r EXCEPT !.num_vertices = nv, !.num_indices = ni]
  <2>1. /\ mesh' = [mesh EXCEPT ![GuiMesh] = new]
        /\ r.live /\ at = "frame" /\ at' = "upload" /\ UNCHANGED <<render_list, queue>>
    BY <1>2 DEF CollectMeshes, WriteMesh
  <2>2. nv \in Nat /\ ni \in Nat
    BY GpuResourcesAssumption DEF Counts
  <2>3. r \in MeshRecords /\ Fits(r)
    BY <2>1 DEF Inv, MeshInv, Meshes, None
  <2>4. new \in MeshRecords /\ Fits(new)
    <3> HIDE DEF r
    <3>1. CASE TooSmall(r, nv, ni)
      <4>1. 1 - r.gen \in {0, 1}
        BY <2>3 DEF MeshRecords
      <4> QED
        BY <2>2, <3>1, <4>1, CreatedFits
    <3>2. CASE ~TooSmall(r, nv, ni)
      BY <2>2, <2>3, <3>2, RewrittenFits
    <3> QED
      BY <3>1, <3>2
  <2>5. MeshInv'
    <3> HIDE DEF new
    <3> QED
      BY <2>1, <2>4 DEF Inv, MeshInv
  <2>6. \A m \in DefaultMeshes : mesh'[m] = mesh[m]
    <3> HIDE DEF new
    <3> QED
      BY <2>1, GpuResourcesAssumption DEF Inv, MeshInv, Meshes
  <2>7. used \cap Drawn \subseteq used'
    BY <1>2, OthersNotDrawn DEF CollectMeshes, WriteMesh, Resized
  <2> QED
    BY <2>1, <2>5, <2>6, <2>7 DEF Inv, DrawnInv
<1>3. CASE ImmEnd
  BY <1>3, SameMeshes, OthersNotDrawn DEF ImmEnd
<1>4. CASE RenderFrame
  <2>1. render_list \in SUBSET Drawn /\ queue \in Seq(SUBSET Drawn)
    BY DEF Inv, DrawnInv
  <2>2. queue' \in Seq(SUBSET Drawn)
    BY <1>4, <2>1, AppendProperties DEF RenderFrame
  <2> QED
    BY <1>4, <2>2 DEF Inv, MeshInv, DrawnInv, RenderFrame
<1>5. CASE Complete
  <2>1. queue \in Seq(SUBSET Drawn) /\ queue # <<>>
    BY <1>5 DEF Inv, DrawnInv, Complete
  <2>2. queue' \in Seq(SUBSET Drawn)
    BY <1>5, <2>1, HeadTailProperties DEF Complete
  <2> QED
    BY <1>5, <2>1, <2>2 DEF Inv, MeshInv, DrawnInv, Complete
<1>6. CASE StartDeinit
  BY <1>6, OthersNotDrawn DEF StartDeinit, Inv, MeshInv, DrawnInv
<1>7. CASE EndSystem
  BY <1>7 DEF EndSystem, After, Inv, MeshInv, DrawnInv
<1>8. ASSUME NEW t \in Textures, NewTexture(t) \/ UploadTexture(t) \/ DeinitTexture(t) PROVE Inv'
  BY <1>8, SameMeshes, OthersNotDrawn DEF NewTexture, UploadTexture, DeinitTexture
<1>9. ASSUME NEW m \in Meshes, GatherStaticMesh(m) PROVE Inv'
  <2>1. at = "frame" /\ m \in DefaultMeshes
    BY <1>9 DEF GatherStaticMesh
  <2>2. Buffers(m, mesh[m].gen) \in Drawn
    BY <2>1 DEF Inv, DrawnInv
  <2> QED
    BY <1>9, <2>1, <2>2 DEF GatherStaticMesh, Inv, MeshInv, DrawnInv
<1>10. ASSUME NEW m \in Meshes, DeinitMesh(m) PROVE Inv'
  BY <1>10 DEF DeinitMesh, Inv, MeshInv, DrawnInv
<1>11. ASSUME NEW b \in Blueprints,
              NewShaders(b) \/ DropShaders(b) \/ DeinitShaders(b)
                \/ NewBlueprint(b) \/ DropBlueprint(b) \/ DeinitBlueprint(b)
       PROVE  Inv'
  BY <1>11, SameMeshes DEF NewShaders, DropShaders, DeinitShaders, NewBlueprint,
     DropBlueprint, DeinitBlueprint
<1>12. ASSUME NEW m \in Materials,
              DropMaterial(m) \/ DeinitMaterial(m) \/ \E b \in Blueprints : NewMaterial(m, b)
       PROVE  Inv'
  BY <1>12, SameMeshes DEF DropMaterial, DeinitMaterial, NewMaterial
<1>13. CASE UNCHANGED vars
  BY <1>13, SameMeshes DEF vars
<1> QED
  BY <1>1, <1>2, <1>3, <1>4, <1>5, <1>6, <1>7, <1>8, <1>9, <1>10, <1>11, <1>12, <1>13 DEF Next

LEMMA SpecInv == Spec => []Inv
  BY InitInv, NextInv, PTL DEF Spec

-----------------------------------------------------------------------------
(* No copy and no draw reaches past the buffers of a mesh, after any       *)
(* sequence of smaller and larger writes: sgeo_resize decides by the       *)
(* counts of the last write, and those never exceed what was allocated.    *)
THEOREM WritesAlwaysFit == Spec => []WritesFit
<1>1. Inv => WritesFit
  BY DEF Inv, MeshInv, WritesFit, Fits, None
<1> QED
  BY <1>1, SpecInv, PTL

(* sgeo_resize, which frees buffers at once, and the shutdown, system by   *)
(* system, take none from a frame in flight or from one being put together.*)
THEOREM FramesReadLiveBuffers == Spec => []InFlightIsAlive
<1>1. Inv => InFlightIsAlive
  <2> SUFFICES ASSUME Inv PROVE InFlightIsAlive
    OBVIOUS
  <2>1. CASE at \in {"frame", "upload"}
    <3>1. Drawn \subseteq used /\ queue \in Seq(SUBSET Drawn) /\ render_list \subseteq Drawn
      BY <2>1 DEF Inv, DrawnInv
    <3>2. \A i \in DOMAIN queue : queue[i] \in SUBSET Drawn
      BY <3>1, ElementOfSeq, LenProperties
    <3> QED
      BY <3>1, <3>2 DEF InFlightIsAlive
  <2>2. CASE at \notin {"frame", "upload"}
    BY <2>2 DEF Inv, DrawnInv, InFlightIsAlive
  <2> QED
    BY <2>1, <2>2
<1> QED
  BY <1>1, SpecInv, PTL

-----------------------------------------------------------------------------
(* Entries of the handle maps. *)

EntryRecords == [live : BOOLEAN, held : BOOLEAN, count : Int, freed : {0, 1}]
MaterialRecords ==
  [live : BOOLEAN, held : BOOLEAN, count : Int, freed : {0, 1}, of : Blueprints]

(* An entry of which there is only one handle, while it is live. *)
Sole(r) == r.live => r.count = 1 /\ r.freed = 0

(* An entry with n handles besides the client's own. *)
Balanced(r, n) ==
  /\ r.live => r.count = (IF r.held THEN 1 ELSE 0) + n /\ r.freed = 0
  /\ r.held \/ n > 0 => r.live

(* The materials that hold a handle of a blueprint. *)
Users(b) == {m \in Materials : material[m].live /\ material[m].of = b}

EntryTypes ==
  /\ material \in [Materials -> MaterialRecords]
  /\ blueprint \in [Blueprints -> EntryRecords]
  /\ shader \in [Blueprints -> EntryRecords]
  /\ texture \in [Textures -> EntryRecords]
  /\ at \in {"frame", "upload"} \cup DOMAIN After \cup {"down"}

(* Nothing live was destroyed before; clients hold only what is live. *)
Entries ==
  /\ \A m \in Materials : Sole(material[m])
  /\ \A b \in Blueprints : Sole(shader[b])
  /\ \A b \in Blueprints : blueprint[b].live => blueprint[b].freed = 0
  /\ \A t \in Textures : texture[t].live => texture[t].freed = 0
  /\ at \in {"frame", "upload"} =>
       /\ \A m \in Materials : material[m].held => material[m].live
       /\ \A b \in Blueprints : shader[b].held => shader[b].live

(* Until the materials are gone, the count of a blueprint is the number of *)
(* its handles; then no material is left, and each map that is ended       *)
(* leaves nothing live behind.                                             *)
Counted ==
  /\ at \in {"frame", "upload", "materials"} =>
       \A b \in Blueprints : Balanced(blueprint[b], Cardinality(Users(b)))
  /\ at \notin {"frame", "upload", "materials"} =>
       \A m \in Materials : ~material[m].live
  /\ at \in {"textures", "geos", "shaders", "down"} =>
       \A b \in Blueprints : ~blueprint[b].live
  /\ at \in {"geos", "shaders", "down"} => \A t \in Textures : ~texture[t].live
  /\ at \in {"shaders", "down"} => \A m \in Meshes : ~mesh[m].live
  /\ at = "down" => \A b \in Blueprints : ~shader[b].live

EntryInv == EntryTypes /\ Entries /\ Counted

LEMMA UsersFinite ==
  ASSUME NEW b
  PROVE  IsFiniteSet(Users(b)) /\ Cardinality(Users(b)) \in Nat
<1>1. Users(b) \in SUBSET Materials
  BY DEF Users
<1> QED
  BY <1>1, GpuResourcesAssumption, FS_Subset, FS_CardinalityType

(* An entry is destroyed: on its last drop, or when its map ends.          *)
LEMMA Destroys ==
  ASSUME NEW r \in EntryRecords, r.freed = 0
  PROVE  /\ Destroyed(r) \in EntryRecords /\ ~Destroyed(r).live
         /\ Destroyed(r).held = r.held
<1>1. Destroyed(r) = [[r EXCEPT !.live = FALSE] EXCEPT !.freed = 1]
  BY DEF EntryRecords, Destroyed
<1>2. [r EXCEPT !.live = FALSE] \in EntryRecords
  BY DEF EntryRecords
<1>3. Destroyed(r) \in EntryRecords
  BY <1>1, <1>2 DEF EntryRecords
<1>4. ~Destroyed(r).live /\ Destroyed(r).held = r.held
  BY DEF EntryRecords, Destroyed
<1> QED
  BY <1>3, <1>4

LEMMA DestroysMaterial ==
  ASSUME NEW r \in MaterialRecords, r.freed = 0
  PROVE  /\ Destroyed(r) \in MaterialRecords /\ ~Destroyed(r).live
         /\ Destroyed(r).held = r.held
<1>1. Destroyed(r) = [[r EXCEPT !.live = FALSE] EXCEPT !.freed = 1]
  BY DEF MaterialRecords, Destroyed
<1>2. [r EXCEPT !.live = FALSE] \in MaterialRecords
  BY DEF MaterialRecords
<1>3. Destroyed(r) \in MaterialRecords
  BY <1>1, <1>2 DEF MaterialRecords
<1>4. ~Destroyed(r).live /\ Destroyed(r).held = r.held
  BY DEF MaterialRecords, Destroyed
<1> QED
  BY <1>3, <1>4

(* A handle is dropped: one that is counted besides the client's, or his. *)
LEMMA DropCounted ==
  ASSUME NEW r \in EntryRecords, NEW n \in Nat, n > 0, Balanced(r, n)
  PROVE  Dropped(r) \in EntryRecords /\ Balanced(Dropped(r), n - 1)
<1>1. r.live /\ r.freed = 0 /\ r.count = (IF r.held THEN 1 ELSE 0) + n
  BY DEF Balanced
<1> DEFINE less == [r EXCEPT !.count = @ - 1]
<1>2. less \in EntryRecords
  BY DEF EntryRecords
<1>3. /\ less.live = r.live /\ less.held = r.held
      /\ less.freed = 0 /\ less.count = r.count - 1
  BY <1>1 DEF EntryRecords
<1> HIDE DEF less
<1>4. CASE less.count = 0
  <2>1. ~r.held /\ n = 1
    BY <1>1, <1>3, <1>4 DEF EntryRecords
  <2>2. Dropped(r) = Destroyed(less)
    BY <1>4 DEF Dropped, less
  <2>3. Dropped(r) \in EntryRecords /\ ~Dropped(r).live /\ ~Dropped(r).held
    BY <1>2, <1>3, <2>1, <2>2, Destroys
  <2> QED
    BY <2>1, <2>3 DEF Balanced
<1>5. CASE less.count # 0
  <2>1. Dropped(r) = less
    BY <1>5 DEF Dropped, less
  <2>2. less.live /\ less.held = r.held /\ less.count = (IF r.held THEN 1 ELSE 0) + n - 1
    BY <1>1, <1>3
  <2>3. Balanced(less, n - 1)
    BY <1>3, <2>2 DEF Balanced
  <2> QED
    BY <1>2, <2>1, <2>3
<1> QED
  BY <1>4, <1>5

LEMMA DropOwn ==
  ASSUME NEW r \in EntryRecords, NEW n \in Nat, r.held, Balanced(r, n)
  PROVE  /\ Dropped([r EXCEPT !.held = FALSE]) \in EntryRecords
         /\ Balanced(Dropped([r EXCEPT !.held = FALSE]), n)
<1> DEFINE s == [r EXCEPT !.held = FALSE]
<1>1. r.live /\ r.freed = 0 /\ r.count = 1 + n
  BY DEF Balanced
<1>2. /\ s \in EntryRecords /\ s.live /\ ~s.held
      /\ s.freed = 0 /\ s.count = 1 + n
  BY <1>1 DEF EntryRecords
<1>3. Balanced(s, n + 1)
  BY <1>2 DEF Balanced
<1> HIDE DEF s
<1>4. Dropped(s) \in EntryRecords /\ Balanced(Dropped(s), (n + 1) - 1)
  BY <1>2, <1>3, DropCounted
<1> QED
  BY <1>4 DEF s

(* The only handle of an entry is dropped, or its map ends. *)
LEMMA DropSole ==
  ASSUME NEW r \in EntryRecords, Sole(r), r.live
  PROVE  LET gone == Dropped([r EXCEPT !.held = FALSE])
         IN  gone \in EntryRecords /\ ~gone.live /\ ~gone.held
<1> DEFINE s == [r EXCEPT !.held = FALSE]
           less == [s EXCEPT !.count = @ - 1]
<1>1. s \in EntryRecords /\ ~s.held /\ s.count = 1 /\ s.freed = 0
  BY DEF Sole, EntryRecords
<1> HIDE DEF s
<1>2. less \in EntryRecords
  BY <1>1 DEF EntryRecords
<1>3. ~less.held /\ less.count = 0 /\ less.freed = 0
  BY <1>1 DEF EntryRecords
<1>4. Dropped(s) = Destroyed(less)
  BY <1>3 DEF Dropped
<1> HIDE DEF less
<1> QED
  BY <1>2, <1>3, <1>4, Destroys DEF s

LEMMA DropSoleMaterial ==
  ASSUME NEW r \in MaterialRecords, Sole(r), r.live
  PROVE  LET gone == Dropped([r EXCEPT !.held = FALSE])
         IN  gone \in MaterialRecords /\ ~gone.live /\ ~gone.held
<1> DEFINE s == [r EXCEPT !.held = FALSE]
           less == [s EXCEPT !.count = @ - 1]
<1>1. s \in MaterialRecords /\ ~s.held /\ s.count = 1 /\ s.freed = 0
  BY DEF Sole, MaterialRecords
<1> HIDE DEF s
<1>2. less \in MaterialRecords
  BY <1>1 DEF MaterialRecords
<1>3. ~less.held /\ less.count = 0 /\ less.freed = 0
  BY <1>1 DEF MaterialRecords
<1>4. Dropped(s) = Destroyed(less)
  BY <1>3 DEF Dropped
<1> HIDE DEF less
<1> QED
  BY <1>2, <1>3, <1>4, DestroysMaterial DEF s

LEMMA NewEntries ==
  /\ Registered \in EntryRecords /\ Sole(Registered) /\ Balanced(Registered, 0)
  /\ Unregistered \in EntryRecords /\ Sole(Unregistered) /\ Balanced(Unregistered, 0)
  /\ Gone \in EntryRecords /\ Sole(Gone) /\ ~Gone.held
  /\ \A b \in Blueprints : MaterialOf(b) \in MaterialRecords /\ Sole(MaterialOf(b))
  /\ NoMaterial \in MaterialRecords /\ Sole(NoMaterial) /\ ~NoMaterial.live /\ ~NoMaterial.held
  BY GpuResourcesAssumption DEF Registered, Unregistered, Gone, MaterialOf, NoMaterial,
     EntryRecords, MaterialRecords, Sole, Balanced

LEMMA EntryInit == Init => EntryInv
<1> SUFFICES ASSUME Init PROVE EntryInv
  OBVIOUS
<1>1. /\ material = [m \in Materials |-> NoMaterial]
      /\ blueprint = [b \in Blueprints |-> IF b = Default THEN Registered ELSE Unregistered]
      /\ shader = [b \in Blueprints |-> IF b = Default THEN Gone ELSE Unregistered]
      /\ texture = [t \in Textures |-> IF t = GuiTexture THEN Unregistered ELSE Registered]
      /\ at = "frame"
  BY DEF Init
<1>2. EntryTypes
  BY <1>1, NewEntries DEF EntryTypes
<1>3. Entries
  BY <1>1, NewEntries DEF Entries, Balanced, Sole
<1>4. \A b \in Blueprints : Cardinality(Users(b)) = 0
  BY <1>1, NewEntries, FS_EmptySet DEF Users
<1>5. Counted
  BY <1>1, <1>4, NewEntries DEF Counted
<1> QED
  BY <1>2, <1>3, <1>5 DEF EntryInv

(* Steps that leave every map but that of the meshes alone. *)
LEMMA SameEntries ==
  ASSUME EntryInv, UNCHANGED <<material, blueprint, shader, texture>>,
         UNCHANGED mesh \/ at \notin {"shaders", "down"},
         at' = at \/ (at \in {"frame", "upload"} /\ at' \in {"frame", "upload"})
  PROVE  EntryInv'
<1>1. \A b : Users(b)' = Users(b)
  BY DEF Users
<1>2. EntryTypes'
  BY DEF EntryInv, EntryTypes
<1>3. Entries'
  BY DEF EntryInv, Entries
<1>4. Counted'
  BY <1>1 DEF EntryInv, Counted
<1> QED
  BY <1>2, <1>3, <1>4 DEF EntryInv

(* A shader or a texture gets another entry. *)
LEMMA ShaderChange ==
  ASSUME EntryInv, NEW b \in Blueprints, NEW r \in EntryRecords, Sole(r),
         shader' = [shader EXCEPT ![b] = r],
         UNCHANGED <<mesh, material, blueprint, texture, at>>,
         at \in {"frame", "upload"} => (r.held => r.live), at # "down"
  PROVE  EntryInv'
<1>1. \A c : Users(c)' = Users(c)
  BY DEF Users
<1>2. EntryTypes'
  BY DEF EntryInv, EntryTypes
<1>3. Entries'
  BY DEF EntryInv, EntryTypes, Entries
<1>4. Counted'
  BY <1>1 DEF EntryInv, Counted
<1> QED
  BY <1>2, <1>3, <1>4 DEF EntryInv

LEMMA TextureChange ==
  ASSUME EntryInv, NEW t \in Textures, NEW r \in EntryRecords, r.live => r.freed = 0,
         texture' = [texture EXCEPT ![t] = r],
         UNCHANGED <<mesh, material, blueprint, shader, at>>,
         at \notin {"geos", "shaders", "down"}
  PROVE  EntryInv'
<1>1. \A c : Users(c)' = Users(c)
  BY DEF Users
<1>2. EntryTypes'
  BY DEF EntryInv, EntryTypes
<1>3. Entries'
  BY DEF EntryInv, EntryTypes, Entries
<1>4. Counted'
  BY <1>1 DEF EntryInv, Counted
<1> QED
  BY <1>2, <1>3, <1>4 DEF EntryInv

(* A blueprint gets another entry, while the materials stay. *)
LEMMA BlueprintChange ==
  ASSUME EntryInv, NEW b \in Blueprints, NEW r \in EntryRecords, r.live => r.freed = 0,
         blueprint' = [blueprint EXCEPT ![b] = r],
         UNCHANGED <<mesh, material, shader, texture, at>>,
         at \in {"frame", "upload", "materials"} => Balanced(r, Cardinality(Users(b))),
         at \notin {"textures", "geos", "shaders", "down"}
  PROVE  EntryInv'
<1>1. \A c : Users(c)' = Users(c)
  BY DEF Users
<1>2. EntryTypes'
  BY DEF EntryInv, EntryTypes
<1>3. Entries'
  BY DEF EntryInv, EntryTypes, Entries
<1>4. Counted'
  BY <1>1 DEF EntryInv, EntryTypes, Counted
<1> QED
  BY <1>2, <1>3, <1>4 DEF EntryInv

(* A material is gone, and has dropped its blueprint. *)
LEMMA MaterialGoes ==
  ASSUME EntryInv, NEW m \in Materials, material[m].live,
         NEW r \in MaterialRecords, ~r.live,
         at \in {"frame", "upload"} => ~r.held,
         material' = [material EXCEPT ![m] = r], FreeMaterial(m),
         UNCHANGED <<mesh, shader, texture, at>>
  PROVE  EntryInv'
<1> DEFINE b == material[m].of
<1>1. b \in Blueprints /\ blueprint[b] \in EntryRecords /\ at \in {"frame", "upload", "materials"}
  BY DEF EntryInv, EntryTypes, Counted, MaterialRecords
<1>2. m \in Users(b)
  BY DEF Users
<1>3. \A c \in Blueprints : c # b => m \notin Users(c)
  BY DEF Users
<1>4. \A c \in Blueprints : Users(c)' = Users(c) \ {m}
  BY DEF EntryInv, EntryTypes, Users
<1>5. Cardinality(Users(b)) \in Nat /\ Cardinality(Users(b)) > 0
      /\ Cardinality(Users(b) \ {m}) = Cardinality(Users(b)) - 1
  BY <1>2, UsersFinite, FS_RemoveElement, FS_EmptySet
<1>6. /\ Dropped(blueprint[b]) \in EntryRecords
      /\ Balanced(Dropped(blueprint[b]), Cardinality(Users(b)) - 1)
  BY <1>1, <1>5, DropCounted DEF EntryInv, Counted
<1>7. blueprint' = [blueprint EXCEPT ![b] = Dropped(blueprint[b])]
  BY DEF FreeMaterial
<1> HIDE DEF b
<1>8. EntryTypes'
  BY <1>1, <1>6, <1>7 DEF EntryInv, EntryTypes
<1>9. Entries'
  BY <1>1, <1>6, <1>7 DEF EntryInv, EntryTypes, Entries, Sole, Balanced
<1>10. \A c \in Blueprints : Balanced(blueprint'[c], Cardinality(Users(c)'))
  <2> TAKE c \in Blueprints
  <2>1. CASE c = b
    BY <1>1, <1>4, <1>5, <1>6, <1>7, <2>1 DEF EntryInv, EntryTypes
  <2>2. CASE c # b
    <3>1. Users(c)' = Users(c) /\ blueprint'[c] = blueprint[c]
      BY <1>3, <1>4, <1>7, <2>2 DEF EntryInv, EntryTypes
    <3> QED
      BY <1>1, <3>1 DEF EntryInv, Counted
  <2> QED
    BY <2>1, <2>2
<1>11. Counted'
  BY <1>1, <1>10 DEF Counted
<1> QED
  BY <1>8, <1>9, <1>11 DEF EntryInv

LEMMA EntryNext == EntryInv /\ [Next]_vars => EntryInv'
<1> SUFFICES ASSUME EntryInv, [Next]_vars PROVE EntryInv'
  OBVIOUS
<1>0. /\ \A m \in Materials : material[m] \in MaterialRecords /\ Sole(material[m])
      /\ \A b \in Blueprints : /\ shader[b] \in EntryRecords /\ Sole(shader[b])
                               /\ blueprint[b] \in EntryRecords
                               /\ blueprint[b].live => blueprint[b].freed = 0
      /\ \A t \in Textures : texture[t] \in EntryRecords
                             /\ (texture[t].live => texture[t].freed = 0)
  BY DEF EntryInv, EntryTypes, Entries
<1>1. ASSUME NEW nv \in Counts, NEW ni \in Counts, NewMesh(nv, ni) \/ CollectMeshes(nv, ni)
      PROVE  EntryInv'
  BY <1>1, SameEntries DEF NewMesh, CollectMeshes, WriteMesh
<1>2. CASE ImmEnd \/ RenderFrame \/ Complete \/ UNCHANGED vars
  BY <1>2, SameEntries DEF ImmEnd, RenderFrame, Complete, vars
<1>3. ASSUME NEW m \in Meshes, GatherStaticMesh(m) \/ DeinitMesh(m) PROVE EntryInv'
  BY <1>3, SameEntries DEF GatherStaticMesh, DeinitMesh
<1>4. ASSUME NEW t \in Textures, UploadTexture(t) PROVE EntryInv'
  BY <1>4, SameEntries DEF UploadTexture
<1>5. ASSUME NEW t \in Textures, NewTexture(t) PROVE EntryInv'
  <2>1. Registered \in EntryRecords /\ Registered.freed = 0
    BY NewEntries DEF Registered
  <2> QED
    BY <1>5, <2>1, TextureChange DEF NewTexture
<1>6. ASSUME NEW t \in Textures, DeinitTexture(t) PROVE EntryInv'
  <2>1. Destroyed(texture[t]) \in EntryRecords /\ ~Destroyed(texture[t]).live
    BY <1>0, <1>6, Destroys DEF DeinitTexture
  <2>2. texture' = [texture EXCEPT ![t] = Destroyed(texture[t])]
    BY <1>6 DEF DeinitTexture
  <2> QED
    BY <1>6, <2>1, <2>2, TextureChange DEF DeinitTexture
<1>7. ASSUME NEW b \in Blueprints, NewShaders(b) PROVE EntryInv'
  <2>1. Registered \in EntryRecords /\ Sole(Registered) /\ Registered.live
    BY NewEntries DEF Registered
  <2> QED
    BY <1>7, <2>1, ShaderChange DEF NewShaders
<1>8. ASSUME NEW b \in Blueprints, DropShaders(b) PROVE EntryInv'
  <2> DEFINE gone == Dropped([shader[b] EXCEPT !.held = FALSE])
  <2>1. shader[b].live
    BY <1>8 DEF DropShaders, EntryInv, Entries
  <2>2. gone \in EntryRecords /\ ~gone.live /\ ~gone.held
    BY <1>0, <2>1, DropSole
  <2>3. shader' = [shader EXCEPT ![b] = gone]
    BY <1>8 DEF DropShaders
  <2> HIDE DEF gone
  <2> QED
    BY <1>8, <2>2, <2>3, ShaderChange DEF DropShaders, Sole
<1>9. ASSUME NEW b \in Blueprints, DeinitShaders(b) PROVE EntryInv'
  <2> DEFINE gone == Destroyed(shader[b])
  <2>1. gone \in EntryRecords /\ ~gone.live
    BY <1>0, <1>9, Destroys DEF DeinitShaders, Sole
  <2>2. shader' = [shader EXCEPT ![b] = gone]
    BY <1>9 DEF DeinitShaders
  <2> HIDE DEF gone
  <2> QED
    BY <1>9, <2>1, <2>2, ShaderChange DEF DeinitShaders, Sole
<1>10. ASSUME NEW b \in Blueprints, NewBlueprint(b) PROVE EntryInv'
  <2>1. ~blueprint[b].live /\ at = "frame"
    BY <1>10 DEF NewBlueprint, Unregistered
  <2>2. Cardinality(Users(b)) = 0
    BY <2>1, UsersFinite DEF EntryInv, Counted, Balanced
  <2>3. /\ Registered \in EntryRecords /\ Registered.freed = 0
        /\ Balanced(Registered, Cardinality(Users(b)))
    BY <2>2, NewEntries DEF Registered
  <2> QED
    BY <1>10, <2>1, <2>3, BlueprintChange DEF NewBlueprint
<1>11. ASSUME NEW b \in Blueprints, DropBlueprint(b) PROVE EntryInv'
  <2> DEFINE less == Dropped([blueprint[b] EXCEPT !.held = FALSE])
  <2>1. /\ at = "frame" /\ blueprint[b].held
        /\ Balanced(blueprint[b], Cardinality(Users(b)))
    BY <1>11 DEF DropBlueprint, EntryInv, Counted
  <2>2. less \in EntryRecords /\ Balanced(less, Cardinality(Users(b)))
    BY <1>0, <2>1, UsersFinite, DropOwn
  <2>3. blueprint' = [blueprint EXCEPT ![b] = less]
    BY <1>11 DEF DropBlueprint
  <2> HIDE DEF less
  <2> QED
    BY <1>11, <2>1, <2>2, <2>3, BlueprintChange DEF DropBlueprint, Balanced
<1>12. ASSUME NEW b \in Blueprints, DeinitBlueprint(b) PROVE EntryInv'
  <2> DEFINE gone == Destroyed(blueprint[b])
  <2>1. gone \in EntryRecords /\ ~gone.live
    BY <1>0, <1>12, Destroys DEF DeinitBlueprint
  <2>2. blueprint' = [blueprint EXCEPT ![b] = gone]
    BY <1>12 DEF DeinitBlueprint
  <2> HIDE DEF gone
  <2> QED
    BY <1>12, <2>1, <2>2, BlueprintChange DEF DeinitBlueprint
<1>13. ASSUME NEW m \in Materials, NEW b \in Blueprints, NewMaterial(m, b) PROVE EntryInv'
  <2> DEFINE r == [blueprint[b] EXCEPT !.count = @ + 1]
             n == Cardinality(Users(b))
  <2>1. /\ at = "frame" /\ ~material[m].live /\ blueprint[b].held
        /\ material' = [material EXCEPT ![m] = MaterialOf(b)]
        /\ blueprint' = [blueprint EXCEPT ![b] = r]
        /\ UNCHANGED <<mesh, shader, texture, at>>
    BY <1>13 DEF NewMaterial
  <2>2. \A c \in Blueprints : Balanced(blueprint[c], Cardinality(Users(c)))
    BY <2>1 DEF EntryInv, Counted
  <2>3. blueprint[b].live /\ blueprint[b].freed = 0 /\ blueprint[b].count = 1 + n
    BY <2>1, <2>2 DEF Balanced
  <2>4. r \in EntryRecords
    BY <1>0 DEF EntryRecords
  <2>5. r.live /\ r.held /\ r.freed = 0 /\ r.count = 1 + n + 1
    BY <1>0, <2>1, <2>3, UsersFinite DEF EntryRecords
  <2>6. Balanced(r, n + 1)
    <3> HIDE DEF r
    <3> QED
      BY <2>5, UsersFinite DEF Balanced
  <2>7. MaterialOf(b) \in MaterialRecords /\ Sole(MaterialOf(b))
        /\ MaterialOf(b).live /\ MaterialOf(b).of = b
    BY NewEntries DEF MaterialOf
  <2>8. m \notin Users(b)
    BY <2>1 DEF Users
  <2>9. \A c \in Blueprints : Users(c)' = IF c = b THEN Users(b) \cup {m} ELSE Users(c)
    BY <2>1, <2>7 DEF EntryInv, EntryTypes, Users
  <2>10. Cardinality(Users(b) \cup {m}) = n + 1
    BY <2>8, UsersFinite, FS_AddElement
  <2> HIDE DEF r, n
  <2>11. EntryTypes'
    BY <2>1, <2>4, <2>7 DEF EntryInv, EntryTypes
  <2>12. Entries'
    BY <2>1, <2>5, <2>7 DEF EntryInv, EntryTypes, Entries
  <2>13. \A c \in Blueprints : Balanced(blueprint'[c], Cardinality(Users(c)'))
    <3> TAKE c \in Blueprints
    <3>1. CASE c = b
      BY <2>1, <2>6, <2>9, <2>10, <3>1 DEF EntryInv, EntryTypes
    <3>2. CASE c # b
      BY <2>1, <2>2, <2>9, <3>2 DEF EntryInv, EntryTypes
    <3> QED
      BY <3>1, <3>2
  <2>14. Counted'
    BY <2>1, <2>13 DEF Counted
  <2> QED
    BY <2>11, <2>12, <2>14 DEF EntryInv
<1>14. ASSUME NEW m \in Materials, DropMaterial(m) PROVE EntryInv'
  <2> DEFINE gone == Dropped([material[m] EXCEPT !.held = FALSE])
  <2>1. material[m].live
    BY <1>14 DEF DropMaterial, EntryInv, Entries
  <2>2. gone \in MaterialRecords /\ ~gone.live /\ ~gone.held
    BY <1>0, <2>1, DropSoleMaterial
  <2>3. material' = [material EXCEPT ![m] = gone]
    BY <1>14 DEF DropMaterial
  <2> HIDE DEF gone
  <2> QED
    BY <1>14, <2>1, <2>2, <2>3, MaterialGoes DEF DropMaterial
<1>15. ASSUME NEW m \in Materials, DeinitMaterial(m) PROVE EntryInv'
  <2> DEFINE gone == Destroyed(material[m])
  <2>1. gone \in MaterialRecords /\ ~gone.live
    BY <1>0, <1>15, DestroysMaterial DEF DeinitMaterial, Sole
  <2>2. material' = [material EXCEPT ![m] = gone]
    BY <1>15 DEF DeinitMaterial
  <2> HIDE DEF gone
  <2> QED
    BY <1>15, <2>1, <2>2, MaterialGoes DEF DeinitMaterial
<1>16. CASE StartDeinit
  <2>1. \A b : Users(b)' = Users(b)
    BY <1>16 DEF StartDeinit, Users
  <2> QED
    BY <1>16, <2>1 DEF StartDeinit, After, EntryInv, EntryTypes, Entries, Counted
<1>17. CASE EndSystem
  <2>1. \A b : Users(b)' = Users(b)
    BY <1>17 DEF EndSystem, Users
  <2>2. EntryTypes' /\ Entries'
    BY <1>17 DEF EndSystem, After, EntryInv, EntryTypes, Entries
  <2>3. Counted'
    <3>1. /\ at \in DOMAIN After /\ Emptied(at) /\ at' = After[at]
          /\ UNCHANGED <<mesh, material, blueprint, shader, texture>>
      BY <1>17 DEF EndSystem
    <3>2. Counted
      BY DEF EntryInv
    <3>3. CASE at = "materials"
      <4>1. at' = "blueprints" /\ \A m \in Materials : ~material[m].live
        BY <3>1, <3>3 DEF After, Emptied
      <4> QED
        BY <3>1, <4>1 DEF Counted
    <3>4. CASE at = "blueprints"
      <4>1. at' = "textures" /\ \A b \in Blueprints : ~blueprint[b].live
        BY <3>1, <3>4 DEF After, Emptied
      <4> QED
        BY <3>1, <3>2, <3>4, <4>1 DEF Counted
    <3>5. CASE at = "textures"
      <4>1. at' = "geos" /\ \A t \in Textures : ~texture[t].live
        BY <3>1, <3>5 DEF After, Emptied
      <4> QED
        BY <3>1, <3>2, <3>5, <4>1 DEF Counted
    <3>6. CASE at = "geos"
      <4>1. at' = "shaders" /\ \A m \in Meshes : ~mesh[m].live
        BY <3>1, <3>6 DEF After, Emptied
      <4> QED
        BY <3>1, <3>2, <3>6, <4>1 DEF Counted
    <3>7. CASE at = "shaders"
      <4>1. at' = "down" /\ \A b \in Blueprints : ~shader[b].live
        BY <3>1, <3>7 DEF After, Emptied
      <4> QED
        BY <3>1, <3>2, <3>7, <4>1 DEF Counted
    <3> QED
      BY <3>1, <3>3, <3>4, <3>5, <3>6, <3>7 DEF After
  <2> QED
    BY <2>2, <2>3 DEF EntryInv
<1> QED
  BY <1>1, <1>2, <1>3, <1>4, <1>5, <1>6, <1>7, <1>8, <1>9, <1>10, <1>11, <1>12, <1>13,
     <1>14, <1>15, <1>16, <1>17 DEF Next

LEMMA SpecEntryInv == Spec => []EntryInv
  BY EntryInit, EntryNext, PTL DEF Spec

(* A material's blueprint lives as long as the material, whatever handles  *)
(* clients drop and however far smat_deinit got (smat_prep resolves it     *)
(* without a check): its count is never below the number of its materials. *)
THEOREM BlueprintsOutlive == Spec => []BlueprintOutlivesMaterials
<1>1. EntryInv => BlueprintOutlivesMaterials
  <2> SUFFICES ASSUME EntryInv, NEW m \in Materials, material[m].live
               PROVE  blueprint[material[m].of].live
    BY DEF BlueprintOutlivesMaterials
  <2> DEFINE b == material[m].of
  <2>1. b \in Blueprints /\ at \in {"frame", "upload", "materials"}
    BY DEF EntryInv, EntryTypes, Counted, MaterialRecords
  <2>2. m \in Users(b)
    BY DEF Users
  <2>3. Cardinality(Users(b)) > 0
    BY <2>2, UsersFinite, FS_EmptySet
  <2> QED
    BY <2>1, <2>3 DEF EntryInv, Counted, Balanced
<1> QED
  BY <1>1, SpecEntryInv, PTL

-----------------------------------------------------------------------------
(* What svma.c tracks belongs to something that exists, or is the uniform  *)
(* buffer of a material, which nobody frees.                               *)
OwnedBy ==
  {Buffers(m, mesh[m].gen) : m \in {o \in Meshes : mesh[o].live}}
    \cup {Image(t) : t \in {o \in Textures : texture[o].live}}
    \cup {StructBuffer(m) : m \in Materials}

UsedInv ==
  \A x \in used :
    \/ x = Staging /\ at = "upload"
    \/ x = Set0 /\ at \in {"frame", "upload"}
    \/ x \in OwnedBy

LEMMA UsedInit == Init => UsedInv
<1> SUFFICES ASSUME Init, NEW x \in used
             PROVE  (x = Set0 /\ at = "frame") \/ x \in OwnedBy
  BY DEF UsedInv
<1>1. /\ used = {Set0} \cup {Buffers(m, 0) : m \in DefaultMeshes}
                       \cup {Image(t) : t \in DefaultTextures}
      /\ at = "frame"
      /\ \A m \in DefaultMeshes : m \in Meshes /\ mesh[m] = Created(1, 1, 0)
      /\ \A t \in DefaultTextures : t \in Textures /\ texture[t] = Registered
  BY GpuResourcesAssumption DEF Init, Meshes, Textures
<1>2. \A m \in DefaultMeshes : mesh[m].live /\ mesh[m].gen = 0
  BY <1>1 DEF Created
<1>3. \A t \in DefaultTextures : texture[t].live
  BY <1>1 DEF Registered
<1> QED
  BY <1>1, <1>2, <1>3 DEF OwnedBy

(* Steps that leave meshes and textures alone. *)
LEMMA SameOwners ==
  ASSUME UsedInv, UNCHANGED <<mesh, texture, at>>,
         used' \subseteq used \cup {StructBuffer(m) : m \in Materials}
  PROVE  UsedInv'
<1>1. OwnedBy' = OwnedBy
  BY DEF OwnedBy
<1> QED
  BY <1>1 DEF UsedInv, OwnedBy

LEMMA UsedNext == EntryInv /\ MeshInv /\ UsedInv /\ [Next]_vars => UsedInv'
<1> SUFFICES ASSUME EntryInv, MeshInv, UsedInv, [Next]_vars PROVE UsedInv'
  OBVIOUS
<1>1. ASSUME NEW nv \in Counts, NEW ni \in Counts, NewMesh(nv, ni) PROVE UsedInv'
  <2>1. /\ mesh' = [mesh EXCEPT ![GuiMesh] = Created(nv, ni, 0)]
        /\ used' = used \cup {Buffers(GuiMesh, 0)} /\ ~mesh[GuiMesh].live
        /\ UNCHANGED <<texture, at>>
    BY <1>1 DEF NewMesh
  <2>2. mesh'[GuiMesh].live /\ mesh'[GuiMesh].gen = 0 /\ GuiMesh \in Meshes
    BY <2>1 DEF MeshInv, Created, Meshes
  <2>3. \A m \in Meshes : mesh[m].live => mesh'[m] = mesh[m]
    BY <2>1 DEF MeshInv
  <2>4. OwnedBy \cup {Buffers(GuiMesh, 0)} \subseteq OwnedBy'
    BY <2>1, <2>2, <2>3 DEF OwnedBy
  <2> QED
    BY <2>1, <2>4 DEF UsedInv
<1>2. ASSUME NEW nv \in Counts, NEW ni \in Counts, CollectMeshes(nv, ni) PROVE UsedInv'
  <2> DEFINE r == mesh[GuiMesh]
             new == IF TooSmall(r, nv, ni) THEN Created(nv, ni, 1 - r.gen)
                    ELSE [r EXCEPT !.num_vertices = nv, !.num_indices = ni]
  <2>1. /\ mesh' = [mesh EXCEPT ![GuiMesh] = new] /\ r.live
        /\ used' = {Staging} \cup IF TooSmall(r, nv, ni) THEN Resized(GuiMesh) ELSE used
        /\ at = "frame" /\ at' = "upload" /\ UNCHANGED texture
    BY <1>2 DEF CollectMeshes, WriteMesh
  <2>2. r \in MeshRecords
    BY <2>1 DEF MeshInv, Meshes, None
  <2>3. new.live /\ new.gen = IF TooSmall(r, nv, ni) THEN 1 - r.gen ELSE r.gen
    BY <2>1, <2>2 DEF MeshRecords, Created
  <2> HIDE DEF r, new
  <2>4. mesh'[GuiMesh] = new /\ \A m \in Meshes \ {GuiMesh} : mesh'[m] = mesh[m]
    BY <2>1 DEF MeshInv, Meshes
  <2>5. Buffers(GuiMesh, new.gen) \in OwnedBy'
    BY <2>3, <2>4 DEF OwnedBy, Meshes
  <2>6. \A x \in OwnedBy : x \in OwnedBy' \/ x = Buffers(GuiMesh, r.gen)
    BY <2>1, <2>4 DEF OwnedBy, r
  <2>7. \A x \in used' : x = Staging \/ x = Buffers(GuiMesh, new.gen)
                           \/ (x \in used /\ x # Buffers(GuiMesh, r.gen))
    BY <2>1, <2>3 DEF Resized, r
  <2> QED
    BY <2>1, <2>5, <2>6, <2>7 DEF UsedInv
<1>3. CASE ImmEnd
  <2>1. used' = used \ {Staging} /\ at' = "frame" /\ at = "upload" /\ OwnedBy' = OwnedBy
    BY <1>3 DEF ImmEnd, OwnedBy
  <2> QED
    BY <2>1 DEF UsedInv
<1>4. CASE RenderFrame \/ Complete \/ UNCHANGED vars
  BY <1>4, SameOwners DEF RenderFrame, Complete, vars
<1>5. CASE StartDeinit
  <2>1. used' = used \ {Set0} /\ at = "frame" /\ OwnedBy' = OwnedBy
    BY <1>5 DEF StartDeinit, OwnedBy
  <2> QED
    BY <2>1 DEF UsedInv, Staging, Set0
<1>6. CASE EndSystem
  <2>1. used' = used /\ at \notin {"frame", "upload"} /\ OwnedBy' = OwnedBy
    BY <1>6 DEF EndSystem, After, OwnedBy
  <2> QED
    BY <2>1 DEF UsedInv
<1>7. ASSUME NEW m \in Meshes, GatherStaticMesh(m) PROVE UsedInv'
  BY <1>7, SameOwners DEF GatherStaticMesh
<1>8. ASSUME NEW m \in Meshes, DeinitMesh(m) PROVE UsedInv'
  <2>1. /\ mesh' = [mesh EXCEPT ![m] = None] /\ used' = used \ {Buffers(m, mesh[m].gen)}
        /\ UNCHANGED <<texture, at>>
    BY <1>8 DEF DeinitMesh
  <2>2. \A o \in Meshes : o # m => mesh'[o] = mesh[o]
    BY <2>1 DEF MeshInv
  <2>3. \A x \in OwnedBy : x \in OwnedBy' \/ x = Buffers(m, mesh[m].gen)
    BY <2>1, <2>2 DEF OwnedBy
  <2> QED
    BY <2>1, <2>3 DEF UsedInv
<1>9. ASSUME NEW t \in Textures, NewTexture(t) PROVE UsedInv'
  <2>1. /\ texture' = [texture EXCEPT ![t] = Registered] /\ used' = used \cup {Image(t)}
        /\ UNCHANGED <<mesh, at>>
    BY <1>9 DEF NewTexture
  <2>2. texture'[t].live /\ \A o \in Textures : o # t => texture'[o] = texture[o]
    BY <2>1 DEF EntryInv, EntryTypes, Registered
  <2>3. OwnedBy \cup {Image(t)} \subseteq OwnedBy'
    BY <2>1, <2>2 DEF OwnedBy
  <2> QED
    BY <2>1, <2>3 DEF UsedInv
<1>10. ASSUME NEW t \in Textures, UploadTexture(t) PROVE UsedInv'
  <2>1. /\ used' = used \cup {Staging} /\ at = "frame" /\ at' = "upload" /\ OwnedBy' = OwnedBy
    BY <1>10 DEF UploadTexture, OwnedBy
  <2> QED
    BY <2>1 DEF UsedInv
<1>11. ASSUME NEW t \in Textures, DeinitTexture(t) PROVE UsedInv'
  <2>1. /\ texture' = [texture EXCEPT ![t] = Destroyed(texture[t])] /\ used' = used \ {Image(t)}
        /\ UNCHANGED <<mesh, at>>
    BY <1>11 DEF DeinitTexture
  <2>2. \A o \in Textures : o # t => texture'[o] = texture[o]
    BY <2>1 DEF EntryInv, EntryTypes
  <2>3. \A x \in OwnedBy : x \in OwnedBy' \/ x = Image(t)
    BY <2>1, <2>2 DEF OwnedBy
  <2> QED
    BY <2>1, <2>3 DEF UsedInv
<1>12. ASSUME NEW b \in Blueprints,
              NewShaders(b) \/ DropShaders(b) \/ DeinitShaders(b)
                \/ NewBlueprint(b) \/ DropBlueprint(b) \/ DeinitBlueprint(b)
       PROVE  UsedInv'
  BY <1>12, SameOwners DEF NewShaders, DropShaders, DeinitShaders, NewBlueprint,
     DropBlueprint, DeinitBlueprint
<1>13. ASSUME NEW m \in Materials,
              DropMaterial(m) \/ DeinitMaterial(m) \/ \E b \in Blueprints : NewMaterial(m, b)
       PROVE  UsedInv'
  BY <1>13, SameOwners DEF DropMaterial, DeinitMaterial, NewMaterial
<1> QED
  BY <1>1, <1>2, <1>3, <1>4, <1>5, <1>6, <1>7, <1>8, <1>9, <1>10, <1>11, <1>12, <1>13 DEF Next

LEMMA SpecUsedInv == Spec => []UsedInv
<1>1. Inv => MeshInv
  BY DEF Inv
<1> QED
  BY <1>1, UsedInit, UsedNext, SpecInv, SpecEntryInv, PTL DEF Spec

(* Whatever was created, dropped, written and resized before, the shutdown *)
(* destroys every object once and leaves no memory behind but the uniform  *)
(* buffers of materials (vd_renderer_deinit, system by system, down to     *)
(* svma_deinit).                                                           *)
THEOREM ShutdownIsClean == Spec => []CleanShutdown
<1>1. EntryInv /\ UsedInv => CleanShutdown
  <2> SUFFICES ASSUME EntryInv, UsedInv PROVE CleanShutdown
    OBVIOUS
  <2>1. /\ \A m \in Materials : material[m].freed \in {0, 1}
        /\ \A b \in Blueprints : blueprint[b].freed \in {0, 1} /\ shader[b].freed \in {0, 1}
        /\ \A t \in Textures : texture[t].freed \in {0, 1}
    BY DEF EntryInv, EntryTypes, EntryRecords, MaterialRecords
  <2>2. ASSUME at = "down"
        PROVE  /\ \A m \in Materials : ~material[m].live
               /\ \A b \in Blueprints : ~blueprint[b].live /\ ~shader[b].live
               /\ used \subseteq {StructBuffer(m) : m \in Materials}
    <3>1. /\ \A m \in Materials : ~material[m].live
          /\ \A b \in Blueprints : ~blueprint[b].live /\ ~shader[b].live
          /\ \A t \in Textures : ~texture[t].live
          /\ \A m \in Meshes : ~mesh[m].live
      BY <2>2 DEF EntryInv, Counted
    <3>2. used \subseteq {StructBuffer(m) : m \in Materials}
      BY <2>2, <3>1 DEF UsedInv, OwnedBy
    <3> QED
      BY <3>1, <3>2
  <2>3. /\ \A m \in Materials : material[m].freed <= 1
        /\ \A b \in Blueprints : blueprint[b].freed <= 1 /\ shader[b].freed <= 1
        /\ \A t \in Textures : texture[t].freed <= 1
    BY <2>1
  <2> QED
    BY <2>2, <2>3 DEF CleanShutdown
<1> QED
  BY <1>1, SpecEntryInv, SpecUsedInv, PTL
=============================================================================
