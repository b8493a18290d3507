\* Two materials over the default and one more blueprint, which has a struct
\* property; the mesh the ImGui module writes with up to three vertices and
\* indices, so that a write can be smaller than the last one, larger than it and
\* still within the buffers; one drawn mesh, one default texture and that of
\* the ImGui module, and two frames in flight.
SPECIFICATION Spec
CONSTANTS
  Materials = {"m1", "m2"}
  Blueprints = {"pbropaque", "gui"}
  Default = "pbropaque"
  StructBlueprints = {"gui"}
  DefaultMeshes = {"cube"}
  GuiMesh = "mesh_data"
  DefaultTextures = {"white"}
  GuiTexture = "font_image"
  MaxCount = 3
  MaxInFlight = 2
INVARIANTS
  BlueprintOutlivesMaterials CleanShutdown WritesFit InFlightIsAlive
\* The program stops when the renderer is down.
CHECK_DEADLOCK FALSE
