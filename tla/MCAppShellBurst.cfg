\* Two events in one poll: the two windows are closed together.
SPECIFICATION Spec
CONSTANTS
  Windows = {"Vaudou", "Extra0"}
  MainWindow = "Vaudou"
  MaxEvents = 2
INVARIANT LoopHasWindow
CHECK_DEADLOCK FALSE
