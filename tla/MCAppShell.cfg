\* Up to three events in one poll, over three windows: windows are opened,
\* resized and closed in every order, and rows move when an earlier row is
\* deleted.
SPECIFICATION Spec
CONSTANTS
  Windows = {"Vaudou", "Extra0", "Extra1"}
  MainWindow = "Vaudou"
  MaxEvents = 3
INVARIANTS RenderedAtSize QuitMeansAllClosed LastCloseQuits
\* After the shutdown nothing happens.
CHECK_DEADLOCK FALSE
