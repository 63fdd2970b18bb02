\* Two locations, three scenes of which two have a hotspot file, and maps
\* of up to four entries: a location can be seen undetermined first, then
\* byte-direct twice.
CONSTANTS
  Locations = {"Field Office", "Comity"}
  NoLocation = ""
  SceneIds = {19736, 19706, 2522}
  NoScene = 0
  HotScenes = {19736, 19706}
  MaxHints = 4
SPECIFICATION ResolverSpec
INVARIANTS
  TableIsFirstByteDirect
PROPERTY
  ResolvedSceneIsStable
CHECK_DEADLOCK FALSE
