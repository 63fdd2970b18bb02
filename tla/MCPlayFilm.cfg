SPECIFICATION Spec
CONSTANTS
  Vars = {}
  IntVals = {"7"}
  OtherVals = {"maybe"}
  Unset = Unset
  Uninterpreted = Uninterpreted
  Locations <- MCLocations
  NoLocation = NoLocation
  SceneIds <- MCScenes
  NoScene = NoScene
  HotScenes <- MCHotScenes
  Flow <- MCFlow
  Hints <- MCHints
  Effects <- MCNoEffects
  Rects <- MCRects
  Points = {"p", "q", "away"}
  Film <- MCDamagedFilm
  NoFilm = NoFilm
  Blank = Blank
  Mixed = Mixed
  StartScenes <- MCStart
  FirstFiles = {NoFile}
  NoFile = NoFile
  Damaged = Damaged
  MaxEntries = 2
  MaxClicks = 1
INVARIANTS TypeOK NoForeignPicture
