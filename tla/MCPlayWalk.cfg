SPECIFICATION Spec
CONSTANTS
  Vars = {"met", "count"}
  IntVals = {"7"}
  OtherVals = {"maybe"}
  Unset = Unset
  Uninterpreted = Uninterpreted
  Locations <- MCLocations
  NoLocation = NoLocation
  SceneIds <- MCScenes
  NoScene = NoScene
  HotScenes <- MCHotScenes
  Flow <- MCFlow
  Hints <- MCHints
  Effects <- MCEffects
  Rects <- MCRects
  Points = {"p", "q"}
  Film <- MCNoFilm
  NoFilm = NoFilm
  Blank = Blank
  Mixed = Mixed
  StartScenes <- MCStart
  FirstFiles <- MCFiles
  NoFile = NoFile
  Damaged = Damaged
  MaxEntries = 3
  MaxClicks = 0
INVARIANTS
  SceneMatchesPlace NearestStop EntryEffectsHold CountersCoverValues
PROPERTIES WalkSpec
