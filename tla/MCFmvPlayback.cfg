CONSTANTS
  NoScene = NoScene
  SceneIds <- MCScenes
  Film <- MCFilm
  NoFilm = NoFilm
  Blank = Blank
  Mixed = Mixed
  MaxAge = 5
  MaxQueue = 3
  MaxOpens = 3
SPECIFICATION FairPlayback
INVARIANTS
  PictureIsCurrentFrame
  TimelyFilmIsComplete
PROPERTIES
  PlaysForward
  PlaybackEnds
CHECK_DEADLOCK FALSE
