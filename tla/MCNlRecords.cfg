SPECIFICATION Spec
CHECK_DEADLOCK FALSE
CONSTANTS
  ReadLayout <- MCReadLayout
  WriteLayout <- MCWriteLayout
  Roots <- MCRoots
  Children <- MCChildren
  Versions = {0, 5}
  MaxObjects = 3
  MaxItems = 2
  ListCap = 1
  NoClass = NoClass
  Zero = Zero
INVARIANTS
  ReadsBack NeverMisread VersionIsOwn CutFileReadsTrue
