SPECIFICATION SpecTools
CONSTANTS
  c1 = c1
  c2 = c2
  fix = fix
  bug = bug
  index = index
  other = other
  Calls <- MCCalls
  Tools <- MCTools
  Edits <- MCEdits
  Whole <- MCWhole
  Code <- MCCode
  Buildable <- MCBuildable
  Templates <- MCTemplates
  DefaultTemplate <- MCTemplate
  Keep = 2
  None = None
  ReloadIds = {1, 2}
  MaxVersion = 3
  MaxSaves = 2
  MaxRollbacks = 1
  SeedFirst = TRUE
  Crashes = FALSE
  Existing = index
  Missing = other
  MaxLines = 3
  BodySizes = {0, 2}
  MaxEdits = 3
INVARIANTS
  EditsLandAsAddressed
  RefusedAsAWhole
PROPERTIES
  UndisturbedEditsApply
  UndisturbedSuccessIsReported
CHECK_DEADLOCK FALSE
