CONSTANTS
  tmpl = tmpl
  good = good
  bad = bad
  c1 = c1
  c2 = c2
  Calls <- TwoCalls
  Code <- MCCode
  Buildable <- MCBuildable
  Templates <- MCTemplates
  DefaultTemplate = tmpl
  Keep = 2
  None = None
  ReloadIds = {1, 2}
  MaxVersion = 3
  MaxSaves = 2
  MaxRollbacks = 1
  SeedFirst = FALSE
  Crashes = TRUE
SPECIFICATION Spec
INVARIANT TypeOK LiveVersionHasFiles UndoHistoryIsComplete
SYMMETRY Symmetric
