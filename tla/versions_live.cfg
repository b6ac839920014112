CONSTANTS
  tmpl = tmpl
  good = good
  bad = bad
  c1 = c1
  c2 = c2
  Calls <- TwoCalls
  Code <- SmallCode
  Buildable <- SmallBuildable
  Templates <- MCTemplates
  DefaultTemplate = tmpl
  Keep = 2
  None = None
  ReloadIds = {1, 2, 3}
  MaxVersion = 3
  MaxSaves = 2
  MaxRollbacks = 1
  SeedFirst = TRUE
  Crashes = FALSE
SPECIFICATION FairSpec
INVARIANT ReadyMeansLiveBuilds QuietPagesAreCurrent
PROPERTY PagesSettleOnLive
