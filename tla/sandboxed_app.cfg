SPECIFICATION SpecApp
CONSTANTS
  Fetches = {f1}
  Hosts <- MCHosts
  NotHttp = NotHttp
  Lists <- MCLists
  SecretNames = {"key"}
  Values = {"v", "w"}
  Redirects = 1
  MaxBytes = 1
  None = None
  Clients = {c1, c2}
  A = A
  B = B
  Texts <- MCTexts
  Chars <- MCChars
  Units <- MCUnits
  Bytes <- MCBytes
  DEFAULT_LIMITS <- MCDefaults
  BOUNDS <- MCBounds
  Overrides <- MCOverrides
  Infinite = Infinite
  Statements <- MCStatements
  From = 9
  MaxCalls = 2
  MaxDb = 3
  Absent = Absent
  Namespaces = {"a", "b"}
  Names = {"a", "b"}
  Up = ".."
  Nothing = "."
  MaxSegments = 2
  MaxNodes = 4
  MaxBlobs = 3
  Mails = {m1, m2, m3}
  Senders = {"s"}
  Recipients <- MCRecipients
  Entries <- MCEntries
  Caps = {1, 2}
  Days = 2
  Runs = {r1, r2}
  Paths = {"p"}
  Contents = {1, 2}
  Rooms = {x, y}
INVARIANTS
  EveryIncrementCountsOnce
  RequestsStayOnTheLists
  SecretsAreUsedNotRead
  MailKeepsToTheCap
  RunsWhatItWasGiven
PROPERTIES
  CapsInForceAreTheHosts
  NamespacesStayApart
  CallsEnd
CHECK_DEADLOCK FALSE
