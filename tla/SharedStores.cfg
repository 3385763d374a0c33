CONSTANTS
  Remote = "r"
  Endpoints = {"u1", "u2"}
  Commands = {p1, p2}
  Files <- MCFiles
  Edits <- MCEdits
  Chats = {c1}
  MaxTokens = 2
  MaxUserEdits = 1
  Workers = {w1, w2}
  Threads = {t1}
  Keys = {k1}
  None = None
  MaxPerScan = 1
  MaxUpdates = 1
  MaxGeneration = 1
  MaxVersions = 1
  MaxCrashes = 1
SPECIFICATION SharedSpec
INVARIANTS CredentialsAreKept ExtractionsAreExact
PROPERTY EditMeansItsCommand UserEntriesPrevail AbandonedLeasesAreTaken
CHECK_DEADLOCK FALSE
