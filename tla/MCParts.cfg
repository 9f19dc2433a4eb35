\* Rates, updates, the webhook's setup and file writes.  Rates are resolved once; tokens, edits
\* and updates are bounded.
SPECIFICATION PartsSpec
CONSTANTS
  Texts <- MCTexts
  Defaults = {0, 100, 5000}
  MinShare <- MCMin
  MaxShare <- MCMax
  Versions = {"v1", "v2", "v3"}
  Files <- MCFiles
  First = "v1"
  KeepBackups = 1
  MaxUpdates = 2
  Profiles = {"p"}
  Hooks = {"on-up", "on-down"}
  Requests = {"r", "s"}
  MaxTokens = 1
  MaxEdits = 1
  Contents = {"old", "new"}
  Writers = {"w", "x"}
  Readers = {"r"}
  Inodes = {1, 2, 3}
INVARIANTS PartsTypeOK RowAccepted Restorable LeavesWhatItSays
PROPERTIES OwnLinesKept ImplementsAtomicFile
CHECK_DEADLOCK FALSE
