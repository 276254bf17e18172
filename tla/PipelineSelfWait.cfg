SPECIFICATION FairSpec
CONSTANTS
    NoWorker = NoWorker
    Worker = {u, r}
    Uploads = {u}
    Inserts = {}
    Retries = {r}
    Scans = {}
    Deletes = {}
    Clears = {}
    LastDoc = 1
    PageSize = 0
    StallRounds = 3
    Unreadable = {}
    StrictReads = FALSE
    PendingDocs = {}
    ActiveDocs = {}
    JournalDocs = {}
    FailedDocs = {}
    MaxKills = 0
    MaxCancels = 0
    MaxFaults = 0
    MaxResets = 0
    Killable = {}
    DocumentCapacity = 1
    ManualCapacity = 3
    TerminalCapacity = 4
PROPERTIES FreezeEnds
