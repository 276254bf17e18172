SPECIFICATION FairSpecWithDelete
CONSTANTS
    NoWorker = NoWorker
    Worker = {i, r, d}
    Uploads = {}
    Inserts = {i}
    Retries = {r}
    Scans = {}
    Deletes = {d, i}      \* i inserts or deletes, as it likes
    Clears = {}
    LastDoc = 3
    PageSize = 1
    StallRounds = 2
    Unreadable = {1}
    StrictReads = FALSE
    PendingDocs = {1}
    ActiveDocs = {}
    JournalDocs = {}
    FailedDocs = {2}
    MaxKills = 1
    MaxCancels = 0
    MaxFaults = 0
    MaxResets = 0
    Killable = {i}
    DocumentCapacity = 1
    ManualCapacity = 3
    TerminalCapacity = 4
PROPERTIES RetryServed FreezeEnds
