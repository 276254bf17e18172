SPECIFICATION Spec
CONSTANTS
    NoWorker = NoWorker
    Worker = {i, r, s}
    Uploads = {}
    Inserts = {i}
    Retries = {r}
    Scans = {s}
    Deletes = {}
    Clears = {}
    LastDoc = 3
    PageSize = 2
    StallRounds = 2
    Unreadable = {}
    StrictReads = FALSE
    PendingDocs = {}
    ActiveDocs = {}
    JournalDocs = {}
    FailedDocs = {1}
    MaxKills = 1
    MaxCancels = 0
    MaxFaults = 1
    MaxResets = 1
    Killable = {i, s}
    DocumentCapacity = 1
    ManualCapacity = 2
    TerminalCapacity = 4
INVARIANTS FlagsInv NoWorkStranded
PROPERTIES OwnerReleasesOnly ResetStartsDrained
