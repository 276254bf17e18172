SPECIFICATION SpecWithDelete
CONSTANTS
    NoWorker = NoWorker
    Worker = {d, s}
    Uploads = {}
    Inserts = {}
    Retries = {}
    Scans = {s}
    Deletes = {d}
    Clears = {}
    LastDoc = 3
    PageSize = 2
    StallRounds = 2
    Unreadable = {}
    StrictReads = FALSE
    PendingDocs = {1}
    ActiveDocs = {}
    JournalDocs = {}
    FailedDocs = {2}
    MaxKills = 0
    MaxCancels = 0
    MaxFaults = 0
    MaxResets = 0
    Killable = {}
    DocumentCapacity = 1
    ManualCapacity = 3
    TerminalCapacity = 4
INVARIANTS ScanAlone
