SPECIFICATION Spec
CONSTANTS
    NoWorker = NoWorker
    Worker = {u, r, c}
    Uploads = {u}
    Inserts = {}
    Retries = {r}
    Scans = {}
    Deletes = {c}      \* c clears or deletes, as it likes
    Clears = {c}
    LastDoc = 2
    PageSize = 1
    StallRounds = 2
    Unreadable = {}
    StrictReads = FALSE
    PendingDocs = {}
    ActiveDocs = {}
    JournalDocs = {}
    FailedDocs = {1}
    MaxKills = 1
    MaxCancels = 1
    MaxFaults = 1
    MaxResets = 1
    Killable = {u, r, c}
    DocumentCapacity = 1
    ManualCapacity = 2
    TerminalCapacity = 4
INVARIANTS TypeOK WritersExclude FreezeIsOwned HalfDoneIsFenced
PROPERTIES AckMeansReset SignalKept
