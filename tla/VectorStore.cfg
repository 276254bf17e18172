SPECIFICATION Spec
CONSTANTS
    Proc = {p1, p2}
    Id = {a, b}
    Stored = {a, b}
    NoRow = NoRow
    NoProc = NoProc
    Nothing = Nothing
    Preload = TRUE
    MaxClock = 2
    MaxWrites = 2
    MaxRemovals = 1
    MaxFaults = 1
SYMMETRY Symmetry
INVARIANTS CopyInv ReadMatchesFlush
PROPERTIES KeepsForeign UpsertDurable RemovalDurable ReplayNeverReverts
CHECK_DEADLOCK FALSE
