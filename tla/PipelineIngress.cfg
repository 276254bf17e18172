SPECIFICATION Spec
CONSTANTS
    Document = {d1, d2}
    Request = {r1, r2, r3}
    NoRequest = NoRequest
    DocumentCapacity = 2
    ManualCapacity = 2
    TerminalCapacity = 2
SYMMETRY Symmetry
INVARIANTS NothingUnannounced FirstTerminalStateWins
PROPERTIES NoReplay
