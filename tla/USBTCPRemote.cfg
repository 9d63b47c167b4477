SPECIFICATION Spec
CONSTANTS
    Packets = {p1}
    NoPacket = NoPacket
    MaxConns = 2
    MaxSubmits = 2
INVARIANTS
    RepliesAreCurrent
    FailsOnlyWithCause
PROPERTIES
    KeepsContract
    AcceptsAgain
CHECK_DEADLOCK FALSE
