SPECIFICATION Spec
CONSTANTS
    Pin = {5, 6}
    Shared = {5, 6}
    MAX_VALUE_COUNTER = 1
    ByteSize = 2
    SetByte = {0}
    WriteByte = {0}
    ClearByte = {0, 1}
    CounterRead = {}
    MaxEdges = 4
INVARIANTS
    TypeOK
    InputFresh
    LatchTellsLastEdge
    NoPhantomPulse
    CountsEveryPulse
