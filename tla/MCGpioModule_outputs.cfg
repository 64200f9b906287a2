SPECIFICATION Spec
CONSTANTS
    Pin = {4, 5}
    Shared = {5}
    MAX_VALUE_COUNTER = 2
    ByteSize = 2
    SetByte = {0, 1, 2}
    WriteByte = {0, 1, 2}
    ClearByte = {0}
    CounterRead = {5}
    MaxEdges = 1
INVARIANTS
    OutputFollows
PROPERTIES
    WritingPinQuiet
