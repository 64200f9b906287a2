SPECIFICATION Spec
CONSTANTS
    Pin = {4}
    Shared = {}
    MAX_VALUE_COUNTER = 2
    ByteSize = 2
    SetByte = {0}
    WriteByte = {0}
    ClearByte = {0}
    CounterRead = {4}
    MaxEdges = 4
INVARIANTS
    ReadsCurrentValue
