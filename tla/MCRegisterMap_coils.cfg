SPECIFICATION Spec
CONSTANTS
    REG_COIL_NREGS = 32
    REG_DISCRETE_NREGS = 24
    REG_HOLDING_NREGS = 4
    REG_INPUT_NREGS = 11
    PduSize = 38
    Received <- MCPacked
    SensedBit <- MCSensedBit
    SensedCount <- MCSensedCount
PROPERTIES
    PackedBits
