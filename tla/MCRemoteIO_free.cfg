SPECIFICATION RemoteSpec
CONSTANTS
    Frame = {5, 6}
    FrameLength <- MCLength
    FrameAddress <- MCAddress
    Byte <- MCByte
    MB_SER_PDU_SIZE_MAX = 5
    Timeout = 2
    ReplyLength = {0, 2}
    MaxGap = 2
    MinSilence = 2
    MaxLag = 1
    Patience = "none"
    Pin = {7}
    SetByte = {2}
    BaudHalf = {0, 57600}
    Standard <- MCStandard
    Default <- MCDefault
    Effect <- MCEffect
    NewRate <- Rate57600
    CharTicks <- MCTicks
INVARIANTS
    TypeOK
    HalfDuplex
CHECK_DEADLOCK FALSE
