SPECIFICATION RemoteSpec
CONSTANTS
    Frame = {1, 4}
    FrameLength <- MCLength
    FrameAddress <- MCAddress
    Byte <- MCByte
    MB_SER_PDU_SIZE_MAX = 6
    Timeout = 5
    ReplyLength = {2}
    MaxGap = 1
    MinSilence = 6
    MaxLag = 1
    Patience = "all"
    Pin = {7}
    SetByte = {2}
    BaudHalf = {0, 57600}
    Standard <- MCStandard
    Default <- MCDefault
    Effect <- MCEffect
    NewRate <- Rate57600
    CharTicks <- MCTicks
INVARIANTS
    RepliesIntact
CHECK_DEADLOCK FALSE
