SPECIFICATION LinkSpec
CONSTANTS
    Frame = {1}
    FrameLength <- MCLength
    FrameAddress <- MCAddress
    Byte <- MCByte
    MB_SER_PDU_SIZE_MAX = 6
    Timeout = 4
    ReplyLength <- MCReplyLength
    MaxGap = 4
    MinSilence = 5
    MaxLag = 1
    Patience = "all"
INVARIANTS
    TimerAssertHolds
