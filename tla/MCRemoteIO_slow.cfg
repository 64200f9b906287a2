SPECIFICATION RemoteSpec
CONSTANTS
    Frame = {1, 2}
    FrameLength <- MCLength
    FrameAddress <- MCAddress
    Byte <- MCByte
    MB_SER_PDU_SIZE_MAX = 6
    Timeout = 5
    ReplyLength = {2}
    MaxGap = 1
    MinSilence = 21
    MaxLag = 1
    Patience = "all"
    Pin = {7}
    SetByte = {0, 1}
    BaudHalf = {0, 1200}
    Standard <- MCStandard
    Default <- MCDefault
    Effect <- MCEffect
    NewRate <- Rate1200
    CharTicks <- MCTicks
PROPERTIES
    T35OnlyInSilence
