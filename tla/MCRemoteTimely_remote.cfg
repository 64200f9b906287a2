SPECIFICATION FairRemoteSpec
CONSTANTS
    Frame = {1, 2, 3, 4}
    FrameLength <- MCLength
    FrameAddress <- MCAddress
    Byte <- MCByte
    MB_SER_PDU_SIZE_MAX = 6
    Timeout = 5
    ReplyLength = {0, 2}
    MaxGap = 1
    MinSilence = 6
    MaxLag = 1
    Patience = "all"
    Pin = {7}
    SetByte = {0, 1}
    BaudHalf = {0, 57600}
    Standard <- MCStandard
    Default <- MCDefault
    Effect <- MCEffect
    NewRate <- Rate57600
    CharTicks <- MCTicks
INVARIANTS
    NoAssertFails
    ExecutesOnlyOurFrames
    ExecutesOnce
    RepliesMatch
    RepliesIntact
PROPERTIES
    BufferStableWhileSending
    T35OnlyInSilence
    ImplementsService
    SettingsReached
