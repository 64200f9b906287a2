SPECIFICATION FairSpec
CONSTANTS
    Pin = {7}
    SetByte = {0, 1, 2}
    BaudHalf = {0, 1200, 4800}
    Standard <- MCStandard
    Default <- MCDefault
    FailAt = {"erase", "program"}
    RestartAt = {"poll", "flash", "erase", "program"}
INVARIANTS
    TypeOK
    NeverRestoresStale
    WritesOnlyWhatWasSet
    UartUsesOffered
    ErrorTellsRate
PROPERTIES
    FlashRests
