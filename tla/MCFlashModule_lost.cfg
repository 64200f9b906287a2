SPECIFICATION Spec
CONSTANTS
    Pin = {7}
    SetByte = {0, 1}
    BaudHalf = {0, 1200, 4800}
    Standard <- MCStandard
    Default <- MCDefault
    FailAt = {}
    RestartAt = {}
INVARIANTS
    SettingsSurvive
