SPECIFICATION PartsSpec
CONSTANTS
    Callers <- ThreeCallers
    Keys <- TwoMails
    KeyOf <- KeyOfCall
INVARIANTS LastWord
CHECK_DEADLOCK FALSE
