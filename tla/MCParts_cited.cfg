SPECIFICATION PartsSpec
CONSTANTS
    Callers <- ThreeCallers
    Keys <- TwoMails
    KeyOf <- KeyOfCall
INVARIANTS NothingIsCutToFit
CHECK_DEADLOCK FALSE
