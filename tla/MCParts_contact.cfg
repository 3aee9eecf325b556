SPECIFICATION PartsSpec
CONSTANTS
    Callers <- ThreeCallers
    Keys <- TwoMails
    KeyOf <- KeyOfCall
INVARIANTS ContactGoesWithPersonal
CHECK_DEADLOCK FALSE
