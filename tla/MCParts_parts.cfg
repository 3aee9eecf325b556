SPECIFICATION PartsSpec
CONSTANTS
    Callers <- ThreeCallers
    Keys <- TwoMails
    KeyOf <- KeyOfCall
INVARIANTS NothingGoesWhereItMayNot WhatIsKeptIsTrue WhatIsSaidHasItsGround ModelsAreHeardWhole TurnsAreTaken
INVARIANTS AtMostOnce SettledIsKnown ToldSentIsSent
PROPERTIES NothingIsUndone
CHECK_DEADLOCK FALSE
