SPECIFICATION QueriesSpec
CONSTANTS
    a = a
    b = b
    c = c
    theSearch = theSearch
    Execs = {a, b}
    Searches = {theSearch}
    Nobody = Nobody
    Client = Client
    OwnerOf <- OneSearch
    Editors = {a}
    Sql <- SameSql
    Size <- OneByte
    Processes = 2
    QueueLimit = 0
    TransientLimit = 1
    DatasetLimit = 1
    MaxSnaps = 2
    MaxVersion = 1
    Paths = {1, 2}
CHECK_DEADLOCK FALSE
INVARIANTS RowsAreBoundedAndFollowJobs WhatIsServedIsThere
PROPERTIES VerdictStands AnswersWhatWasAsked FirstJobEnds
