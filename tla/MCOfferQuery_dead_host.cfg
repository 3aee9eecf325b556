SPECIFICATION HostSpec
CONSTANTS
    a = a
    b = b
    c = c
    theSearch = theSearch
    Execs = {a, b, c}
    Searches = {theSearch}
    Nobody = Nobody
    Client = Client
    OwnerOf <- OneSearch
    Editors = {a}
    Sql <- SameSql
    Size <- OneByte
    Processes = 1
    QueueLimit = 2
    TransientLimit = 1
    DatasetLimit = 1
    MaxSnaps = 1
    MaxVersion = 0
    Paths = {1}
CHECK_DEADLOCK FALSE
INVARIANTS NobodyEndsTheHost
