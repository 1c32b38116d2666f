\* Two concurrent lookups of one address in one process, one retry each, with a table
\* that starts empty and a row that may expire; the process may crash and come back.
SPECIFICATION ProcessSpec
CONSTANTS
    c1 = c1  c2 = c2  google = google
    Calls = {c1, c2}
    MaxRetries = 1
    Statuses <- KindsOfStatus
    Process = pod
    Inputs = {"8.8.8.8"}
    IPs = {google}
    Parse <- OneAddress
    Malformed = Malformed
    Public = {google}
    Storable = {google}
    Countries = {us}
    NoRow = NoRow
    NoAnswer = NoAnswer
    TTL = 1
    MaxSkew = 0
    MaxTime = 1
INVARIANTS TypeOK RetriesAreStrict LastAttemptDecides EachCallIsCountedOnce CountersAgree
PROPERTY OnlyPostgresHoldsALookup
CHECK_DEADLOCK FALSE
