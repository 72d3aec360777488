SPECIFICATION Spec
CONSTANTS
    c1 = c1
    c2 = c2
    None = None
    Clients <- MCClients
    Scenarios <- MCScenarios
    Ids <- MCIds
    IdOf <- MCIdOf
    Chunks <- MCChunks
    WaitLimit = 2
INVARIANTS ArchivesTypeOK EntryOfLiveSession InputInOrder StreamsTakeTurns NoTicketKept
PROPERTIES SessionsEnd
CHECK_DEADLOCK FALSE
