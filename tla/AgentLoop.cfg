CONSTANTS
    NumSessions = 1
    MaxId = 4
    Batches <- MCBatches
    Calls = {"http", "read"}
    PaneReads = {"read"}
    Results = {"page", "busy", "none"}
    Transient = {"busy"}
    NoOutput = "none"
    EmergencyLimit = 3
    MaxStalled = 2
    MaxRepeated = 1
    MaxUnchanged = 2
    CheckpointEvery = 2
SPECIFICATION FairSpec
INVARIANTS ExchangesInOnePiece NothingForgotten
PROPERTIES NewResultKeepsTurn TurnEnds
CHECK_DEADLOCK FALSE
