CONSTANTS
    Engs = {"e1"}
    EngOf <- MCEngOf3
    Calls = {1, 3, 4}
    Batches = {"prompt", "pane"}
    Prompts = {"prompt"}
    Asks = {1}
    Shells = {1}
    Refused = {}
    LimitChoices = {1, 2}
    Events = {"cancel", "escape", "unwritten", "panic", "dry", "limits"}
    Switching = FALSE
    MaxSessions = 0
    ActionKinds = {"max_actions"}
    ByteKinds = {}
    MaxMeasure = 1
    NoEng = "none"
    BatchOf <- MCBatchOf
    KindOf <- MCKindOf
    MaxTools <- MCOneTool
SPECIFICATION FairSpec
INVARIANTS HoldersInFlight ExecutionsCharged ReservedIsExact
PROPERTIES EntryUnlocked EntryNotPlanned GrantWithinLimit LedgerSpec BatchesEnd
CHECK_DEADLOCK FALSE
