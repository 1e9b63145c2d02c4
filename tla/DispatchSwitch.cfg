CONSTANTS
    Engs = {"e1", "e2"}
    EngOf <- MCEngOf
    Calls = {1, 2, 4}
    Batches = {"prompt", "pane"}
    Prompts = {"prompt"}
    Asks = {1, 2}
    Shells = {1}
    Refused = {}
    LimitChoices = {1}
    Events = {"cancel", "escape", "add", "pause"}
    Switching = TRUE
    MaxSessions = 1
    ActionKinds = {"max_actions"}
    ByteKinds = {"max_bytes_in"}
    MaxMeasure = 1
    NoEng = "none"
    BatchOf <- MCBatchOf
    KindOf <- MCKindOf
    MaxTools <- MCMaxTools
SPECIFICATION Spec
INVARIANT ReservedIsBacked
PROPERTY EntryAuthorized
CHECK_DEADLOCK FALSE
