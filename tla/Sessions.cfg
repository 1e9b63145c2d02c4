CONSTANTS
    Instances = {"tui", "cli"}
    Tui = {"tui"}
    Sids = {1, 2}
    Rows = 2
    MaxWork = 1
    MaxSaves = 2
    MaxStarts = 2
SPECIFICATION Spec
INVARIANT SessionsInv
PROPERTY KeepsPromise
CONSTRAINT FewMessages
CHECK_DEADLOCK FALSE
