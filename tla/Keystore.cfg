CONSTANTS
    Procs = {"tui", "cli"}
    Tui = {"tui"}
    Jobs = {"prompt", "pane"}
    Owner <- MCOwner
    Prompts = {"prompt"}
    Secrets = {"s", "t"}
    Texts <- MCTexts
    MaxRoots = 2
    Seconds = {0}
    MaxJobs = 2
    MaxCommands = 1
    MaxDeaths = 1
SPECIFICATION Spec
INVARIANTS KeystoreInv NothingLost NoTerminalPrompt RedactionIsComplete
CHECK_DEADLOCK FALSE
