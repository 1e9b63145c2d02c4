CONSTANTS
    Addrs = {"a1", "a2", "b1"}
    Names = {"ha", "hd"}
    NoHost = "none"
    Blocks = {"A", "A1", "AB"}
    BlockOf <- MCBlockOf
    Engs = {"n", "d", "p"}
    Target <- MCTarget
    Package <- MCPackage
    Scratch <- MCScratch
    Cwd <- MCCwd
    ShellWorkdir <- MCShellWorkdir
    DefaultPorts = {1, 2, 3, 4}
    OperatorTools <- MCOperatorTools
    NetworkClients = {"nmap", "dig"}
    Structured = {"curl"}
    Forbidden = {"bash"}
    ExecWrappers = {"timeout"}
    NoProgram = "empty"
    MaxPort = 5
    Worlds <- MCWorlds
    Calls = {"c1", "c2", "c3"}
    Asked <- MCAsked
    EngsOf <- MCEngsOf
    Selections <- MCSelections
    Sessions <- MCSessions
    NoCall <- MCNoCall
    Nobody = "nobody"
    MaxChanges = 2
SPECIFICATION Spec
INVARIANTS DecisionsInTurn RulesAsGranted
PROPERTIES AdmittedStayInside ContactInScope
CHECK_DEADLOCK FALSE
