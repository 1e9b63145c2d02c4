CONSTANTS
    p1 = p1
    p3 = p3
    Panes = {p1, p3}
    Stubborn = {p3}
    MaxPanes = 1
    MaxRestores = 2
SPECIFICATION FairSpec
INVARIANTS ExitedIsDead NothingLeftRunning LimitWithoutOverlap
PROPERTY SignalledEnd
