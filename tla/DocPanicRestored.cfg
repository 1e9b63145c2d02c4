CONSTANTS
    p1 = p1
    p3 = p3
    Panes = {p1, p3}
    Stubborn = {p3}
    MaxPanes = 2
    MaxRestores = 1
SPECIFICATION Spec
INVARIANT PanicReachesLiveSession
