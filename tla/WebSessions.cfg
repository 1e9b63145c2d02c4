CONSTANTS
    Engs = {"e", "f"}
    Names = {"n"}
    Origins = {"o", "p"}
    Unbound = "nowhere"
    Calls = {1, 2}
    Requests <- MCRequests
    SetCookies <- MCSetCookies
    MaxBegun = 4
    MaxTime = 2
SPECIFICATION WebSpec
INVARIANT WebInv
PROPERTY NoStaleCookie
CHECK_DEADLOCK FALSE
