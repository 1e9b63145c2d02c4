CONSTANTS
    Listeners = {"l"}
    MaxMatched = 1
    MaxTotal = 2
    Peers = {1, 2, 3}
    Reads = {1, 2}
SPECIFICATION CallbackFairSpec
INVARIANTS CallbackInv CapturesBounded FinalReadIsFinal
PROPERTY ListenerEnds
CHECK_DEADLOCK FALSE
