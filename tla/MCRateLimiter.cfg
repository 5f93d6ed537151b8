SPECIFICATION LimiterSpec
CONSTANTS
    slow1 = slow1
    slow2 = slow2
    fast = fast
    poll = poll
    Request = {slow1, slow2, fast, poll}
    Offset <- MCOffset
    Methods <- MCMethods
    Window = 3
    Requests = 1
    Second = 2
    MaxDelay = 1
    MaxTime = 8
INVARIANTS LimiterTypeOK WithinBudget NoSpuriousDenial
PROPERTY HintReachesNextWindow
SYMMETRY SameReplica
CHECK_DEADLOCK FALSE
