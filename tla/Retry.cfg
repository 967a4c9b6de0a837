CONSTANTS
    m1 = m1
    Messages <- MCMessages
    MaxRetries = 2
    Delay = 1
    MaxLog = 3
    MaxDlq = 1
    MaxTime = 3
    MaxAdjust = 1
    MaxPowerLoss = 1
SPECIFICATION Spec
INVARIANT NoVisibilityHole
INVARIANT NeverEarly
INVARIANT AttemptsInOrder
INVARIANT DeadLettersExhausted
INVARIANT AckedCopiesKept
PROPERTY VisibleAfterRestart
PROPERTY EventuallyVisible
