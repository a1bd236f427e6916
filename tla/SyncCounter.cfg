SPECIFICATION FairSpec
CONSTANTS
    Jobs = {j1, j2}
    Waiters = {w1}
PROPERTY
    WaitForZeroReturns
