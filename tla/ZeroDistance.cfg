SPECIFICATION Spec
CONSTANTS
    Content <- MCContent
    Size <- MCSize
    Dir = 0
    MaxNodes = 5
    Tolerances = {1}
CONSTRAINT Canonical
INVARIANT
    ZeroSumMeansEmpty
