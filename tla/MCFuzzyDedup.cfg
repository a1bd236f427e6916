SPECIFICATION Spec
CONSTANTS
    Content <- MCContent
    Size <- MCSize
    Dir = 0
    MaxNodes = 8
    Tolerances = {60}
CONSTRAINT Canonical
INVARIANTS
    TypeOK
    CountersRight
    QueueExact
    AllClassified
    FilesByContent
    IdenticalTogether
    NothingHidden
    UniquenessRight
