SPECIFICATION ScanFairSpec
CONSTANTS
    n1 = n1
    n2 = n2
    n3 = n3
    n4 = n4
    Names <- MCNames
    Root = root
    Trees <- MCTrees
    Workers = {w1, w2}
    Main = main
    Owner = owner
    None = None
    Databases <- MCDatabases
INVARIANTS
    ScanTypeOK
    Serialized
    ReportIsSubtree
    ReportIsComplete
    DbReportIsExact
PROPERTIES
    Implements
    ScanEnds
