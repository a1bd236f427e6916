SPECIFICATION Spec
CONSTANTS
    p1 = p1
    p2 = p2
    f1 = f1
    f2 = f2
    n1 = n1
    n2 = n2
    n3 = n3
    c1 = c1
    c2 = c2
    c3 = c3
    None = None
    Processes <- MCProcesses
    Files <- MCFiles
    Results <- MCResults
    Reports <- MCReports
    Confs <- MCConfs
    Earlier <- MCEarlier
SYMMETRY Symmetry
INVARIANTS
    TypeOK
    ExitMeansStored
    ClassesMatchNodes
    ReportIsAtomic
    NothingIsRefused
    ReadsAll
    DumpIsWhole
