SPECIFICATION Spec
CONSTANTS
    Path = {p1, p2, p3}
    Hash = {h1, h2, h3}
    Unseen = unseen
SYMMETRY Symmetry
INVARIANTS
    TypeOK
    TablesComplete
    OneLinePerPath
    ReportRebuilds
    OnlyRenamesHidden
