CONSTANTS
    Admins = {Ann, Ben}
    Yesterday = Yesterday
    Torn = Torn
    Files <- Backups
    Passes = {p1, p2}
    KeepSafetyCopies = 2
    MaxWork = 2
    MaxUploads = 3
    None = None
    Empty = Empty
SPECIFICATION Spec
SYMMETRY Alike
INVARIANTS NothingLeftBehind SchemaFits
PROPERTY WayBack
CHECK_DEADLOCK FALSE
