\* Two owner requests at a time on the catalog, one component in each behaviour.
SPECIFICATION Spec
CONSTANTS
    None = None
    Deleted = Deleted
    Absent = Absent
    Procs = {p1, p2}
    Ids = {z1, z2, z3}
    Bases <- RedAndRed2
    Variants = {y1, y2}
    Prices = {z1, z2}
    Limits = {z1}
    MaxStock = 1
    Keys = {z1, z2}
    MaxImages = 2
    MaxSlot = 1
    LastImage = 4
CONSTRAINT OverlapBound
SYMMETRY Symmetry
INVARIANTS TablesAreConsistent RequestsAloneSucceed RemovedImagesLeaveNoObject OverrunIsBounded
PROPERTIES OnlyRacesDeleteActive EditsUndoNothing AddTakesItsSlot
CHECK_DEADLOCK FALSE
