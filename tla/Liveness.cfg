\* One order and every fairness assumption; no symmetry, which liveness forbids.
SPECIFICATION FairSpec
CONSTANTS
    Orders = {o1}
    Variants = {v1}
    Sessions = {s1, s2}
    Procs = {p1, p2}
    MaxStock = 1
    MaxQuantity = 1
    None = None
    Kinds = {"completed", "expired"}
    OwnerStatuses = {}
    Editable = {}
PROPERTIES
    ReservationsEnd
    EventsSettle
CHECK_DEADLOCK FALSE
