\* Two orders compete for the last units of two variants; the owner edits,
\* hides and deletes one of them.
SPECIFICATION Spec
CONSTANTS
    Orders = {o1, o2}
    Variants = {v1, v2}
    Sessions = {s1, s2}
    Procs = {p1, p2}
    MaxStock = 2
    MaxQuantity = 1
    None = None
    Kinds = {"completed", "expired"}
    OwnerStatuses = {}
    Editable = {v1}
SYMMETRY StockSymmetry
INVARIANT TypeOK
PROPERTIES
    ReservationSpec
    StockConserved
CHECK_DEADLOCK FALSE
