\* Small instances under fairness, one component in each behaviour; no symmetry,
\* which liveness forbids.
SPECIFICATION ProgressSpec
CONSTANTS
    v1 = v1
    v2 = v2
    None = None
    Orders = {o1, o2}
    Variants = {v1, v2}
    Transactions = {r1, r2}
    Carts <- BothOrders
    MaxStock = 1
    MaxQuantity = 1
    Addresses = {a1, a2}
    Procs = {r1, r2}
    Values = {a}
    Null = Null
    NoProfile = NoProfile
INVARIANT LocksInv
PROPERTIES ReservationSpec AllRequestsEnd AskingSucceeds
CHECK_DEADLOCK FALSE
