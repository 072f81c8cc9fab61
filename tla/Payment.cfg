\* One order, three checkout sessions, two requests at a time.
SPECIFICATION Spec
CONSTANTS
    Orders = {o1}
    Variants = {v1}
    Sessions = {s1, s2, s3}
    Procs = {p1, p2}
    MaxStock = 1
    MaxQuantity = 1
    None = None
    Kinds = {"completed", "expired"}
    OwnerStatuses = {"shipped", "cancelled"}
    Editable = {}
SYMMETRY Symmetry
INVARIANTS
    ReservedIsPending
    CancelledHoldsNoReservation
    NotifiedOncePerSale
    OnePaymentIsRecorded
    ReservationCanStillEnd
CHECK_DEADLOCK FALSE
