\* A checkout is lost after its Stripe session was created.
SPECIFICATION Spec
CONSTANTS
    Orders = {o1}
    Variants = {v1}
    Sessions = {s1, s2}
    Procs = {p1, p2}
    MaxStock = 1
    MaxQuantity = 1
    None = None
    Kinds = {"completed", "expired"}
    OwnerStatuses = {}
    Editable = {}
INVARIANT EventsNameExistingOrders
CHECK_DEADLOCK FALSE
