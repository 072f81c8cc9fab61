\* A new payment URL races the expiry of the old one.
SPECIFICATION Spec
CONSTANTS
    Orders = {o1}
    Variants = {v1}
    Sessions = {s1, s2}
    Procs = {p1, p2}
    MaxStock = 1
    MaxQuantity = 1
    None = None
    Kinds = {"completed", "expired"}
    OwnerStatuses = {}
    Editable = {}
PROPERTY OnlyContinuableOrdersGetUrl
CHECK_DEADLOCK FALSE
