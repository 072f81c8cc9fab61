\* A customer's cancellation races the webhook of the payment.
SPECIFICATION Spec
CONSTANTS
    Orders = {o1}
    Variants = {v1}
    Sessions = {s1, s2}
    Procs = {p1, p2}
    MaxStock = 1
    MaxQuantity = 1
    None = None
    Kinds = {"completed", "expired"}
    OwnerStatuses = {}
    Editable = {}
PROPERTY OnlyPendingOrdersCancelled
CHECK_DEADLOCK FALSE
