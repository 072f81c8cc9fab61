\* One order, two sessions, and all four kinds of webhook in any order.
SPECIFICATION Spec
CONSTANTS
    Orders = {o1}
    Variants = {v1}
    Sessions = {s1, s2}
    Procs = {p1, p2}
    MaxStock = 1
    MaxQuantity = 1
    None = None
    Kinds = {"completed", "expired", "failed", "refunded"}
    OwnerStatuses = {"cancelled"}
    Editable = {}
SYMMETRY Symmetry
INVARIANTS
    PaidIsBackedOrFlagged
    RefundedWasPaid
    IndInv
    PaymentInv
CHECK_DEADLOCK FALSE
