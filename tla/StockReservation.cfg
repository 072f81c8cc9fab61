\* Three orders over two variants.
SPECIFICATION Spec
CONSTANTS
    Orders = {o1, o2, o3}
    Variants = {v1, v2}
    MaxStock = 2
    MaxQuantity = 2
SYMMETRY Symmetry
INVARIANT TypeOK
PROPERTY UnitsConserved
CHECK_DEADLOCK FALSE
