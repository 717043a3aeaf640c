SPECIFICATION Spec
CONSTANTS
    Items = {i1, i2}
    Categories = {c1, c2}
    Requests = {r1, r2}
    None = None
    Products = TRUE
PROPERTIES
    NothingIsUnfiledSilently
SYMMETRY MCSymmetry
CHECK_DEADLOCK FALSE
