SPECIFICATION PartsSpec
CONSTANTS
    r1 = r1
    r2 = r2
    r3 = r3
    r4 = r4
    g1 = g1
    g2 = g2
    c1 = c1
    c2 = c2
    Task <- MCAnyTask
    Users = {u1}
    Passwords = {p1, p2}
    Visits = {r1, r2, r3, r4}
    Owners = {u1, u2}
    Changes = {r1, r2, r3}
    Named = {g1, g2}
    Slugs = {1, 2, 3}
    Renames = {r1, r2, r3}
    Items = {g1, g2}
    Categories = {c1, c2}
    Requests = {r1, r2, r3}
    None = None
    Products = TRUE
INVARIANT
    CategoriesSafety
PROPERTIES
    SessionsSafety
    AddressesSafety
    SlugsSafety
SYMMETRY MCSymmetry
CHECK_DEADLOCK FALSE
