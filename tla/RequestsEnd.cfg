SPECIFICATION FairSpec
CONSTANTS
    r1 = r1
    r2 = r2
    r3 = r3
    r4 = r4
    g1 = g1
    g2 = g2
    c1 = c1
    c2 = c2
    Task <- MCOwnTask
    Users = {u1}
    Passwords = {p1}
    Visits = {r1, r2, r3}
    Owners = {u1}
    Changes = {q1, q2, q3}
    Named = {i1, i2}
    Slugs = {1, 2, 3}
    Renames = {q1, q2}
    Items = {g1, g2}
    Categories = {c1, c2}
    Requests = {r1, r2, r3, r4}
    None = None
    Products = TRUE
PROPERTIES
    NobodyWaitsForEver
    TokensAreCleared
CHECK_DEADLOCK FALSE
