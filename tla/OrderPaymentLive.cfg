\* Two orders with an attempt each; a1 is never answered and each scan takes one.
CONSTANTS
    o1 = o1
    o2 = o2
    a1 = a1
    a2 = a2
    Orders = {o1, o2}
    Payable = {o1, o2}
    Attempts = {a1, a2}
    Unanswerable = {a1}
    Refs = {r1}
    Verifiers = {}
    Maint = maint
    ScanLimit = 1
    ReservationLimit = 1
    NoOrder = noOrder
    NoAttempt = noAttempt
    NoRef = noRef
SPECIFICATION SmallSpec
INVARIANTS
    RefPaysOnce
PROPERTIES
    CaptureIsFound
    ReservationEnds
