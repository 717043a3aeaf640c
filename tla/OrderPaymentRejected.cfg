\* One order and one attempt: does a rejected verification fail it?
CONSTANTS
    Orders = {o1}
    Payable = {o1}
    Attempts = {a1}
    Refs = {r1}
    Verifiers = {v1}
    Maint = maint
    ScanLimit = 1
    ReservationLimit = 1
    NoOrder = noOrder
    NoAttempt = noAttempt
    NoRef = noRef
SPECIFICATION Spec
INVARIANTS
    RejectedIsFailed
