\* One order, two successive attempts, one request beside the maintenance loop.
CONSTANTS
    Orders = {o1}
    Payable = {o1}
    Attempts = {a1, a2}
    Refs = {r1, r2}
    Verifiers = {v1}
    Maint = maint
    ScanLimit = 1
    ReservationLimit = 1
    NoOrder = noOrder
    NoAttempt = noAttempt
    NoRef = noRef
SYMMETRY Symmetry
SPECIFICATION Spec
INVARIANTS
    TypeOK
    CancelledIsUnpaid
    FulfilledIsPaid
    OnePayment
    SettledIsCaptured
    GivenBackOnce
    MailMatchesOrder
PROPERTIES
    SettlementIsFinal
    AuthorityReleasedOnUnpaid
    KeepsPromise
