SPECIFICATION LiveSpec
CONSTANTS
    Orders = {o1}
    Requests = {r1, r2, r3}
    NoOrder = NoOrder
    Amounts <- MCAmounts
    Answers <- AllAnswers
INVARIANT
    ReturnsSafety
PROPERTIES
    KeepsPromise
    HandoverEnds
CHECK_DEADLOCK FALSE
