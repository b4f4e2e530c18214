SPECIFICATION Spec
CONSTANTS
    Values = {v1}
    NoData = zero
    Turns = 2
INVARIANTS MarkIsMeant OldOrNothing
PROPERTIES TrustedIsFinal HandedOver
