SPECIFICATION Spec
CONSTANTS
    Messages = {m1, m2, m3}
    Capacity = 3
INVARIANTS IndicesAgree NoTear
PROPERTY RefinesFifo
