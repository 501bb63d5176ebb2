SPECIFICATION Spec
CONSTANTS
    Producers = {p1, p2}
    Consumers = {c1}
    Items = {s1, s2}
    Undefined = Undefined
    capacity = 3
INVARIANTS
    TypeOK
    RingWellFormed
PROPERTIES
    ImplementsBoundedFifo
