SPECIFICATION Spec
CONSTANTS
    Processes = {p, q}
    Places = {a}
    Contents = {x, y}
    NoFile = NoFile
    Garbage = Garbage
    Environments <- WritersOrLosses
    Numbers <- NumbersTyped
    MaxVersion = 2
    MaxClock = 2
SYMMETRY Symmetry
INVARIANTS
    TypeOK
    NoSelfAppend

    
CHECK_DEADLOCK FALSE
