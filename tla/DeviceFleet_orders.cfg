SPECIFICATION Spec
CONSTANTS
    Threads = {t1, t2}
    NoThread = none
    StrictWipe = TRUE
    MaxEvents = 3
    MaxInstalls = 1
CHECK_DEADLOCK FALSE
SYMMETRY Interchangeable
INVARIANTS
    TypeOK
    EraseWasOrdered
    
