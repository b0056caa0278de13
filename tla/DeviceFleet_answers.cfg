SPECIFICATION FairSpec
CONSTANTS
    Threads = {t1, t2}
    NoThread = none
    StrictWipe = FALSE
    MaxEvents = 2
    MaxInstalls = 0
CHECK_DEADLOCK FALSE

    
PROPERTIES
    
    UnlockArrives
    WipeIsAnswered
    TableCatchesUp
