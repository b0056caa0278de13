SPECIFICATION FairSpec
CONSTANTS
    Scopes = {pool, vm}
    Requests = {t1, t2}
    Scheduler = scheduler
    NoScope = noscope
    NoTime = never
    Retentions = {1}
    DefaultDays = 2
    Schedules <- EverySchedule
    HoursPerDay = 2
    MaxHour = 2
    MaxEvents = 2
INVARIANTS
    TypeOK
    SuccessHasArchive
    
PROPERTIES
    EnabledIsBackedUp
