SPECIFICATION Spec
CONSTANTS
  g1 = g1
  Threads = {t1, t2}
  Pools = {p1}
  Persistent = {}
  Kiosk = {}
  VMs = {v1}
  Users = {u1, u2}
  Classes = {}
  Slots = {}
  Extensions = {}
  NoPool = NoPool
  NoVM = NoVM
  NoUser = NoUser
  NoClass = NoClass
  NoSlot = NoSlot
  Kinds = {"create", "register", "allocate"}
  ReRegister = FALSE
  MaxClock = 0
  MaxFailures = 0
  Limit <- Unlimited
  Matches <- NoGpu
INVARIANTS
  LeaseIsExclusive
