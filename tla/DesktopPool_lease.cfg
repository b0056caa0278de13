SPECIFICATION Spec
CONSTANTS
  g1 = g1
  Threads = {t1}
  Pools = {p1, p2}
  Persistent = {p2}
  Kiosk = {p1}
  VMs = {v1, v2}
  Users = {u1, u2}
  Classes = {}
  Slots = {}
  Extensions = {1}
  NoPool = NoPool
  NoVM = NoVM
  NoUser = NoUser
  NoClass = NoClass
  NoSlot = NoSlot
  Kinds = {"create", "allocate", "register", "release", "recycle", "update", "scale", "health", "extend", "expire"}
  ReRegister = FALSE
  MaxClock = 2
  MaxFailures = 1
  Limit <- Limited
  Matches <- NoGpu
SYMMETRY Symmetry
INVARIANTS
  TypeOK
  LeaseIsExclusive
  HandedOutClean
PROPERTY
  ImplementsDesk
