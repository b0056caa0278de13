SPECIFICATION Spec
CONSTANTS
  g1 = g1
  Threads = {t1, t2}
  Pools = {p1}
  Persistent = {p1}
  Kiosk = {}
  VMs = {v1, v2}
  Users = {u1}
  Classes = {g1}
  Slots = {s1}
  Extensions = {}
  NoPool = NoPool
  NoVM = NoVM
  NoUser = NoUser
  NoClass = NoClass
  NoSlot = NoSlot
  Kinds = {"create", "register", "allocate", "delete"}
  ReRegister = FALSE
  MaxClock = 0
  MaxFailures = 0
  Limit <- Unlimited
  Matches <- OneClass
SYMMETRY Symmetry
INVARIANTS
  
  SlotReservedOnce
