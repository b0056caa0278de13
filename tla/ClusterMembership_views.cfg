SPECIFICATION Spec
CONSTANTS
  Leader = leader
  Followers = {f1, f2}
  Threads = {t1, t2}
  Tokens = {k1}
  NoToken = NoToken
  MaxRequests = 1
  MaxCodes = 1
  Kinds = {"init", "token", "refresh", "code", "join", "delete", "leave"}
SYMMETRY Symmetry
INVARIANTS
  TypeOK
  ViewsAreSound
  ListedWasAdmitted
PROPERTIES
  LeaveIsConfirmed
