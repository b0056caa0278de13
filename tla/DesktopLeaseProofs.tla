-------------------------- MODULE DesktopLeaseProofs --------------------------
(***************************************************************************)
(* What DesktopPool promises its users when requests do not overlap: proofs *)
(* for any number of pools, VMs, users and failing saves, and one thread.   *)
(*   - ExclusiveLease: a desktop is in the hands of one user;               *)
(*   - CleanHandout: nobody is handed another user's data, if no pool is    *)
(*     deleted and no VM registered again (what delete_pool and register_vm *)
(*     do to a VM that still carries data is in the README);                *)
(*   - PoolsImplementDesk: under the same condition the pools are a desk    *)
(*     that lends desktops out (LeaseDesk), which is all the first two need *)
(*     (DeskKeepsUsersApart).                                               *)
(*                                                                          *)
(* A save may succeed or fail, so whatever is true of the file now must be  *)
(* true of the copy after the save: Handed, Clean and DeskStep are stated   *)
(* for a table and its histories, and a thread that is about to save has    *)
(* made a table that satisfies them with what the save will leave.          *)
(***************************************************************************)
EXTENDS DesktopPoolProofs

(* Requests do not overlap.                                                 *)
OneThread == \A s, t \in Threads : s = t

(* No pool is deleted, and no VM registered that a pool has.                *)
StablePools == "delete" \notin Kinds /\ ~ReRegister

(* Whoever holds a VM is its user in table m.                               *)
Handed(m, h) ==
  \A v \in VMs : h[v] # {} => m[v].state = "in_use" /\ h[v] \subseteq {m[v].user}

(* The data on the VMs of table m is their users'; what is free for anybody *)
(* carries none.                                                            *)
CleanEntry(e, d) ==
  /\ e.pool \in Persistent \/ e.state = "in_use" => d \subseteq {e.user}
  /\ e.pool \notin Persistent /\ e.state = "free" => d = {}
Clean(m, r) == \A v \in VMs : CleanEntry(m[v], r[v])

(* The history variables after the save that thread t is about to do.       *)
Ended(t) ==
  CASE op[t].kind \in {"release", "recycle", "register", "mark"} -> {op[t].vm}
    [] op[t].kind = "delete" -> {w \in VMs : vms[w].pool = op[t].pool}
    [] OTHER -> {}
Granted(t, w) ==
  IF op[t].kind = "allocate" /\ w = op[t].vm THEN {op[t].user} ELSE {}
HoldersAfter(t) ==
  [w \in VMs |-> (IF w \in Ended(t) THEN {} ELSE holders[w]) \cup Granted(t, w)]
ResidueAfter(t) ==
  [w \in VMs |-> IF op[t].kind = "register" /\ w = op[t].vm /\ vms[op[t].vm].state = "none"
                   THEN {} ELSE residue[w] \cup Granted(t, w)]

(* What the only thread has read is what the file says.                     *)
CopyIsFile ==
  \A t \in Threads :
    /\ pc[t] \in {"reading", "loaded", "reset"} => mem[t].vms = vms
    /\ pc[t] \in {"reading", "loaded"} /\ op[t].kind = "allocate" => op[t].vm = NoVM
    /\ pc[t] = "reset" => op[t].kind = "recycle" /\ KnownVm(t)
    /\ pc[t] = "continue" => op[t].kind \in {"recycle", "mark"}

LeaseInv ==
  /\ Handed(vms, holders)
  /\ CopyIsFile
  /\ \A t \in Threads : pc[t] = "saving" => Handed(mem[t].vms, HoldersAfter(t))

(* VMs belong to pools that exist.                                          *)
PoolsExist(m, p) == \A v \in VMs : m[v].pool \in Pools => p[m[v].pool] # "absent"

CleanInv ==
  /\ Clean(vms, residue)
  /\ PoolsExist(vms, repo)
  /\ \A t \in Threads :
       /\ op[t].kind # "delete"
       /\ pc[t] \in {"loaded", "reset", "saving"} => mem[t].pools = repo
       /\ pc[t] \in {"reading", "loaded"} /\ op[t].kind = "register"
            => vms[op[t].vm].state = "none"
       /\ pc[t] = "reset" => op[t].kind = "recycle" /\ residue[op[t].vm] = {}
       /\ pc[t] = "saving" => /\ Clean(mem[t].vms, ResidueAfter(t))
                              /\ PoolsExist(mem[t].vms, repo)

-----------------------------------------------------------------------------
(* ExclusiveLease                                                           *)

(* An operation that starts has read the file.                              *)
LEMMA LeaseStarts ==
  ASSUME OneThread, Inv, LeaseInv, NEW t \in Threads, NEW o, StartsWith(t, o),
         o.kind = "allocate" => o.vm = NoVM, UNCHANGED <<fileVars, history>>
  PROVE  LeaseInv'
<1> USE TypeUnfold DEF Inv
<1>1. /\ pc'[t] = "reading" /\ op'[t] = o /\ mem'[t].vms = vms
      /\ vms' = vms /\ holders' = holders
  <2>1. mem[t] \in Image OBVIOUS
  <2> QED BY <2>1 DEF StartsWith, fileVars, history, Image
<1>2. \A s \in Threads : s = t
  BY DEF OneThread
<1> QED BY <1>1, <1>2 DEF LeaseInv, CopyIsFile

(* An operation that ends, and one that gives way to the next.              *)
LEMMA LeaseEnds ==
  ASSUME OneThread, Inv, NEW t \in Threads, Ends(t), Handed(vms', holders')
  PROVE  LeaseInv'
<1>1. \A s \in Threads : s = t
  BY DEF OneThread
<1>2. pc'[t] = "idle"
  BY TypeUnfold DEF Inv, Ends
<1> QED BY <1>1, <1>2 DEF LeaseInv, CopyIsFile

LEMMA LeaseGoesOn ==
  ASSUME OneThread, Inv, NEW t \in Threads, NEW o, o.kind \in {"recycle", "mark"},
         GoesOnWith(t, o), Handed(vms', holders')
  PROVE  LeaseInv'
<1>1. \A s \in Threads : s = t
  BY DEF OneThread
<1>2. pc'[t] = "continue" /\ op'[t] = o
  BY TypeUnfold DEF Inv, GoesOnWith
<1> QED BY <1>1, <1>2 DEF LeaseInv, CopyIsFile

(* An operation that saves: it ends the sessions of the VMs it takes from   *)
(* their users, keeps all others, and starts one only on a VM nobody holds. *)
LEMMA LeaseSaves ==
  ASSUME OneThread, Inv, LeaseInv, NEW t \in Threads, NEW i \in Image, Save(t, i),
         pc[t] \in {"loaded", "reset"},
         \A w \in VMs :
           /\ w \notin Ended(t)' /\ vms[w].state = "in_use" =>
                i.vms[w].state = "in_use" /\ i.vms[w].user = vms[w].user
           /\ op'[t].kind = "allocate" /\ w = op'[t].vm =>
                /\ vms[w].state # "in_use"
                /\ i.vms[w].state = "in_use" /\ i.vms[w].user = op'[t].user
  PROVE  LeaseInv'
<1> USE TypeUnfold DEF Inv
<1>1. /\ pc'[t] = "saving" /\ mem'[t] = i
      /\ vms' = vms /\ holders' = holders
  BY DEF Save, fileVars, history
<1>2. \A s \in Threads : s = t
  BY DEF OneThread
<1>3. Handed(i.vms, HoldersAfter(t)')
  <2> SUFFICES ASSUME NEW w \in VMs, HoldersAfter(t)'[w] # {}
               PROVE  /\ i.vms[w].state = "in_use"
                      /\ HoldersAfter(t)'[w] \subseteq {i.vms[w].user}
    BY DEF Handed
  <2>1. HoldersAfter(t)'[w] = (IF w \in Ended(t)' THEN {} ELSE holders[w]) \cup Granted(t, w)'
    BY <1>1 DEF HoldersAfter
  <2>2. holders[w] # {} => vms[w].state = "in_use" /\ holders[w] \subseteq {vms[w].user}
    BY DEF LeaseInv, Handed
  <2>3. CASE op'[t].kind = "allocate" /\ w = op'[t].vm
    <3>1. holders[w] = {} /\ Granted(t, w)' = {op'[t].user}
      BY <2>2, <2>3 DEF Granted
    <3> QED BY <2>1, <2>3, <3>1
  <2>4. CASE ~(op'[t].kind = "allocate" /\ w = op'[t].vm)
    <3>1. Granted(t, w)' = {}
      BY <2>4 DEF Granted
    <3>2. w \notin Ended(t)' /\ HoldersAfter(t)'[w] = holders[w]
      BY <2>1, <3>1
    <3> QED BY <2>2, <3>2
  <2> QED BY <2>3, <2>4
<1> QED BY <1>1, <1>2, <1>3 DEF LeaseInv, CopyIsFile

(* Inside an operation the copy is the file.                                *)
LEMMA CopyRead ==
  ASSUME Inv, LeaseInv, NEW t \in Threads, pc[t] \in {"loaded", "reset"}
  PROVE  mem[t].vms = vms /\ vms \in [VMs -> Vm] /\ mem[t] \in Image
BY TypeUnfold DEF Inv, LeaseInv, CopyIsFile

(* Operations on pools, and telemetry, save the VMs as they are.            *)
LEMMA LeasePools ==
  ASSUME OneThread, Inv, LeaseInv, NEW t \in Threads, PoolStep(t) \/ UpdateStreamHealth(t)
  PROVE  LeaseInv'
<1> USE CopyRead
<1>1. pc[t] = "loaded" /\ op[t].kind \in {"create", "delete", "update", "scale", "health"}
      /\ op' = op
  BY DEF PoolStep, CreatePool, DeletePool, UpdatePool, ScalePool, UpdateStreamHealth, In
<1>2. CASE CreatePool(t) \/ UpdatePool(t)
  <2> DEFINE i == [mem[t] EXCEPT !.pools[op[t].pool] = op[t].class]
  <2>1. Save(t, i)
    BY <1>2 DEF CreatePool, UpdatePool
  <2>2. i \in Image /\ i.vms = vms
    <3>1. op[t].class \in AnyClass BY CopyTyped, Fields
    <3> QED BY <1>1, <3>1 DEF Image
  <2> HIDE DEF i
  <2> QED BY <1>1, <2>1, <2>2, LeaseSaves
<1>3. CASE ScalePool(t) \/ UpdateStreamHealth(t)
  BY <1>1, <1>3, LeaseSaves DEF ScalePool, UpdateStreamHealth
<1>4. CASE DeletePool(t)
  <2> DEFINE p == op[t].pool
             m == [v \in VMs |-> IF mem[t].vms[v].pool = p THEN Unregistered ELSE mem[t].vms[v]]
             r == [v \in VMs |-> IF mem[t].resv[v].pool = p THEN NoReservation
                                 ELSE mem[t].resv[v]]
             q == [mem[t].pools EXCEPT ![p] = "absent"]
             i == [pools |-> q, vms |-> m, resv |-> r]
  <2>1. Save(t, i) /\ op[t].kind = "delete"
    BY <1>4 DEF DeletePool, In
  <2>2. i \in Image /\ i.vms = m
    <3>1. m \in [VMs -> Vm] /\ r \in [VMs -> Reservation]
      BY CopyTyped, NullTypes
    <3>2. q \in [Pools -> AnyClass \cup {"absent"}]
      BY CopyTyped
    <3> QED BY <3>1, <3>2 DEF Image
  <2>3. Ended(t)' = {w \in VMs : vms[w].pool = p}
    <3>1. vms' = vms BY <2>1 DEF Save, fileVars
    <3> QED BY <1>1, <2>1, <3>1 DEF Ended
  <2>4. \A w \in VMs : w \notin Ended(t)' => i.vms[w] = vms[w]
    BY <1>1, <2>2, <2>3
  <2> HIDE DEF i
  <2> QED BY <1>1, <2>1, <2>2, <2>4, LeaseSaves
<1> QED BY <1>2, <1>3, <1>4 DEF PoolStep

(* The other entries of a copy whose entry v is replaced are the file's.    *)
LEMMA OnlyEntry ==
  ASSUME Inv, LeaseInv, NEW t \in Threads, pc[t] \in {"loaded", "reset"},
         NEW v \in VMs, NEW r \in Vm
  PROVE  LET i == [mem[t] EXCEPT !.vms[v] = r]
         IN  /\ i \in Image /\ i.vms[v] = r /\ i.pools = mem[t].pools
             /\ \A w \in VMs \ {v} : i.vms[w] = vms[w]
<1> DEFINE i == [mem[t] EXCEPT !.vms[v] = r]
<1>0. mem[t].vms = vms /\ vms \in [VMs -> Vm] /\ mem[t] \in Image
  BY CopyRead
<1>1. i \in Image /\ i.vms = [vms EXCEPT ![v] = r]
  BY <1>0 DEF Image
<1>2. i.pools = mem[t].pools
  BY <1>0 DEF Image
<1> HIDE DEF i
<1>3. i.vms[v] = r /\ \A w \in VMs \ {v} : i.vms[w] = vms[w]
  BY <1>0, <1>1
<1> QED BY <1>1, <1>2, <1>3 DEF i

(* Releases, resets, marks and extensions replace one entry.  It stays in   *)
(* its pool; its session goes on only when it is extended; it keeps its     *)
(* user, or it has been reset, or it is waiting for its reset.              *)
Replaces(t, r) ==
  /\ Save(t, [mem[t] EXCEPT !.vms[op[t].vm] = r]) /\ op' = op
  /\ pc[t] \in {"loaded", "reset"} /\ op[t].vm \in VMs
  /\ r.pool = vms[op[t].vm].pool
  /\ \/ /\ op[t].kind \in {"release", "recycle", "mark"}
        /\ r.state \notin {"none", "in_use"}
        /\ \/ pc[t] = "reset" /\ r.user = NoUser
           \/ /\ r.user = vms[op[t].vm].user
              /\ r.state = "free" => r.pool \in Persistent
           \/ /\ pc[t] = "loaded" /\ r.state = "recycling" /\ ~KeepsUser(t)
              /\ r.pool = op[t].pool /\ op[t].kind = "release" /\ r.user = NoUser
     \/ /\ op[t].kind = "extend"
        /\ vms[op[t].vm].state = "in_use"
        /\ r.state = "in_use" /\ r.user = vms[op[t].vm].user

LEMMA EntryWritten ==
  ASSUME Inv, LeaseInv, NEW t \in Threads,
         \/ ReleaseDesktop(t) \/ RecycleDesktop(t) \/ ResetFails(t)
         \/ ExtendKioskSession(t) \/ MarkExpired(t)
  PROVE  \E r \in Vm : Replaces(t, r)
<1> USE CopyTyped, CopyRead
<1> DEFINE v == op[t].vm
           m == mem[t].vms
<1>1. CASE ReleaseDesktop(t)
  <2> DEFINE r == ReleasedVm(t, m[v])
  <2>1. v \in VMs /\ m[v].pool = op[t].pool /\ m[v] = vms[v] /\ m[v] \in Vm
        /\ pc[t] = "loaded" /\ op[t].kind = "release"
    BY <1>1 DEF ReleaseDesktop, In, OpTyped, KnownVm
  <2>2. /\ r \in Vm /\ r.pool = m[v].pool
        /\ \/ KeepsUser(t) /\ r.state = "free" /\ r.user = m[v].user
           \/ ~KeepsUser(t) /\ r.state = "recycling" /\ r.user = NoUser
    BY <2>1 DEF ReleasedVm, Vm, VmStates
  <2>3. Save(t, [mem[t] EXCEPT !.vms[v] = r]) /\ op' = op
    BY <1>1 DEF ReleaseDesktop
  <2>4. KeepsUser(t) => op[t].pool \in Persistent
    BY DEF KeepsUser
  <2> HIDE DEF r
  <2> QED BY <2>1, <2>2, <2>3, <2>4 DEF Replaces
<1>2. CASE RecycleDesktop(t)
  <2> DEFINE r == [Unregistered EXCEPT !.state = "free", !.pool = op[t].pool]
  <2>1. pc[t] = "reset" /\ op[t].kind = "recycle" /\ KnownVm(t)
    BY <1>2 DEF RecycleDesktop, LeaseInv, CopyIsFile
  <2>2. v \in VMs /\ vms[v].pool = op[t].pool
    BY <2>1 DEF KnownVm, OpTyped
  <2>3. r \in Vm /\ r.pool = op[t].pool /\ r.state = "free" /\ r.user = NoUser
    <3>1. op[t].pool \in Pools \cup {NoPool} BY Fields
    <3> QED BY <3>1 DEF Unregistered, Vm, VmStates
  <2>4. Save(t, [mem[t] EXCEPT !.vms[v] = r]) /\ op' = op
    BY <1>2 DEF RecycleDesktop
  <2> HIDE DEF r
  <2> QED BY <2>1, <2>2, <2>3, <2>4 DEF Replaces
<1>3. CASE ResetFails(t) \/ MarkExpired(t)
  <2> PICK s \in {"error", "expired"} :
        Save(t, [mem[t] EXCEPT !.vms[v] = [m[v] EXCEPT !.state = s]]) /\ op' = op
    BY <1>3 DEF ResetFails, MarkExpired
  <2> DEFINE r == [m[v] EXCEPT !.state = s]
  <2>1. v \in VMs /\ pc[t] = "loaded" /\ op[t].kind \in {"recycle", "mark"}
        /\ m[v] = vms[v] /\ m[v] \in Vm
    BY <1>3 DEF ResetFails, MarkExpired, In, OpTyped
  <2>2. r \in Vm /\ r.state = s /\ r.user = m[v].user /\ r.pool = m[v].pool
    BY <2>1 DEF Vm, VmStates
  <2> HIDE DEF r
  <2>3. r.state \notin {"none", "in_use", "free"}
    BY <2>2
  <2>4. Save(t, [mem[t] EXCEPT !.vms[v] = r])
    BY DEF r
  <2> QED BY <2>1, <2>2, <2>3, <2>4 DEF Replaces
<1>4. CASE ExtendKioskSession(t)
  <2> DEFINE d == Later(m[v].expires, now) + op[t].minutes
             r == [m[v] EXCEPT !.expires = d]
  <2>1. v \in VMs /\ pc[t] = "loaded" /\ op[t].kind = "extend"
        /\ m[v] = vms[v] /\ m[v] \in Vm /\ m[v].state = "in_use"
    BY <1>4 DEF ExtendKioskSession, In, OpTyped
  <2>2. d \in Nat
    <3>1. m[v].expires \in Nat BY <2>1 DEF Vm
    <3>2. now \in Nat /\ op[t].minutes \in Nat BY TypeUnfold, Fields DEF Inv
    <3> QED BY <3>1, <3>2 DEF Later
  <2>3. Save(t, [mem[t] EXCEPT !.vms[v] = r]) /\ op' = op
    BY <1>4 DEF ExtendKioskSession
  <2> HIDE DEF d
  <2>4. r \in Vm /\ r.state = "in_use" /\ r.user = m[v].user /\ r.pool = m[v].pool
    BY <2>1, <2>2 DEF Vm
  <2> HIDE DEF r
  <2> QED BY <2>1, <2>3, <2>4 DEF Replaces
<1> QED BY <1>1, <1>2, <1>3, <1>4

LEMMA LeaseEntries ==
  ASSUME OneThread, Inv, LeaseInv, NEW t \in Threads, NEW r \in Vm, Replaces(t, r)
  PROVE  LeaseInv'
<1> DEFINE v == op[t].vm
           i == [mem[t] EXCEPT !.vms[v] = r]
<1>1. /\ Save(t, i) /\ op' = op /\ pc[t] \in {"loaded", "reset"} /\ v \in VMs
      /\ op[t].kind # "allocate"
      /\ \/ op[t].kind \in {"release", "recycle", "mark"}
         \/ vms[v].state = "in_use" /\ r.state = "in_use" /\ r.user = vms[v].user
  BY DEF Replaces
<1>2. op[t].kind \in {"release", "recycle", "mark"} => Ended(t)' = {v}
  BY <1>1 DEF Ended
<1>3. i \in Image /\ i.vms[v] = r /\ \A w \in VMs \ {v} : i.vms[w] = vms[w]
  BY <1>1, OnlyEntry
<1> HIDE DEF i, v
<1> QED BY <1>1, <1>2, <1>3, LeaseSaves

(* register_vm writes a new entry, and leaves the others as they are.       *)
LEMMA EntryRegistered ==
  ASSUME Inv, LeaseInv, NEW t \in Threads, NEW inv \in SUBSET Slots, RegisterVm(t, inv)
  PROVE  /\ pc[t] = "loaded" /\ op' = op /\ op[t].kind = "register"
         /\ op[t].vm \in VMs /\ op[t].pool \in Pools /\ KnownPool(t)
         /\ \E i \in Image :
              /\ Save(t, i) /\ i.pools = mem[t].pools
              /\ i.vms[op[t].vm].pool = op[t].pool
              /\ i.vms[op[t].vm].state \in {"free", "pending-gpu"}
              /\ i.vms[op[t].vm].user = NoUser
              /\ \A w \in VMs \ {op[t].vm} : i.vms[w] = vms[w]
<1> USE CopyTyped, CopyRead
<1> DEFINE p == op[t].pool
           v == op[t].vm
           g == mem[t].pools[p]
           live == LiveReservations(mem[t])
           entry == [Unregistered EXCEPT !.pool = p, !.state = "free"]
           New(e, r) == [mem[t] EXCEPT !.vms[v] = e, !.resv = r]
<1>1. /\ pc[t] = "loaded" /\ op' = op /\ op[t].kind = "register" /\ KnownPool(t)
      /\ v \in VMs /\ p \in Pools
  BY DEF RegisterVm, In, OpTyped
<1>2. live \in [VMs -> Reservation]
  BY NullTypes DEF LiveReservations
<1>3. \A c \in Reservation : [live EXCEPT ![v] = c] \in [VMs -> Reservation]
  BY <1>2
<1>4. /\ entry \in Vm /\ entry.state = "free" /\ entry.pool = p /\ entry.user = NoUser
      /\ [entry EXCEPT !.state = "pending-gpu"] \in Vm
      /\ [entry EXCEPT !.state = "pending-gpu"].state = "pending-gpu"
      /\ [entry EXCEPT !.state = "pending-gpu"].pool = p
      /\ [entry EXCEPT !.state = "pending-gpu"].user = NoUser
  BY <1>1 DEF Unregistered, Vm, VmStates
<1>5. \E e \in Vm, r \in [VMs -> Reservation] :
        /\ Save(t, New(e, r)) /\ e.pool = p
        /\ e.state \in {"free", "pending-gpu"} /\ e.user = NoUser
  <2>1. CASE g # NoClass /\ \E s \in inv \ ReservedSlots(live, g) :
               Save(t, New(entry, [live EXCEPT ![v] = [class |-> g, slot |-> s, pool |-> p]]))
    <3> PICK s \in inv :
          Save(t, New(entry, [live EXCEPT ![v] = [class |-> g, slot |-> s, pool |-> p]]))
      BY <2>1
    <3>1. g \in AnyClass
      BY <1>1 DEF KnownPool
    <3>2. [class |-> g, slot |-> s, pool |-> p] \in Reservation
      BY <1>1, <3>1 DEF Reservation
    <3> HIDE DEF New, live, entry
    <3> QED BY <1>3, <1>4, <3>2
  <2>2. CASE Save(t, New(entry, live)) \/ Save(t, New([entry EXCEPT !.state = "pending-gpu"], live))
    <3> HIDE DEF New, live, entry
    <3> QED BY <1>2, <1>4, <2>2
  <2> QED BY <2>1, <2>2 DEF RegisterVm
<1>6. ASSUME NEW e \in Vm, NEW r \in [VMs -> Reservation]
      PROVE  /\ New(e, r) \in Image /\ New(e, r).pools = mem[t].pools
             /\ New(e, r).vms[v] = e
             /\ \A w \in VMs \ {v} : New(e, r).vms[w] = vms[w]
  <2>1. /\ New(e, r) \in Image /\ New(e, r).pools = mem[t].pools
        /\ New(e, r).vms = [vms EXCEPT ![v] = e]
    BY <1>1 DEF Image
  <2> HIDE DEF New
  <2> QED BY <1>1, <2>1
<1> HIDE DEF New, entry, v, p
<1> QED BY <1>1, <1>5, <1>6 DEF v, p

(* register_vm ends the session of the VM it registers anew.                *)
LEMMA LeaseRegisters ==
  ASSUME OneThread, Inv, LeaseInv, NEW t \in Threads, NEW inv \in SUBSET Slots,
         RegisterVm(t, inv)
  PROVE  LeaseInv'
<1>1. PICK i \in Image : /\ Save(t, i)
                         /\ \A w \in VMs \ {op[t].vm} : i.vms[w] = vms[w]
  BY EntryRegistered
<1>2. pc[t] = "loaded" /\ op' = op /\ op[t].kind = "register"
  BY EntryRegistered
<1>3. Ended(t)' = {op[t].vm}
  BY <1>2 DEF Ended
<1> QED BY <1>1, <1>2, <1>3, LeaseSaves

(* allocate_desktop hands out a VM that its copy, and so the file, calls    *)
(* free for anybody or, in a persistent pool, for this user.                *)
Takes(t, v, r) ==
  /\ pc[t] = "loaded" /\ op[t].kind = "allocate" /\ op[t].user \in Users
  /\ Save(t, [mem[t] EXCEPT !.vms[v] = r])
  /\ op' = [op EXCEPT ![t] = [@ EXCEPT !.vm = v]]
  /\ r.state = "in_use" /\ r.user = op[t].user /\ r.pool = vms[v].pool
  /\ vms[v].state = "free"
  /\ \/ vms[v].pool \in Persistent /\ vms[v].user = op[t].user
     \/ vms[v].user = NoUser

LEMMA VmTaken ==
  ASSUME Inv, LeaseInv, NEW t \in Threads, TakeDesktop(t)
  PROVE  \E v \in VMs, r \in Vm : Takes(t, v, r)
<1> USE CopyTyped
<1> DEFINE p == op[t].pool
           u == op[t].user
           m == mem[t].vms
           r(v) == [m[v] EXCEPT !.state = "in_use", !.user = u, !.assigned = now,
                                !.expires = now + Limit[p]]
<1>1. pc[t] = "loaded" /\ op[t].kind = "allocate" /\ p \in Pools /\ u \in Users
  BY DEF TakeDesktop, In, OpTyped
<1>2. PICK v \in IF Reuses(t) # {} THEN Reuses(t) ELSE Unassigned(t) :
             m[v].state # "in_use" /\ TakesVm(t, v)
  BY DEF TakeDesktop
<1>3. m = vms
  BY <1>1, CopyRead
<1>4. /\ v \in VMs /\ m[v].pool = p /\ m[v].state = "free"
      /\ (p \in Persistent /\ m[v].user = u) \/ m[v].user = NoUser
  BY <1>2 DEF Reuses, Leased, Owned, Unassigned, PoolVms
<1>5. r(v) \in Vm /\ r(v).state = "in_use" /\ r(v).user = u /\ r(v).pool = p
  <2>1. m[v] \in Vm BY <1>4
  <2>2. now \in Nat /\ now + Limit[p] \in Nat
    BY <1>1, TypeUnfold, PoolAssumption DEF Inv
  <2> QED BY <1>1, <1>4, <2>1, <2>2 DEF Vm, VmStates
<1> DEFINE e == r(v)
<1>6. e \in Vm /\ e.state = "in_use" /\ e.user = u /\ e.pool = p
  BY <1>5
<1>7. /\ Save(t, [mem[t] EXCEPT !.vms[v] = e])
      /\ op' = [op EXCEPT ![t] = [@ EXCEPT !.vm = v]]
  BY <1>2 DEF TakesVm
<1> HIDE DEF e
<1> QED BY <1>1, <1>3, <1>4, <1>6, <1>7 DEF Takes

LEMMA LeaseTakes ==
  ASSUME OneThread, Inv, LeaseInv, NEW t \in Threads, NEW v \in VMs, NEW r \in Vm,
         Takes(t, v, r)
  PROVE  LeaseInv'
<1>1. /\ pc[t] = "loaded" /\ op[t].kind = "allocate"
      /\ Save(t, [mem[t] EXCEPT !.vms[v] = r])
      /\ op' = [op EXCEPT ![t] = [@ EXCEPT !.vm = v]]
      /\ r.state = "in_use" /\ r.user = op[t].user
      /\ vms[v].state = "free"
  BY DEF Takes
<1> DEFINE i == [mem[t] EXCEPT !.vms[v] = r]
<1>2. i \in Image /\ i.vms[v] = r /\ \A w \in VMs \ {v} : i.vms[w] = vms[w]
  BY <1>1, OnlyEntry
<1>3. op'[t].vm = v /\ op'[t].user = op[t].user /\ op'[t].kind = "allocate"
  <2>1. op[t] \in Operation /\ op \in [Threads -> Operation]
    BY TypeUnfold DEF Inv
  <2> QED BY <1>1, <2>1 DEF Operation
<1>4. Save(t, i)
  BY <1>1
<1> HIDE DEF i
<1> QED BY <1>1, <1>2, <1>3, <1>4, LeaseSaves

(* A miss saves the VMs as they are, and names none.                        *)
LEMMA LeaseMisses ==
  ASSUME OneThread, Inv, LeaseInv, NEW t \in Threads, NoDesktop(t)
  PROVE  LeaseInv'
<1>1. pc[t] = "loaded" /\ op[t].kind = "allocate" /\ op' = op /\ Save(t, mem[t])
  BY DEF NoDesktop, In
<1>2. op[t].vm = NoVM
  BY <1>1 DEF LeaseInv, CopyIsFile
<1>3. mem[t].vms = vms /\ mem[t] \in Image
  BY <1>1, CopyRead
<1> QED BY <1>1, <1>2, <1>3, LeaseSaves, NullAssumption

(* Calls name no VM to allocate, and continued operations are not           *)
(* allocations.                                                             *)
LEMMA LeaseBegins ==
  ASSUME OneThread, Inv, LeaseInv, NEW t \in Threads,
         \/ \E o \in Requests : Call(t, o)
         \/ ReleaseNext(t) \/ Continue(t)
  PROVE  LeaseInv'
<1>1. CASE \E o \in Requests : Call(t, o)
  <2> PICK o \in Requests : Call(t, o) BY <1>1
  <2>1. o.kind = "allocate" => o.vm = NoVM
    BY DEF Requests, PoolRequest, LeaseRequest, VmRequest, ExpireRequest, Request
  <2> QED BY <2>1, LeaseStarts DEF Call
<1>2. CASE ReleaseNext(t)
  <2> PICK item \in todo[t] :
        StartsWith(t, [VmRequest("release", item[1], item[2], 0) EXCEPT !.expiring = TRUE])
    BY <1>2 DEF ReleaseNext
  <2>1. [VmRequest("release", item[1], item[2], 0) EXCEPT !.expiring = TRUE].kind = "release"
    BY DEF VmRequest, Request
  <2>2. UNCHANGED <<fileVars, history>>
    BY <1>2 DEF ReleaseNext
  <2> QED BY <2>1, <2>2, LeaseStarts
<1>3. CASE Continue(t)
  BY <1>3, LeaseStarts DEF Continue, LeaseInv, CopyIsFile
<1> QED BY <1>1, <1>2, <1>3

(* An operation that raises leaves the file and the sessions alone.         *)
LEMMA LeaseRaises ==
  ASSUME OneThread, Inv, LeaseInv, NEW t \in Threads, Raises(t),
         UNCHANGED <<fileVars, history>>
  PROVE  LeaseInv'
<1>1. Handed(vms', holders')
  BY DEF LeaseInv, fileVars, history
<1>2. \/ GoesOnWith(t, VmRequest("mark", NoPool, op[t].vm, 0))
      \/ Ends(t)
  BY DEF Raises
<1>3. VmRequest("mark", NoPool, op[t].vm, 0).kind = "mark"
  BY DEF VmRequest, Request
<1> QED BY <1>1, <1>2, <1>3, LeaseEnds, LeaseGoesOn

(* Steps that read, or end an operation without a save.                     *)
LEMMA LeaseReads ==
  ASSUME OneThread, Inv, LeaseInv, NEW t \in Threads,
         \/ ReturnLease(t) \/ ExpireOverdueSessions(t) \/ Raise(t)
         \/ ReadPools(t) \/ ResetToTemplate(t)
  PROVE  LeaseInv'
<1> USE TypeUnfold, CopyTyped DEF Inv
<1>0. \A s \in Threads : s = t
  BY DEF OneThread
<1>1. CASE ReturnLease(t)
  <2>1. PICK v \in Reuses(t) :
           /\ In(t, "allocate") /\ mem[t].vms[v].state = "in_use" /\ Ends(t)
           /\ holders' = [holders EXCEPT ![v] = @ \cup {op[t].user}] /\ vms' = vms
    BY <1>1 DEF ReturnLease, fileVars
  <2>2. mem[t].vms = vms
    BY <2>1, CopyRead DEF In
  <2>3. v \in VMs /\ vms[v].state = "in_use" /\ vms[v].user = op[t].user
    BY <2>1, <2>2 DEF Reuses, Leased, Owned, PoolVms
  <2>4. Handed(vms', holders')
    BY <2>1, <2>3 DEF LeaseInv, Handed
  <2> QED BY <2>1, <2>4, LeaseEnds
<1>2. CASE ExpireOverdueSessions(t)
  <2>1. Handed(vms', holders') /\ Ends(t)
    BY <1>2 DEF ExpireOverdueSessions, LeaseInv, fileVars, history
  <2> QED BY <2>1, LeaseEnds
<1>3. CASE Raise(t)
  BY <1>3, LeaseRaises DEF Raise
<1>4. CASE ReadPools(t)
  <2> DEFINE i == [mem[t] EXCEPT !.pools = repo]
  <2>1. /\ pc[t] = "reading" /\ pc'[t] = "loaded" /\ mem'[t] = i /\ op' = op
        /\ vms' = vms /\ holders' = holders
    BY <1>4 DEF ReadPools, fileVars, history
  <2>2. i.vms = mem[t].vms
    BY DEF Image
  <2> HIDE DEF i
  <2> QED BY <1>0, <2>1, <2>2 DEF LeaseInv, CopyIsFile
<1>5. CASE ResetToTemplate(t)
  <2>1. /\ pc[t] = "loaded" /\ pc'[t] = "reset" /\ mem' = mem /\ op' = op
        /\ op[t].kind = "recycle" /\ KnownVm(t)
        /\ vms' = vms /\ holders' = holders
    BY <1>5 DEF ResetToTemplate, In, fileVars
  <2> QED BY <1>0, <2>1 DEF LeaseInv, CopyIsFile, KnownVm
<1> QED BY <1>1, <1>2, <1>3, <1>4, <1>5

(* A save that succeeds makes true what was prepared; one that fails        *)
(* changes nothing.                                                         *)
LEMMA LeaseFiles ==
  ASSUME OneThread, Inv, LeaseInv, NEW t \in Threads, SaveFile(t) \/ SaveFails(t)
  PROVE  LeaseInv'
<1>1. CASE SaveFile(t)
  <2>1. pc[t] = "saving" /\ vms' = mem[t].vms
    BY <1>1 DEF SaveFile
  <2>2. holders' = HoldersAfter(t)
    BY <1>1 DEF SaveFile, HoldersAfter, Ended, Granted
  <2>3. Handed(vms', holders')
    BY <2>1, <2>2 DEF LeaseInv
  <2> DEFINE o == [op[t] EXCEPT !.kind = "recycle"]
  <2>4. GoesOnWith(t, o) \/ Ends(t)
    BY <1>1 DEF SaveFile
  <2>5. o.kind = "recycle"
    BY CopyTyped DEF Operation
  <2> HIDE DEF o
  <2> QED BY <2>3, <2>4, <2>5, LeaseEnds, LeaseGoesOn
<1>2. CASE SaveFails(t)
  BY <1>2, LeaseRaises DEF SaveFails
<1> QED BY <1>1, <1>2

LEMMA LeaseInit == Init => LeaseInv
BY DEF Init, LeaseInv, Handed, CopyIsFile

LEMMA LeaseNext ==
  ASSUME OneThread
  PROVE  Inv /\ LeaseInv /\ [Next]_vars => LeaseInv'
<1> SUFFICES ASSUME Inv, LeaseInv, [Next]_vars PROVE LeaseInv'
  OBVIOUS
<1>1. CASE UNCHANGED vars \/ Tick
  <2>1. UNCHANGED <<vms, pc, op, mem, holders>>
    BY <1>1 DEF Tick, vars, fileVars, threadVars, history
  <2> QED BY <2>1 DEF LeaseInv, Handed, CopyIsFile, KnownVm, HoldersAfter, Ended, Granted
<1>2. ASSUME NEW t \in Threads,
             \/ \E o \in {r \in Requests : r.kind \in Kinds} : Call(t, o)
             \/ ReadPools(t) \/ PoolStep(t)
             \/ \E inv \in SUBSET Slots : RegisterVm(t, inv)
             \/ UpdateStreamHealth(t)
             \/ LeaseStep(t) \/ ReleaseDesktop(t) \/ ResetStep(t) \/ LimitStep(t)
             \/ Raise(t) \/ SaveFile(t) \/ SaveFails(t) \/ Continue(t)
      PROVE  LeaseInv'
  <2>1. CASE \/ \E o \in Requests : Call(t, o)
             \/ ReleaseNext(t) \/ Continue(t)
    BY <2>1, LeaseBegins
  <2>2. CASE \/ ReturnLease(t) \/ ExpireOverdueSessions(t) \/ Raise(t)
             \/ ReadPools(t) \/ ResetToTemplate(t)
    BY <2>2, LeaseReads
  <2>3. CASE PoolStep(t) \/ UpdateStreamHealth(t)
    BY <2>3, LeasePools
  <2>4. CASE \/ ReleaseDesktop(t) \/ RecycleDesktop(t) \/ ResetFails(t)
             \/ ExtendKioskSession(t) \/ MarkExpired(t)
    BY <2>4, EntryWritten, LeaseEntries
  <2>5. CASE \E inv \in SUBSET Slots : RegisterVm(t, inv)
    BY <2>5, LeaseRegisters
  <2>6. CASE TakeDesktop(t)
    BY <2>6, VmTaken, LeaseTakes
  <2>7. CASE NoDesktop(t)
    BY <2>7, LeaseMisses
  <2>8. CASE SaveFile(t) \/ SaveFails(t)
    BY <2>8, LeaseFiles
  <2> QED BY <1>2, <2>1, <2>2, <2>3, <2>4, <2>5, <2>6, <2>7, <2>8
          DEF LeaseStep, ResetStep, LimitStep
<1> QED BY <1>1, <1>2 DEF Next

(* With requests that do not overlap, a desktop is in the hands of one user,*)
(* whatever else is called: pools deleted, VMs registered again or recycled *)
(* while in use, saves that fail between table and file.                    *)
THEOREM ExclusiveLease ==
  ASSUME OneThread
  PROVE  Spec => []LeaseIsExclusive
<1>1. LeaseInv => LeaseIsExclusive
  BY DEF LeaseInv, Handed, LeaseIsExclusive
<1>2. Inv /\ LeaseInv /\ [Next]_vars => LeaseInv'
  BY LeaseNext
<1> QED BY <1>1, <1>2, InvInit, InvStep, LeaseInit, PTL DEF Spec

-----------------------------------------------------------------------------
(* CleanHandout                                                             *)

(* A step that ends or begins an operation, with the file as it is.         *)
LEMMA CleanQuiet ==
  ASSUME OneThread, CleanInv, NEW t \in Threads,
         UNCHANGED <<fileVars, repo, residue>>,
         pc'[t] \in {"idle", "reading", "continue"}, op'[t].kind # "delete",
         pc'[t] = "reading" /\ op'[t].kind = "register" => vms[op'[t].vm].state = "none"
  PROVE  CleanInv'
<1>1. \A s \in Threads : s = t
  BY DEF OneThread
<1> QED BY <1>1 DEF CleanInv, Clean, PoolsExist, fileVars

(* An operation that saves keeps the pools there are.  It leaves a VM alone *)
(* or makes a clean entry for it.                                           *)
LEMMA CleanSaves ==
  ASSUME OneThread, Inv, LeaseInv, CleanInv, NEW t \in Threads, NEW i \in Image,
         Save(t, i), pc[t] \in {"loaded", "reset"}, op'[t].kind # "delete",
         \A p \in Pools : mem[t].pools[p] # "absent" => i.pools[p] # "absent",
         \A w \in VMs :
           /\ \/ i.vms[w].pool = vms[w].pool
              \/ i.pools[i.vms[w].pool] # "absent"
           /\ \/ i.vms[w] = vms[w] /\ Granted(t, w)' = {}
              \/ CleanEntry(i.vms[w], ResidueAfter(t)'[w])
  PROVE  CleanInv'
<1> USE TypeUnfold DEF Inv
<1>1. /\ pc'[t] = "saving" /\ mem'[t] = i /\ repo' = i.pools
      /\ vms' = vms /\ residue' = residue
  BY DEF Save, fileVars, history
<1>2. \A s \in Threads : s = t
  BY DEF OneThread
<1>3. \A p \in Pools : repo[p] # "absent" => repo'[p] # "absent"
  BY <1>1 DEF CleanInv
<1>4. PoolsExist(vms, repo') /\ PoolsExist(i.vms, repo')
  BY <1>1, <1>3 DEF CleanInv, PoolsExist
<1>5. Clean(i.vms, ResidueAfter(t)')
  <2> SUFFICES ASSUME NEW w \in VMs, i.vms[w] = vms[w], Granted(t, w)' = {}
               PROVE  CleanEntry(i.vms[w], ResidueAfter(t)'[w])
    BY DEF Clean
  <2>1. ResidueAfter(t)'[w] \subseteq residue[w]
    BY <1>1 DEF ResidueAfter
  <2>2. CleanEntry(vms[w], residue[w])
    BY DEF CleanInv, Clean
  <2> QED BY <2>1, <2>2 DEF CleanEntry
<1> QED BY <1>1, <1>2, <1>4, <1>5 DEF CleanInv

(* Operations that leave the VMs alone, and all pools there are.            *)
LEMMA CleanPools ==
  ASSUME OneThread, Inv, LeaseInv, CleanInv, NEW t \in Threads,
         PoolStep(t) \/ UpdateStreamHealth(t) \/ NoDesktop(t)
  PROVE  CleanInv'
<1>1. pc[t] = "loaded" /\ op' = op
  BY DEF PoolStep, CreatePool, DeletePool, UpdatePool, ScalePool, UpdateStreamHealth,
         NoDesktop, In
<1>2. mem[t].vms = vms /\ mem[t] \in Image /\ op[t].kind # "delete"
  BY <1>1, CopyRead DEF CleanInv
<1>3. \A w \in VMs : Granted(t, w)' = {}
  <2>1. op[t].kind = "allocate" => op[t].vm = NoVM
    BY <1>1 DEF LeaseInv, CopyIsFile
  <2> QED BY <1>1, <2>1, NullAssumption DEF Granted
<1>4. CASE CreatePool(t) \/ UpdatePool(t)
  <2> DEFINE i == [mem[t] EXCEPT !.pools[op[t].pool] = op[t].class]
  <2>1. Save(t, i)
    BY <1>4 DEF CreatePool, UpdatePool
  <2>2. op[t].class \in AnyClass
    BY CopyTyped, Fields
  <2>3. /\ i \in Image /\ i.vms = vms
        /\ i.pools = [mem[t].pools EXCEPT ![op[t].pool] = op[t].class]
    BY <1>2, <2>2 DEF Image
  <2>4. \A p \in Pools : mem[t].pools[p] # "absent" => i.pools[p] # "absent"
    BY <2>2, <2>3, CopyTyped, NullAssumption
  <2> HIDE DEF i
  <2> QED BY <1>1, <1>2, <1>3, <2>1, <2>3, <2>4, CleanSaves
<1>5. CASE ScalePool(t) \/ UpdateStreamHealth(t) \/ NoDesktop(t)
  <2>1. Save(t, mem[t])
    BY <1>5 DEF ScalePool, UpdateStreamHealth, NoDesktop
  <2> QED BY <1>1, <1>2, <1>3, <2>1, CleanSaves
<1>6. ~DeletePool(t)
  BY <1>2 DEF DeletePool, In
<1> QED BY <1>4, <1>5, <1>6 DEF PoolStep

(* What is released in a persistent pool stays its user's; what is released *)
(* in another one waits for its reset.                                      *)
LEMMA CleanEntries ==
  ASSUME OneThread, Inv, LeaseInv, CleanInv, NEW t \in Threads, NEW r \in Vm,
         Replaces(t, r)
  PROVE  CleanInv'
<1> DEFINE v == op[t].vm
           i == [mem[t] EXCEPT !.vms[v] = r]
<1>1. /\ Save(t, i) /\ op' = op /\ pc[t] \in {"loaded", "reset"} /\ v \in VMs
      /\ op[t].kind \in {"release", "recycle", "mark", "extend"} /\ r.pool = vms[v].pool
  BY DEF Replaces
<1>2. /\ i \in Image /\ i.vms[v] = r /\ i.pools = mem[t].pools
      /\ \A w \in VMs \ {v} : i.vms[w] = vms[w]
  BY <1>1, OnlyEntry
<1>3. \A w \in VMs : Granted(t, w)' = {}
  BY <1>1 DEF Granted
<1>4. ResidueAfter(t)'[v] = residue[v]
  <2>1. residue' = residue
    BY <1>1 DEF Save, history
  <2> QED BY <1>1, <1>3, <2>1 DEF ResidueAfter
<1>5. CleanEntry(vms[v], residue[v])
  BY <1>1 DEF CleanInv, Clean
<1>6. CleanEntry(r, residue[v])
  <2>1. CASE pc[t] = "reset"
    BY <2>1 DEF CleanInv, CleanEntry
  <2>2. CASE /\ r.user = vms[v].user /\ r.state \notin {"none", "in_use"}
             /\ r.state = "free" => r.pool \in Persistent
    BY <1>1, <1>5, <2>2 DEF CleanEntry
  <2>3. CASE /\ pc[t] = "loaded" /\ r.state = "recycling" /\ ~KeepsUser(t)
             /\ r.pool = op[t].pool /\ op[t].kind = "release"
    <3>1. op[t].pool \in Pools
      BY <2>3, CopyTyped DEF OpTyped
    <3>2. vms[v].pool = op[t].pool
      BY <1>1, <2>3
    <3>3. repo[op[t].pool] # "absent"
      <4>1. PoolsExist(vms, repo)
        BY DEF CleanInv
      <4> HIDE DEF v
      <4> QED BY <1>1, <3>1, <3>2, <4>1 DEF PoolsExist
    <3>4. mem[t].pools = repo
      BY <2>3 DEF CleanInv
    <3>5. KnownPool(t)
      BY <3>3, <3>4 DEF KnownPool
    <3>6. r.pool \notin Persistent
      BY <2>3, <3>5 DEF KeepsUser
    <3> QED BY <2>3, <3>6 DEF CleanEntry
  <2>4. CASE vms[v].state = "in_use" /\ r.state = "in_use" /\ r.user = vms[v].user
    BY <1>5, <2>4 DEF CleanEntry
  <2> QED BY <2>1, <2>2, <2>3, <2>4 DEF Replaces
<1> HIDE DEF i, v
<1> QED BY <1>1, <1>2, <1>3, <1>4, <1>6, CleanSaves

(* A VM that is registered for the first time has been built from the       *)
(* template.                                                                *)
LEMMA CleanRegisters ==
  ASSUME OneThread, Inv, LeaseInv, CleanInv, NEW t \in Threads,
         NEW inv \in SUBSET Slots, RegisterVm(t, inv)
  PROVE  CleanInv'
<1> DEFINE v == op[t].vm
<1>1. /\ pc[t] = "loaded" /\ op' = op /\ op[t].kind = "register"
      /\ v \in VMs /\ op[t].pool \in Pools /\ KnownPool(t)
  BY EntryRegistered
<1>2. PICK i \in Image : /\ Save(t, i) /\ i.pools = mem[t].pools
                         /\ i.vms[v].pool = op[t].pool
                         /\ \A w \in VMs \ {v} : i.vms[w] = vms[w]
  BY EntryRegistered
<1>3. ResidueAfter(t)'[v] = {}
  <2>1. vms[v].state = "none"
    BY <1>1 DEF CleanInv
  <2>2. vms' = vms
    BY <1>2 DEF Save, fileVars
  <2> QED BY <1>1, <2>1, <2>2 DEF ResidueAfter
<1>4. CleanEntry(i.vms[v], ResidueAfter(t)'[v])
  BY <1>3 DEF CleanEntry
<1>5. \A w \in VMs : Granted(t, w)' = {}
  BY <1>1 DEF Granted
<1>6. i.pools[i.vms[v].pool] # "absent"
  BY <1>1, <1>2 DEF KnownPool
<1> HIDE DEF v
<1> QED BY <1>1, <1>2, <1>4, <1>5, <1>6, CleanSaves

(* What a user is handed carries no data, or the user's own.                *)
LEMMA CleanTakes ==
  ASSUME OneThread, Inv, LeaseInv, CleanInv, NEW t \in Threads,
         NEW v \in VMs, NEW r \in Vm, Takes(t, v, r)
  PROVE  CleanInv'
<1> DEFINE i == [mem[t] EXCEPT !.vms[v] = r]
           u == op[t].user
<1>1. /\ pc[t] = "loaded" /\ op[t].kind = "allocate" /\ u \in Users
      /\ Save(t, i) /\ op' = [op EXCEPT ![t] = [@ EXCEPT !.vm = v]]
      /\ r.state = "in_use" /\ r.user = u /\ r.pool = vms[v].pool
      /\ vms[v].state = "free"
      /\ \/ vms[v].pool \in Persistent /\ vms[v].user = u
         \/ vms[v].user = NoUser
  BY DEF Takes
<1>2. /\ i \in Image /\ i.vms[v] = r /\ i.pools = mem[t].pools
      /\ \A w \in VMs \ {v} : i.vms[w] = vms[w]
  BY <1>1, OnlyEntry
<1>3. op'[t].vm = v /\ op'[t].user = u /\ op'[t].kind = "allocate"
  <2>1. op[t] \in Operation /\ op \in [Threads -> Operation]
    BY TypeUnfold DEF Inv
  <2> QED BY <1>1, <2>1 DEF Operation
<1>4. residue[v] \subseteq {u}
  <2>1. CleanEntry(vms[v], residue[v]) /\ residue[v] \subseteq Users
    BY TypeUnfold DEF Inv, CleanInv, Clean
  <2> QED BY <1>1, <2>1, NullAssumption DEF CleanEntry
<1>5. CleanEntry(r, ResidueAfter(t)'[v])
  <2>1. ResidueAfter(t)'[v] \subseteq {u}
    <3>1. residue' = residue
      BY <1>1 DEF Save, history
    <3> QED BY <1>3, <1>4, <3>1 DEF ResidueAfter, Granted
  <2> QED BY <1>1, <2>1 DEF CleanEntry
<1>6. \A w \in VMs \ {v} : Granted(t, w)' = {}
  BY <1>3 DEF Granted
<1> HIDE DEF i
<1> QED BY <1>1, <1>2, <1>3, <1>5, <1>6, CleanSaves

(* Operations begin with one of the calls there are.                        *)
LEMMA CleanBegins ==
  ASSUME OneThread, StablePools, Inv, LeaseInv, CleanInv, NEW t \in Threads,
         \/ \E o \in {r \in Requests : r.kind \in Kinds} : Call(t, o)
         \/ ReleaseNext(t) \/ Continue(t)
  PROVE  CleanInv'
<1> USE TypeUnfold DEF Inv
<1>1. CASE \E o \in {r \in Requests : r.kind \in Kinds} : Call(t, o)
  <2> PICK o \in {r \in Requests : r.kind \in Kinds} : Call(t, o) BY <1>1
  <2>1. /\ pc'[t] = "reading" /\ op'[t] = o
        /\ o.kind # "delete"
        /\ o.kind = "register" => vms[o.vm].state = "none"
        /\ UNCHANGED <<fileVars, repo, residue>>
    BY DEF Call, StartsWith, StablePools, history
  <2> QED BY <2>1, CleanQuiet
<1>2. CASE ReleaseNext(t)
  <2> PICK item \in todo[t] :
        StartsWith(t, [VmRequest("release", item[1], item[2], 0) EXCEPT !.expiring = TRUE])
    BY <1>2 DEF ReleaseNext
  <2>1. pc'[t] = "reading" /\ op'[t].kind = "release"
    BY DEF StartsWith, VmRequest, Request
  <2>2. UNCHANGED <<fileVars, repo, residue>>
    BY <1>2 DEF ReleaseNext, history
  <2> QED BY <2>1, <2>2, CleanQuiet
<1>3. CASE Continue(t)
  <2>1. pc'[t] = "reading" /\ op'[t] = op[t] /\ op[t].kind \in {"recycle", "mark"}
    BY <1>3 DEF Continue, StartsWith, LeaseInv, CopyIsFile
  <2>2. UNCHANGED <<fileVars, repo, residue>>
    BY <1>3 DEF Continue, history
  <2> QED BY <2>1, <2>2, CleanQuiet
<1> QED BY <1>1, <1>2, <1>3

(* An operation that is over, or raises.                                    *)
LEMMA CleanEnds ==
  ASSUME OneThread, Inv, CleanInv, NEW t \in Threads, Ends(t) \/ Raises(t),
         UNCHANGED <<fileVars, repo, residue>>
  PROVE  CleanInv'
<1> USE TypeUnfold DEF Inv
<1>1. CASE Ends(t)
  <2>1. pc'[t] = "idle" /\ op'[t].kind = "none"
    BY <1>1 DEF Ends, NoOp, PoolRequest, Request
  <2> QED BY <2>1, CleanQuiet
<1>2. CASE GoesOnWith(t, VmRequest("mark", NoPool, op[t].vm, 0))
  <2>1. pc'[t] = "continue" /\ op'[t].kind = "mark"
    BY <1>2 DEF GoesOnWith, VmRequest, Request
  <2> QED BY <2>1, CleanQuiet
<1> QED BY <1>1, <1>2 DEF Raises

(* Steps that read, reset a VM, or end an operation without a save.         *)
LEMMA CleanReads ==
  ASSUME OneThread, Inv, LeaseInv, CleanInv, NEW t \in Threads,
         \/ ReturnLease(t) \/ ExpireOverdueSessions(t) \/ Raise(t)
         \/ ReadPools(t) \/ ResetToTemplate(t)
  PROVE  CleanInv'
<1> USE TypeUnfold DEF Inv
<1>0. \A s \in Threads : s = t
  BY DEF OneThread
<1>1. CASE ReturnLease(t)
  BY <1>1, CleanEnds DEF ReturnLease
<1>2. CASE ExpireOverdueSessions(t) \/ Raise(t)
  BY <1>2, CleanEnds DEF ExpireOverdueSessions, Raise, history
<1>3. CASE ReadPools(t)
  <2> DEFINE i == [mem[t] EXCEPT !.pools = repo]
  <2>1. /\ pc[t] = "reading" /\ pc'[t] = "loaded" /\ mem'[t] = i /\ op' = op
        /\ vms' = vms /\ residue' = residue /\ repo' = repo
    BY <1>3 DEF ReadPools, fileVars, history
  <2>2. i.pools = repo
    <3>1. mem[t] \in Image OBVIOUS
    <3> QED BY <3>1 DEF Image
  <2> HIDE DEF i
  <2> QED BY <1>0, <2>1, <2>2 DEF CleanInv, Clean, PoolsExist
<1>4. CASE ResetToTemplate(t)
  <2>1. /\ pc[t] = "loaded" /\ pc'[t] = "reset" /\ mem' = mem /\ op' = op
        /\ op[t].kind = "recycle" /\ op[t].vm \in VMs
        /\ vms' = vms /\ repo' = repo /\ residue' = [residue EXCEPT ![op[t].vm] = {}]
    BY <1>4, CopyTyped DEF ResetToTemplate, In, OpTyped, fileVars
  <2>2. Clean(vms, residue')
    <3>1. \A w \in VMs : residue'[w] \subseteq residue[w]
      BY <2>1
    <3> QED BY <3>1 DEF CleanInv, Clean, CleanEntry
  <2>3. residue'[op[t].vm] = {}
    BY <2>1
  <2> QED BY <1>0, <2>1, <2>2, <2>3 DEF CleanInv, PoolsExist
<1> QED BY <1>1, <1>2, <1>3, <1>4

(* A save makes the prepared table the file, or changes nothing.            *)
LEMMA CleanFiles ==
  ASSUME OneThread, Inv, LeaseInv, CleanInv, NEW t \in Threads,
         SaveFile(t) \/ SaveFails(t)
  PROVE  CleanInv'
<1> USE TypeUnfold DEF Inv
<1>1. CASE SaveFile(t)
  <2>1. pc[t] = "saving" /\ vms' = mem[t].vms /\ repo' = repo
    BY <1>1 DEF SaveFile
  <2>2. residue' = ResidueAfter(t)
    BY <1>1 DEF SaveFile, ResidueAfter, Granted
  <2>3. Clean(vms', residue') /\ PoolsExist(vms', repo')
    BY <2>1, <2>2 DEF CleanInv
  <2> DEFINE o == [op[t] EXCEPT !.kind = "recycle"]
  <2>4. GoesOnWith(t, o) \/ Ends(t)
    BY <1>1 DEF SaveFile
  <2>5. o.kind = "recycle" /\ NoOp.kind = "none"
    BY CopyTyped DEF Operation, NoOp, PoolRequest, Request
  <2> HIDE DEF o
  <2>6. pc'[t] \in {"idle", "continue"} /\ op'[t].kind # "delete"
    BY <2>4, <2>5 DEF GoesOnWith, Ends
  <2>7. \A s \in Threads : s = t
    BY DEF OneThread
  <2> QED BY <2>3, <2>6, <2>7 DEF CleanInv
<1>2. CASE SaveFails(t)
  BY <1>2, CleanEnds DEF SaveFails, history
<1> QED BY <1>1, <1>2

LEMMA CleanInit == Init => CleanInv
BY NullAssumption, PoolAssumption
   DEF Init, CleanInv, Clean, CleanEntry, PoolsExist, Unregistered, NoOp, PoolRequest, Request

LEMMA CleanNext ==
  ASSUME OneThread, StablePools
  PROVE  Inv /\ LeaseInv /\ CleanInv /\ [Next]_vars => CleanInv'
<1> SUFFICES ASSUME Inv, LeaseInv, CleanInv, [Next]_vars PROVE CleanInv'
  OBVIOUS
<1>1. CASE UNCHANGED vars \/ Tick
  <2>1. UNCHANGED <<vms, repo, pc, op, mem, residue>>
    BY <1>1 DEF Tick, vars, fileVars, threadVars, history
  <2> QED BY <2>1 DEF CleanInv, Clean, PoolsExist, ResidueAfter, Granted
<1>2. ASSUME NEW t \in Threads,
             \/ \E o \in {r \in Requests : r.kind \in Kinds} : Call(t, o)
             \/ ReadPools(t) \/ PoolStep(t)
             \/ \E inv \in SUBSET Slots : RegisterVm(t, inv)
             \/ UpdateStreamHealth(t)
             \/ LeaseStep(t) \/ ReleaseDesktop(t) \/ ResetStep(t) \/ LimitStep(t)
             \/ Raise(t) \/ SaveFile(t) \/ SaveFails(t) \/ Continue(t)
      PROVE  CleanInv'
  <2>1. CASE \/ \E o \in {r \in Requests : r.kind \in Kinds} : Call(t, o)
             \/ ReleaseNext(t) \/ Continue(t)
    BY <2>1, CleanBegins
  <2>2. CASE \/ ReturnLease(t) \/ ExpireOverdueSessions(t) \/ Raise(t)
             \/ ReadPools(t) \/ ResetToTemplate(t)
    BY <2>2, CleanReads
  <2>3. CASE PoolStep(t) \/ UpdateStreamHealth(t) \/ NoDesktop(t)
    BY <2>3, CleanPools
  <2>4. CASE \/ ReleaseDesktop(t) \/ RecycleDesktop(t) \/ ResetFails(t)
             \/ ExtendKioskSession(t) \/ MarkExpired(t)
    BY <2>4, EntryWritten, CleanEntries
  <2>5. CASE \E inv \in SUBSET Slots : RegisterVm(t, inv)
    BY <2>5, CleanRegisters
  <2>6. CASE TakeDesktop(t)
    BY <2>6, VmTaken, CleanTakes
  <2>7. CASE SaveFile(t) \/ SaveFails(t)
    BY <2>7, CleanFiles
  <2> QED BY <1>2, <2>1, <2>2, <2>3, <2>4, <2>5, <2>6, <2>7
          DEF LeaseStep, ResetStep, LimitStep
<1> QED BY <1>1, <1>2 DEF Next

(* With requests that do not overlap, pools that are not deleted and VMs    *)
(* that are registered once, nobody is handed another user's data, although *)
(* resets fail, saves fail between table and file, and any VM may be        *)
(* released, recycled or marked in any state.                               *)
THEOREM CleanHandout ==
  ASSUME OneThread, StablePools
  PROVE  Spec => []HandedOutClean
<1>1. Inv /\ LeaseInv /\ CleanInv => HandedOutClean
  BY TypeUnfold DEF Inv, LeaseInv, CleanInv, Handed, Clean, CleanEntry, HandedOutClean
<1>2. Inv /\ LeaseInv /\ [Next]_vars => LeaseInv'
  BY LeaseNext
<1>3. Inv /\ LeaseInv /\ CleanInv /\ [Next]_vars => CleanInv'
  BY CleanNext
<1> QED BY <1>1, <1>2, <1>3, InvInit, InvStep, LeaseInit, CleanInit, PTL DEF Spec

-----------------------------------------------------------------------------
(* ImplementsDesk                                                           *)

DeskEntry(m, h, r, v) ==
  [stage |-> Stage(m[v].state), owner |-> m[v].user, holders |-> h[v], data |-> r[v]]

(* To put table m, with its histories, in the place of the file is one step *)
(* of the desk, or none.                                                    *)
DeskStep(m, h, r) ==
  \/ \A w \in VMs : DeskEntry(m, h, r, w) = DeskEntry(vms, holders, residue, w)
  \/ \E v \in VMs :
       /\ Desk!Change(DeskEntry(vms, holders, residue, v), DeskEntry(m, h, r, v))
       /\ \A w \in VMs \ {v} : DeskEntry(m, h, r, w) = DeskEntry(vms, holders, residue, w)

(* A VM that is in a pool has a state.                                      *)
Registered(m) == \A v \in VMs : m[v].state = "none" => m[v].pool = NoPool

DeskInv ==
  /\ Registered(vms)
  /\ \A t \in Threads :
       pc[t] = "saving" => /\ Registered(mem[t].vms)
                           /\ DeskStep(mem[t].vms, HoldersAfter(t), ResidueAfter(t))

(* A step after which no save is under way, with the file as it is.         *)
LEMMA DeskQuiet ==
  ASSUME OneThread, DeskInv, NEW t \in Threads, vms' = vms, pc'[t] # "saving"
  PROVE  DeskInv'
BY DEF OneThread, DeskInv, Registered

(* An operation that saves changes one VM as the desk may, or none.         *)
LEMMA DeskSaves ==
  ASSUME OneThread, Inv, DeskInv, NEW t \in Threads, NEW i \in Image, Save(t, i),
         Registered(i.vms), DeskStep(i.vms, HoldersAfter(t)', ResidueAfter(t)')
  PROVE  DeskInv'
<1>1. /\ pc'[t] = "saving" /\ mem'[t] = i
      /\ vms' = vms /\ holders' = holders /\ residue' = residue
  BY TypeUnfold DEF Inv, Save, fileVars, history
<1>2. \A s \in Threads : s = t
  BY DEF OneThread
<1>3. DeskStep(i.vms, HoldersAfter(t), ResidueAfter(t))'
  BY <1>1 DEF DeskStep, DeskEntry
<1>4. Registered(vms)' /\ Registered(mem[t].vms)'
  BY <1>1 DEF DeskInv, Registered
<1> QED BY <1>1, <1>2, <1>3, <1>4 DEF DeskInv

(* The histories of a VM whose session the operation neither ends nor       *)
(* starts.                                                                  *)
LEMMA OthersKeep ==
  ASSUME NEW t \in Threads, NEW i \in Image, Save(t, i),
         NEW w \in VMs, w \notin Ended(t)', Granted(t, w)' = {}, i.vms[w] = vms[w]
  PROVE  DeskEntry(i.vms, HoldersAfter(t)', ResidueAfter(t)', w)
           = DeskEntry(vms, holders, residue, w)
<1>1. vms' = vms /\ holders' = holders /\ residue' = residue
  BY DEF Save, fileVars, history
<1>2. HoldersAfter(t)'[w] = holders[w]
  BY <1>1 DEF HoldersAfter
<1>3. ~(op'[t].kind = "register" /\ w = op'[t].vm)
  BY DEF Ended
<1>4. ResidueAfter(t)'[w] = residue[w]
  BY <1>1, <1>3 DEF ResidueAfter
<1> QED BY <1>2, <1>4 DEF DeskEntry

(* Operations on pools, telemetry and a miss change no VM.                  *)
LEMMA DeskPools ==
  ASSUME OneThread, Inv, LeaseInv, CleanInv, DeskInv, NEW t \in Threads,
         PoolStep(t) \/ UpdateStreamHealth(t) \/ NoDesktop(t)
  PROVE  DeskInv'
<1>1. /\ pc[t] = "loaded" /\ op' = op /\ op[t].kind # "delete"
      /\ op[t].kind \in {"create", "delete", "update", "scale", "health", "allocate"}
  BY DEF PoolStep, CreatePool, DeletePool, UpdatePool, ScalePool, UpdateStreamHealth,
         NoDesktop, In, CleanInv
<1>2. \E i \in Image : Save(t, i) /\ i.vms = vms
  <2>1. CASE CreatePool(t) \/ UpdatePool(t)
    <3> DEFINE i == [mem[t] EXCEPT !.pools[op[t].pool] = op[t].class]
    <3>1. Save(t, i)
      BY <2>1 DEF CreatePool, UpdatePool
    <3>2. op[t].class \in AnyClass /\ mem[t].vms = vms /\ mem[t] \in Image
      BY <1>1, CopyTyped, CopyRead, Fields
    <3>3. i \in Image /\ i.vms = vms
      BY <3>2 DEF Image
    <3> QED BY <3>1, <3>3
  <2>2. CASE ScalePool(t) \/ UpdateStreamHealth(t) \/ NoDesktop(t)
    BY <1>1, <2>2, CopyRead DEF ScalePool, UpdateStreamHealth, NoDesktop
  <2>3. ~DeletePool(t)
    BY <1>1 DEF DeletePool, In
  <2> QED BY <2>1, <2>2, <2>3 DEF PoolStep
<1>3. PICK i \in Image : Save(t, i) /\ i.vms = vms
  BY <1>2
<1>4. ASSUME NEW w \in VMs
      PROVE  w \notin Ended(t)' /\ Granted(t, w)' = {}
  <2>1. op[t].kind = "allocate" => op[t].vm = NoVM
    BY <1>1 DEF LeaseInv, CopyIsFile
  <2> QED BY <1>1, <2>1, NullAssumption DEF Ended, Granted
<1>5. DeskStep(i.vms, HoldersAfter(t)', ResidueAfter(t)')
  BY <1>3, <1>4, OthersKeep DEF DeskStep
<1> QED BY <1>3, <1>5, DeskSaves DEF DeskInv

(* A release, a reset and a mark take a desktop back, and an extension      *)
(* leaves it where it is.                                                   *)
LEMMA DeskEntries ==
  ASSUME OneThread, Inv, LeaseInv, CleanInv, CleanInv', DeskInv, NEW t \in Threads,
         NEW r \in Vm, Replaces(t, r),
         op[t].kind # "extend" => vms[op[t].vm].state # "none"
  PROVE  DeskInv'
<1> DEFINE v == op[t].vm
           i == [mem[t] EXCEPT !.vms[v] = r]
           h == HoldersAfter(t)'
           d == ResidueAfter(t)'
<1>1. /\ Save(t, i) /\ op' = op /\ pc[t] \in {"loaded", "reset"} /\ v \in VMs
      /\ op[t].kind \in {"release", "recycle", "mark", "extend"} /\ r.pool = vms[v].pool
  BY DEF Replaces
<1>2. /\ i \in Image /\ i.vms[v] = r
      /\ \A w \in VMs \ {v} : i.vms[w] = vms[w]
  BY <1>1, OnlyEntry
<1>3. /\ vms' = vms /\ holders' = holders /\ residue' = residue
      /\ pc'[t] = "saving" /\ mem'[t] = i
  BY <1>1, TypeUnfold DEF Inv, Save, fileVars, history
<1>4. Ended(t)' \subseteq {v} /\ \A w \in VMs : Granted(t, w)' = {}
  BY <1>1 DEF Ended, Granted
<1>5. \A w \in VMs \ {v} : DeskEntry(i.vms, h, d, w) = DeskEntry(vms, holders, residue, w)
  BY <1>1, <1>2, <1>4, OthersKeep
<1>6. d[v] = residue[v]
  BY <1>1, <1>3, <1>4 DEF ResidueAfter
<1>7. CASE op[t].kind = "extend"
  <2>1. r.state = "in_use" /\ vms[v].state = "in_use" /\ r.user = vms[v].user
    BY <1>7 DEF Replaces
  <2>2. h[v] = holders[v]
    BY <1>1, <1>3, <1>4, <1>7 DEF HoldersAfter, Ended
  <2>3. DeskEntry(i.vms, h, d, v) = DeskEntry(vms, holders, residue, v)
    BY <1>2, <1>6, <2>1, <2>2 DEF DeskEntry
  <2>4. DeskStep(i.vms, h, d)
    BY <1>5, <2>3 DEF DeskStep
  <2>5. Registered(i.vms)
    BY <1>2, <2>1 DEF DeskInv, Registered
  <2> QED BY <1>1, <1>2, <2>4, <2>5, DeskSaves
<1>8. CASE op[t].kind # "extend"
  <2>1. /\ vms[v].state # "none" /\ r.state \notin {"none", "in_use"}
        /\ r.user \in {vms[v].user, NoUser}
    BY <1>8 DEF Replaces
  <2>2. h[v] = {}
    <3>1. v \in Ended(t)'
      BY <1>1, <1>8 DEF Ended
    <3> QED BY <1>1, <1>4, <3>1 DEF HoldersAfter
  <2>3. r.state = "free" => residue[v] \subseteq {r.user}
    <3>0. Clean(mem[t].vms, ResidueAfter(t))'
      BY <1>3 DEF CleanInv
    <3> HIDE DEF i, v
    <3>1. CleanEntry(r, d[v])
      BY <1>1, <1>2, <1>3, <3>0 DEF Clean
    <3> QED BY <1>6, <3>1 DEF CleanEntry
  <2>4. Stage(vms[v].state) # "none" /\ Stage(r.state) \in {"free", "out"}
        /\ (Stage(r.state) = "free" => r.state = "free")
    BY <2>1 DEF Stage
  <2>5. Desk!TakenBack(DeskEntry(vms, holders, residue, v), DeskEntry(i.vms, h, d, v))
    <3> HIDE DEF i, h, d, v
    <3> QED BY <1>2, <1>6, <2>1, <2>2, <2>3, <2>4 DEF DeskEntry, Desk!TakenBack
  <2>6. DeskStep(i.vms, h, d)
    BY <1>1, <1>5, <2>5 DEF DeskStep, Desk!Change
  <2>7. Registered(i.vms)
    BY <1>2, <2>1 DEF DeskInv, Registered
  <2> QED BY <1>1, <1>2, <2>6, <2>7, DeskSaves
<1> QED BY <1>7, <1>8

(* Before a release, a reset or a mark the VM is in a pool.                 *)
LEMMA EntryStands ==
  ASSUME Inv, LeaseInv, DeskInv, NEW t \in Threads,
         \/ ReleaseDesktop(t) \/ RecycleDesktop(t) \/ ResetFails(t) \/ MarkExpired(t)
  PROVE  vms[op[t].vm].state # "none"
<1> USE CopyTyped, CopyRead
<1>1. CASE MarkExpired(t)
  BY <1>1 DEF MarkExpired, In
<1>2. CASE ReleaseDesktop(t) \/ RecycleDesktop(t) \/ ResetFails(t)
  <2>1. /\ KnownVm(t) /\ op[t].kind \in {"release", "recycle"}
        /\ pc[t] \in {"loaded", "reset"}
    BY <1>2 DEF ReleaseDesktop, RecycleDesktop, ResetFails, In, LeaseInv, CopyIsFile
  <2>2. /\ op[t].vm \in VMs /\ op[t].pool \in Pools /\ vms[op[t].vm].pool = op[t].pool
    BY <2>1 DEF KnownVm, OpTyped
  <2> QED BY <2>2, NullAssumption DEF DeskInv, Registered
<1> QED BY <1>1, <1>2

(* A registration builds a desktop.                                         *)
LEMMA DeskRegisters ==
  ASSUME OneThread, Inv, LeaseInv, CleanInv, DeskInv, NEW t \in Threads,
         NEW inv \in SUBSET Slots, RegisterVm(t, inv)
  PROVE  DeskInv'
<1> DEFINE v == op[t].vm
           h == HoldersAfter(t)'
           d == ResidueAfter(t)'
<1>1. /\ pc[t] = "loaded" /\ op' = op /\ op[t].kind = "register" /\ v \in VMs
  BY EntryRegistered
<1>2. PICK i \in Image : /\ Save(t, i)
                         /\ i.vms[v].state \in {"free", "pending-gpu"}
                         /\ i.vms[v].user = NoUser
                         /\ \A w \in VMs \ {v} : i.vms[w] = vms[w]
  BY EntryRegistered
<1>3. vms' = vms /\ holders' = holders /\ residue' = residue
  BY <1>2 DEF Save, fileVars, history
<1>4. Ended(t)' = {v} /\ \A w \in VMs : Granted(t, w)' = {}
  BY <1>1 DEF Ended, Granted
<1>5. \A w \in VMs \ {v} : DeskEntry(i.vms, h, d, w) = DeskEntry(vms, holders, residue, w)
  BY <1>2, <1>4, OthersKeep
<1>6. vms[v].state = "none"
  BY <1>1 DEF CleanInv
<1>7. h[v] = {} /\ d[v] = {}
  BY <1>1, <1>3, <1>4, <1>6 DEF HoldersAfter, ResidueAfter
<1>8. Stage(vms[v].state) = "none" /\ Stage(i.vms[v].state) \in {"free", "out"}
  BY <1>2, <1>6 DEF Stage
<1>9. Desk!Built(DeskEntry(vms, holders, residue, v), DeskEntry(i.vms, h, d, v))
  <2> HIDE DEF h, d, v
  <2> QED BY <1>2, <1>7, <1>8 DEF DeskEntry, Desk!Built
<1>10. DeskStep(i.vms, h, d)
  BY <1>1, <1>5, <1>9 DEF DeskStep, Desk!Change
<1>11. Registered(i.vms)
  BY <1>2 DEF DeskInv, Registered
<1> QED BY <1>2, <1>10, <1>11, DeskSaves

(* An allocation lends a free desktop, which nobody relies on having.       *)
LEMMA DeskTakes ==
  ASSUME OneThread, Inv, LeaseInv, CleanInv, DeskInv, NEW t \in Threads,
         NEW v \in VMs, NEW r \in Vm, Takes(t, v, r)
  PROVE  DeskInv'
<1> DEFINE i == [mem[t] EXCEPT !.vms[v] = r]
           u == op[t].user
           h == HoldersAfter(t)'
           d == ResidueAfter(t)'
<1>1. /\ pc[t] = "loaded" /\ op[t].kind = "allocate" /\ u \in Users
      /\ Save(t, i) /\ op' = [op EXCEPT ![t] = [@ EXCEPT !.vm = v]]
      /\ r.state = "in_use" /\ r.user = u
      /\ vms[v].state = "free" /\ vms[v].user \in {u, NoUser}
  BY DEF Takes
<1>2. i \in Image /\ i.vms[v] = r /\ \A w \in VMs \ {v} : i.vms[w] = vms[w]
  BY <1>1, OnlyEntry
<1>3. op'[t].vm = v /\ op'[t].user = u /\ op'[t].kind = "allocate"
  <2>1. op[t] \in Operation /\ op \in [Threads -> Operation]
    BY TypeUnfold DEF Inv
  <2> QED BY <1>1, <2>1 DEF Operation
<1>4. vms' = vms /\ holders' = holders /\ residue' = residue
  BY <1>1 DEF Save, fileVars, history
<1>5. Ended(t)' = {} /\ Granted(t, v)' = {u} /\ \A w \in VMs \ {v} : Granted(t, w)' = {}
  BY <1>3 DEF Ended, Granted
<1>6. \A w \in VMs \ {v} : DeskEntry(i.vms, h, d, w) = DeskEntry(vms, holders, residue, w)
  BY <1>1, <1>2, <1>5, OthersKeep
<1>7. h[v] = {u}
  <2>1. holders[v] = {}
    BY <1>1 DEF LeaseInv, Handed
  <2> QED BY <1>4, <1>5, <2>1 DEF HoldersAfter
<1>8. d[v] = residue[v] \cup {u}
  BY <1>3, <1>4, <1>5 DEF ResidueAfter
<1>9. Stage(vms[v].state) = "free" /\ Stage(r.state) = "lent"
  BY <1>1 DEF Stage
<1>10. Desk!Lent(DeskEntry(vms, holders, residue, v), DeskEntry(i.vms, h, d, v))
  <2> HIDE DEF h, d, i, u
  <2> QED BY <1>1, <1>2, <1>7, <1>8, <1>9 DEF DeskEntry, Desk!Lent
<1>11. DeskStep(i.vms, h, d)
  BY <1>6, <1>10 DEF DeskStep, Desk!Change
<1>12. Registered(i.vms)
  BY <1>1, <1>2 DEF DeskInv, Registered
<1> QED BY <1>1, <1>2, <1>11, <1>12, DeskSaves

(* A save that succeeds is the step of the desk that was prepared.          *)
LEMMA DeskFiles ==
  ASSUME OneThread, Inv, DeskInv, NEW t \in Threads, SaveFile(t)
  PROVE  DeskInv' /\ DeskStep(vms', holders', residue')
<1>1. pc[t] = "saving" /\ vms' = mem[t].vms
  BY DEF SaveFile
<1>2. holders' = HoldersAfter(t) /\ residue' = ResidueAfter(t)
  BY DEF SaveFile, HoldersAfter, ResidueAfter, Ended, Granted
<1>3. Registered(vms') /\ DeskStep(vms', holders', residue')
  BY <1>1, <1>2 DEF DeskInv
<1>4. pc'[t] # "saving"
  BY TypeUnfold DEF Inv, SaveFile, GoesOnWith, Ends
<1> QED BY <1>3, <1>4 DEF OneThread, DeskInv, Registered

(* Steps between the saves: a user who has a desktop already is sent to it, *)
(* a reset wipes one, and all others leave the desk alone.                  *)
LEMMA DeskReads ==
  ASSUME OneThread, Inv, LeaseInv, DeskInv, NEW t \in Threads,
         \/ ReturnLease(t) \/ ResetToTemplate(t)
         \/ ExpireOverdueSessions(t) \/ Raise(t) \/ SaveFails(t) \/ ReadPools(t)
         \/ \E o \in Requests : Call(t, o)
         \/ ReleaseNext(t) \/ Continue(t)
  PROVE  DeskInv' /\ DeskStep(vms', holders', residue')
<1> USE TypeUnfold, CopyTyped DEF Inv
<1>1. vms' = vms /\ pc'[t] # "saving"
  BY DEF ReturnLease, ResetToTemplate, ExpireOverdueSessions, Raise, SaveFails, Raises,
         ReadPools, Call, ReleaseNext, Continue, Ends, GoesOnWith, StartsWith, fileVars
<1>2. CASE ReturnLease(t)
  <2>1. PICK v \in Reuses(t) :
           /\ In(t, "allocate") /\ mem[t].vms[v].state = "in_use"
           /\ holders' = [holders EXCEPT ![v] = @ \cup {op[t].user}]
           /\ residue' = residue
    BY <1>2 DEF ReturnLease
  <2>2. v \in VMs /\ vms[v].state = "in_use" /\ vms[v].user = op[t].user
    BY <2>1, CopyRead DEF In, Reuses, Leased, Owned, PoolVms
  <2>3. Desk!LentAgain(DeskEntry(vms, holders, residue, v), DeskEntry(vms', holders', residue', v))
    <3> DEFINE d == DeskEntry(vms, holders, residue, v)
    <3>1. d.stage = "lent" /\ d.owner = op[t].user /\ d.holders = holders[v]
      BY <2>2 DEF DeskEntry, Stage
    <3>2. holders'[v] = holders[v] \cup {op[t].user}
      BY <2>1, <2>2
    <3>3. DeskEntry(vms', holders', residue', v) = [d EXCEPT !.holders = holders'[v]]
      BY ONLY <1>1, <2>1 DEF DeskEntry
    <3> HIDE DEF d
    <3> QED BY <3>1, <3>2, <3>3 DEF d, Desk!LentAgain
  <2>4. \A w \in VMs \ {v} :
          DeskEntry(vms', holders', residue', w) = DeskEntry(vms, holders, residue, w)
    BY <1>1, <2>1 DEF DeskEntry
  <2>5. DeskStep(vms', holders', residue')
    BY <2>2, <2>3, <2>4 DEF DeskStep, Desk!Change
  <2> QED BY <1>1, <2>5, DeskQuiet
<1>3. CASE ResetToTemplate(t)
  <2> DEFINE v == op[t].vm
  <2>1. v \in VMs /\ holders' = holders /\ residue' = [residue EXCEPT ![v] = {}]
    BY <1>3 DEF ResetToTemplate, In, OpTyped
  <2> HIDE DEF v
  <2>2. Desk!Wiped(DeskEntry(vms, holders, residue, v), DeskEntry(vms', holders', residue', v))
    <3>1. residue'[v] = {}
      BY <2>1
    <3> QED BY ONLY <1>1, <2>1, <3>1 DEF DeskEntry, Desk!Wiped
  <2>3. \A w \in VMs \ {v} :
          DeskEntry(vms', holders', residue', w) = DeskEntry(vms, holders, residue, w)
    BY <1>1, <2>1 DEF DeskEntry
  <2>4. DeskStep(vms', holders', residue')
    BY <2>1, <2>2, <2>3 DEF DeskStep, Desk!Change
  <2> QED BY <1>1, <2>4, DeskQuiet
<1>4. CASE \/ ExpireOverdueSessions(t) \/ Raise(t) \/ SaveFails(t) \/ ReadPools(t)
           \/ \E o \in Requests : Call(t, o)
           \/ ReleaseNext(t) \/ Continue(t)
  <2>1. holders' = holders /\ residue' = residue
    BY <1>4 DEF ExpireOverdueSessions, Raise, SaveFails, ReadPools, Call, ReleaseNext,
                Continue, history
  <2>2. DeskStep(vms', holders', residue')
    BY <1>1, <2>1 DEF DeskStep
  <2> QED BY <1>1, <2>2, DeskQuiet
<1> QED BY <1>2, <1>3, <1>4

(* What prepares a save leaves the desk alone.                              *)
LEMMA SavesUnseen ==
  ASSUME NEW t \in Threads, NEW i, Save(t, i)
  PROVE  DeskStep(vms', holders', residue')
BY DEF Save, fileVars, history, DeskStep

LEMMA DeskInit == Init => DeskInv /\ Desk!Init
<1> SUFFICES ASSUME Init PROVE DeskInv /\ Desk!Init
  OBVIOUS
<1>1. DeskInv
  BY DEF Init, DeskInv, Registered, Unregistered
<1>2. Desk!Init
  BY DEF Init, Desk!Init, desk, Stage, Unregistered
<1> QED BY <1>1, <1>2

(* One step of DeskStep is one of LeaseDesk, or a stutter.                  *)
LEMMA DeskMoves ==
  ASSUME Inv', DeskStep(vms', holders', residue')
  PROVE  [Desk!Next]_desk
<1>1. \A v \in VMs : /\ desk[v] = DeskEntry(vms, holders, residue, v)
                     /\ desk'[v] = DeskEntry(vms', holders', residue', v)
  BY DEF desk, DeskEntry
<1>2. desk' \in [VMs -> Desk!Entry]
  <2>1. ASSUME NEW v \in VMs
        PROVE  DeskEntry(vms', holders', residue', v) \in Desk!Entry
    <3>1. /\ vms'[v].user \in Users \cup {NoUser}
          /\ holders'[v] \in SUBSET Users /\ residue'[v] \in SUBSET Users
      BY DEF Inv, TypeOK, Vm
    <3>2. Stage(vms'[v].state) \in {"none", "free", "lent", "out"}
      BY DEF Stage
    <3> QED BY <3>1, <3>2 DEF DeskEntry, Desk!Entry
  <2> QED BY <2>1 DEF desk, DeskEntry
<1>3. CASE \A w \in VMs :
             DeskEntry(vms', holders', residue', w) = DeskEntry(vms, holders, residue, w)
  BY <1>3 DEF desk, DeskEntry
<1>4. CASE \E v \in VMs :
             /\ Desk!Change(DeskEntry(vms, holders, residue, v),
                            DeskEntry(vms', holders', residue', v))
             /\ \A w \in VMs \ {v} :
                  DeskEntry(vms', holders', residue', w) = DeskEntry(vms, holders, residue, w)
  BY <1>1, <1>2, <1>4 DEF Desk!Next
<1> QED BY <1>3, <1>4 DEF DeskStep

LEMMA DeskNext ==
  ASSUME OneThread, StablePools
  PROVE  Inv /\ LeaseInv /\ CleanInv /\ DeskInv /\ [Next]_vars
           => DeskInv' /\ [Desk!Next]_desk
<1> SUFFICES ASSUME Inv, LeaseInv, CleanInv, DeskInv, [Next]_vars
             PROVE  DeskInv' /\ DeskStep(vms', holders', residue')
  BY InvStep, DeskMoves
<1>0. CleanInv'
  BY CleanNext
<1>1. CASE UNCHANGED vars \/ Tick
  <2>1. UNCHANGED <<vms, pc, op, mem, holders, residue>>
    BY <1>1 DEF Tick, vars, fileVars, threadVars, history
  <2>2. \A t \in Threads : /\ HoldersAfter(t)' = HoldersAfter(t)
                           /\ ResidueAfter(t)' = ResidueAfter(t)
    BY <2>1 DEF HoldersAfter, ResidueAfter, Ended, Granted
  <2>3. \A m, h, r : DeskStep(m, h, r)' <=> DeskStep(m, h, r)
    BY <2>1 DEF DeskStep, DeskEntry
  <2>4. DeskInv'
    BY <2>1, <2>2, <2>3 DEF DeskInv, Registered
  <2>5. DeskStep(vms', holders', residue')
    BY <2>1 DEF DeskStep
  <2> QED BY <2>4, <2>5
<1>2. ASSUME NEW t \in Threads,
             \/ \E o \in {r \in Requests : r.kind \in Kinds} : Call(t, o)
             \/ ReadPools(t) \/ PoolStep(t)
             \/ \E inv \in SUBSET Slots : RegisterVm(t, inv)
             \/ UpdateStreamHealth(t)
             \/ LeaseStep(t) \/ ReleaseDesktop(t) \/ ResetStep(t) \/ LimitStep(t)
             \/ Raise(t) \/ SaveFile(t) \/ SaveFails(t) \/ Continue(t)
      PROVE  DeskInv' /\ DeskStep(vms', holders', residue')
  <2>1. CASE \/ ReturnLease(t) \/ ResetToTemplate(t)
             \/ ExpireOverdueSessions(t) \/ Raise(t) \/ SaveFails(t) \/ ReadPools(t)
             \/ \E o \in Requests : Call(t, o)
             \/ ReleaseNext(t) \/ Continue(t)
    BY <2>1, DeskReads
  <2>2. CASE PoolStep(t) \/ UpdateStreamHealth(t) \/ NoDesktop(t)
    <3>1. \E i : Save(t, i)
      BY <2>2 DEF PoolStep, CreatePool, DeletePool, UpdatePool, ScalePool,
                  UpdateStreamHealth, NoDesktop
    <3> QED BY <2>2, <3>1, DeskPools, SavesUnseen
  <2>3. CASE \/ ReleaseDesktop(t) \/ RecycleDesktop(t) \/ ResetFails(t)
             \/ ExtendKioskSession(t) \/ MarkExpired(t)
    <3>1. PICK r \in Vm : Replaces(t, r)
      BY <2>3, EntryWritten
    <3>2. op[t].kind # "extend" => vms[op[t].vm].state # "none"
      BY <2>3, EntryStands DEF ExtendKioskSession, In
    <3>3. \E i : Save(t, i)
      BY <3>1 DEF Replaces
    <3> QED BY <1>0, <3>1, <3>2, <3>3, DeskEntries, SavesUnseen
  <2>4. CASE \E inv \in SUBSET Slots : RegisterVm(t, inv)
    <3>1. \E i : Save(t, i)
      BY <2>4, EntryRegistered
    <3> QED BY <2>4, <3>1, DeskRegisters, SavesUnseen
  <2>5. CASE TakeDesktop(t)
    <3>1. PICK v \in VMs, r \in Vm : Takes(t, v, r)
      BY <2>5, VmTaken
    <3>2. \E i : Save(t, i)
      BY <3>1 DEF Takes
    <3> QED BY <3>1, <3>2, DeskTakes, SavesUnseen
  <2>6. CASE SaveFile(t)
    BY <2>6, DeskFiles
  <2> QED BY <1>2, <2>1, <2>2, <2>3, <2>4, <2>5, <2>6 DEF LeaseStep, ResetStep, LimitStep
<1> QED BY <1>1, <1>2 DEF Next

(* Requests that do not overlap, over pools that are not deleted and VMs    *)
(* that are registered once, use the pools as a desk that lends desktops:   *)
(* every save changes one desktop as LeaseDesk allows, or none, whatever    *)
(* copies were saved before and whatever saves and resets fail.             *)
THEOREM PoolsImplementDesk ==
  ASSUME OneThread, StablePools
  PROVE  Spec => ImplementsDesk
<1>1. Inv /\ LeaseInv /\ [Next]_vars => LeaseInv'
  BY LeaseNext
<1>2. Inv /\ LeaseInv /\ CleanInv /\ [Next]_vars => CleanInv'
  BY CleanNext
<1>3. Inv /\ LeaseInv /\ CleanInv /\ DeskInv /\ [Next]_vars => DeskInv' /\ [Desk!Next]_desk
  BY DeskNext
<1> QED
  BY <1>1, <1>2, <1>3, InvInit, InvStep, LeaseInit, CleanInit, DeskInit, PTL
     DEF Spec, ImplementsDesk, Desk!Spec

(* The desk is all that its users need: whatever behaves like LeaseDesk     *)
(* gives a desktop to one user at a time and hands nobody the data of       *)
(* another one.                                                             *)
THEOREM DeskKeepsUsersApart ==
  ImplementsDesk => [](LeaseIsExclusive /\ HandedOutClean)
<1> DEFINE Apart == \A v \in VMs :
             LET d == desk[v]
             IN  /\ d.holders # {} => d.stage = "lent"
                 /\ d.holders \subseteq {d.owner}
                 /\ d.stage = "lent" => d.owner \in Users
                 /\ d.stage \in {"free", "lent"} => d.data \subseteq {d.owner}
                 /\ d \in Desk!Entry
<1>1. Desk!Init => Apart
  BY DEF Desk!Init, Desk!Entry
<1>2. Apart /\ [Desk!Next]_desk => Apart'
  <2> SUFFICES ASSUME Apart, Desk!Next PROVE Apart'
    OBVIOUS
  <2>1. desk' \in [VMs -> Desk!Entry]
    BY DEF Desk!Next
  <2> QED BY <2>1, NullAssumption
    DEF Desk!Next, Desk!Change, Desk!Built, Desk!Lent, Desk!LentAgain, Desk!TakenBack,
        Desk!Wiped, Desk!Entry
<1>3. Apart => LeaseIsExclusive /\ HandedOutClean
  BY DEF desk, LeaseIsExclusive, HandedOutClean
<1> QED BY <1>1, <1>2, <1>3, PTL DEF ImplementsDesk, Desk!Spec

==============================================================================
