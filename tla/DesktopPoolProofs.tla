-------------------------- MODULE DesktopPoolProofs --------------------------
(***************************************************************************)
(* Proofs about DesktopPool, for any number of threads, pools, VMs, users   *)
(* and GPU slots.  The argument behind both safety theorems: no operation   *)
(* mixes two states.  What it saves is one state it has loaded, changed by  *)
(* one operation, so a property of the file that every operation preserves  *)
(* on its own copy survives every interleaving, lost updates included; it   *)
(* has to hold of the file and of every thread's copy.                      *)
(***************************************************************************)
EXTENDS DesktopPool, TLAPS

(* Reservations r give no slot of one class out twice.                      *)
SlotsOnce(r) ==
  \A v, w \in VMs :
    v # w /\ r[v].slot # NoSlot /\ r[v].class = r[w].class => r[v].slot # r[w].slot

(* VM table m gives a user one session per persistent pool.                 *)
ActiveOnce(m) ==
  \A v, w \in VMs :
    /\ m[v].state = "in_use" /\ m[w].state = "in_use"
    /\ m[v].user = m[w].user
    /\ m[v].pool = m[w].pool /\ m[v].pool \in Persistent
    => v = w

Sound(image) == SlotsOnce(image.resv) /\ ActiveOnce(image.vms)

OpTyped(o) ==
  /\ o \in Operation
  /\ o.kind \notin {"none", "expire", "mark"} => o.pool \in Pools
  /\ o.kind = "allocate" => o.user \in Users
  /\ o.kind \in {"register", "release", "recycle", "health", "extend", "mark"}
       => o.vm \in VMs
  /\ o.expiring => o.kind \in {"release", "recycle"}

Pcs == {"idle", "reading", "loaded", "reset", "saving", "continue"}

(* The invariant: types, and soundness of the file and of every copy.       *)
Inv ==
  /\ TypeOK
  /\ SlotsOnce(resv) /\ ActiveOnce(vms)
  /\ \A t \in Threads : Sound(mem[t])

(* The empty copy and the empty operation have their types.                 *)
LEMMA NullTypes ==
  /\ Unregistered \in Vm /\ NoReservation \in Reservation
  /\ NoImage \in Image /\ OpTyped(NoOp) /\ Sound(NoImage)
<1>1. Unregistered \in Vm /\ NoReservation \in Reservation
  BY DEF Unregistered, Vm, NoReservation, Reservation, AnyClass, VmStates
<1>2. NoImage \in Image
  BY <1>1 DEF NoImage, Image
<1>3. OpTyped(NoOp)
  BY DEF OpTyped, NoOp, PoolRequest, Request, Operation, AnyClass
<1>4. Sound(NoImage)
  BY DEF Sound, SlotsOnce, ActiveOnce, NoImage, Unregistered, NoReservation
<1> QED BY <1>1, <1>2, <1>3, <1>4

(* A call carries a pool, and an allocation a user.                         *)
LEMMA RequestTypes ==
  ASSUME NEW o \in Requests
  PROVE  OpTyped(o)
<1>1. \A k \in {"create", "update", "delete", "scale"}, p \in Pools, g \in AnyClass :
        OpTyped(PoolRequest(k, p, g))
  BY DEF OpTyped, PoolRequest, Request, Operation
<1>2. \A p \in Pools, u \in Users : OpTyped(LeaseRequest(p, u))
  BY DEF OpTyped, LeaseRequest, Request, Operation, AnyClass
<1>3. \A k \in {"register", "release", "recycle", "health", "extend"},
         p \in Pools, v \in VMs, m \in Nat : OpTyped(VmRequest(k, p, v, m))
  BY DEF OpTyped, VmRequest, Request, Operation, AnyClass
<1>4. OpTyped(ExpireRequest)
  BY DEF OpTyped, ExpireRequest, PoolRequest, Request, Operation, AnyClass
<1>5. Extensions \subseteq Nat /\ NoClass \in AnyClass
  BY PoolAssumption DEF AnyClass
<1> QED BY <1>1, <1>2, <1>3, <1>4, <1>5 DEF Requests

(* What TypeOK says about the state a step starts from.                     *)
LEMMA TypeUnfold ==
  ASSUME TypeOK
  PROVE  /\ repo \in [Pools -> AnyClass \cup {"absent"}]
         /\ vms \in [VMs -> Vm] /\ resv \in [VMs -> Reservation]
         /\ pc \in [Threads -> Pcs]
         /\ op \in [Threads -> Operation] /\ mem \in [Threads -> Image]
         /\ \A t \in Threads : OpTyped(op[t])
         /\ todo \in [Threads -> SUBSET (Pools \X VMs)]
         /\ now \in Nat /\ failures \in Nat
         /\ holders \in [VMs -> SUBSET Users] /\ residue \in [VMs -> SUBSET Users]
BY DEF TypeOK, OpTyped, Pcs

(* The fields of a copy and of an operation.                                *)
LEMMA Fields ==
  /\ \A i \in Image : /\ i.vms \in [VMs -> Vm] /\ i.resv \in [VMs -> Reservation]
                      /\ i.pools \in [Pools -> AnyClass \cup {"absent"}]
  /\ \A m \in [VMs -> Vm], r \in [VMs -> Reservation],
        p \in [Pools -> AnyClass \cup {"absent"}] :
       [vms |-> m, resv |-> r, pools |-> p] \in Image
  /\ \A o \in Operation : /\ o.pool \in Pools \cup {NoPool} /\ o.vm \in VMs \cup {NoVM}
                          /\ o.user \in Users \cup {NoUser} /\ o.class \in AnyClass
                          /\ o.minutes \in Nat
BY DEF Image, Operation

(* The state of the threads after each kind of step.                        *)
ThreadsOK == /\ pc \in [Threads -> Pcs]
             /\ op \in [Threads -> Operation] /\ mem \in [Threads -> Image]
             /\ \A t \in Threads : OpTyped(op[t]) /\ Sound(mem[t])

(* An operation that starts copies the file.                                *)
LEMMA StartsStep ==
  ASSUME Inv, NEW t \in Threads, NEW o, OpTyped(o), StartsWith(t, o)
  PROVE  ThreadsOK'
<1> USE TypeUnfold DEF Inv
<1> DEFINE i == [mem[t] EXCEPT !.vms = vms, !.resv = resv]
<1>1. /\ mem' = [mem EXCEPT ![t] = i] /\ op' = [op EXCEPT ![t] = o]
      /\ pc' = [pc EXCEPT ![t] = "reading"]
  BY DEF StartsWith
<1>2. /\ i \in Image /\ i.vms = vms /\ i.resv = resv
  <2>1. mem[t] \in Image OBVIOUS
  <2> QED BY <2>1 DEF Image
<1>3. Sound(i)
  BY <1>2 DEF Sound
<1> HIDE DEF i
<1> QED BY <1>1, <1>2, <1>3 DEF ThreadsOK, OpTyped, Pcs

(* An operation that ends, or gives way to the next, forgets its copy.      *)
LEMMA EndsStep ==
  ASSUME Inv, NEW t \in Threads, NEW o, OpTyped(o), Ends(t) \/ GoesOnWith(t, o)
  PROVE  ThreadsOK'
<1> USE TypeUnfold, NullTypes DEF Inv
<1>1. CASE Ends(t)
  BY <1>1 DEF Ends, ThreadsOK, OpTyped, Pcs
<1>2. CASE GoesOnWith(t, o)
  BY <1>2 DEF GoesOnWith, ThreadsOK, OpTyped, Pcs
<1> QED BY <1>1, <1>2

(* A saving step leaves the operation, or enters the VM it has found.       *)
KeepsOp(t) ==
  \/ op' = op
  \/ \E v \in VMs : op' = [op EXCEPT ![t] = [@ EXCEPT !.vm = v]]

(* A save of a sound copy keeps the invariant.                              *)
LEMMA SaveStep ==
  ASSUME Inv, NEW t \in Threads, NEW image \in Image, Sound(image),
         Save(t, image), KeepsOp(t)
  PROVE  Inv'
<1> USE TypeUnfold DEF Inv
<1>1. /\ mem' = [mem EXCEPT ![t] = image] /\ repo' = image.pools
      /\ pc' = [pc EXCEPT ![t] = "saving"]
      /\ UNCHANGED <<fileVars, todo, boundVars, history>>
  BY DEF Save
<1>2. op' \in [Threads -> Operation] /\ \A u \in Threads : OpTyped(op'[u])
  <2>1. CASE op' = op
    BY <2>1 DEF OpTyped
  <2>2. CASE \E v \in VMs : op' = [op EXCEPT ![t] = [@ EXCEPT !.vm = v]]
    <3> PICK v \in VMs : op' = [op EXCEPT ![t] = [@ EXCEPT !.vm = v]] BY <2>2
    <3>1. OpTyped([op[t] EXCEPT !.vm = v])
      <4> op[t] \in Operation /\ OpTyped(op[t]) OBVIOUS
      <4> QED BY DEF OpTyped, Operation
    <3> QED BY <3>1 DEF OpTyped
  <2> QED BY <2>1, <2>2 DEF KeepsOp
<1>3. repo' \in [Pools -> AnyClass \cup {"absent"}] /\ mem' \in [Threads -> Image]
  BY <1>1, Fields
<1>4. \A u \in Threads : Sound(mem'[u])
  BY <1>1
<1>5. TypeOK'
  BY <1>1, <1>2, <1>3 DEF TypeOK, OpTyped, fileVars, boundVars, history, Pcs
<1> QED BY <1>1, <1>4, <1>5 DEF fileVars

-----------------------------------------------------------------------------
(* What the operations write: every saving step saves a sound copy.         *)

(* One entry of the VM table of a copy is replaced.                         *)
LEMMA EntryReplaced ==
  ASSUME NEW i \in Image, NEW v, NEW r \in Vm
  PROVE  /\ [i EXCEPT !.vms[v] = r] \in Image
         /\ [i EXCEPT !.vms[v] = r].vms = [i.vms EXCEPT ![v] = r]
         /\ [i EXCEPT !.vms[v] = r].resv = i.resv
BY DEF Image

(* The new entry is not in use, or it is a session the copy has already.    *)
LEMMA QuietEntry ==
  ASSUME NEW i \in Image, Sound(i), NEW v, NEW r \in Vm,
         \/ r.state # "in_use"
         \/ i.vms[v].state = "in_use" /\ r.user = i.vms[v].user /\ r.pool = i.vms[v].pool
  PROVE  Sound([i EXCEPT !.vms[v] = r])
<1> DEFINE m == i.vms
           n == [m EXCEPT ![v] = r]
<1>1. m \in [VMs -> Vm] /\ ActiveOnce(m) /\ SlotsOnce(i.resv)
  BY DEF Sound, Image
<1>2. ActiveOnce(n)
  <2> SUFFICES ASSUME NEW x \in VMs, NEW y \in VMs,
                      n[x].state = "in_use", n[y].state = "in_use",
                      n[x].user = n[y].user, n[x].pool = n[y].pool,
                      n[x].pool \in Persistent
               PROVE  x = y
    BY DEF ActiveOnce
  <2>1. \A z \in VMs : n[z] = IF z = v THEN r ELSE m[z]
    BY <1>1
  <2>2. /\ m[x].state = "in_use" /\ m[y].state = "in_use"
        /\ m[x].user = n[x].user /\ m[y].user = n[y].user
        /\ m[x].pool = n[x].pool /\ m[y].pool = n[y].pool
    BY <2>1
  <2> QED BY <1>1, <2>2 DEF ActiveOnce
<1> QED BY <1>1, <1>2, EntryReplaced DEF Sound

(* The copy of a thread that is inside an operation.                        *)
LEMMA CopyTyped ==
  ASSUME Inv, NEW t \in Threads
  PROVE  /\ mem[t] \in Image /\ Sound(mem[t]) /\ OpTyped(op[t]) /\ op[t] \in Operation
         /\ mem[t].vms \in [VMs -> Vm] /\ mem[t].resv \in [VMs -> Reservation]
         /\ mem[t].pools \in [Pools -> AnyClass \cup {"absent"}]
<1>1. mem[t] \in Image /\ Sound(mem[t]) /\ OpTyped(op[t]) /\ op[t] \in Operation
  BY TypeUnfold DEF Inv
<1> QED BY <1>1, Fields

(* Operations that leave the VMs and the reservations of the copy alone.    *)
LEMMA PoolsSteps ==
  ASSUME Inv, NEW t \in Threads,
         \/ CreatePool(t) \/ UpdatePool(t) \/ ScalePool(t)
         \/ UpdateStreamHealth(t) \/ NoDesktop(t)
  PROVE  Inv'
<1> USE CopyTyped
<1>1. CASE CreatePool(t) \/ UpdatePool(t)
  <2> DEFINE i == [mem[t] EXCEPT !.pools[op[t].pool] = op[t].class]
  <2>1. Save(t, i) /\ UNCHANGED op
    BY <1>1 DEF CreatePool, UpdatePool
  <2>2. i \in Image /\ i.vms = mem[t].vms /\ i.resv = mem[t].resv
    <3>1. op[t].class \in AnyClass BY Fields
    <3> QED BY <3>1 DEF Image
  <2>3. Sound(i)
    BY <2>2 DEF Sound
  <2> HIDE DEF i
  <2> QED BY <2>1, <2>2, <2>3, SaveStep DEF KeepsOp
<1>2. CASE ScalePool(t) \/ UpdateStreamHealth(t) \/ NoDesktop(t)
  <2>1. Save(t, mem[t]) /\ UNCHANGED op
    BY <1>2 DEF ScalePool, UpdateStreamHealth, NoDesktop
  <2> QED BY <2>1, SaveStep DEF KeepsOp
<1> QED BY <1>1, <1>2

(* delete_pool only removes entries.                                        *)
LEMMA DeleteStep ==
  ASSUME Inv, NEW t \in Threads, DeletePool(t)
  PROVE  Inv'
<1> USE CopyTyped
<1> DEFINE p == op[t].pool
           m == [v \in VMs |-> IF mem[t].vms[v].pool = p THEN Unregistered ELSE mem[t].vms[v]]
           r == [v \in VMs |-> IF mem[t].resv[v].pool = p THEN NoReservation ELSE mem[t].resv[v]]
           q == [mem[t].pools EXCEPT ![p] = "absent"]
           i == [pools |-> q, vms |-> m, resv |-> r]
<1>1. Save(t, i) /\ UNCHANGED op
  BY DEF DeletePool
<1>2. m \in [VMs -> Vm] /\ r \in [VMs -> Reservation]
  BY NullTypes
<1>3. q \in [Pools -> AnyClass \cup {"absent"}]
  OBVIOUS
<1>4. i \in Image /\ i.vms = m /\ i.resv = r
  BY <1>2, <1>3 DEF Image
<1>5. SlotsOnce(r)
  <2>1. NoReservation.slot = NoSlot BY DEF NoReservation
  <2> QED BY <2>1 DEF SlotsOnce, Sound
<1>6. ActiveOnce(m)
  <2>1. Unregistered.state # "in_use" BY DEF Unregistered
  <2> QED BY <2>1 DEF ActiveOnce, Sound
<1>7. Sound(i)
  BY <1>4, <1>5, <1>6 DEF Sound
<1> HIDE DEF i
<1> QED BY <1>1, <1>4, <1>7, SaveStep DEF KeepsOp

(* A VM whose session ends, or whose deadline moves.                        *)
LEMMA EntrySteps ==
  ASSUME Inv, NEW t \in Threads,
         \/ ReleaseDesktop(t) \/ RecycleDesktop(t) \/ ResetFails(t)
         \/ ExtendKioskSession(t) \/ MarkExpired(t)
  PROVE  Inv'
<1> USE CopyTyped
<1> DEFINE v == op[t].vm
           m == mem[t].vms
           Writes(r) == Save(t, [mem[t] EXCEPT !.vms[v] = r]) /\ UNCHANGED op
<1>1. CASE ReleaseDesktop(t)
  <2> DEFINE r == ReleasedVm(t, m[v])
  <2>1. v \in VMs
    BY <1>1 DEF ReleaseDesktop, In, OpTyped
  <2>2. r \in Vm /\ r.state # "in_use"
    <3>1. m[v] \in Vm BY <2>1
    <3> QED BY <3>1 DEF ReleasedVm, Vm, VmStates
  <2>3. Writes(r)
    BY <1>1 DEF ReleaseDesktop
  <2> HIDE DEF r
  <2> QED BY <2>2, <2>3, EntryReplaced, QuietEntry, SaveStep DEF KeepsOp
<1>2. CASE RecycleDesktop(t)
  <2> DEFINE r == [Unregistered EXCEPT !.state = "free", !.pool = op[t].pool]
  <2>1. r \in Vm /\ r.state # "in_use"
    <3>1. op[t].pool \in Pools \cup {NoPool} BY Fields
    <3> QED BY <3>1 DEF Unregistered, Vm, VmStates
  <2>2. Writes(r)
    BY <1>2 DEF RecycleDesktop
  <2> HIDE DEF r
  <2> QED BY <2>1, <2>2, EntryReplaced, QuietEntry, SaveStep DEF KeepsOp
<1>3. CASE ResetFails(t) \/ MarkExpired(t)
  <2> PICK s \in {"error", "expired"} : Writes([m[v] EXCEPT !.state = s])
    BY <1>3 DEF ResetFails, MarkExpired
  <2> DEFINE r == [m[v] EXCEPT !.state = s]
  <2>1. v \in VMs
    BY <1>3 DEF ResetFails, MarkExpired, In, OpTyped
  <2>2. r \in Vm /\ r.state # "in_use"
    <3>1. m[v] \in Vm BY <2>1
    <3> QED BY <3>1 DEF Vm, VmStates
  <2>3. Writes(r)
    OBVIOUS
  <2> HIDE DEF r
  <2> QED BY <2>2, <2>3, EntryReplaced, QuietEntry, SaveStep DEF KeepsOp
<1>4. CASE ExtendKioskSession(t)
  <2> DEFINE d == Later(m[v].expires, now) + op[t].minutes
             r == [m[v] EXCEPT !.expires = d]
  <2>1. v \in VMs
    BY <1>4 DEF ExtendKioskSession, In, OpTyped
  <2>2. m[v] \in Vm
    BY <2>1
  <2>3. d \in Nat
    <3>1. m[v].expires \in Nat BY <2>2 DEF Vm
    <3>2. now \in Nat /\ op[t].minutes \in Nat BY TypeUnfold, Fields DEF Inv
    <3> QED BY <3>1, <3>2 DEF Later
  <2> HIDE DEF d
  <2>4. r \in Vm /\ r.user = m[v].user /\ r.pool = m[v].pool
    BY <2>2, <2>3 DEF Vm
  <2>5. m[v].state = "in_use"
    BY <1>4 DEF ExtendKioskSession
  <2>6. Writes(r)
    BY <1>4 DEF ExtendKioskSession, d
  <2> HIDE DEF r
  <2> QED BY <2>4, <2>5, <2>6, EntryReplaced, QuietEntry, SaveStep DEF KeepsOp
<1> QED BY <1>1, <1>2, <1>3, <1>4

(* register_vm takes only a slot that no reservation of the class holds.    *)
LEMMA RegisterStep ==
  ASSUME Inv, NEW t \in Threads, NEW inv, RegisterVm(t, inv)
  PROVE  Inv'
<1> USE CopyTyped
<1> DEFINE p == op[t].pool
           v == op[t].vm
           g == mem[t].pools[p]
           live == LiveReservations(mem[t])
           entry == [Unregistered EXCEPT !.pool = p, !.state = "free"]
           New(e, r) == [mem[t] EXCEPT !.vms[v] = e, !.resv = r]
<1>1. /\ v \in VMs /\ p \in Pools /\ g # "absent" /\ g \in AnyClass \cup {"absent"}
      /\ inv \subseteq SlotsOf(g)
      /\ UNCHANGED op
  <2>1. In(t, "register") /\ KnownPool(t) /\ UNCHANGED op
        /\ inv \subseteq SlotsOf(g)
    BY DEF RegisterVm
  <2>2. v \in VMs /\ p \in Pools
    BY <2>1 DEF In, OpTyped
  <2> QED BY <2>1, <2>2 DEF KnownPool
<1>2. live \in [VMs -> Reservation] /\ SlotsOnce(live)
  <2>1. live \in [VMs -> Reservation]
    BY NullTypes DEF LiveReservations
  <2>2. \A w \in VMs : live[w] = NoReservation \/ live[w] = mem[t].resv[w]
    BY DEF LiveReservations
  <2>3. NoReservation.slot = NoSlot
    BY DEF NoReservation
  <2> QED BY <2>1, <2>2, <2>3 DEF SlotsOnce, Sound
<1>3. ASSUME NEW e \in Vm, e.state # "in_use",
             NEW r \in [VMs -> Reservation], SlotsOnce(r), Save(t, New(e, r))
      PROVE  Inv'
  <2> DEFINE i == New(e, r)
             j == [mem[t] EXCEPT !.vms[v] = e]
  <2>1. i \in Image /\ i.resv = r /\ i.vms = j.vms
    BY DEF Image
  <2>2. Sound(j)
    BY <1>3, QuietEntry
  <2>3. Sound(i)
    BY <1>3, <2>1, <2>2 DEF Sound
  <2>4. Save(t, i) /\ KeepsOp(t)
    BY <1>1, <1>3 DEF KeepsOp
  <2> HIDE DEF i
  <2> QED BY <2>1, <2>3, <2>4, SaveStep
<1>4. /\ entry \in Vm /\ entry.state # "in_use"
      /\ [entry EXCEPT !.state = "pending-gpu"] \in Vm
      /\ [entry EXCEPT !.state = "pending-gpu"].state # "in_use"
  BY <1>1 DEF Unregistered, Vm, VmStates
<1>5. ASSUME NEW s \in inv \ ReservedSlots(live, g), g # NoClass
      PROVE  /\ [live EXCEPT ![v] = [class |-> g, slot |-> s, pool |-> p]]
                  \in [VMs -> Reservation]
             /\ SlotsOnce([live EXCEPT ![v] = [class |-> g, slot |-> s, pool |-> p]])
  <2> DEFINE c == [class |-> g, slot |-> s, pool |-> p]
             r == [live EXCEPT ![v] = c]
  <2>1. g \in Classes /\ s \in Slots
    <3>1. g \in Classes BY <1>1, <1>5 DEF AnyClass
    <3> QED BY <1>1, <1>5, <3>1, PoolAssumption DEF SlotsOf
  <2>2. c \in Reservation
    BY <1>1, <2>1 DEF Reservation, AnyClass
  <2>3. r \in [VMs -> Reservation] /\ \A w \in VMs : r[w] = IF w = v THEN c ELSE live[w]
    BY <1>1, <1>2, <2>2
  <2>4. \A w \in VMs : live[w].class = g => live[w].slot # s
    BY DEF ReservedSlots
  <2>5. SlotsOnce(r)
    <3> SUFFICES ASSUME NEW x \in VMs, NEW y \in VMs, x # y, r[x].slot # NoSlot,
                        r[x].class = r[y].class
                 PROVE  r[x].slot # r[y].slot
      BY DEF SlotsOnce
    <3>1. CASE x = v
      <4>1. r[x].class = g /\ r[x].slot = s /\ r[y] = live[y]
        BY <2>3, <3>1
      <4> QED BY <4>1, <2>4
    <3>2. CASE y = v
      <4>1. r[y].class = g /\ r[y].slot = s /\ r[x] = live[x]
        BY <2>3, <3>2
      <4> QED BY <4>1, <2>4
    <3>3. CASE x # v /\ y # v
      <4>1. r[x] = live[x] /\ r[y] = live[y]
        BY <2>3, <3>3
      <4> QED BY <4>1, <1>2 DEF SlotsOnce
    <3> QED BY <3>1, <3>2, <3>3
  <2> QED BY <2>3, <2>5
<1>6. \/ Save(t, New(entry, live))
      \/ /\ g # NoClass
         /\ \E s \in inv \ ReservedSlots(live, g) :
              Save(t, New(entry, [live EXCEPT ![v] = [class |-> g, slot |-> s, pool |-> p]]))
      \/ Save(t, New([entry EXCEPT !.state = "pending-gpu"], live))
  BY DEF RegisterVm
<1> HIDE DEF New, entry, live
<1> QED BY <1>2, <1>3, <1>4, <1>5, <1>6

(* allocate_desktop starts a session in a persistent pool only after it has *)
(* found no session of the user there.                                      *)
LEMMA TakeStep ==
  ASSUME Inv, NEW t \in Threads, TakeDesktop(t)
  PROVE  Inv'
<1> USE CopyTyped
<1> DEFINE p == op[t].pool
           u == op[t].user
           m == mem[t].vms
           r(v) == [m[v] EXCEPT !.state = "in_use", !.user = u, !.assigned = now,
                                !.expires = now + Limit[p]]
<1>1. In(t, "allocate") /\ p \in Pools /\ u \in Users
  BY DEF TakeDesktop, In, OpTyped
<1>2. PICK v \in IF Reuses(t) # {} THEN Reuses(t) ELSE Unassigned(t) :
             m[v].state # "in_use" /\ TakesVm(t, v)
  BY DEF TakeDesktop
<1>3. v \in VMs /\ m[v].pool = p
  BY <1>2 DEF Reuses, Leased, Owned, Unassigned, PoolVms
<1>4. p \in Persistent => Leased(t) = {}
  <2> SUFFICES ASSUME p \in Persistent, Leased(t) # {} PROVE FALSE
    OBVIOUS
  <2>1. Reuses(t) = Leased(t)
    BY DEF Reuses
  <2>2. v \in Leased(t)
    BY <1>2, <2>1
  <2> QED BY <1>2, <2>2 DEF Leased
<1>5. \A w \in VMs : m[w].pool = p /\ m[w].user = u /\ p \in Persistent
                       => m[w].state # "in_use"
  BY <1>4 DEF Leased, PoolVms
<1>6. r(v) \in Vm /\ r(v).state = "in_use" /\ r(v).user = u /\ r(v).pool = p
  <2>1. m[v] \in Vm BY <1>3
  <2>2. now \in Nat /\ now + Limit[p] \in Nat
    BY <1>1, TypeUnfold, PoolAssumption DEF Inv
  <2> QED BY <1>1, <1>3, <2>1, <2>2 DEF Vm, VmStates
<1> DEFINE e == r(v)
           i == [mem[t] EXCEPT !.vms[v] = e]
<1>7. Save(t, i) /\ KeepsOp(t)
  <2>1. Save(t, i) /\ op' = [op EXCEPT ![t] = [@ EXCEPT !.vm = v]]
    BY <1>2 DEF TakesVm
  <2> QED BY <1>3, <2>1 DEF KeepsOp
<1>8. e \in Vm /\ e.user = u /\ e.pool = p
  BY <1>6
<1> HIDE DEF e
<1>9. i \in Image /\ i.vms = [m EXCEPT ![v] = e] /\ i.resv = mem[t].resv
  BY <1>8 DEF Image
<1>10. ActiveOnce(i.vms)
  <2> DEFINE n == [m EXCEPT ![v] = e]
  <2> SUFFICES ASSUME NEW x \in VMs, NEW y \in VMs,
                      n[x].state = "in_use", n[y].state = "in_use",
                      n[x].user = n[y].user, n[x].pool = n[y].pool,
                      n[x].pool \in Persistent
               PROVE  x = y
    BY <1>9 DEF ActiveOnce
  <2>1. \A z \in VMs : n[z] = IF z = v THEN e ELSE m[z]
    OBVIOUS
  <2>2. CASE x = v /\ y # v
    BY <1>5, <1>8, <2>1, <2>2
  <2>3. CASE y = v /\ x # v
    BY <1>5, <1>8, <2>1, <2>3
  <2>4. CASE x # v /\ y # v
    <3>1. n[x] = m[x] /\ n[y] = m[y] BY <2>1, <2>4
    <3> QED BY <3>1 DEF ActiveOnce, Sound
  <2> QED BY <2>2, <2>3, <2>4
<1>11. Sound(i)
  BY <1>9, <1>10 DEF Sound
<1> HIDE DEF i
<1> QED BY <1>7, <1>9, <1>11, SaveStep

-----------------------------------------------------------------------------
(* The other steps, and the theorems                                        *)

(* Steps that begin an operation, or end it without a save.                 *)
LEMMA OpStep ==
  ASSUME Inv, ThreadsOK', UNCHANGED <<repo, fileVars, boundVars>>,
         todo' \in [Threads -> SUBSET (Pools \X VMs)],
         holders' \in [VMs -> SUBSET Users], residue' \in [VMs -> SUBSET Users]
  PROVE  Inv'
<1>1. TypeOK'
  BY TypeUnfold DEF Inv, TypeOK, ThreadsOK, OpTyped, Pcs, fileVars, boundVars
<1> QED BY <1>1 DEF Inv, ThreadsOK, fileVars

(* Calls, and operations that follow another one in the same thread.        *)
LEMMA BeginSteps ==
  ASSUME Inv, NEW t \in Threads,
         \/ \E o \in Requests : Call(t, o)
         \/ ReleaseNext(t) \/ Continue(t)
  PROVE  Inv'
<1> USE TypeUnfold, CopyTyped DEF Inv
<1>1. CASE \E o \in Requests : Call(t, o)
  <2> PICK o \in Requests : Call(t, o) BY <1>1
  <2>1. ThreadsOK'
    BY RequestTypes, StartsStep DEF Call
  <2> QED BY <2>1, OpStep DEF Call, history
<1>2. CASE ReleaseNext(t)
  <2> PICK item \in todo[t] :
        /\ StartsWith(t, [VmRequest("release", item[1], item[2], 0) EXCEPT !.expiring = TRUE])
        /\ todo' = [todo EXCEPT ![t] = @ \ {item}]
    BY <1>2 DEF ReleaseNext
  <2>1. item[1] \in Pools /\ item[2] \in VMs
    OBVIOUS
  <2>2. OpTyped([VmRequest("release", item[1], item[2], 0) EXCEPT !.expiring = TRUE])
    BY <2>1 DEF OpTyped, VmRequest, Request, Operation, AnyClass
  <2>3. ThreadsOK'
    BY <2>2, StartsStep
  <2>4. todo' \in [Threads -> SUBSET (Pools \X VMs)]
    OBVIOUS
  <2> QED BY <1>2, <2>3, <2>4, OpStep DEF ReleaseNext, history
<1>3. CASE Continue(t)
  <2>1. ThreadsOK'
    BY <1>3, StartsStep DEF Continue
  <2> QED BY <1>3, <2>1, OpStep DEF Continue, history
<1> QED BY <1>1, <1>2, <1>3

(* What an operation that raises leaves behind.                             *)
LEMMA RaisesStep ==
  ASSUME Inv, NEW t \in Threads, Raises(t)
  PROVE  ThreadsOK' /\ todo' \in [Threads -> SUBSET (Pools \X VMs)]
<1> USE TypeUnfold, CopyTyped DEF Inv
<1>1. CASE op[t].expiring
  <2>1. op[t].vm \in VMs
    BY <1>1 DEF OpTyped
  <2>2. OpTyped(VmRequest("mark", NoPool, op[t].vm, 0))
    BY <2>1 DEF OpTyped, VmRequest, Request, Operation, AnyClass
  <2> QED BY <1>1, <2>2, EndsStep DEF Raises
<1>2. CASE ~op[t].expiring
  <2>1. Ends(t) /\ todo' = IF pc[t] = "saving" THEN [todo EXCEPT ![t] = {}] ELSE todo
    BY <1>2 DEF Raises
  <2>2. ThreadsOK'
    BY <2>1, EndsStep
  <2> QED BY <2>1, <2>2
<1> QED BY <1>1, <1>2

(* Steps that end an operation early, or only read.                         *)
LEMMA EndSteps ==
  ASSUME Inv, NEW t \in Threads,
         \/ ReturnLease(t) \/ ExpireOverdueSessions(t) \/ Raise(t)
         \/ ReadPools(t) \/ ResetToTemplate(t)
  PROVE  Inv'
<1> USE TypeUnfold, CopyTyped DEF Inv
<1>1. CASE ReturnLease(t)
  <2>1. ThreadsOK'
    BY <1>1, EndsStep DEF ReturnLease
  <2>2. op[t].user \in Users
    BY <1>1 DEF ReturnLease, In, OpTyped
  <2>3. holders' \in [VMs -> SUBSET Users]
    BY <1>1, <2>2 DEF ReturnLease
  <2> QED BY <1>1, <2>1, <2>3, OpStep DEF ReturnLease
<1>2. CASE ExpireOverdueSessions(t)
  <2>1. ThreadsOK'
    BY <1>2, EndsStep DEF ExpireOverdueSessions
  <2>2. {<<mem[t].vms[v].pool, v>> : v \in Overdue(mem[t])} \in SUBSET (Pools \X VMs)
    BY DEF Overdue
  <2>3. todo' \in [Threads -> SUBSET (Pools \X VMs)]
    BY <1>2, <2>2 DEF ExpireOverdueSessions
  <2> QED BY <1>2, <2>1, <2>3, OpStep DEF ExpireOverdueSessions, history
<1>3. CASE Raise(t)
  BY <1>3, RaisesStep, OpStep DEF Raise, history
<1>4. CASE ReadPools(t)
  <2> DEFINE i == [mem[t] EXCEPT !.pools = repo]
  <2>1. i \in Image /\ i.vms = mem[t].vms /\ i.resv = mem[t].resv
    BY DEF Image
  <2>2. Sound(i)
    BY <2>1 DEF Sound
  <2>3. mem' = [mem EXCEPT ![t] = i] /\ pc' = [pc EXCEPT ![t] = "loaded"]
    BY <1>4 DEF ReadPools
  <2> HIDE DEF i
  <2>4. ThreadsOK'
    <3>1. pc' \in [Threads -> Pcs] /\ mem' \in [Threads -> Image]
      BY <2>1, <2>3 DEF Pcs
    <3>2. \A u \in Threads : Sound(mem'[u])
      BY <2>2, <2>3
    <3>3. op' = op
      BY <1>4 DEF ReadPools
    <3> QED BY <3>1, <3>2, <3>3 DEF ThreadsOK
  <2> QED BY <1>4, <2>4, OpStep DEF ReadPools, history
<1>5. CASE ResetToTemplate(t)
  <2>1. ThreadsOK'
    BY <1>5 DEF ResetToTemplate, ThreadsOK, OpTyped, Pcs
  <2>2. residue' \in [VMs -> SUBSET Users]
    BY <1>5 DEF ResetToTemplate
  <2> QED BY <1>5, <2>1, <2>2, OpStep DEF ResetToTemplate
<1> QED BY <1>1, <1>2, <1>3, <1>4, <1>5

(* SaveFile makes the copy the file.                                        *)
LEMMA FileSteps ==
  ASSUME Inv, NEW t \in Threads, SaveFile(t) \/ SaveFails(t)
  PROVE  Inv'
<1> USE TypeUnfold, CopyTyped DEF Inv
<1>1. CASE SaveFile(t)
  <2>1. vms' = mem[t].vms /\ resv' = mem[t].resv
    BY <1>1 DEF SaveFile
  <2>2. ThreadsOK'
    <3>1. \/ Ends(t)
          \/ op[t].kind = "release" /\ GoesOnWith(t, [op[t] EXCEPT !.kind = "recycle"])
      BY <1>1 DEF SaveFile
    <3>2. op[t].kind = "release" => OpTyped([op[t] EXCEPT !.kind = "recycle"])
      BY DEF OpTyped, Operation
    <3> QED BY <3>1, <3>2, EndsStep, NullTypes
  <2>3. /\ holders' \in [VMs -> SUBSET Users]
        /\ residue' \in [VMs -> SUBSET Users]
    <3>1. op[t].kind = "allocate" => op[t].user \in Users
      BY DEF OpTyped
    <3> QED BY <1>1, <3>1 DEF SaveFile
  <2>4. TypeOK'
    BY <1>1, <2>1, <2>2, <2>3 DEF SaveFile, TypeOK, ThreadsOK, OpTyped, Pcs, boundVars
  <2> QED BY <2>1, <2>2, <2>4 DEF ThreadsOK, Sound
<1>2. CASE SaveFails(t)
  <2>1. ThreadsOK' /\ todo' \in [Threads -> SUBSET (Pools \X VMs)]
    BY <1>2, RaisesStep DEF SaveFails
  <2>2. failures' \in Nat
    BY <1>2 DEF SaveFails
  <2>3. TypeOK'
    BY <1>2, <2>1, <2>2
       DEF SaveFails, TypeOK, ThreadsOK, OpTyped, Pcs, fileVars, history
  <2> QED BY <1>2, <2>1, <2>3 DEF SaveFails, ThreadsOK, fileVars
<1> QED BY <1>1, <1>2

(* The invariant is inductive.                                              *)
LEMMA InvInit == Init => Inv
<1> SUFFICES ASSUME Init PROVE Inv
  OBVIOUS
<1> USE NullTypes
<1>1. TypeOK
  BY DEF Init, TypeOK, OpTyped
<1>2. SlotsOnce(resv) /\ ActiveOnce(vms) /\ \A t \in Threads : Sound(mem[t])
  BY DEF Init, SlotsOnce, ActiveOnce, Unregistered, NoReservation
<1> QED BY <1>1, <1>2 DEF Inv

(* Each step of Next falls into one of the classes above.                   *)
LEMMA InvStep == Inv /\ [Next]_vars => Inv'
<1> SUFFICES ASSUME Inv, [Next]_vars PROVE Inv'
  OBVIOUS
<1>1. CASE UNCHANGED vars
  BY <1>1 DEF Inv, TypeOK, SlotsOnce, ActiveOnce, Sound,
              vars, fileVars, threadVars, boundVars, history
<1>2. CASE Tick
  <2>1. now' \in Nat
    BY <1>2 DEF Tick, Inv, TypeOK
  <2> QED BY <1>2, <2>1 DEF Tick, Inv, TypeOK, SlotsOnce, ActiveOnce, Sound,
                            fileVars, threadVars, history
<1>3. ASSUME NEW t \in Threads,
             \/ \E o \in {r \in Requests : r.kind \in Kinds} : Call(t, o)
             \/ ReadPools(t) \/ PoolStep(t)
             \/ \E inv \in SUBSET Slots : RegisterVm(t, inv)
             \/ UpdateStreamHealth(t)
             \/ LeaseStep(t) \/ ReleaseDesktop(t) \/ ResetStep(t) \/ LimitStep(t)
             \/ Raise(t) \/ SaveFile(t) \/ SaveFails(t) \/ Continue(t)
      PROVE  Inv'
  <2>1. CASE \/ \E o \in Requests : Call(t, o)
             \/ ReleaseNext(t) \/ Continue(t)
    BY <2>1, BeginSteps
  <2>2. CASE \/ ReturnLease(t) \/ ExpireOverdueSessions(t) \/ Raise(t)
             \/ ReadPools(t) \/ ResetToTemplate(t)
    BY <2>2, EndSteps
  <2>3. CASE \/ CreatePool(t) \/ UpdatePool(t) \/ ScalePool(t)
             \/ UpdateStreamHealth(t) \/ NoDesktop(t)
    BY <2>3, PoolsSteps
  <2>4. CASE \/ ReleaseDesktop(t) \/ RecycleDesktop(t) \/ ResetFails(t)
             \/ ExtendKioskSession(t) \/ MarkExpired(t)
    BY <2>4, EntrySteps
  <2>5. CASE DeletePool(t)
    BY <2>5, DeleteStep
  <2>6. CASE \E inv \in SUBSET Slots : RegisterVm(t, inv)
    BY <2>6, RegisterStep
  <2>7. CASE TakeDesktop(t)
    BY <2>7, TakeStep
  <2>8. CASE SaveFile(t) \/ SaveFails(t)
    BY <2>8, FileSteps
  <2> QED BY <1>3, <2>1, <2>2, <2>3, <2>4, <2>5, <2>6, <2>7, <2>8
          DEF PoolStep, LeaseStep, ResetStep, LimitStep
<1> QED BY <1>1, <1>2, <1>3 DEF Next

(* The variables keep their types, whatever the threads do.                 *)
THEOREM TypeCorrect == Spec => []TypeOK
<1>1. Inv => TypeOK
  BY DEF Inv
<1> QED BY <1>1, InvInit, InvStep, PTL DEF Spec

(* register_vm never reserves a slot twice within a GPU class, although     *)
(* nothing keeps two threads from registering VMs at the same time.         *)
THEOREM SlotsAreReservedOnce == Spec => []SlotReservedOnce
<1>1. Inv => SlotReservedOnce
  BY DEF Inv, SlotsOnce, SlotReservedOnce
<1> QED BY <1>1, InvInit, InvStep, PTL DEF Spec

(* allocate_desktop never starts a second session of a user in a persistent *)
(* or dedicated pool.                                                       *)
THEOREM OneSessionPerUser == Spec => []OneActiveDesktop
<1>1. Inv => OneActiveDesktop
  BY DEF Inv, ActiveOnce, OneActiveDesktop
<1> QED BY <1>1, InvInit, InvStep, PTL DEF Spec

=============================================================================
