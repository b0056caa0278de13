----------------------------- MODULE DesktopPool -----------------------------
(***************************************************************************)
(* Desktop pools (beagle-host/services/pool_manager.py): pools of virtual   *)
(* machines that are leased to users, given back, reset to their template   *)
(* and, for GPU pools, bound to a GPU slot.                                 *)
(*                                                                          *)
(* The service has no lock.  Every operation runs in the request thread of  *)
(* a ThreadingHTTPServer: it loads the whole state, changes its copy and    *)
(* saves the whole copy.  The pools live in a SQLite table, the VMs and the *)
(* GPU reservations in desktop-pools.json, each read and written in one     *)
(* atomic step; JsonStateStore locks a read or a write, not the pair.       *)
(*                                                                          *)
(* An operation is therefore a sequence of steps of its thread:             *)
(*   Call or Continue (read the file), ReadPools (read the table), for      *)
(*   recycle ResetToTemplate, then one step per operation that changes the  *)
(*   copy and writes the table, and SaveFile.                               *)
(* holders and residue are history variables: who has been handed a VM, and *)
(* whose data a VM carries.                                                 *)
(***************************************************************************)
EXTENDS Integers, FiniteSets

CONSTANTS
  Threads,      \* request threads
  Pools,        \* pool ids
  Persistent,   \* pools of mode floating_persistent or dedicated
  Kiosk,        \* pools of type kiosk
  Limit,        \* pool -> session_time_limit_minutes, 0 for no limit
  VMs, Users,
  Classes,      \* GPU classes
  Slots,        \* PCI addresses of GPUs
  Matches,      \* GPU class -> the slots _gpu_matches_class accepts
  Extensions,   \* session_extension_options_minutes
  NoPool, NoVM, NoUser, NoClass, NoSlot,    \* null values
  Kinds,        \* the operations that are called in this instance
  ReRegister,   \* is register_vm called for a VM that is in a pool already?
  MaxClock, MaxFailures   \* bounds of the instance: time, failing saves

AnyClass == Classes \cup {NoClass}

(* A kiosk pool without a limit is refused by create_pool.                  *)
ASSUME PoolAssumption ==
  /\ Persistent \subseteq Pools /\ Kiosk \subseteq Pools
  /\ Limit \in [Pools -> Nat]
  /\ \A p \in Kiosk : Limit[p] > 0
  /\ Matches \in [Classes -> SUBSET Slots]
  /\ Extensions \subseteq Nat \ {0}

ASSUME NullAssumption ==
  /\ NoPool \notin Pools /\ NoVM \notin VMs /\ NoUser \notin Users
  /\ NoClass \notin Classes /\ NoSlot \notin Slots /\ "absent" \notin AnyClass
  /\ ReRegister \in BOOLEAN
  /\ MaxClock \in Nat /\ MaxFailures \in Nat

VmStates == {"free", "in_use", "recycling", "error", "pending-gpu", "expired"}
Vm == [state : VmStates \cup {"none"}, pool : Pools \cup {NoPool},
       user : Users \cup {NoUser}, assigned : Nat, expires : Nat]
Reservation == [class : AnyClass, slot : Slots \cup {NoSlot},
                pool : Pools \cup {NoPool}]

Unregistered == [state |-> "none", pool |-> NoPool, user |-> NoUser,
                 assigned |-> 0, expires |-> 0]
NoReservation == [class |-> NoClass, slot |-> NoSlot, pool |-> NoPool]

VARIABLES
  repo,      \* the SQLite table: pool -> its gpu_class, or "absent"
  vms,       \* "vms" of desktop-pools.json
  resv,      \* "gpu_reservations" of desktop-pools.json
  pc,        \* thread -> "idle" or the step its operation is at
  op,        \* thread -> the operation it is in
  mem,       \* thread -> its copy of the state
  todo,      \* thread -> sessions its expire_overdue_sessions has still to end
  now, failures,
  holders,   \* history: VM -> users who were handed it and still rely on it
  residue    \* history: VM -> users whose data it carries since its last reset

fileVars == <<vms, resv>>
threadVars == <<pc, op, mem, todo>>
boundVars == <<now, failures>>
history == <<holders, residue>>
vars == <<repo, fileVars, threadVars, boundVars, history>>

Image == [vms : [VMs -> Vm], resv : [VMs -> Reservation],
          pools : [Pools -> AnyClass \cup {"absent"}]]

NoImage == [vms |-> [v \in VMs |-> Unregistered], resv |-> [v \in VMs |-> NoReservation],
            pools |-> [p \in Pools |-> "absent"]]

Operation == [kind : {"none", "create", "update", "delete", "scale", "allocate",
                      "register", "release", "recycle", "health", "extend",
                      "expire", "mark"},
              pool : Pools \cup {NoPool}, vm : VMs \cup {NoVM},
              user : Users \cup {NoUser}, class : AnyClass, minutes : Nat,
              expiring : BOOLEAN]
Request(kind, p, v, u, g, m) ==
  [kind |-> kind, pool |-> p, vm |-> v, user |-> u, class |-> g, minutes |-> m,
   expiring |-> FALSE]
PoolRequest(kind, p, g) == Request(kind, p, NoVM, NoUser, g, 0)
VmRequest(kind, p, v, m) == Request(kind, p, v, NoUser, NoClass, m)
LeaseRequest(p, u) == Request("allocate", p, NoVM, u, NoClass, 0)
NoOp == PoolRequest("none", NoPool, NoClass)
ExpireRequest == PoolRequest("expire", NoPool, NoClass)

(* The calls the HTTP routes make, with their arguments.                    *)
Requests ==
  {PoolRequest(k, p, g) : k \in {"create", "update"}, p \in Pools, g \in AnyClass}
  \cup {PoolRequest(k, p, NoClass) : k \in {"delete", "scale"}, p \in Pools}
  \cup {LeaseRequest(p, u) : p \in Pools, u \in Users}
  \cup {VmRequest(k, p, v, 0) : k \in {"register", "release", "recycle", "health"},
                               p \in Pools, v \in VMs}
  \cup {VmRequest("extend", p, v, m) : p \in Pools, v \in VMs, m \in Extensions}
  \cup {ExpireRequest}

Init ==
  /\ repo = [p \in Pools |-> "absent"]
  /\ vms = [v \in VMs |-> Unregistered]
  /\ resv = [v \in VMs |-> NoReservation]
  /\ pc = [t \in Threads |-> "idle"]
  /\ op = [t \in Threads |-> NoOp]
  /\ mem = [t \in Threads |-> NoImage]
  /\ todo = [t \in Threads |-> {}]
  /\ now = 0 /\ failures = 0
  /\ holders = [v \in VMs |-> {}]
  /\ residue = [v \in VMs |-> {}]

-----------------------------------------------------------------------------
(* The steps that all operations share                                      *)

(* _load, first half: the file is read.                                     *)
StartsWith(t, o) ==
  /\ op' = [op EXCEPT ![t] = o]
  /\ mem' = [mem EXCEPT ![t] = [@ EXCEPT !.vms = vms, !.resv = resv]]
  /\ pc' = [pc EXCEPT ![t] = "reading"]

(* The operation is over and its copy of the state is gone.                 *)
Ends(t) ==
  /\ pc' = [pc EXCEPT ![t] = "idle"]
  /\ op' = [op EXCEPT ![t] = NoOp]
  /\ mem' = [mem EXCEPT ![t] = NoImage]

(* It goes on with another one, which loads the state anew.                 *)
GoesOnWith(t, o) ==
  /\ pc' = [pc EXCEPT ![t] = "continue"]
  /\ op' = [op EXCEPT ![t] = o]
  /\ mem' = [mem EXCEPT ![t] = NoImage]

Call(t, o) ==
  /\ pc[t] = "idle" /\ todo[t] = {}
  /\ o.kind = "register" => ReRegister \/ vms[o.vm].state = "none"
  /\ o.kind = "extend" => vms[o.vm].expires <= MaxClock    \* bound
  /\ StartsWith(t, o)
  /\ UNCHANGED <<repo, fileVars, todo, boundVars, history>>

(* _load, second half: the pools of the repository overlay the file's.      *)
ReadPools(t) ==
  /\ pc[t] = "reading"
  /\ mem' = [mem EXCEPT ![t] = [@ EXCEPT !.pools = repo]]
  /\ pc' = [pc EXCEPT ![t] = "loaded"]
  /\ UNCHANGED <<repo, fileVars, op, todo, boundVars, history>>

(* _save, first half: the pools of the copy replace those of the            *)
(* repository, which includes deleting the ones the copy does not have.     *)
Save(t, image) ==
  /\ mem' = [mem EXCEPT ![t] = image]
  /\ repo' = image.pools
  /\ pc' = [pc EXCEPT ![t] = "saving"]
  /\ UNCHANGED <<fileVars, todo, boundVars, history>>

In(t, kind) == pc[t] = "loaded" /\ op[t].kind = kind
KnownPool(t) == mem[t].pools[op[t].pool] # "absent"
KnownVm(t) == mem[t].vms[op[t].vm].pool = op[t].pool
PoolVms(t) == {v \in VMs : mem[t].vms[v].pool = op[t].pool}

-----------------------------------------------------------------------------
(* Pools                                                                    *)

CreatePool(t) ==
  /\ In(t, "create") /\ ~KnownPool(t)
  /\ Save(t, [mem[t] EXCEPT !.pools[op[t].pool] = op[t].class])
  /\ UNCHANGED op

DeletePool(t) ==
  LET p == op[t].pool IN
  /\ In(t, "delete") /\ KnownPool(t)
  /\ Save(t, [pools |-> [mem[t].pools EXCEPT ![p] = "absent"],
              vms |-> [v \in VMs |-> IF mem[t].vms[v].pool = p THEN Unregistered
                                     ELSE mem[t].vms[v]],
              resv |-> [v \in VMs |-> IF mem[t].resv[v].pool = p THEN NoReservation
                                      ELSE mem[t].resv[v]]])
  /\ UNCHANGED op

(* update_pool, for the one field the properties depend on.                 *)
UpdatePool(t) ==
  /\ In(t, "update") /\ KnownPool(t)
  /\ Save(t, [mem[t] EXCEPT !.pools[op[t].pool] = op[t].class])
  /\ UNCHANGED op

(* scale_pool, and update_pool for its other fields, change nothing the     *)
(* model keeps: the copy is saved as it was loaded.                         *)
ScalePool(t) ==
  /\ In(t, "scale") /\ KnownPool(t)
  /\ Save(t, mem[t])
  /\ UNCHANGED op

(* Nor does update_stream_health, which stream telemetry calls all the time.*)
UpdateStreamHealth(t) ==
  /\ In(t, "health") /\ KnownVm(t)
  /\ Save(t, mem[t])
  /\ UNCHANGED op

-----------------------------------------------------------------------------
(* register_vm                                                              *)

(* _cleanup_stale_gpu_reservations                                          *)
LiveReservations(image) ==
  [v \in VMs |-> IF image.vms[v].state = "none" THEN NoReservation ELSE image.resv[v]]

(* The slots a GPU class can be given: _gpu_slots_by_node.                   *)
SlotsOf(g) == IF g = NoClass THEN {} ELSE Matches[g]

(* Mutant of ReservedSlots: no slot counts as reserved.                     *)
ReservedSlotsNone(reservations, g) == {}

(* _reserved_slots: only reservations of the same class count.              *)
ReservedSlots(reservations, g) ==
  {reservations[v].slot : v \in {w \in VMs : reservations[w].class = g}}

(* The GPU part of register_vm: the inventory shows the slots inv (an error *)
(* of the inventory shows none), and the first one of them that is not      *)
(* reserved is taken; inventory order and node choice are left open.        *)
RegisterVm(t, inv) ==
  LET p == op[t].pool
      v == op[t].vm
      g == mem[t].pools[p]
      live == LiveReservations(mem[t])
      available == inv \ ReservedSlots(live, g)
      entry == [Unregistered EXCEPT !.pool = p, !.state = "free"]
  IN
  /\ In(t, "register") /\ KnownPool(t)
  /\ inv \subseteq SlotsOf(g)
  /\ \/ /\ g = NoClass
        /\ Save(t, [mem[t] EXCEPT !.vms[v] = entry, !.resv = live])
     \/ /\ g # NoClass
        /\ \E s \in available :
             Save(t, [mem[t] EXCEPT !.vms[v] = entry,
                        !.resv = [live EXCEPT ![v] = [class |-> g, slot |-> s, pool |-> p]]])
     \/ /\ g # NoClass /\ available = {}
        /\ Save(t, [mem[t] EXCEPT !.vms[v] = [entry EXCEPT !.state = "pending-gpu"],
                                  !.resv = live])
  /\ UNCHANGED op

-----------------------------------------------------------------------------
(* allocate_desktop                                                         *)

Leased(t) ==
  {v \in PoolVms(t) : mem[t].vms[v].user = op[t].user /\ mem[t].vms[v].state = "in_use"}
Owned(t) ==
  {v \in PoolVms(t) : mem[t].vms[v].user = op[t].user /\ mem[t].vms[v].state = "free"}

(* Mutant of Unassigned: a VM under reset counts as free.                   *)
UnassignedInRecycling(t) ==
  {v \in PoolVms(t) : mem[t].vms[v].user = NoUser
                      /\ mem[t].vms[v].state \in {"free", "recycling"}}

Unassigned(t) ==
  {v \in PoolVms(t) : mem[t].vms[v].user = NoUser /\ mem[t].vms[v].state = "free"}

(* Mutant of Reuses: an existing lease is not looked for.                   *)
ReusesOwnedOnly(t) == IF op[t].pool \in Persistent THEN Owned(t) ELSE {}

(* What a persistent or dedicated pool already holds for the user: the VM   *)
(* in use, else the one kept free for the user.                             *)
Reuses(t) ==
  CASE op[t].pool \notin Persistent -> {}
    [] Leased(t) # {} -> Leased(t)
    [] OTHER -> Owned(t)

(* Mutants of TakesVm: the lease is entered after the save; the VM gets a   *)
(* state no other operation knows.                                          *)
TakesVmUnsaved(t, v) ==
  Save(t, mem[t]) /\ op' = [op EXCEPT ![t] = [@ EXCEPT !.vm = v]]
TakesVmAssigned(t, v) ==
  /\ Save(t, [mem[t] EXCEPT !.vms[v] = [@ EXCEPT !.state = "assigned",
                !.user = op[t].user, !.assigned = now, !.expires = now + Limit[op[t].pool]]])
  /\ op' = [op EXCEPT ![t] = [@ EXCEPT !.vm = v]]

(* The lease starts now; session_expires_at is set when there is a limit    *)
(* (here: expires is only looked at in pools with a limit).                 *)
TakesVm(t, v) ==
  /\ Save(t, [mem[t] EXCEPT !.vms[v] = [@ EXCEPT !.state = "in_use",
                !.user = op[t].user, !.assigned = now, !.expires = now + Limit[op[t].pool]]])
  /\ op' = [op EXCEPT ![t] = [@ EXCEPT !.vm = v]]

(* A VM that is already in use by this user is returned without a save.     *)
ReturnLease(t) ==
  \E v \in Reuses(t) :
    /\ In(t, "allocate") /\ KnownPool(t)
    /\ mem[t].vms[v].state = "in_use"
    /\ Ends(t)
    /\ holders' = [holders EXCEPT ![v] = @ \cup {op[t].user}]
    /\ UNCHANGED <<repo, fileVars, todo, boundVars, residue>>

TakeDesktop(t) ==
  /\ In(t, "allocate") /\ KnownPool(t)
  /\ \E v \in IF Reuses(t) # {} THEN Reuses(t) ELSE Unassigned(t) :
       /\ mem[t].vms[v].state # "in_use"
       /\ TakesVm(t, v)

(* No desktop: a "miss" is recorded, that is the copy is saved as it was,   *)
(* and RuntimeError is raised.                                              *)
NoDesktop(t) ==
  /\ In(t, "allocate") /\ KnownPool(t)
  /\ Reuses(t) = {} /\ Unassigned(t) = {}
  /\ Save(t, mem[t])
  /\ UNCHANGED op

-----------------------------------------------------------------------------
(* release_desktop, recycle_desktop                                         *)

(* The mode of the operation's pool; a pool that is not in the table (any   *)
(* more) counts as non-persistent.                                          *)
KeepsUser(t) == KnownPool(t) /\ op[t].pool \in Persistent

(* Mutant of ReleasedVm: a VM of a non-persistent pool is free at once.     *)
ReleasedVmAtOnce(t, vm) ==
  IF KeepsUser(t)
    THEN [vm EXCEPT !.state = "free", !.expires = 0]
    ELSE [vm EXCEPT !.state = "free", !.user = NoUser, !.assigned = 0, !.expires = 0]

(* release_desktop does not look at the VM's state nor at who releases it.  *)
ReleasedVm(t, vm) ==
  IF KeepsUser(t)
    THEN [vm EXCEPT !.state = "free", !.expires = 0]
    ELSE [vm EXCEPT !.state = "recycling", !.user = NoUser, !.assigned = 0, !.expires = 0]

ReleaseDesktop(t) ==
  /\ In(t, "release") /\ KnownVm(t)
  /\ Save(t, [mem[t] EXCEPT !.vms[op[t].vm] = ReleasedVm(t, @)])
  /\ UNCHANGED op

(* recycle_desktop calls reset_vm_to_template after the load; the VM's data *)
(* is gone, or the callback raises.                                         *)
ResetToTemplate(t) ==
  /\ In(t, "recycle") /\ KnownVm(t)
  /\ pc' = [pc EXCEPT ![t] = "reset"]
  /\ residue' = [residue EXCEPT ![op[t].vm] = {}]
  /\ UNCHANGED <<repo, fileVars, op, mem, todo, boundVars, holders>>

RecycleDesktop(t) ==
  LET v == op[t].vm IN
  /\ pc[t] = "reset"
  /\ Save(t, [mem[t] EXCEPT !.vms[v] = [Unregistered EXCEPT !.state = "free", !.pool = op[t].pool]])
  /\ UNCHANGED op

ResetFails(t) ==
  /\ In(t, "recycle") /\ KnownVm(t)
  /\ Save(t, [mem[t] EXCEPT !.vms[op[t].vm] = [@ EXCEPT !.state = "error"]])
  /\ UNCHANGED op

-----------------------------------------------------------------------------
(* Time limits                                                              *)

Later(a, b) == IF a < b THEN b ELSE a

(* extend_kiosk_session: the deadline, or now when it has passed, plus the  *)
(* minutes.                                                                 *)
ExtendKioskSession(t) ==
  LET v == op[t].vm IN
  /\ In(t, "extend") /\ KnownPool(t) /\ KnownVm(t)
  /\ op[t].pool \in Kiosk
  /\ mem[t].vms[v].state = "in_use"
  /\ Save(t, [mem[t] EXCEPT !.vms[v] =
                [@ EXCEPT !.expires = Later(mem[t].vms[v].expires, now) + op[t].minutes]])
  /\ UNCHANGED op

(* The sessions expire_overdue_sessions ends: those that were assigned at   *)
(* least the pool's limit ago.                                              *)
Overdue(image) ==
  {v \in VMs : /\ image.vms[v].state = "in_use"
               /\ image.vms[v].pool \in {p \in Pools : image.pools[p] # "absent"}
               /\ Limit[image.vms[v].pool] > 0
               /\ now - image.vms[v].assigned >= Limit[image.vms[v].pool]}

ExpireOverdueSessions(t) ==
  /\ In(t, "expire")
  /\ todo' = [todo EXCEPT ![t] = {<<mem[t].vms[v].pool, v>> : v \in Overdue(mem[t])}]
  /\ Ends(t)
  /\ UNCHANGED <<repo, fileVars, boundVars, history>>

(* The next overdue session is released, like any other (kind "release").   *)
ReleaseNext(t) ==
  /\ pc[t] = "idle"
  /\ \E item \in todo[t] :
       /\ StartsWith(t, [VmRequest("release", item[1], item[2], 0) EXCEPT !.expiring = TRUE])
       /\ todo' = [todo EXCEPT ![t] = @ \ {item}]
  /\ UNCHANGED <<repo, fileVars, boundVars, history>>

(* The fallback for a session whose release has raised.                     *)
MarkExpired(t) ==
  /\ In(t, "mark")
  /\ mem[t].vms[op[t].vm].state # "none"
  /\ Save(t, [mem[t] EXCEPT !.vms[op[t].vm] = [@ EXCEPT !.state = "expired"]])
  /\ UNCHANGED op

-----------------------------------------------------------------------------
(* The end of an operation                                                  *)

(* The checks that raise: an unknown pool or VM, a pool that exists         *)
(* already, a session that cannot be extended.                              *)
Refused(t) ==
  CASE op[t].kind = "create" -> KnownPool(t)
    [] op[t].kind \in {"delete", "update", "scale", "register", "allocate"} -> ~KnownPool(t)
    [] op[t].kind \in {"release", "recycle", "health"} -> ~KnownVm(t)
    [] op[t].kind = "extend" ->
         ~(/\ KnownPool(t) /\ KnownVm(t) /\ op[t].pool \in Kiosk
           /\ mem[t].vms[op[t].vm].state = "in_use")
    [] op[t].kind = "mark" -> mem[t].vms[op[t].vm].state = "none"
    [] OTHER -> FALSE

(* The operation raises.  expire_overdue_sessions catches what a release    *)
(* raises and goes on to mark the VM; what the marking raises ends it.      *)
Raises(t) ==
  IF op[t].expiring
    THEN GoesOnWith(t, VmRequest("mark", NoPool, op[t].vm, 0)) /\ UNCHANGED todo
    ELSE /\ Ends(t)
         /\ todo' = IF pc[t] = "saving" THEN [todo EXCEPT ![t] = {}] ELSE todo

Raise(t) ==
  /\ pc[t] = "loaded" /\ Refused(t)
  /\ Raises(t)
  /\ UNCHANGED <<repo, fileVars, boundVars, history>>

(* _save, second half.  A kiosk release goes on to recycle the VM.          *)
SaveFile(t) ==
  LET v == op[t].vm
      Dropped == {w \in VMs : vms[w].pool = op[t].pool}
      Ended == CASE op[t].kind \in {"release", "recycle", "register", "mark"} -> {v}
                 [] op[t].kind = "delete" -> Dropped
                 [] OTHER -> {}
      Granted(w) == IF op[t].kind = "allocate" /\ w = v THEN {op[t].user} ELSE {}
  IN
  /\ pc[t] = "saving"
  /\ vms' = mem[t].vms
  /\ resv' = mem[t].resv
  /\ holders' = [w \in VMs |-> (IF w \in Ended THEN {} ELSE holders[w]) \cup Granted(w)]
  /\ residue' = [w \in VMs |->
                   IF op[t].kind = "register" /\ w = v /\ vms[v].state = "none"
                     THEN {}    \* the provider layer has built the VM from the template
                     ELSE residue[w] \cup Granted(w)]
  /\ IF op[t].kind = "release" /\ KnownPool(t) /\ op[t].pool \in Kiosk \ Persistent
       THEN GoesOnWith(t, [op[t] EXCEPT !.kind = "recycle"])
       ELSE Ends(t)
  /\ UNCHANGED <<repo, todo, boundVars>>

Continue(t) ==
  /\ pc[t] = "continue"
  /\ StartsWith(t, op[t])
  /\ UNCHANGED <<repo, fileVars, todo, boundVars, history>>

(* The write of the file raises: the table has been written, the file keeps *)
(* its old content.  (A killed process is one whose threads take no further *)
(* step.)                                                                   *)
SaveFails(t) ==
  /\ pc[t] = "saving"
  /\ failures < MaxFailures
  /\ failures' = failures + 1
  /\ Raises(t)
  /\ UNCHANGED <<repo, fileVars, now, history>>

Tick ==
  /\ now < MaxClock
  /\ now' = now + 1
  /\ UNCHANGED <<repo, fileVars, threadVars, failures, history>>

PoolStep(t) == CreatePool(t) \/ DeletePool(t) \/ UpdatePool(t) \/ ScalePool(t)
LeaseStep(t) == ReturnLease(t) \/ TakeDesktop(t) \/ NoDesktop(t)
ResetStep(t) == ResetToTemplate(t) \/ RecycleDesktop(t) \/ ResetFails(t)
LimitStep(t) ==
  \/ ExtendKioskSession(t) \/ ExpireOverdueSessions(t)
  \/ ReleaseNext(t) \/ MarkExpired(t)

Next ==
  \/ \E t \in Threads :
       \/ \E o \in {r \in Requests : r.kind \in Kinds} : Call(t, o)
       \/ ReadPools(t) \/ PoolStep(t)
       \/ \E inv \in SUBSET Slots : RegisterVm(t, inv)
       \/ UpdateStreamHealth(t)
       \/ LeaseStep(t) \/ ReleaseDesktop(t) \/ ResetStep(t) \/ LimitStep(t)
       \/ Raise(t) \/ SaveFile(t) \/ SaveFails(t) \/ Continue(t)
  \/ Tick

Spec == Init /\ [][Next]_vars

-----------------------------------------------------------------------------
(* Properties                                                               *)

(* Every variable has its type.                                             *)
TypeOK ==
  /\ repo \in [Pools -> AnyClass \cup {"absent"}]
  /\ vms \in [VMs -> Vm]
  /\ resv \in [VMs -> Reservation]
  /\ pc \in [Threads -> {"idle", "reading", "loaded", "reset", "saving", "continue"}]
  /\ op \in [Threads -> Operation]
  /\ \A t \in Threads :
       /\ op[t].kind \notin {"none", "expire", "mark"} => op[t].pool \in Pools
       /\ op[t].kind = "allocate" => op[t].user \in Users
       /\ op[t].kind \in {"register", "release", "recycle", "health", "extend", "mark"}
            => op[t].vm \in VMs
       /\ op[t].expiring => op[t].kind \in {"release", "recycle"}
  /\ mem \in [Threads -> Image]
  /\ todo \in [Threads -> SUBSET (Pools \X VMs)]
  /\ now \in Nat /\ failures \in Nat
  /\ holders \in [VMs -> SUBSET Users]
  /\ residue \in [VMs -> SUBSET Users]

(* No two VMs hold a reservation of one GPU slot under one GPU class, for   *)
(* all interleavings of register_vm, delete_pool and update_pool: a stale   *)
(* save loses registrations but never mixes two of them.                    *)
SlotReservedOnce ==
  \A v, w \in VMs :
    v # w /\ resv[v].slot # NoSlot /\ resv[v].class = resv[w].class
      => resv[v].slot # resv[w].slot

(* A user has at most one session at a time in a persistent or dedicated    *)
(* pool, in spite of lost updates, failed resets and failed saves.          *)
OneActiveDesktop ==
  \A v, w \in VMs :
    /\ vms[v].state = "in_use" /\ vms[w].state = "in_use"
    /\ vms[v].user = vms[w].user
    /\ vms[v].pool = vms[w].pool /\ vms[v].pool \in Persistent
    => v = w

(* A desktop is in the hands of one user: whoever was handed it, and has    *)
(* not given it back, is the only one.                                      *)
LeaseIsExclusive ==
  \A v \in VMs : \A u, w \in holders[v] : u = w

(* Nobody is handed a desktop that carries another user's data: between two *)
(* users of a VM lies a reset to the template, in every pool mode.          *)
HandedOutClean ==
  \A v \in VMs : holders[v] # {} => residue[v] \subseteq holders[v]

(* What the users see of the pools, for LeaseDesk.                          *)
Stage(state) ==
  CASE state = "none" -> "none"
    [] state = "free" -> "free"
    [] state = "in_use" -> "lent"
    [] OTHER -> "out"

desk == [v \in VMs |-> [stage |-> Stage(vms[v].state), owner |-> vms[v].user,
                        holders |-> holders[v], data |-> residue[v]]]

Desk == INSTANCE LeaseDesk WITH Desktops <- VMs, Nobody <- NoUser

(* With one request at a time, every step of the pools does nothing, or     *)
(* does to one desktop what the desk may do: whom a desktop goes to, when   *)
(* it is free again and what becomes of the data on it, from the first      *)
(* registration on, in all pool modes, and whatever saves fail.             *)
ImplementsDesk == Desk!Spec

==============================================================================
