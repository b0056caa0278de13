---------------------------- MODULE DeviceFleet ----------------------------
(***************************************************************************)
(* Locking and wiping a thin client from afar.  The control plane keeps    *)
(* the device's status in memory, shared by its request threads without a *)
(* lock, and a row in SQLite that is read back only at start.  The device  *)
(* learns of an order by polling: every answer writes or removes two       *)
(* marker files, and separate programs act on those files.                 *)
(*                                                                         *)
(* One device is modelled, because every operation touches one record and *)
(* one row.  Code: device_registry.py, the sync and confirm-wiped routes   *)
(* of endpoint_http_surface.py, the device actions of                      *)
(* fleet_http_surface.py, and on the device device_sync.sh,                *)
(* device_state_enforcement.sh, device_lock_screen.sh, launch-session.sh   *)
(* and session_launcher.sh.                                                *)
(***************************************************************************)
EXTENDS Naturals, FiniteSets

CONSTANTS Threads,        \* request threads of the control plane
          NoThread,       \* the poller waits for no thread
          StrictWipe,     \* BEAGLE_WIPE_STRICT on the device
          MaxEvents,      \* bound: orders of operators, lost calls, failed
                          \* writes, restarts and power cycles
          MaxInstalls     \* bound: installations of an emptied device

ASSUME FleetAssumption ==
    /\ NoThread \notin Threads
    /\ StrictWipe \in BOOLEAN
    /\ MaxEvents \in Nat /\ MaxInstalls \in Nat

VARIABLES mem,        \* status in the registry's memory
          repo,       \* status in the devices table
          thr,        \* what each request thread is doing
          poll,       \* the curl call of each program that talks to the server
          lockFile,   \* device.locked exists
          wipeFile,   \* device.wipe-pending exists
          etc,        \* configuration and credentials in /etc, lost at power-off
          medium,     \* their copy on the boot medium
          session,    \* where launch-session.sh is
          result,     \* final_status of the wipe under way
          confirmed,  \* confirm_attempted of the wipe under way
          given,      \* orders that operators gave so far
          erased,     \* how much of the device a wipe has ever erased
          events, installs

server  == <<mem, repo, thr>>
files   == <<lockFile, wipeFile>>
config  == <<etc, medium>>
wiping  == <<result, confirmed>>
device  == <<files, config, session, wiping>>
history == <<given, erased>>
bounds  == <<events, installs>>
vars    == <<server, poll, device, history, bounds>>

Status == {"none", "offline", "online", "locked", "wipe_pending", "wiped"}

\* The statuses that a heartbeat leaves alone.
Kept == {"locked", "wipe_pending", "wiped"}

Order == {"lock", "unlock", "wipe", "confirm-wiped"}

\* Mutant: the status is the name of the order.
OrderedByName(o) == o

\* What each order makes of the status.
Ordered(o) == CASE o = "lock"   -> "locked"
                [] o = "unlock" -> "offline"
                [] o = "wipe"   -> "wipe_pending"
                [] o = "confirm-wiped" -> "wiped"

\* The heartbeat timer, and the session that waits for an unlock or confirms.
Poller == {"heartbeat", "session"}

Stage == {"off", "checked", "blocked", "client", "gap",
          "clear", "storage", "confirm", "confirming", "finish", "rebooting"}

Task == [pc   : {"idle", "register", "copy", "write", "read", "mark",
                 "report", "confirm", "reply"},
         keep : BOOLEAN,
         copy : Status,
         next : {"read", "report", "reply"}]

Idle == [pc |-> "idle", keep |-> FALSE, copy |-> "none", next |-> "reply"]

Silent == [pc |-> "idle", thr |-> NoThread, status |-> "none"]

HasConfig == etc \/ medium

Init == /\ mem = "none" /\ repo = "none"
        /\ thr = [t \in Threads |-> Idle]
        /\ poll = [p \in Poller |-> Silent]
        /\ lockFile = FALSE /\ wipeFile = FALSE
        /\ etc = TRUE /\ medium = TRUE
        /\ session = "off" /\ result = "none" /\ confirmed = FALSE
        /\ given = {} /\ erased = "nothing"
        /\ events = 0 /\ installs = 0

\* Something that happens a bounded number of times: an order, or a fault.
Event == /\ events < MaxEvents
         /\ events' = events + 1
         /\ UNCHANGED installs

-----------------------------------------------------------------------------
(* Saving: every row is taken from the shared record and then written, so  *)
(* a thread may write what another has already overtaken.                  *)

\* The threads when t is at pc, with what it has read and what comes next.
Doing(t, pc, keep, copy, next) ==
    [thr EXCEPT ![t] = [pc |-> pc, keep |-> keep, copy |-> copy, next |-> next]]

\* Thread t starts to save, and goes on with next.
Saving(t, next) == Doing(t, "copy", FALSE, "none", next)

\* Thread t has saved.
Saved(t) == Doing(t, thr[t].next, FALSE, "none", thr[t].next)

\* The answer reaches the poller that still waits for thread t.
Answer(t, status) ==
    poll' = [p \in Poller |->
               IF poll[p].pc = "waiting" /\ poll[p].thr = t
               THEN [pc |-> "reply", thr |-> NoThread, status |-> status]
               ELSE poll[p]]

\* Mutant: the row is taken from the table instead of the shared record.
SaveCopyOfRow(t) ==
    /\ thr[t].pc = "copy"
    /\ thr' = Doing(t, "write", FALSE, repo, thr[t].next)
    /\ UNCHANGED <<mem, repo, poll, device, history, bounds>>

SaveCopy(t) ==
    /\ thr[t].pc = "copy"
    /\ thr' = Doing(t, "write", FALSE, mem, thr[t].next)
    /\ UNCHANGED <<mem, repo, poll, device, history, bounds>>

SaveWrite(t) ==
    /\ thr[t].pc = "write"
    /\ repo' = thr[t].copy
    /\ thr' = Saved(t)
    /\ UNCHANGED <<mem, poll, device, history, bounds>>

\* A failed upsert is swallowed, and the request goes on as if it were saved.
SaveSwallowed(t) ==
    /\ thr[t].pc = "write"
    /\ Event
    /\ thr' = Saved(t)
    /\ UNCHANGED <<mem, repo, poll, device, history>>

\* The JSON copy cannot be written: the request fails after the upsert.
SaveRaises(t) ==
    /\ thr[t].pc = "write"
    /\ Event
    /\ repo' = thr[t].copy
    /\ thr' = [thr EXCEPT ![t] = Idle]
    /\ Answer(t, "error")
    /\ UNCHANGED <<mem, device, history>>

-----------------------------------------------------------------------------
(* Requests.                                                               *)

RegisterOrUpdateDevice(t) ==
    /\ thr[t].pc = "register"
    /\ mem' = IF mem = "none" THEN "offline" ELSE mem
    /\ thr' = Saving(t, "read")
    /\ UNCHANGED <<repo, poll, device, history, bounds>>

\* update_heartbeat reads the status ...
HeartbeatRead(t) ==
    /\ thr[t].pc = "read"
    /\ thr' = Doing(t, "mark", mem \in Kept, "none", thr[t].next)
    /\ UNCHANGED <<mem, repo, poll, device, history, bounds>>

\* ... and then writes it, whatever happened in between.
HeartbeatMark(t) ==
    /\ thr[t].pc = "mark"
    /\ mem' = IF thr[t].keep THEN mem ELSE "online"
    /\ thr' = Saving(t, "report")
    /\ UNCHANGED <<repo, poll, device, history, bounds>>

\* The reports that came with the heartbeat are saved too; up to three saves
\* that change nothing in between are taken as one.
SaveReport(t) ==
    /\ thr[t].pc = "report"
    /\ \/ thr' = Saving(t, "reply")
       \/ thr' = Doing(t, "reply", FALSE, "none", "reply")
    /\ UNCHANGED <<mem, repo, poll, device, history, bounds>>

\* Mutant: a confirmation is noted without changing the status.
ConfirmNoted(t) ==
    /\ thr[t].pc = "confirm"
    /\ thr' = Saving(t, "reply")
    /\ UNCHANGED <<mem, repo, poll, device, history, bounds>>

\* confirm_wiped asks no more than that the device is known.
ConfirmWiped(t) ==
    /\ thr[t].pc = "confirm"
    /\ \/ /\ mem # "none"
          /\ mem' = "wiped"
          /\ thr' = Saving(t, "reply")
          /\ UNCHANGED poll
       \/ /\ mem = "none"
          /\ thr' = [thr EXCEPT ![t] = Idle]
          /\ Answer(t, "error")
          /\ UNCHANGED mem
    /\ UNCHANGED <<repo, device, history, bounds>>

Respond(t) ==
    /\ thr[t].pc = "reply"
    /\ thr' = [thr EXCEPT ![t] = Idle]
    /\ Answer(t, mem)
    /\ UNCHANGED <<mem, repo, device, history, bounds>>

FleetAction(t, o) ==
    /\ thr[t].pc = "idle"
    /\ mem # "none"
    /\ Event
    /\ mem' = Ordered(o)
    /\ thr' = Saving(t, "reply")
    /\ given' = given \cup {o}
    /\ UNCHANGED <<repo, poll, device, erased>>

\* The control plane stops and starts again with what the table holds.
RestartServer ==
    /\ Event
    /\ mem' = repo
    /\ thr' = [t \in Threads |-> Idle]
    /\ poll' = [p \in Poller |->
                  IF poll[p].pc = "waiting"
                  THEN [pc |-> "reply", thr |-> NoThread, status |-> "error"]
                  ELSE poll[p]]
    /\ UNCHANGED <<repo, device, history>>

\* An operator posts a heartbeat for the device.
FleetHeartbeat(t) ==
    /\ thr[t].pc = "idle"
    /\ mem # "none"
    /\ Event
    /\ thr' = Doing(t, "read", FALSE, "none", "reply")
    /\ UNCHANGED <<mem, repo, poll, device, history>>

-----------------------------------------------------------------------------
(* The device: polling.                                                    *)

\* Poller p sends a request of kind pc, which thread t takes.
Send(p, t, pc) ==
    /\ poll[p].pc = "idle"
    /\ thr[t].pc = "idle"
    /\ poll' = [poll EXCEPT ![p] = [pc |-> "waiting", thr |-> t, status |-> "none"]]
    /\ thr' = Doing(t, pc, FALSE, "none", "reply")

\* Mutant: the timer does not call while a session streams.
SyncBetweenSessions(p, t) ==
    /\ IF p = "session" THEN session = "blocked" /\ lockFile
                        ELSE HasConfig /\ session # "client"
    /\ Send(p, t, "register")
    /\ UNCHANGED <<mem, repo, device, history, bounds>>

\* The timer calls whether or not a session runs, and a locked session calls
\* from its waiting loop.  Without a configuration there is nobody to call.
SyncDevice(p, t) ==
    /\ IF p = "session" THEN session = "blocked" /\ lockFile ELSE HasConfig
    /\ Send(p, t, "register")
    /\ UNCHANGED <<mem, repo, device, history, bounds>>

\* curl gives up, or the connection is lost; the server may go on.
CallIsLost(p) ==
    /\ poll[p].pc = "waiting"
    /\ Event
    /\ poll' = [poll EXCEPT ![p] = [pc |-> "reply", thr |-> NoThread,
                                    status |-> "error"]]
    /\ UNCHANGED <<server, device, history>>

Synced(p) == poll[p].pc = "reply" /\ ~(p = "session" /\ session = "confirming")

\* Mutant: a lock marks the device for the wipe as well.
ApplyMixedUp(p) ==
    /\ Synced(p)
    /\ IF poll[p].status = "error" THEN UNCHANGED files
       ELSE /\ lockFile' = (poll[p].status = "locked")
            /\ wipeFile' = (poll[p].status \in {"locked", "wipe_pending"})
    /\ poll' = [poll EXCEPT ![p] = Silent]
    /\ UNCHANGED <<server, config, session, wiping, history, bounds>>

\* Mutant: the marker files are written and never removed.
ApplyOnlySets(p) ==
    /\ Synced(p)
    /\ lockFile' = (lockFile \/ poll[p].status = "locked")
    /\ wipeFile' = (wipeFile \/ poll[p].status = "wipe_pending")
    /\ poll' = [poll EXCEPT ![p] = Silent]
    /\ UNCHANGED <<server, config, session, wiping, history, bounds>>

\* The answer to a sync decides about both marker files, however old it is.
ApplySyncResponse(p) ==
    /\ Synced(p)
    /\ IF poll[p].status = "error" THEN UNCHANGED files
       ELSE /\ lockFile' = (poll[p].status = "locked")
            /\ wipeFile' = (poll[p].status = "wipe_pending")
    /\ poll' = [poll EXCEPT ![p] = Silent]
    /\ UNCHANGED <<server, config, session, wiping, history, bounds>>

-----------------------------------------------------------------------------
(* The device: the session and the lock screen.                            *)

\* The session moves, and nothing else changes.
Step(from, to) ==
    /\ session = from
    /\ session' = to
    /\ UNCHANGED <<server, poll, files, config, wiping, history, bounds>>

\* Mutant: the wipe is confirmed first and carried out later.
LaunchConfirms == HasConfig /\ Step("off", IF wipeFile THEN "confirm" ELSE "checked")

\* launch-session.sh loads the configuration and looks for an order to wipe.
LaunchSession == HasConfig /\ Step("off", IF wipeFile THEN "clear" ELSE "checked")

CheckLock == Step("checked", IF lockFile THEN "blocked" ELSE "client")

\* The waiting loop ends with the lock.  It does not look at the wipe file.
DeviceUnlocked ==
    /\ ~lockFile
    /\ poll["session"].pc = "idle"
    /\ Step("blocked", "client")

\* The client ends by itself or is closed by its user ...
ClientExits == Step("client", "gap")

\* ... and is started again by the loop that started it, without new checks.
Relaunch == Step("gap", "client")

\* The loop ends after too many quick exits, or after one if so configured.
LoopEnds == Step("gap", "off")

\* The lock screen's watcher ends the client as long as the device is locked.
LockScreenWatcher == lockFile /\ Step("client", "gap")

-----------------------------------------------------------------------------
(* The device: the wipe, perform_device_wipe.                              *)

ClearSecrets ==
    /\ session = "clear"
    /\ session' = "storage"
    /\ lockFile' = FALSE
    /\ etc' = FALSE
    /\ erased' = IF erased = "nothing" THEN "secrets" ELSE erased
    /\ UNCHANGED <<server, poll, wipeFile, medium, wiping, given, bounds>>

\* The storage and the TPM: "failed" and an unknown install device leave the
\* medium as it is, a TPM that cannot be cleared makes the wipe partial.
WipeStorage ==
    /\ session = "storage"
    /\ session' = "confirm"
    /\ \E r \in {"completed", "partial", "failed"}, gone \in BOOLEAN :
          /\ r = "completed" => gone
          /\ r = "failed" => ~gone
          /\ result' = r
          /\ medium' = (medium /\ ~gone)
          /\ erased' = IF gone THEN "everything" ELSE erased
    /\ UNCHANGED <<server, poll, files, etc, confirmed, given, bounds>>

\* Mutant: strict mode does not look at the result.
SendAlways(t) ==
    /\ session = "confirm"
    /\ Send("session", t, "confirm")
    /\ session' = "confirming"
    /\ UNCHANGED <<mem, repo, files, config, wiping, history, bounds>>

SendConfirm(t) ==
    /\ session = "confirm"
    /\ StrictWipe => result = "completed"
    /\ Send("session", t, "confirm")
    /\ session' = "confirming"
    /\ UNCHANGED <<mem, repo, files, config, wiping, history, bounds>>

\* In strict mode a wipe that is not complete is not confirmed.
SkipConfirm == /\ StrictWipe /\ result # "completed"
               /\ Step("confirm", "finish")

ConfirmAnswered ==
    /\ session = "confirming"
    /\ poll["session"].pc = "reply"
    /\ confirmed' = (poll["session"].status # "error")
    /\ session' = "finish"
    /\ poll' = [poll EXCEPT !["session"] = Silent]
    /\ UNCHANGED <<server, files, config, result, history, bounds>>

\* Only a confirmed wipe takes its marker away; a failed one does not reboot.
FinishWipe ==
    /\ session = "finish"
    /\ wipeFile' = (wipeFile /\ ~confirmed)
    /\ session' = IF result = "failed" THEN "off" ELSE "rebooting"
    /\ result' = "none"
    /\ confirmed' = FALSE
    /\ UNCHANGED <<server, poll, lockFile, config, history, bounds>>

\* At power-on /etc is made from the medium, and the marker files, which lie
\* on the overlay of the live system, are gone.
Boot == /\ lockFile' = FALSE /\ wipeFile' = FALSE
        /\ session' = "off" /\ result' = "none" /\ confirmed' = FALSE
        /\ poll' = [p \in Poller |-> Silent]

Reboot == /\ session = "rebooting"
          /\ Boot
          /\ etc' = medium
          /\ UNCHANGED <<server, medium, history, bounds>>

PowerCycle == /\ Event
              /\ Boot
              /\ etc' = medium
              /\ UNCHANGED <<server, medium, history>>

\* An emptied device is installed and enrolled again under its old name.
Reinstall == /\ ~medium
             /\ installs < MaxInstalls
             /\ installs' = installs + 1
             /\ Boot
             /\ etc' = TRUE /\ medium' = TRUE
             /\ UNCHANGED <<server, history, events>>

-----------------------------------------------------------------------------
Work(t) == \/ RegisterOrUpdateDevice(t) \/ HeartbeatRead(t) \/ HeartbeatMark(t)
           \/ SaveReport(t) \/ ConfirmWiped(t)
           \/ SaveCopy(t) \/ SaveWrite(t) \/ Respond(t)

Polling == \E p \in Poller : \/ \E t \in Threads : SyncDevice(p, t)
                             \/ ApplySyncResponse(p)
                             \/ CallIsLost(p)

Wipe == \/ ClearSecrets \/ WipeStorage
        \/ \E t \in Threads : SendConfirm(t)
        \/ SkipConfirm \/ ConfirmAnswered \/ FinishWipe \/ Reboot

Play == \/ LaunchSession \/ CheckLock \/ DeviceUnlocked
        \/ ClientExits \/ Relaunch \/ LoopEnds \/ LockScreenWatcher

Next == \/ \E t \in Threads : \/ Work(t)
                              \/ SaveSwallowed(t)
                              \/ SaveRaises(t)
                              \/ FleetHeartbeat(t)
                              \/ \E o \in Order : FleetAction(t, o)
        \/ RestartServer
        \/ Polling
        \/ Play
        \/ Wipe
        \/ PowerCycle
        \/ Reinstall

Spec == Init /\ [][Next]_vars

\* Request threads run, the timer fires again and again and a client that
\* runs calls its scripts to their ends.  Nothing is assumed of users,
\* operators and technicians, nor that a client ever ends by itself.
Fairness ==
    /\ \A t \in Threads : WF_vars(Work(t))
    /\ \A p \in Poller : /\ WF_vars(\E t \in Threads : SyncDevice(p, t))
                         /\ WF_vars(ApplySyncResponse(p))
    /\ WF_vars(Wipe)
    /\ WF_vars(LaunchSession \/ CheckLock \/ DeviceUnlocked)
    /\ WF_vars(LockScreenWatcher)

FairSpec == Spec /\ Fairness

-----------------------------------------------------------------------------
TypeOK ==
    /\ mem \in Status /\ repo \in Status
    /\ thr \in [Threads -> Task]
    /\ poll \in [Poller -> [pc     : {"idle", "waiting", "reply"},
                            thr    : Threads \cup {NoThread},
                            status : Status \cup {"error"}]]
    /\ lockFile \in BOOLEAN /\ wipeFile \in BOOLEAN
    /\ etc \in BOOLEAN /\ medium \in BOOLEAN
    /\ session \in Stage
    /\ result \in {"none", "completed", "partial", "failed"}
    /\ confirmed \in BOOLEAN
    /\ given \subseteq Order
    /\ erased \in {"nothing", "secrets", "everything"}
    /\ events \in Nat /\ installs \in Nat

\* A device loses its secrets only if an operator once ordered the wipe:
\* locks, old answers, restarts of the server and half-finished wipes never
\* add up to one (device_registry.py wipe_device, device_sync.sh).
EraseWasOrdered == erased # "nothing" => "wipe" \in given

\* The control plane calls a device wiped only after the device has erased
\* its secrets - in strict mode, its whole storage - or an operator has said
\* so by hand (device_registry.py confirm_wiped).
WipedMeansErased ==
    "wiped" \in {mem, repo} =>
        \/ "confirm-wiped" \in given
        \/ erased = "everything"
        \/ ~StrictWipe /\ erased = "secrets"

\* A standing lock reaches the device: for good the marker is there, and no
\* client lives on (heartbeat timer, device_lock_screen.sh).
LockIsEnforced ==
    <>[](mem = "locked" /\ HasConfig) =>
        <>[]lockFile /\ []<>(session # "client")

\* When the status stays free, every marker goes away and a session that
\* waits for the unlock goes on (wait_for_device_unlock).
UnlockArrives ==
    <>[](mem \in {"offline", "online"} /\ HasConfig) =>
        <>[]~(lockFile \/ wipeFile) /\ []<>(session # "blocked")

\* A device that can still talk does not leave an order to wipe unanswered,
\* provided that its session script keeps ending (perform_device_wipe).
WipeIsAnswered ==
    []<>(session = "off") =>
        ~<>[](mem = "wipe_pending" /\ HasConfig)

\* Every standing status is in the table in the end, although threads save
\* out of order and saves fail: the next polls repair it (_save).
TableCatchesUp ==
    \A s \in Status : <>[](mem = s /\ HasConfig) => <>[](repo = s)

=============================================================================
