------------------------- MODULE DeviceFleetProofs -------------------------
(***************************************************************************)
(* Proofs about DeviceFleet, for any number of request threads, orders,    *)
(* faults and installations, in strict mode and without it:                *)
(*   - TypeCorrect, the type invariant;                                    *)
(*   - WipeIsOrdered, a device is erased only if a wipe was ordered;       *)
(*   - WipedIsErased, a device is called wiped only after it was erased.   *)
(*                                                                         *)
(* The two safety theorems say of the whole path of an order, from the    *)
(* operator's request through memory, rows, answers, marker files and the  *)
(* stages of the wipe and back with the confirmation, that nothing on it   *)
(* appears by itself.  NoStrayWipe and NoStrayClaim say so of each place.  *)
(***************************************************************************)
EXTENDS DeviceFleet, TLAPS

(***************************************************************************)
(* Every order makes a known status, and only the order to wipe makes      *)
(* wipe_pending, only the confirmation by hand makes wiped.                *)
(***************************************************************************)
LEMMA OrderedStatus ==
    ASSUME NEW o \in Order
    PROVE  /\ Ordered(o) \in Status
           /\ Ordered(o) = "wipe_pending" => o = "wipe"
           /\ Ordered(o) = "wiped" => o = "confirm-wiped"
  BY DEF Order, Ordered, Status

(***************************************************************************)
(* A thread that moves on keeps the type of the thread table.              *)
(***************************************************************************)
LEMMA DoingType ==
    ASSUME thr \in [Threads -> Task], NEW t \in Threads,
           NEW pc \in {"idle", "register", "copy", "write", "read", "mark",
                       "report", "confirm", "reply"},
           NEW keep \in BOOLEAN, NEW copy \in Status,
           NEW next \in {"read", "report", "reply"}
    PROVE  Doing(t, pc, keep, copy, next) \in [Threads -> Task]
  <1>1. [pc |-> pc, keep |-> keep, copy |-> copy, next |-> next] \in Task
    BY DEF Task
  <1> QED BY <1>1 DEF Doing

(***************************************************************************)
(* What a thread is doing after it moved on, and that no other did.        *)
(***************************************************************************)
LEMMA DoingOf ==
    ASSUME thr \in [Threads -> Task], NEW t \in Threads,
           NEW pc, NEW keep, NEW copy, NEW next
    PROVE  /\ Doing(t, pc, keep, copy, next)[t].pc = pc
           /\ Doing(t, pc, keep, copy, next)[t].copy = copy
           /\ \A u \in Threads \ {t} : Doing(t, pc, keep, copy, next)[u] = thr[u]
  BY DEF Doing

(***************************************************************************)
(* A thread at rest has the type of a thread.                              *)
(***************************************************************************)
LEMMA IdleType == Idle \in Task
  BY DEF Idle, Task, Status

(***************************************************************************)
(* An answer keeps the type of the table of calls, and carries nothing but *)
(* the status it was given.                                                *)
(***************************************************************************)
PollType == [Poller -> [pc     : {"idle", "waiting", "reply"},
                        thr    : Threads \cup {NoThread},
                        status : Status \cup {"error"}]]

LEMMA AnswerType ==
    ASSUME poll \in PollType, NEW t, NEW s \in Status \cup {"error"},
           Answer(t, s)
    PROVE  /\ poll' \in PollType
           /\ \A p \in Poller : poll'[p].status \in {poll[p].status, s}
  BY DEF Answer, PollType

(***************************************************************************)
(* A poller that waits for nothing has the type of a poller.               *)
(***************************************************************************)
LEMMA SilentType == Silent \in [pc     : {"idle", "waiting", "reply"},
                                thr    : Threads \cup {NoThread},
                                status : Status \cup {"error"}]
  BY DEF Silent, Status

-----------------------------------------------------------------------------
(***************************************************************************)
(* The type invariant holds at first, and every step keeps it.             *)
(***************************************************************************)
LEMMA TypeInit == Init => TypeOK
  <1> SUFFICES ASSUME Init PROVE TypeOK
    OBVIOUS
  <1>1. thr \in [Threads -> Task]
    BY IdleType DEF Init
  <1>2. poll \in [Poller -> [pc     : {"idle", "waiting", "reply"},
                            thr    : Threads \cup {NoThread},
                            status : Status \cup {"error"}]]
    BY SilentType DEF Init
  <1> QED BY <1>1, <1>2 DEF Init, TypeOK, Status, Stage

(***************************************************************************)
(* The type invariant gives the table of calls its type.                   *)
(***************************************************************************)
LEMMA TypeOfPoll == TypeOK => poll \in PollType
  BY DEF TypeOK, PollType

(***************************************************************************)
(* A step of a request thread.                                             *)
(***************************************************************************)
LEMMA TypeThreads ==
    ASSUME TypeOK, NEW t \in Threads,
           \/ Work(t) \/ SaveSwallowed(t) \/ SaveRaises(t) \/ FleetHeartbeat(t)
           \/ \E o \in Order : FleetAction(t, o)
    PROVE  TypeOK'
  <1> USE DEF TypeOK, server, files, config, wiping, device, history, bounds, Event
  <1>0. /\ thr \in [Threads -> Task]
        /\ thr[t] \in Task
        /\ poll \in PollType
        /\ [u \in Threads |-> Idle] \in [Threads -> Task]
        /\ [thr EXCEPT ![t] = Idle] \in [Threads -> Task]
    BY IdleType DEF PollType
  <1>a. /\ thr[t].copy \in Status
        /\ thr[t].next \in {"read", "report", "reply"}
    BY <1>0 DEF Task
  <1>b. ASSUME NEW next \in {"read", "report", "reply"}
        PROVE  Saving(t, next) \in [Threads -> Task]
    BY <1>0, DoingType DEF Saving, Status
  <1>c. Saved(t) \in [Threads -> Task]
    BY <1>0, <1>a, DoingType DEF Saved, Status
  <1>1. CASE RegisterOrUpdateDevice(t)
    BY <1>1, <1>b DEF RegisterOrUpdateDevice, Status
  <1>2. CASE HeartbeatRead(t)
    <2>0. (mem \in Kept) \in BOOLEAN /\ "none" \in Status
      BY DEF Status
    <2>1. thr' \in [Threads -> Task]
      <3> DEFINE keep == mem \in Kept
      <3>1. thr' = Doing(t, "mark", keep, "none", thr[t].next)
        BY <1>2 DEF HeartbeatRead
      <3>2. keep \in BOOLEAN
        BY <2>0
      <3> HIDE DEF keep
      <3> QED BY <1>0, <1>a, <2>0, <3>1, <3>2, DoingType
    <2> QED BY <1>2, <2>1 DEF HeartbeatRead
  <1>3. CASE HeartbeatMark(t)
    BY <1>3, <1>b DEF HeartbeatMark, Status
  <1>4. CASE SaveReport(t)
    <2>1. Doing(t, "reply", FALSE, "none", "reply") \in [Threads -> Task]
      BY <1>0, DoingType DEF Status
    <2>2. thr' \in [Threads -> Task]
      BY <1>b, <1>4, <2>1 DEF SaveReport
    <2> QED BY <1>4, <2>2 DEF SaveReport
  <1>5. CASE ConfirmWiped(t)
    <2>1. thr' \in [Threads -> Task]
      BY <1>0, <1>b, <1>5 DEF ConfirmWiped
    <2>2. poll' \in PollType
      BY <1>0, <1>5, AnswerType DEF ConfirmWiped
    <2> QED BY <1>5, <2>1, <2>2 DEF ConfirmWiped, Status, PollType
  <1>6. CASE SaveCopy(t)
    <2>1. thr' \in [Threads -> Task]
      BY <1>0, <1>a, <1>6, DoingType DEF SaveCopy
    <2> QED BY <1>6, <2>1 DEF SaveCopy
  <1>7. CASE SaveWrite(t)
    BY <1>7, <1>a, <1>c DEF SaveWrite
  <1>8. CASE Respond(t)
    <2>1. poll' \in PollType
      BY <1>0, <1>8, AnswerType DEF Respond
    <2> QED BY <1>0, <1>8, <2>1 DEF Respond, PollType
  <1>9. CASE SaveSwallowed(t)
    BY <1>9, <1>c DEF SaveSwallowed
  <1>10. CASE SaveRaises(t)
    <2>1. poll' \in PollType
      BY <1>0, <1>10, AnswerType DEF SaveRaises
    <2> QED BY <1>0, <1>a, <1>10, <2>1 DEF SaveRaises, PollType
  <1>11. CASE FleetHeartbeat(t)
    <2>1. thr' \in [Threads -> Task]
      BY <1>0, <1>11, DoingType DEF FleetHeartbeat, Status
    <2>2. events' \in Nat /\ installs' \in Nat
      BY <1>11 DEF FleetHeartbeat
    <2> QED BY <1>11, <2>1, <2>2 DEF FleetHeartbeat
  <1>12. ASSUME NEW o \in Order, FleetAction(t, o) PROVE TypeOK'
    BY <1>12, <1>b, OrderedStatus DEF FleetAction
  <1> QED BY <1>1, <1>2, <1>3, <1>4, <1>5, <1>6, <1>7, <1>8, <1>9, <1>10,
             <1>11, <1>12 DEF Work

(***************************************************************************)
(* Any other step: the calls, the session, the wipe, starts and restarts.  *)
(***************************************************************************)
LEMMA TypeOthers ==
    ASSUME TypeOK,
           \/ RestartServer \/ Polling \/ Play \/ Wipe
           \/ PowerCycle \/ Reinstall
    PROVE  TypeOK'
  <1> USE DEF TypeOK, server, files, config, wiping, device, history, bounds, Event
  <1>0. /\ thr \in [Threads -> Task]
        /\ poll \in PollType
        /\ [u \in Threads |-> Idle] \in [Threads -> Task]
        /\ [p \in Poller |-> Silent] \in PollType
    BY IdleType, SilentType DEF PollType
  <1>a. ASSUME NEW p \in Poller
        PROVE  [poll EXCEPT ![p] = Silent] \in PollType
    BY <1>0, SilentType DEF PollType
  <1>b. ASSUME NEW p \in Poller, NEW t \in Threads,
               NEW pc \in {"register", "confirm"}, Send(p, t, pc)
        PROVE  thr' \in [Threads -> Task] /\ poll' \in PollType
    <2>1. thr' \in [Threads -> Task]
      BY <1>0, <1>b, DoingType DEF Send, Status
    <2>2. poll' \in PollType
      BY <1>0, <1>b DEF Send, PollType, Status
    <2> QED BY <2>1, <2>2
  <1>1. CASE RestartServer
    <2>1. poll' \in PollType
      BY <1>0, <1>1 DEF RestartServer, PollType
    <2> QED BY <1>0, <1>1, <2>1 DEF RestartServer, PollType
  <1>2. ASSUME NEW p \in Poller, NEW t \in Threads, SyncDevice(p, t)
        PROVE  TypeOK'
    BY <1>2, <1>b DEF SyncDevice, PollType
  <1>3. ASSUME NEW p \in Poller, ApplySyncResponse(p) PROVE TypeOK'
    <2>1. poll' \in PollType
      BY <1>3, <1>a DEF ApplySyncResponse
    <2>2. lockFile' \in BOOLEAN /\ wipeFile' \in BOOLEAN
      BY <1>3 DEF ApplySyncResponse
    <2> QED BY <1>3, <2>1, <2>2 DEF ApplySyncResponse, PollType
  <1>4. ASSUME NEW p \in Poller, CallIsLost(p) PROVE TypeOK'
    <2>1. poll' \in PollType
      BY <1>0, <1>4 DEF CallIsLost, PollType
    <2> QED BY <1>4, <2>1 DEF CallIsLost, PollType
  <1>5. CASE Play
    BY <1>5 DEF Play, LaunchSession, CheckLock, DeviceUnlocked, ClientExits,
                Relaunch, LoopEnds, LockScreenWatcher, Step, Stage
  <1>6. CASE ClearSecrets
    BY <1>6 DEF ClearSecrets, Stage
  <1>7. CASE WipeStorage
    BY <1>7 DEF WipeStorage, Stage
  <1>8. ASSUME NEW t \in Threads, SendConfirm(t) PROVE TypeOK'
    <2>1. thr' \in [Threads -> Task] /\ poll' \in PollType
      BY <1>8, <1>b DEF SendConfirm, Poller
    <2> QED BY <1>8, <2>1 DEF SendConfirm, PollType, Stage
  <1>9. CASE SkipConfirm
    BY <1>9 DEF SkipConfirm, Step, Stage
  <1>10. CASE ConfirmAnswered
    <2>1. poll' \in PollType
      BY <1>10, <1>a DEF ConfirmAnswered, Poller
    <2> QED BY <1>10, <2>1 DEF ConfirmAnswered, PollType, Stage
  <1>11. CASE FinishWipe
    BY <1>11 DEF FinishWipe, Stage
  <1>12. CASE Reboot
    BY <1>0, <1>12 DEF Reboot, Boot, PollType, Stage
  <1>13. CASE PowerCycle
    <2>1. events' \in Nat /\ installs' \in Nat
      BY <1>13 DEF PowerCycle
    <2> QED BY <1>0, <1>13, <2>1 DEF PowerCycle, Boot, PollType, Stage
  <1>14. CASE Reinstall
    <2>1. events' \in Nat /\ installs' \in Nat
      BY <1>14 DEF Reinstall
    <2> QED BY <1>0, <1>14, <2>1 DEF Reinstall, Boot, PollType, Stage
  <1> QED BY <1>1, <1>2, <1>3, <1>4, <1>5, <1>6, <1>7, <1>8, <1>9, <1>10,
             <1>11, <1>12, <1>13, <1>14 DEF Polling, Wipe

(***************************************************************************)
(* A step that changes nothing keeps the type invariant.                   *)
(***************************************************************************)
LEMMA TypeStutter == TypeOK /\ UNCHANGED vars => TypeOK'
  BY DEF TypeOK, vars, server, files, config, wiping, device, history, bounds

(***************************************************************************)
(* Statuses, calls, marker files and the stages of the session keep their  *)
(* types in every behaviour of the fleet.                                  *)
(***************************************************************************)
THEOREM TypeCorrect == Spec => []TypeOK
  <1>1. TypeOK /\ [Next]_vars => TypeOK'
    BY TypeThreads, TypeOthers, TypeStutter DEF Next
  <1> QED BY TypeInit, <1>1, PTL DEF Spec

-----------------------------------------------------------------------------
(***************************************************************************)
(* Nothing anywhere speaks of a wipe before one is ordered.                *)
(***************************************************************************)
WipeStages == {"clear", "storage", "confirm", "confirming", "finish", "rebooting"}

NoWipe == /\ mem # "wipe_pending" /\ repo # "wipe_pending"
          /\ \A t \in Threads : thr[t].copy # "wipe_pending"
          /\ \A p \in Poller : poll[p].status # "wipe_pending"
          /\ ~wipeFile
          /\ session \notin WipeStages
          /\ erased = "nothing"

NoStrayWipe == "wipe" \in given \/ NoWipe

(***************************************************************************)
(* A step of a request thread that orders no wipe brings none up.          *)
(***************************************************************************)
LEMMA NoWipeThreads ==
    ASSUME TypeOK, NoWipe, NEW t \in Threads, "wipe" \notin given',
           \/ Work(t) \/ SaveSwallowed(t) \/ SaveRaises(t) \/ FleetHeartbeat(t)
           \/ \E o \in Order : FleetAction(t, o)
    PROVE  NoWipe'
  <1> USE DEF NoWipe, server, files, config, wiping, device, history
  <1>0. /\ thr \in [Threads -> Task]
        /\ poll \in PollType
        /\ mem \in Status
        /\ thr[t].copy # "wipe_pending"
    BY DEF TypeOK, PollType
  <1>a. ASSUME NEW pc, NEW keep, NEW copy, NEW next, copy # "wipe_pending"
        PROVE  \A u \in Threads : Doing(t, pc, keep, copy, next)[u].copy # "wipe_pending"
    BY <1>0, <1>a, DoingOf
  <1>b. ASSUME NEW next
        PROVE  \A u \in Threads : Saving(t, next)[u].copy # "wipe_pending"
    BY <1>a DEF Saving
  <1>c. \A u \in Threads : Saved(t)[u].copy # "wipe_pending"
    BY <1>a DEF Saved
  <1>d. \A u \in Threads : [thr EXCEPT ![t] = Idle][u].copy # "wipe_pending"
    BY <1>0 DEF Idle
  <1>e. ASSUME NEW s \in Status \cup {"error"}, s # "wipe_pending", Answer(t, s)
        PROVE  \A p \in Poller : poll'[p].status # "wipe_pending"
    BY <1>0, <1>e, AnswerType
  <1>1. CASE RegisterOrUpdateDevice(t)
    BY <1>1, <1>b DEF RegisterOrUpdateDevice
  <1>2. CASE HeartbeatRead(t)
    <2>1. \A u \in Threads : thr'[u].copy # "wipe_pending"
      <3> DEFINE keep == mem \in Kept
      <3>1. thr' = Doing(t, "mark", keep, "none", thr[t].next)
        BY <1>2 DEF HeartbeatRead
      <3> HIDE DEF keep
      <3> QED BY <1>a, <3>1
    <2> QED BY <1>2, <2>1 DEF HeartbeatRead
  <1>3. CASE HeartbeatMark(t)
    BY <1>3, <1>b DEF HeartbeatMark
  <1>4. CASE SaveReport(t)
    <2>1. \A u \in Threads : thr'[u].copy # "wipe_pending"
      BY <1>4, <1>a, <1>b DEF SaveReport
    <2> QED BY <1>4, <2>1 DEF SaveReport
  <1>5. CASE ConfirmWiped(t)
    <2>1. CASE mem # "none"
      BY <1>5, <1>b, <2>1 DEF ConfirmWiped
    <2>2. CASE mem = "none"
      BY <1>5, <1>d, <1>e, <2>2 DEF ConfirmWiped
    <2> QED BY <2>1, <2>2
  <1>6. CASE SaveCopy(t)
    BY <1>6, <1>a DEF SaveCopy
  <1>7. CASE SaveWrite(t)
    BY <1>0, <1>7, <1>c DEF SaveWrite
  <1>8. CASE Respond(t)
    BY <1>0, <1>8, <1>d, <1>e DEF Respond
  <1>9. CASE SaveSwallowed(t)
    BY <1>9, <1>c DEF SaveSwallowed
  <1>10. CASE SaveRaises(t)
    BY <1>0, <1>10, <1>d, <1>e DEF SaveRaises
  <1>11. CASE FleetHeartbeat(t)
    BY <1>11, <1>a DEF FleetHeartbeat
  <1>12. ASSUME NEW o \in Order, FleetAction(t, o) PROVE NoWipe'
    <2>1. mem' # "wipe_pending"
      BY <1>12, OrderedStatus DEF FleetAction
    <2> QED BY <1>12, <1>b, <2>1 DEF FleetAction
  <1> QED BY <1>1, <1>2, <1>3, <1>4, <1>5, <1>6, <1>7, <1>8, <1>9, <1>10,
             <1>11, <1>12 DEF Work

(***************************************************************************)
(* Calls, sessions, the stages of the wipe, starts and restarts bring no   *)
(* wipe up: they only carry on what memory, rows and answers say.          *)
(***************************************************************************)
LEMMA NoWipeOthers ==
    ASSUME TypeOK, NoWipe,
           \/ RestartServer \/ Polling \/ Play \/ Wipe
           \/ PowerCycle \/ Reinstall
    PROVE  NoWipe'
  <1> USE DEF NoWipe, server, files, config, wiping, device, history
  <1>0. thr \in [Threads -> Task] /\ poll \in PollType
    BY DEF TypeOK, PollType
  <1>a. ASSUME NEW p \in Poller, poll' = [poll EXCEPT ![p] = Silent]
        PROVE  \A q \in Poller : poll'[q].status # "wipe_pending"
    BY <1>0, <1>a DEF PollType, Silent
  <1>b. ~Wipe
    BY DEF Wipe, ClearSecrets, WipeStorage, SendConfirm, SkipConfirm, Step,
           ConfirmAnswered, FinishWipe, Reboot, WipeStages
  <1>1. CASE RestartServer
    BY <1>0, <1>1 DEF RestartServer, PollType, Idle
  <1>2. ASSUME NEW p \in Poller, NEW t \in Threads, SyncDevice(p, t)
        PROVE  NoWipe'
    <2>1. \A u \in Threads : thr'[u].copy # "wipe_pending"
      <3>1. thr' = Doing(t, "register", FALSE, "none", "reply")
        BY <1>2 DEF SyncDevice, Send
      <3>2. \A u \in Threads \ {t} : thr'[u] = thr[u]
        BY <1>0, <3>1 DEF Doing
      <3>3. thr'[t].copy = "none"
        BY <1>0, <3>1 DEF Doing
      <3> QED BY <3>2, <3>3
    <2>2. \A q \in Poller : poll'[q].status # "wipe_pending"
      BY <1>0, <1>2 DEF SyncDevice, Send, PollType
    <2> QED BY <1>2, <2>1, <2>2 DEF SyncDevice
  <1>3. ASSUME NEW p \in Poller, ApplySyncResponse(p) PROVE NoWipe'
    <2>1. \A q \in Poller : poll'[q].status # "wipe_pending"
      BY <1>3, <1>a DEF ApplySyncResponse
    <2>2. ~wipeFile'
      BY <1>3 DEF ApplySyncResponse
    <2> QED BY <1>3, <2>1, <2>2 DEF ApplySyncResponse
  <1>4. ASSUME NEW p \in Poller, CallIsLost(p) PROVE NoWipe'
    BY <1>0, <1>4 DEF CallIsLost, PollType
  <1>5. CASE Play
    BY <1>5 DEF Play, LaunchSession, CheckLock, DeviceUnlocked, ClientExits,
                Relaunch, LoopEnds, LockScreenWatcher, Step, WipeStages
  <1>6. CASE PowerCycle
    BY <1>6 DEF PowerCycle, Boot, Silent, WipeStages
  <1>7. CASE Reinstall
    BY <1>7 DEF Reinstall, Boot, Silent, WipeStages
  <1> QED BY <1>b, <1>1, <1>2, <1>3, <1>4, <1>5, <1>6, <1>7 DEF Polling

(***************************************************************************)
(* What operators ordered once stays ordered.                              *)
(***************************************************************************)
LEMMA OrdersStay == [Next]_vars => given \subseteq given'
  BY DEF Next, Work, RegisterOrUpdateDevice, HeartbeatRead, HeartbeatMark,
         SaveReport, ConfirmWiped, SaveCopy, SaveWrite, Respond, SaveSwallowed,
         SaveRaises, FleetHeartbeat, FleetAction, RestartServer, Polling,
         SyncDevice, ApplySyncResponse, CallIsLost, Play, LaunchSession,
         CheckLock, DeviceUnlocked, ClientExits, Relaunch, LoopEnds,
         LockScreenWatcher, Step, Wipe, ClearSecrets, WipeStorage, SendConfirm,
         SkipConfirm, ConfirmAnswered, FinishWipe, Reboot, PowerCycle,
         Reinstall, vars, history

(***************************************************************************)
(* No step makes a wipe out of nothing.                                    *)
(***************************************************************************)
LEMMA StrayWipeStep ==
    TypeOK /\ NoStrayWipe /\ [Next]_vars => NoStrayWipe'
  <1> SUFFICES ASSUME TypeOK, NoStrayWipe, [Next]_vars, "wipe" \notin given'
               PROVE  NoWipe'
    BY DEF NoStrayWipe
  <1>1. NoWipe
    BY OrdersStay DEF NoStrayWipe
  <1>2. CASE UNCHANGED vars
    BY <1>1, <1>2 DEF NoWipe, vars, server, device, files, history
  <1>3. CASE Next
    BY <1>1, <1>3, NoWipeThreads, NoWipeOthers DEF Next
  <1> QED BY <1>2, <1>3

(***************************************************************************)
(* No device is erased unless an operator once ordered the wipe, for any   *)
(* number of threads and however many answers are late, calls are lost and *)
(* servers and devices start again.                                        *)
(***************************************************************************)
THEOREM WipeIsOrdered == Spec => []EraseWasOrdered
  <1>1. Init => NoStrayWipe
    BY DEF Init, NoStrayWipe, NoWipe, Idle, Silent, WipeStages
  <1>2. NoStrayWipe => EraseWasOrdered
    BY DEF NoStrayWipe, NoWipe, EraseWasOrdered
  <1> QED BY <1>1, <1>2, TypeCorrect, StrayWipeStep, PTL DEF Spec

-----------------------------------------------------------------------------
(***************************************************************************)
(* Nothing calls the device wiped, and nothing is about to, before it may  *)
(* be called so.                                                           *)
(***************************************************************************)
MayBeWiped == \/ "confirm-wiped" \in given
              \/ erased = "everything"
              \/ ~StrictWipe /\ erased = "secrets"

NoClaim == /\ mem # "wiped" /\ repo # "wiped"
           /\ \A t \in Threads : thr[t].copy # "wiped" /\ thr[t].pc # "confirm"

NoStrayClaim == MayBeWiped \/ NoClaim

\* How far the wipe has come, and what it has erased so far.
StagesOK == /\ session \in {"storage", "confirm", "confirming", "finish"} =>
                   erased # "nothing"
            /\ result = "completed" => erased = "everything"

(***************************************************************************)
(* Every step keeps the stages and what they have erased in accord.        *)
(***************************************************************************)
LEMMA StagesStep == TypeOK /\ StagesOK /\ [Next]_vars => StagesOK'
  <1> SUFFICES ASSUME TypeOK, StagesOK, [Next]_vars PROVE StagesOK'
    OBVIOUS
  <1> USE DEF StagesOK, server, files, config, wiping, device, history
  <1>1. ASSUME UNCHANGED <<session, result, erased>> PROVE StagesOK'
    BY <1>1
  <1>2. CASE Play
    BY <1>2 DEF Play, LaunchSession, CheckLock, DeviceUnlocked, ClientExits,
                Relaunch, LoopEnds, LockScreenWatcher, Step
  <1>3. CASE Wipe
    BY <1>3 DEF Wipe, ClearSecrets, WipeStorage, SendConfirm, SkipConfirm, Step,
                ConfirmAnswered, FinishWipe, Reboot, Boot, TypeOK
  <1>4. CASE PowerCycle \/ Reinstall
    BY <1>4 DEF PowerCycle, Reinstall, Boot
  <1>5. CASE UNCHANGED vars
    BY <1>5 DEF vars
  <1>6. CASE Polling
    BY <1>6 DEF Polling, SyncDevice, ApplySyncResponse, CallIsLost
  <1>7. CASE RestartServer
    BY <1>7 DEF RestartServer
  <1>8. ASSUME NEW t \in Threads,
               \/ Work(t) \/ SaveSwallowed(t) \/ SaveRaises(t) \/ FleetHeartbeat(t)
               \/ \E o \in Order : FleetAction(t, o)
        PROVE  StagesOK'
    BY <1>8 DEF Work, RegisterOrUpdateDevice, HeartbeatRead, HeartbeatMark,
         SaveReport, ConfirmWiped, SaveCopy, SaveWrite, Respond, SaveSwallowed,
         SaveRaises, FleetHeartbeat, FleetAction
  <1> QED BY <1>2, <1>3, <1>4, <1>5, <1>6, <1>7, <1>8 DEF Next

\* What is erased stays erased, so a device that may be called wiped once may
\* be called so for ever.
LEMMA MayBeWipedStays ==
    TypeOK /\ MayBeWiped /\ [Next]_vars => MayBeWiped'
  <1> SUFFICES ASSUME TypeOK, MayBeWiped, [Next]_vars PROVE MayBeWiped'
    OBVIOUS
  <1>1. given \subseteq given'
    BY OrdersStay
  <1>2. erased # "nothing" => erased' \in {erased, "everything"}
    BY DEF Next, Work, RegisterOrUpdateDevice, HeartbeatRead, HeartbeatMark,
         SaveReport, ConfirmWiped, SaveCopy, SaveWrite, Respond, SaveSwallowed,
         SaveRaises, FleetHeartbeat, FleetAction, RestartServer, Polling,
         SyncDevice, ApplySyncResponse, CallIsLost, Play, LaunchSession,
         CheckLock, DeviceUnlocked, ClientExits, Relaunch, LoopEnds,
         LockScreenWatcher, Step, Wipe, ClearSecrets, WipeStorage, SendConfirm,
         SkipConfirm, ConfirmAnswered, FinishWipe, Reboot, PowerCycle,
         Reinstall, vars, history
  <1> QED BY <1>1, <1>2 DEF MayBeWiped

(***************************************************************************)
(* A step of a request thread does not claim a wipe by itself.             *)
(***************************************************************************)
LEMMA NoClaimThreads ==
    ASSUME TypeOK, NoClaim, NEW t \in Threads, "confirm-wiped" \notin given',
           \/ Work(t) \/ SaveSwallowed(t) \/ SaveRaises(t) \/ FleetHeartbeat(t)
           \/ \E o \in Order : FleetAction(t, o)
    PROVE  NoClaim'
  <1> USE DEF NoClaim, server, files, config, wiping, device, history
  <1> DEFINE Clean(f) == \A u \in Threads : f[u].copy # "wiped" /\ f[u].pc # "confirm"
  <1>0. /\ thr \in [Threads -> Task]
        /\ Clean(thr)
        /\ thr[t].next \in {"read", "report", "reply"}
    BY DEF TypeOK, Task
  <1>a. ASSUME NEW pc, NEW keep, NEW copy, NEW next,
               copy # "wiped", pc # "confirm"
        PROVE  Clean(Doing(t, pc, keep, copy, next))
    BY <1>0, <1>a, DoingOf
  <1>b. ASSUME NEW next PROVE Clean(Saving(t, next))
    BY <1>a DEF Saving
  <1>c. Clean(Saved(t))
    BY <1>0, <1>a DEF Saved
  <1>d. Clean([thr EXCEPT ![t] = Idle])
    BY <1>0 DEF Idle
  <1>1. CASE RegisterOrUpdateDevice(t)
    BY <1>1, <1>b DEF RegisterOrUpdateDevice
  <1>2. CASE HeartbeatRead(t)
    <2>1. Clean(thr')
      <3> DEFINE keep == mem \in Kept
      <3>1. thr' = Doing(t, "mark", keep, "none", thr[t].next)
        BY <1>2 DEF HeartbeatRead
      <3> HIDE DEF keep
      <3> QED BY <1>a, <3>1
    <2> QED BY <1>2, <2>1 DEF HeartbeatRead
  <1>3. CASE HeartbeatMark(t)
    BY <1>3, <1>b DEF HeartbeatMark
  <1>4. CASE SaveReport(t)
    <2>1. Clean(thr')
      BY <1>4, <1>a, <1>b DEF SaveReport
    <2> QED BY <1>4, <2>1 DEF SaveReport
  <1>5. ~ConfirmWiped(t)
    BY <1>0 DEF ConfirmWiped
  <1>6. CASE SaveCopy(t)
    BY <1>6, <1>a DEF SaveCopy
  <1>7. CASE SaveWrite(t)
    BY <1>0, <1>7, <1>c DEF SaveWrite
  <1>8. CASE Respond(t)
    BY <1>8, <1>d DEF Respond
  <1>9. CASE SaveSwallowed(t)
    BY <1>9, <1>c DEF SaveSwallowed
  <1>10. CASE SaveRaises(t)
    BY <1>0, <1>10, <1>d DEF SaveRaises
  <1>11. CASE FleetHeartbeat(t)
    BY <1>11, <1>a DEF FleetHeartbeat
  <1>12. ASSUME NEW o \in Order, FleetAction(t, o) PROVE NoClaim'
    <2>1. mem' # "wiped"
      BY <1>12, OrderedStatus DEF FleetAction
    <2> QED BY <1>12, <1>b, <2>1 DEF FleetAction
  <1> QED BY <1>1, <1>2, <1>3, <1>4, <1>5, <1>6, <1>7, <1>8, <1>9, <1>10,
             <1>11, <1>12 DEF Work

(***************************************************************************)
(* The device does not claim a wipe that may not be claimed yet, and no    *)
(* restart of the control plane does it for the device.                    *)
(***************************************************************************)
LEMMA NoClaimOthers ==
    ASSUME TypeOK, NoClaim, StagesOK, ~MayBeWiped,
           \/ RestartServer \/ Polling \/ Play \/ Wipe
           \/ PowerCycle \/ Reinstall
    PROVE  NoClaim'
  <1> USE DEF NoClaim, server, files, config, wiping, device, history
  <1>0. thr \in [Threads -> Task]
    BY DEF TypeOK
  <1>1. ASSUME UNCHANGED server PROVE NoClaim'
    BY <1>1
  <1>2. CASE RestartServer
    BY <1>0, <1>2 DEF RestartServer, Idle
  <1>3. ASSUME NEW p \in Poller, NEW t \in Threads, SyncDevice(p, t)
        PROVE  NoClaim'
    <2>1. thr' = Doing(t, "register", FALSE, "none", "reply")
      BY <1>3 DEF SyncDevice, Send
    <2>2. \A u \in Threads \ {t} : thr'[u] = thr[u]
      BY <1>0, <2>1 DEF Doing
    <2>3. thr'[t].copy = "none" /\ thr'[t].pc = "register"
      BY <1>0, <2>1 DEF Doing
    <2> QED BY <1>3, <2>2, <2>3 DEF SyncDevice
  <1>4. \A t \in Threads : ~SendConfirm(t)
    BY FleetAssumption DEF SendConfirm, StagesOK, MayBeWiped, TypeOK
  <1>5. CASE Play
    BY <1>1, <1>5 DEF Play, LaunchSession, CheckLock, DeviceUnlocked, ClientExits,
                Relaunch, LoopEnds, LockScreenWatcher, Step
  <1>6. CASE Wipe
    BY <1>1, <1>4, <1>6 DEF Wipe, ClearSecrets, WipeStorage, SkipConfirm, Step,
                ConfirmAnswered, FinishWipe, Reboot
  <1>7. CASE PowerCycle \/ Reinstall
    BY <1>1, <1>7 DEF PowerCycle, Reinstall
  <1>8. ASSUME NEW p \in Poller, ApplySyncResponse(p) \/ CallIsLost(p)
        PROVE  NoClaim'
    BY <1>1, <1>8 DEF ApplySyncResponse, CallIsLost
  <1> QED BY <1>2, <1>3, <1>5, <1>6, <1>7, <1>8 DEF Polling

(***************************************************************************)
(* No step makes a claim of a wipe out of nothing.                         *)
(***************************************************************************)
LEMMA StrayClaimStep ==
    TypeOK /\ StagesOK /\ NoStrayClaim /\ [Next]_vars => NoStrayClaim'
  <1> SUFFICES ASSUME TypeOK, StagesOK, NoStrayClaim, [Next]_vars, ~MayBeWiped'
               PROVE  NoClaim'
    BY DEF NoStrayClaim
  <1>1. NoClaim /\ ~MayBeWiped
    BY MayBeWipedStays DEF NoStrayClaim
  <1>2. "confirm-wiped" \notin given'
    BY DEF MayBeWiped
  <1>3. CASE UNCHANGED vars
    BY <1>1, <1>3 DEF NoClaim, vars, server
  <1>4. CASE Next
    BY <1>1, <1>2, <1>4, NoClaimThreads, NoClaimOthers DEF Next
  <1> QED BY <1>3, <1>4

(***************************************************************************)
(* The control plane never calls a device wiped that has not erased what   *)
(* its mode asks for, unless an operator has said so by hand.              *)
(***************************************************************************)
THEOREM WipedIsErased == Spec => []WipedMeansErased
  <1>1. Init => StagesOK /\ NoStrayClaim
    BY DEF Init, StagesOK, NoStrayClaim, NoClaim, Idle
  <1>2. NoStrayClaim => WipedMeansErased
    BY DEF NoStrayClaim, NoClaim, MayBeWiped, WipedMeansErased
  <1> QED BY <1>1, <1>2, TypeCorrect, StagesStep, StrayClaimStep, PTL DEF Spec

=============================================================================
