---------------------------- MODULE JobQueueProofs ----------------------------
(* Machine-checked proofs about JobQueue, for every value of its constants. *)
EXTENDS JobQueue, FiniteSetTheorems, SequenceTheorems, TLAPS

USE DEF JobIds, AnyKey

(* A function on an initial segment of the naturals is a sequence.          *)
LEMMA FunctionIsSeq ==
  ASSUME NEW S, NEW n \in Nat, NEW q \in [1..n -> S]
  PROVE  q \in Seq(S) /\ Len(q) = n
  OBVIOUS

(* Removing one position of a sequence gives a sequence over the same set.  *)
LEMMA WithoutIndexType ==
  ASSUME NEW S, NEW s \in Seq(S), NEW i \in 1..Len(s)
  PROVE  /\ WithoutIndex(s, i) \in Seq(S)
         /\ Len(WithoutIndex(s, i)) = Len(s) - 1
         /\ \A n \in 1..(Len(s) - 1) :
              WithoutIndex(s, i)[n] = IF n < i THEN s[n] ELSE s[n + 1]
<1>1. /\ Len(s) \in Nat /\ Len(s) - 1 \in Nat
      /\ \A n \in 1..Len(s) : s[n] \in S
  OBVIOUS
<1>2. \A n \in 1..(Len(s) - 1) : n + 1 \in 1..Len(s) /\ n \in 1..Len(s)
  BY <1>1
<1>3. WithoutIndex(s, i) \in [1..(Len(s) - 1) -> S]
  BY <1>1, <1>2 DEF WithoutIndex
<1> QED BY <1>1, <1>3 DEF WithoutIndex

(* An increasing enumeration of a set of job ids is a sequence of job ids.  *)
LEMMA InOrderType ==
  ASSUME NEW S \in SUBSET JobIds, NEW q \in InOrder(S)
  PROVE  /\ q \in Seq(JobIds)
         /\ \A n \in 1..Len(q) : q[n] \in S
         /\ \A x \in S : \E n \in 1..Len(q) : q[n] = x
         /\ \A m, n \in 1..Len(q) : m < n => q[m] < q[n]
<1>1. MaxJobs \in Nat BY BoundAssumption
<1>2. IsFiniteSet(1..MaxJobs) BY <1>1, FS_Interval
<1>3. IsFiniteSet(S) BY <1>2, FS_Subset
<1>4. Cardinality(S) \in Nat BY <1>3, FS_CardinalityType
<1>5. q \in [1..Cardinality(S) -> S] BY DEF InOrder
<1>6. q \in [1..Cardinality(S) -> JobIds] BY <1>5
<1>7. q \in Seq(JobIds) /\ Len(q) = Cardinality(S) BY <1>4, <1>6, FunctionIsSeq
<1> QED BY <1>5, <1>7 DEF InOrder

-----------------------------------------------------------------------------
(* Type correctness                                                         *)

(* What a save leaves on disk has the type of the jobs.                     *)
LEMMA PersistType ==
  ASSUME TypeOK, jobs' \in [JobIds -> JobState], NEW ok \in BOOLEAN, Persist(ok)
  PROVE  disk' \in [JobIds -> JobState] /\ saveFailures' \in Nat
  BY DEF TypeOK, Persist

(* Overwriting fields of a job by values of their types keeps the type.     *)
LEMMA JobUpdateType ==
  ASSUME NEW r \in JobState, NEW st \in Statuses, NEW t \in Nat
  PROVE  /\ [r EXCEPT !.status = st, !.finished = t] \in JobState
         /\ [r EXCEPT !.status = st, !.heartbeat = t] \in JobState
         /\ [r EXCEPT !.heartbeat = t] \in JobState
         /\ [r EXCEPT !.cancelRequested = TRUE] \in JobState
<1>1. [r EXCEPT !.status = st, !.finished = t] \in JobState BY DEF JobState
<1>2. [r EXCEPT !.status = st, !.heartbeat = t] \in JobState BY DEF JobState
<1>3. [r EXCEPT !.heartbeat = t] \in JobState BY DEF JobState
<1>4. [r EXCEPT !.cancelRequested = TRUE] \in JobState BY DEF JobState
<1> QED BY <1>1, <1>2, <1>3, <1>4

(* The record of a job that is not there, or has just been created.         *)
LEMMA AbsentType ==
  /\ Absent \in JobState
  /\ [Absent EXCEPT !.status = "pending"] \in JobState
  BY DEF Absent, JobState, Statuses

(* A worker whose handler ended goes on to fail.                            *)
LEMMA WorkerUpdateType ==
  ASSUME NEW r \in WorkerState
  PROVE  [r EXCEPT !.pc = "fail"] \in WorkerState
  BY DEF WorkerState

(* The states the actions give a worker.                                    *)
LEMMA WorkerValues ==
  /\ IdleWorker \in WorkerState
  /\ \A pc \in {"idle", "handler", "fail", "dead"}, j \in JobIds \cup {0} :
       [pc |-> pc, job |-> j] \in WorkerState
  BY DEF WorkerState, IdleWorker

(* The five statuses of the code.                                           *)
LEMMA StatusNames ==
  {"pending", "running", "completed", "failed", "cancelled"} = Statuses
  BY DEF Statuses, Terminal

(* The initial state has its types.                                         *)
LEMMA TypeInit == Init => TypeOK
  BY BoundAssumption, AbsentType
     DEF Init, TypeOK, NoRequest, IdleWorker, WorkerState, Waiting

(* Every step keeps the types.                                              *)
LEMMA TypeStep == TypeOK /\ [Next]_vars => TypeOK'
<1> SUFFICES ASSUME TypeOK, [Next]_vars PROVE TypeOK' OBVIOUS
<1> USE BoundAssumption DEF attrVars, queueVars, threadVars
<1>1. ASSUME NEW c \in Callers, NEW k \in AnyKey, EnqueueReadClock(c, k) PROVE TypeOK'
  BY <1>1 DEF TypeOK, EnqueueReadClock
<1>2. ASSUME NEW c \in Callers, EnqueueReturnsExisting(c) PROVE TypeOK'
  BY <1>2 DEF TypeOK, EnqueueReturnsExisting, NoRequest
<1>3. ASSUME NEW c \in Callers, NEW ok \in BOOLEAN, EnqueueCreates(c, ok) PROVE TypeOK'
  <2>1. jobs' \in [JobIds -> JobState] BY <1>3, AbsentType DEF TypeOK, EnqueueCreates
  <2>2. disk' \in [JobIds -> JobState] /\ saveFailures' \in Nat
    BY <1>3, <2>1, PersistType DEF EnqueueCreates
  <2>3. queue' \in Seq(JobIds) BY <1>3 DEF TypeOK, EnqueueCreates
  <2>4. key' \in [JobIds -> AnyKey] /\ created' \in [JobIds -> Nat] /\ nextId' \in Nat \ {0}
    BY <1>3 DEF TypeOK, EnqueueCreates
  <2>5. idem' \in [Keys -> JobIds \cup {0}] BY <1>3 DEF TypeOK, EnqueueCreates
  <2>6. request' \in [Callers -> [key : AnyKey, now : Nat, active : BOOLEAN]]
    BY <1>3 DEF TypeOK, EnqueueCreates, NoRequest
  <2> QED BY <1>3, <2>1, <2>2, <2>3, <2>4, <2>5, <2>6 DEF TypeOK, EnqueueCreates
<1>4. ASSUME NEW w \in Workers, NEW ok \in BOOLEAN, NEW h \in BOOLEAN, Claim(w, ok, h)
      PROVE TypeOK'
  <2>1. PICK i \in 1..Len(queue) : Claim(w, ok, h)!(i) BY <1>4 DEF Claim
  <2>0. queue \in Seq(JobIds) BY DEF TypeOK
  <2>2. queue[i] \in JobIds BY <2>0, ElementOfSeq
  <2>3. jobs' \in [JobIds -> JobState]
    BY <2>1, <2>2, JobUpdateType, StatusNames DEF TypeOK
  <2>4. disk' \in [JobIds -> JobState] /\ saveFailures' \in Nat BY <2>1, <2>3, PersistType
  <2>5. queue' \in Seq(JobIds) BY <2>1, WithoutIndexType DEF TypeOK
  <2>6. /\ worker' \in [Workers -> WorkerState]
        /\ beating' \subseteq JobIds /\ runs' \in [JobIds -> Nat]
    <3>1. \E r \in WorkerState : worker' = [worker EXCEPT ![w] = r]
      BY <2>1, <2>2, WorkerValues
    <3>2. worker' \in [Workers -> WorkerState] BY <3>1 DEF TypeOK
    <3>3. beating' \subseteq JobIds BY <2>1, <2>2 DEF TypeOK
    <3>4. runs' \in [JobIds -> Nat]
      <4>1. runs' = runs \/ runs' = [runs EXCEPT ![queue[i]] = @ + 1] BY <2>1
      <4>2. runs \in [JobIds -> Nat] BY DEF TypeOK
      <4>3. \A j \in JobIds : [runs EXCEPT ![j] = @ + 1] \in [JobIds -> Nat] BY <4>2
      <4> QED BY <4>1, <4>2, <4>3, <2>2
    <3> QED BY <3>2, <3>3, <3>4
  <2> QED BY <2>1, <2>3, <2>4, <2>5, <2>6 DEF TypeOK
<1>5. ASSUME NEW w \in Workers, NEW ok \in BOOLEAN, UpdateProgress(w, ok) PROVE TypeOK'
  <2>1. jobs' \in [JobIds -> JobState] BY <1>5, JobUpdateType, StatusNames DEF TypeOK, UpdateProgress
  <2>2. disk' \in [JobIds -> JobState] /\ saveFailures' \in Nat
    BY <1>5, <2>1, PersistType DEF UpdateProgress
  <2> QED BY <1>5, <2>1, <2>2, WorkerUpdateType DEF TypeOK, UpdateProgress
<1>6. ASSUME NEW w \in Workers, HandlerRaises(w) PROVE TypeOK'
  BY <1>6, WorkerUpdateType DEF TypeOK, HandlerRaises
<1>7. ASSUME NEW w \in Workers, NEW ok \in BOOLEAN, Complete(w, ok) PROVE TypeOK'
  <2>1. CASE jobs[worker[w].job].status = "running"
    <3>1. /\ jobs' = [jobs EXCEPT ![worker[w].job] =
                        [@ EXCEPT !.status = "completed", !.finished = now]]
          /\ Persist(ok)
          /\ \E r \in {IdleWorker, [pc |-> "fail", job |-> worker[w].job]} :
               worker' = [worker EXCEPT ![w] = r]
      BY <1>7, <2>1 DEF Complete
    <3>2. jobs' \in [JobIds -> JobState]
      BY <3>1, JobUpdateType, StatusNames DEF TypeOK
    <3>3. disk' \in [JobIds -> JobState] /\ saveFailures' \in Nat
      BY <3>1, <3>2, PersistType
    <3>4. worker[w].job \in JobIds \cup {0} BY DEF TypeOK, WorkerState
    <3>5. worker' \in [Workers -> WorkerState]
      BY <3>1, <3>4, WorkerValues DEF TypeOK
    <3> QED BY <1>7, <3>2, <3>3, <3>5 DEF TypeOK, Complete
  <2>2. CASE jobs[worker[w].job].status # "running"
    <3>1. /\ worker' = [worker EXCEPT ![w] = [@ EXCEPT !.pc = "fail"]]
          /\ UNCHANGED <<jobs, disk, saveFailures>>
      BY <1>7, <2>2 DEF Complete
    <3>2. worker' \in [Workers -> WorkerState] BY <3>1, WorkerUpdateType DEF TypeOK
    <3> QED BY <1>7, <3>1, <3>2 DEF TypeOK, Complete
  <2> QED BY <2>1, <2>2
<1>8. ASSUME NEW w \in Workers, NEW ok \in BOOLEAN, Fail(w, ok) PROVE TypeOK'
  <2>1. jobs' \in [JobIds -> JobState] /\ disk' \in [JobIds -> JobState] /\ saveFailures' \in Nat
    <3>1. CASE jobs[worker[w].job].status \in {"pending", "running"}
      <4>1. jobs' = [jobs EXCEPT ![worker[w].job] =
                       [@ EXCEPT !.status = "failed", !.finished = now]] /\ Persist(ok)
        BY <1>8, <3>1 DEF Fail, IsTerminal, Terminal
      <4>2. jobs' \in [JobIds -> JobState]
        BY <4>1, JobUpdateType, StatusNames DEF TypeOK
      <4> QED BY <4>1, <4>2, PersistType
    <3>2. CASE jobs[worker[w].job].status \notin {"pending", "running"}
      BY <1>8, <3>2 DEF TypeOK, Fail
    <3> QED BY <3>1, <3>2
  <2>2. \E pc \in {"idle", "dead"} : worker' = [worker EXCEPT ![w] = [pc |-> pc, job |-> 0]]
    BY <1>8 DEF Fail
  <2>3. worker' \in [Workers -> WorkerState]
    BY <2>2, WorkerValues DEF TypeOK
  <2> QED BY <1>8, <2>1, <2>3 DEF TypeOK, Fail
<1>9. ASSUME NEW j \in JobIds, HeartbeatLoopEnds(j) PROVE TypeOK'
  BY <1>9 DEF TypeOK, HeartbeatLoopEnds
<1>10. ASSUME NEW j \in JobIds, NEW ok \in BOOLEAN, Heartbeat(j, ok) PROVE TypeOK'
  <2>1. CASE jobs[j].status = "absent" BY <1>10, <2>1 DEF TypeOK, Heartbeat
  <2>2. CASE jobs[j].status # "absent"
    <3>1. jobs' = [jobs EXCEPT ![j] = [@ EXCEPT !.heartbeat = now]] /\ Persist(ok)
      BY <1>10, <2>2 DEF Heartbeat
    <3>2. jobs' \in [JobIds -> JobState] BY <3>1, JobUpdateType, StatusNames DEF TypeOK
    <3>3. disk' \in [JobIds -> JobState] /\ saveFailures' \in Nat
      BY <3>1, <3>2, PersistType
    <3> QED BY <1>10, <3>2, <3>3 DEF TypeOK, Heartbeat
  <2> QED BY <2>1, <2>2
<1>11. ASSUME NEW j \in JobIds, NEW ok \in BOOLEAN, CancelPending(j, ok) PROVE TypeOK'
  <2>1. jobs' \in [JobIds -> JobState]
    BY <1>11, JobUpdateType, StatusNames DEF TypeOK, CancelPending
  <2>2. disk' \in [JobIds -> JobState] /\ saveFailures' \in Nat
    BY <1>11, <2>1, PersistType DEF CancelPending
  <2>3. queue' \in Seq(JobIds)
    <3>1. CASE Positions(queue, j) = {} BY <1>11, <3>1 DEF CancelPending, TypeOK
    <3>2. CASE Positions(queue, j) # {}
      <4>1. PICK i \in 1..Len(queue) : queue' = WithoutIndex(queue, i)
        BY <1>11, <3>2 DEF CancelPending, Positions
      <4> QED BY <4>1, WithoutIndexType DEF TypeOK
    <3> QED BY <3>1, <3>2
  <2> QED BY <1>11, <2>1, <2>2, <2>3 DEF TypeOK, CancelPending
<1>12. ASSUME NEW j \in JobIds, NEW ok \in BOOLEAN, CancelRunning(j, ok) PROVE TypeOK'
  <2>1. jobs' \in [JobIds -> JobState] BY <1>12, JobUpdateType, StatusNames DEF TypeOK, CancelRunning
  <2>2. disk' \in [JobIds -> JobState] /\ saveFailures' \in Nat
    BY <1>12, <2>1, PersistType DEF CancelRunning
  <2> QED BY <1>12, <2>1, <2>2 DEF TypeOK, CancelRunning
<1>13. CASE MaintenanceReadClock
  BY <1>13 DEF TypeOK, MaintenanceReadClock
<1>14. ASSUME NEW ok \in BOOLEAN, ReapStuckJobs(ok) PROVE TypeOK'
  <2>1. jobs' \in [JobIds -> JobState]
    BY <1>14, JobUpdateType, StatusNames DEF TypeOK, ReapStuckJobs
  <2>2. disk' \in [JobIds -> JobState] /\ saveFailures' \in Nat
    BY <1>14, <2>1, PersistType DEF ReapStuckJobs, TypeOK
  <2> QED BY <1>14, <2>1, <2>2 DEF TypeOK, ReapStuckJobs
<1>15. ASSUME NEW ok \in BOOLEAN, PurgeOldJobs(ok) PROVE TypeOK'
  <2>1. jobs' \in [JobIds -> JobState]
    BY <1>15, AbsentType DEF TypeOK, PurgeOldJobs
  <2>2. disk' \in [JobIds -> JobState] /\ saveFailures' \in Nat
    BY <1>15, <2>1, PersistType DEF PurgeOldJobs, TypeOK
  <2>3. idem' \in [Keys -> JobIds \cup {0}] BY <1>15 DEF TypeOK, PurgeOldJobs
  <2> QED BY <1>15, <2>1, <2>2, <2>3 DEF TypeOK, PurgeOldJobs, Waiting
<1>16. CASE Restart
  <2>1. jobs' \in [JobIds -> JobState]
    BY <1>16, JobUpdateType, StatusNames DEF TypeOK, Restart, Recovered
  <2>2. queue' \in Seq(JobIds) BY <1>16, InOrderType DEF Restart
  <2> QED BY <1>16, <2>1, <2>2 DEF TypeOK, Restart, NoRequest, IdleWorker, WorkerState, Waiting
<1>17. CASE Tick
  BY <1>17 DEF TypeOK, Tick
<1>18. CASE UNCHANGED vars
  BY <1>18 DEF TypeOK, vars
<1> QED
  BY <1>1, <1>2, <1>3, <1>4, <1>5, <1>6, <1>7, <1>8, <1>9, <1>10, <1>11, <1>12,
     <1>13, <1>14, <1>15, <1>16, <1>17, <1>18
     DEF Next, EnqueueLocked, WorkerStep, Maintenance

(* The state of the service, of its file and of all its threads keeps its   *)
(* type, for any number of jobs, workers, restarts and failing saves.       *)
THEOREM TypeCorrect == Spec => []TypeOK
<1> QED BY TypeInit, TypeStep, PTL DEF Spec

-----------------------------------------------------------------------------
(* The inductive invariant                                                  *)

(* In memory or on disk, or worked on at some time: the ids that matter.    *)
Known(j) == jobs[j].status # "absent" \/ disk[j].status # "absent" \/ runs[j] > 0

(* No request can any longer be refused, or answered, because of j's key:   *)
(* every clock reading in use is at least TTL after j's creation.           *)
Expired(j) == created[j] + TTL + MaxLag <= now

(* Ids not yet handed out are unused.                                       *)
FreshIds == \A j \in JobIds : Known(j) => j < nextId

(* A handled job is no longer claimable, in memory or on disk, and a saved  *)
(* outcome is the one in memory unless the job was purged there.            *)
RunsInv ==
  /\ \A j \in JobIds : runs[j] <= 1
  /\ \A j \in JobIds : runs[j] > 0 =>
       jobs[j].status \notin {"pending", "cancelled"} /\ disk[j].status \notin {"pending", "cancelled"}
OutcomeInv ==
  \A j \in JobIds : disk[j].status \in Terminal => jobs[j].status \in {disk[j].status, "absent"}

(* A worker holds a job that was handed out and is not pending.             *)
WorkerInv ==
  \A w \in Workers :
    /\ worker[w].pc \in {"handler", "fail"} => worker[w].job \in JobIds
    /\ worker[w].job \in JobIds =>
         worker[w].job < nextId /\ jobs[worker[w].job].status # "pending"

(* Times agree: nothing is read from the future, a request's reading is at  *)
(* most MaxLag old, a job runs and finishes after it was created.           *)
TimeInv ==
  /\ maint.now <= now
  /\ \A c \in Callers : request[c].active =>
       request[c].now <= now /\ now <= request[c].now + MaxLag
  /\ \A j \in JobIds : Known(j) => created[j] <= now
  /\ \A j \in JobIds : jobs[j].status = "running" => created[j] <= jobs[j].heartbeat
  /\ \A j \in JobIds : jobs[j].status \in Terminal => created[j] <= jobs[j].finished
  /\ \A j \in JobIds : disk[j].status \in Terminal => created[j] <= disk[j].finished

(* A job leaves memory, and a handled job leaves the disk, only when it has *)
(* expired.                                                                 *)
PurgeInv ==
  /\ \A j \in JobIds : disk[j].status # "absent" => jobs[j].status # "absent" \/ Expired(j)
  /\ \A j \in JobIds : runs[j] > 0 => disk[j].status # "absent" \/ Expired(j)

(* Known jobs of one key are spaced by the TTL, and the idempotency entry   *)
(* names a job in memory such that all others of the key are older by the   *)
(* TTL or expired.                                                          *)
SpacedInv ==
  \A i, j \in JobIds :
    i < j /\ key[i] = key[j] /\ key[i] \in Keys /\ Known(i) /\ Known(j)
      => created[i] + TTL <= created[j]
IdemInv ==
  \A k \in Keys :
    /\ idem[k] # 0 => key[idem[k]] = k /\ jobs[idem[k]].status # "absent"
    /\ \A i \in JobIds : key[i] = k /\ Known(i) =>
         \/ Expired(i)
         \/ idem[k] # 0 /\ (i = idem[k] \/ created[i] + TTL <= created[idem[k]])

KeyInv == TimeInv /\ PurgeInv /\ SpacedInv /\ IdemInv
IInv == TypeOK /\ FreshIds /\ RunsInv /\ OutcomeInv /\ WorkerInv /\ KeyInv

-----------------------------------------------------------------------------
(* Most actions only move jobs forward in their lifecycle, or drop expired  *)
(* ones.  Such a step is called quiet, and one lemma shows that quiet steps *)
(* preserve the invariant.                                                  *)

QuietJob(j) ==
  /\ jobs'[j].status = "pending" => jobs[j].status = "pending"
  /\ jobs'[j].status = "running" =>
       jobs[j].status = "running" /\ jobs'[j].heartbeat \in {jobs[j].heartbeat, now}
  /\ jobs'[j].status \in Terminal =>
       \/ jobs'[j].status = jobs[j].status /\ jobs'[j].finished = jobs[j].finished
       \/ jobs[j].status \in {"pending", "running"} /\ created[j] <= jobs'[j].finished
  /\ jobs'[j].status = "cancelled" => jobs[j].status \in {"pending", "cancelled"}
  /\ jobs[j].status = "absent" => jobs'[j].status = "absent"
  /\ jobs'[j].status = "absent" => jobs[j].status = "absent" \/ Expired(j)

QuietIdem(k) ==
  \/ idem'[k] = idem[k] /\ (idem[k] # 0 => jobs'[idem[k]].status # "absent")
  \/ idem'[k] = 0 /\ idem[k] # 0 /\ jobs'[idem[k]].status = "absent"

QuietWorker(w) ==
  \/ worker'[w].job = worker[w].job
     /\ (worker'[w].pc \in {"handler", "fail"} => worker[w].pc \in {"handler", "fail"})
  \/ worker'[w].job = 0 /\ worker'[w].pc \notin {"handler", "fail"}

Quiet ==
  /\ UNCHANGED <<now, nextId, key, created, runs>>
  /\ disk' = disk \/ disk' = jobs'
  /\ \A j \in JobIds : QuietJob(j)
  /\ \A k \in Keys : QuietIdem(k)
  /\ \A w \in Workers : QuietWorker(w)
  /\ \A c \in Callers : request'[c].active =>
       request'[c] = request[c] \/ request'[c].now = now
  /\ maint'.now <= now

(* Changing nothing about the jobs is quiet.                                *)
LEMMA SameJobsQuiet ==
  ASSUME IInv, UNCHANGED <<jobs, idem>>
  PROVE  (\A j \in JobIds : QuietJob(j)) /\ (\A k \in Keys : QuietIdem(k))
<1>1. \A j \in JobIds : QuietJob(j) BY DEF QuietJob, IInv, TypeOK, JobState, Terminal
<1>2. \A k \in Keys : QuietIdem(k) BY DEF QuietIdem, IInv, KeyInv, IdemInv
<1> QED BY <1>1, <1>2

(* Replacing one present job by a later version of it is quiet.             *)
LEMMA OneJobQuiet ==
  ASSUME IInv, NEW j \in JobIds, NEW r \in JobState, UNCHANGED <<now, idem, created>>,
         jobs' = [jobs EXCEPT ![j] = r],
         jobs[j].status # "absent", r.status # "absent", QuietJob(j)
  PROVE  (\A i \in JobIds : QuietJob(i)) /\ (\A k \in Keys : QuietIdem(k))
<1>0. jobs \in [JobIds -> JobState] /\ idem \in [Keys -> JobIds \cup {0}]
  BY DEF IInv, TypeOK
<1>1. \A i \in JobIds \ {j} : jobs'[i] = jobs[i] BY <1>0
<1>2. jobs'[j] = r BY <1>0
<1>3. ASSUME NEW i \in JobIds \ {j} PROVE QuietJob(i)
  BY <1>1, <1>3 DEF QuietJob
<1>4. \A i \in JobIds : jobs[i].status # "absent" => jobs'[i].status # "absent"
  BY <1>1, <1>2
<1>5. ASSUME NEW k \in Keys PROVE QuietIdem(k)
  <2>1. idem[k] # 0 => idem[k] \in JobIds /\ jobs[idem[k]].status # "absent"
    BY <1>0 DEF IInv, KeyInv, IdemInv
  <2> QED BY <1>4, <2>1 DEF QuietIdem
<1> QED BY <1>3, <1>5

(* The versions of a job that the service writes.                           *)
LEMMA FinishedVersion ==
  ASSUME NEW r \in JobState, NEW st \in Statuses, NEW t \in Nat
  PROVE  /\ [r EXCEPT !.status = st, !.finished = t].status = st
         /\ [r EXCEPT !.status = st, !.finished = t].finished = t
         /\ [r EXCEPT !.status = st, !.finished = t] \in JobState
<1>1. [r EXCEPT !.status = st, !.finished = t].status = st BY DEF JobState
<1>2. [r EXCEPT !.status = st, !.finished = t].finished = t BY DEF JobState
<1> QED BY <1>1, <1>2, JobUpdateType

(* A heartbeat or a progress report changes the time of the heartbeat only. *)
LEMMA HeartbeatVersion ==
  ASSUME NEW r \in JobState, NEW t \in Nat
  PROVE  LET h == [r EXCEPT !.heartbeat = t]
         IN  /\ h.status = r.status /\ h.finished = r.finished
             /\ h.heartbeat = t /\ h \in JobState
<1>1. /\ [r EXCEPT !.heartbeat = t].status = r.status
      /\ [r EXCEPT !.heartbeat = t].finished = r.finished
      /\ [r EXCEPT !.heartbeat = t].heartbeat = t
  BY DEF JobState
<1>2. [r EXCEPT !.heartbeat = t] \in JobState BY DEF JobState
<1> QED BY <1>1, <1>2

(* A request to cancel a running job only sets its flag.                    *)
LEMMA CancelVersion ==
  ASSUME NEW r \in JobState
  PROVE  LET c == [r EXCEPT !.cancelRequested = TRUE]
         IN  /\ c.status = r.status /\ c.finished = r.finished
             /\ c.heartbeat = r.heartbeat /\ c \in JobState
<1>1. /\ [r EXCEPT !.cancelRequested = TRUE].status = r.status
      /\ [r EXCEPT !.cancelRequested = TRUE].finished = r.finished
      /\ [r EXCEPT !.cancelRequested = TRUE].heartbeat = r.heartbeat
  BY DEF JobState
<1>2. [r EXCEPT !.cancelRequested = TRUE] \in JobState BY DEF JobState
<1> QED BY <1>1, <1>2

(* Every action other than EnqueueCreates, Claim, Restart and Tick is quiet. *)
QuietAction ==
  \/ \E c \in Callers, k \in AnyKey : EnqueueReadClock(c, k)
  \/ \E c \in Callers : EnqueueReturnsExisting(c)
  \/ \E w \in Workers, ok \in BOOLEAN : UpdateProgress(w, ok)
  \/ \E w \in Workers : HandlerRaises(w)
  \/ \E w \in Workers, ok \in BOOLEAN : Complete(w, ok)
  \/ \E w \in Workers, ok \in BOOLEAN : Fail(w, ok)
  \/ \E j \in JobIds : HeartbeatLoopEnds(j)
  \/ \E j \in JobIds, ok \in BOOLEAN : Heartbeat(j, ok)
  \/ \E j \in JobIds, ok \in BOOLEAN : CancelPending(j, ok)
  \/ \E j \in JobIds, ok \in BOOLEAN : CancelRunning(j, ok)
  \/ MaintenanceReadClock
  \/ \E ok \in BOOLEAN : ReapStuckJobs(ok)
  \/ \E ok \in BOOLEAN : PurgeOldJobs(ok)
  \/ UNCHANGED vars

(* Workers that stay where they are, or only move to "fail", are quiet.     *)
LEMMA WorkerFailQuiet ==
  ASSUME TypeOK, NEW w \in Workers, worker[w].pc \in {"handler", "fail"},
         \/ UNCHANGED worker
         \/ worker' = [worker EXCEPT ![w] = [@ EXCEPT !.pc = "fail"]]
         \/ worker' = [worker EXCEPT ![w] = [pc |-> "fail", job |-> worker[w].job]]
         \/ worker' = [worker EXCEPT ![w] = [pc |-> "idle", job |-> 0]]
         \/ worker' = [worker EXCEPT ![w] = [pc |-> "dead", job |-> 0]]
  PROVE  \A x \in Workers : QuietWorker(x)
<1>1. worker \in [Workers -> WorkerState] BY DEF TypeOK
<1>2. \A x \in Workers \ {w} : worker'[x] = worker[x] BY <1>1
<1>3. \A r \in WorkerState : [r EXCEPT !.pc = "fail"].pc = "fail"
                             /\ [r EXCEPT !.pc = "fail"].job = r.job
  BY DEF WorkerState
<1>4. worker[w] \in WorkerState BY <1>1
<1>5. QuietWorker(w)
  <2>1. CASE UNCHANGED worker BY <2>1 DEF QuietWorker
  <2>2. CASE worker' = [worker EXCEPT ![w] = [@ EXCEPT !.pc = "fail"]]
    <3>1. worker'[w] = [worker[w] EXCEPT !.pc = "fail"] BY <1>1, <2>2
    <3> QED BY <1>3, <1>4, <3>1 DEF QuietWorker
  <2>3. CASE worker' = [worker EXCEPT ![w] = [pc |-> "fail", job |-> worker[w].job]]
    <3>1. worker'[w] = [pc |-> "fail", job |-> worker[w].job] BY <1>1, <2>3
    <3> QED BY <3>1 DEF QuietWorker
  <2>4. CASE \E pc \in {"idle", "dead"} : worker' = [worker EXCEPT ![w] = [pc |-> pc, job |-> 0]]
    <3>1. PICK pc \in {"idle", "dead"} : worker'[w] = [pc |-> pc, job |-> 0] BY <1>1, <2>4
    <3> QED BY <3>1 DEF QuietWorker
  <2> QED BY <2>1, <2>2, <2>3, <2>4
<1> QED BY <1>2, <1>5 DEF QuietWorker

(* These actions are quiet steps.                                           *)
LEMMA QuietActionIsQuiet ==
  ASSUME IInv, QuietAction PROVE Quiet
<1> USE DEF attrVars, queueVars, threadVars
<1>0. /\ TypeOK /\ WorkerInv /\ TimeInv /\ now \in Nat
      /\ jobs \in [JobIds -> JobState] /\ created \in [JobIds -> Nat]
  BY DEF IInv, KeyInv, TypeOK
<1>a. UNCHANGED worker => \A w \in Workers : QuietWorker(w) BY DEF QuietWorker
<1>b. UNCHANGED request => \A c \in Callers : request'[c].active =>
        request'[c] = request[c] \/ request'[c].now = now
  OBVIOUS
<1>c. \A ok \in BOOLEAN : Persist(ok) => disk' = disk \/ disk' = jobs' BY DEF Persist
<1>d. maint.now <= now /\ maint.now \in Nat BY <1>0 DEF TimeInv, TypeOK
<1>e. \A j \in JobIds : jobs[j].status # "absent" => created[j] <= now
  BY <1>0 DEF TimeInv, Known
<1>1. ASSUME NEW c \in Callers, NEW k \in AnyKey, EnqueueReadClock(c, k) PROVE Quiet
  <2>1. \A d \in Callers : request'[d].active => request'[d] = request[d] \/ request'[d].now = now
    BY <1>0, <1>1 DEF EnqueueReadClock, TypeOK
  <2> QED BY <1>1, <1>a, <1>d, <2>1, SameJobsQuiet DEF EnqueueReadClock, Quiet
<1>2. ASSUME NEW c \in Callers, EnqueueReturnsExisting(c) PROVE Quiet
  <2>1. \A d \in Callers : request'[d].active => request'[d] = request[d] \/ request'[d].now = now
    BY <1>0, <1>2 DEF EnqueueReturnsExisting, TypeOK, NoRequest
  <2> QED BY <1>2, <1>a, <1>d, <2>1, SameJobsQuiet DEF EnqueueReturnsExisting, Quiet
<1>3. ASSUME NEW w \in Workers, NEW ok \in BOOLEAN, UpdateProgress(w, ok) PROVE Quiet
  <2> DEFINE j == worker[w].job
             r == [jobs[j] EXCEPT !.heartbeat = now]
  <2>1. j \in JobIds /\ jobs[j].status = "running" /\ jobs' = [jobs EXCEPT ![j] = r]
    BY <1>0, <1>3 DEF UpdateProgress, WorkerInv
  <2>2. jobs[j] \in JobState BY <1>0, <2>1
  <2>3. r \in JobState /\ r.status = "running" /\ r.heartbeat = now
    BY <1>0, <2>1, <2>2, HeartbeatVersion
  <2>4. jobs'[j] = r BY <1>0, <2>1
  <2> HIDE DEF r
  <2>5. QuietJob(j) BY <2>1, <2>3, <2>4 DEF QuietJob, Terminal
  <2>6. (\A i \in JobIds : QuietJob(i)) /\ (\A k \in Keys : QuietIdem(k))
    BY <1>3, <2>1, <2>3, <2>5, OneJobQuiet DEF UpdateProgress
  <2>7. \A x \in Workers : QuietWorker(x)
    BY <1>0, <1>3, WorkerFailQuiet DEF UpdateProgress
  <2> QED BY <1>3, <1>b, <1>c, <1>d, <2>6, <2>7 DEF UpdateProgress, Quiet
<1>4. ASSUME NEW w \in Workers, HandlerRaises(w) PROVE Quiet
  <2>1. \A x \in Workers : QuietWorker(x)
    BY <1>0, <1>4, WorkerFailQuiet DEF HandlerRaises
  <2> QED BY <1>4, <1>b, <1>d, <2>1, SameJobsQuiet DEF HandlerRaises, Quiet
<1>5. ASSUME NEW w \in Workers, NEW ok \in BOOLEAN, Complete(w, ok) PROVE Quiet
  <2> DEFINE j == worker[w].job
             r == [jobs[j] EXCEPT !.status = "completed", !.finished = now]
  <2>1. \A x \in Workers : QuietWorker(x)
    BY <1>0, <1>5, WorkerFailQuiet DEF Complete, IdleWorker
  <2>2. CASE jobs[j].status = "running"
    <3>1. j \in JobIds /\ jobs' = [jobs EXCEPT ![j] = r] /\ Persist(ok)
      BY <1>0, <1>5, <2>2 DEF Complete, WorkerInv
    <3>2. jobs[j] \in JobState BY <1>0, <3>1
    <3>3. r \in JobState /\ r.status = "completed" /\ r.finished = now
      BY <1>0, <3>2, FinishedVersion, StatusNames
    <3>4. jobs'[j] = r BY <1>0, <3>1
    <3> HIDE DEF r
    <3>5. QuietJob(j) BY <1>e, <2>2, <3>1, <3>3, <3>4 DEF QuietJob, Terminal
    <3>6. (\A i \in JobIds : QuietJob(i)) /\ (\A k \in Keys : QuietIdem(k))
      BY <1>5, <2>2, <3>1, <3>3, <3>5, OneJobQuiet DEF Complete
    <3> QED BY <1>5, <1>b, <1>c, <1>d, <2>1, <3>1, <3>6 DEF Complete, Quiet
  <2>3. CASE jobs[j].status # "running"
    BY <1>5, <1>b, <1>d, <2>1, <2>3, SameJobsQuiet DEF Complete, Quiet
  <2> QED BY <2>2, <2>3
<1>6. ASSUME NEW w \in Workers, NEW ok \in BOOLEAN, Fail(w, ok) PROVE Quiet
  <2> DEFINE j == worker[w].job
             r == [jobs[j] EXCEPT !.status = "failed", !.finished = now]
  <2>1. \A x \in Workers : QuietWorker(x)
    BY <1>0, <1>6, WorkerFailQuiet DEF Fail
  <2>2. CASE jobs[j].status \in {"pending", "running"}
    <3>1. j \in JobIds /\ jobs' = [jobs EXCEPT ![j] = r] /\ Persist(ok)
      BY <1>0, <1>6, <2>2 DEF Fail, WorkerInv, IsTerminal, Terminal
    <3>2. jobs[j] \in JobState BY <1>0, <3>1
    <3>3. r \in JobState /\ r.status = "failed" /\ r.finished = now
      BY <1>0, <3>2, FinishedVersion, StatusNames
    <3>4. jobs'[j] = r BY <1>0, <3>1
    <3> HIDE DEF r
    <3>5. QuietJob(j) BY <1>e, <2>2, <3>1, <3>3, <3>4 DEF QuietJob, Terminal
    <3>6. (\A i \in JobIds : QuietJob(i)) /\ (\A k \in Keys : QuietIdem(k))
      BY <1>6, <2>2, <3>1, <3>3, <3>5, OneJobQuiet DEF Fail
    <3> QED BY <1>6, <1>b, <1>c, <1>d, <2>1, <3>1, <3>6 DEF Fail, Quiet
  <2>3. CASE jobs[j].status \notin {"pending", "running"}
    BY <1>6, <1>b, <1>d, <2>1, <2>3, SameJobsQuiet DEF Fail, Quiet
  <2> QED BY <2>2, <2>3
<1>7. ASSUME NEW j \in JobIds, HeartbeatLoopEnds(j) PROVE Quiet
  BY <1>7, <1>a, <1>b, <1>d, SameJobsQuiet DEF HeartbeatLoopEnds, Quiet
<1>8. ASSUME NEW j \in JobIds, NEW ok \in BOOLEAN, Heartbeat(j, ok) PROVE Quiet
  <2> DEFINE r == [jobs[j] EXCEPT !.heartbeat = now]
  <2>1. CASE jobs[j].status = "absent"
    BY <1>8, <1>a, <1>b, <1>d, <2>1, SameJobsQuiet DEF Heartbeat, Quiet
  <2>2. CASE jobs[j].status # "absent"
    <3>1. jobs' = [jobs EXCEPT ![j] = r] /\ Persist(ok) BY <1>8, <2>2 DEF Heartbeat
    <3>2. jobs[j] \in JobState BY <1>0
    <3>3. /\ r \in JobState /\ r.status = jobs[j].status
          /\ r.heartbeat = now /\ r.finished = jobs[j].finished
      BY <1>0, <3>2, HeartbeatVersion
    <3>4. jobs'[j] = r BY <1>0, <3>1
    <3> HIDE DEF r
    <3>5. QuietJob(j) BY <2>2, <3>3, <3>4 DEF QuietJob, Terminal
    <3>6. (\A i \in JobIds : QuietJob(i)) /\ (\A k \in Keys : QuietIdem(k))
      BY <1>8, <2>2, <3>1, <3>3, <3>5, OneJobQuiet DEF Heartbeat
    <3> QED BY <1>8, <1>a, <1>b, <1>c, <1>d, <3>1, <3>6 DEF Heartbeat, Quiet
  <2> QED BY <2>1, <2>2
<1>9. ASSUME NEW j \in JobIds, NEW ok \in BOOLEAN, CancelPending(j, ok) PROVE Quiet
  <2> DEFINE r == [jobs[j] EXCEPT !.status = "cancelled", !.finished = now]
  <2>1. jobs' = [jobs EXCEPT ![j] = r] /\ Persist(ok) /\ jobs[j].status = "pending"
    BY <1>9 DEF CancelPending
  <2>2. jobs[j] \in JobState BY <1>0
  <2>3. r \in JobState /\ r.status = "cancelled" /\ r.finished = now
    BY <1>0, <2>2, FinishedVersion, StatusNames
  <2>4. jobs'[j] = r BY <1>0, <2>1
  <2> HIDE DEF r
  <2>5. QuietJob(j) BY <1>e, <2>1, <2>3, <2>4 DEF QuietJob, Terminal
  <2>6. (\A i \in JobIds : QuietJob(i)) /\ (\A k \in Keys : QuietIdem(k))
    BY <1>9, <2>1, <2>3, <2>5, OneJobQuiet DEF CancelPending
  <2> QED BY <1>9, <1>a, <1>b, <1>c, <1>d, <2>1, <2>6 DEF CancelPending, Quiet
<1>10. ASSUME NEW j \in JobIds, NEW ok \in BOOLEAN, CancelRunning(j, ok) PROVE Quiet
  <2> DEFINE r == [jobs[j] EXCEPT !.cancelRequested = TRUE]
  <2>1. jobs' = [jobs EXCEPT ![j] = r] /\ Persist(ok) /\ jobs[j].status = "running"
    BY <1>10 DEF CancelRunning
  <2>2. jobs[j] \in JobState BY <1>0
  <2>3. r \in JobState /\ r.status = "running" /\ r.heartbeat = jobs[j].heartbeat
    BY <2>1, <2>2, CancelVersion
  <2>4. jobs'[j] = r BY <1>0, <2>1
  <2> HIDE DEF r
  <2>5. QuietJob(j) BY <2>1, <2>3, <2>4 DEF QuietJob, Terminal
  <2>6. (\A i \in JobIds : QuietJob(i)) /\ (\A k \in Keys : QuietIdem(k))
    BY <1>10, <2>1, <2>3, <2>5, OneJobQuiet DEF CancelRunning
  <2> QED BY <1>10, <1>a, <1>b, <1>c, <1>d, <2>1, <2>6 DEF CancelRunning, Quiet
<1>11. CASE MaintenanceReadClock
  BY <1>0, <1>11, <1>a, <1>b, SameJobsQuiet DEF MaintenanceReadClock, Quiet
<1>12. ASSUME NEW ok \in BOOLEAN, ReapStuckJobs(ok) PROVE Quiet
  <2>1. ASSUME NEW j \in JobIds PROVE QuietJob(j) /\ (jobs[j].status # "absent" => jobs'[j].status # "absent")
    <3> DEFINE r == [jobs[j] EXCEPT !.status = "failed", !.finished = maint.now]
    <3>1. CASE j \in Stuck
      <4>1. jobs'[j] = r BY <1>12, <3>1 DEF ReapStuckJobs
      <4>2. jobs[j] \in JobState BY <1>0
      <4>3. r \in JobState /\ r.status = "failed" /\ r.finished = maint.now
        <5>2. maint.now \in Nat BY <1>d
        <5>3. ASSUME NEW t \in Nat
              PROVE  /\ [jobs[j] EXCEPT !.status = "failed", !.finished = t] \in JobState
                     /\ [jobs[j] EXCEPT !.status = "failed", !.finished = t].status = "failed"
                     /\ [jobs[j] EXCEPT !.status = "failed", !.finished = t].finished = t
          BY <4>2, <5>3, StatusNames, FinishedVersion
        <5> QED BY <5>2, <5>3, Zenon
      <4>4. jobs[j].status = "running" /\ maint.now - jobs[j].heartbeat > StuckThreshold
        BY <3>1 DEF Stuck, Has
      <4>5. created[j] <= jobs[j].heartbeat /\ jobs[j].heartbeat \in Nat /\ created[j] \in Nat
        BY <1>0, <4>2, <4>4 DEF TimeInv, JobState
      <4>6. created[j] <= maint.now BY <1>d, <4>4, <4>5, TimeAssumption
      <4> HIDE DEF r
      <4> QED BY <4>1, <4>3, <4>4, <4>6 DEF QuietJob, Terminal
    <3>2. CASE j \notin Stuck
      <4>1. jobs'[j] = jobs[j] BY <1>12, <3>2 DEF ReapStuckJobs
      <4> QED BY <4>1 DEF QuietJob
    <3> QED BY <3>1, <3>2
  <2>2. \A k \in Keys : QuietIdem(k)
    BY <1>12, <2>1 DEF ReapStuckJobs, QuietIdem, IInv, TypeOK, KeyInv, IdemInv
  <2>3. disk' = disk \/ disk' = jobs' BY <1>12, <1>c DEF ReapStuckJobs
  <2>4. maint'.now <= now
    <3>1. maint'.now = 0 BY <1>12 DEF ReapStuckJobs
    <3> QED BY <1>0, <3>1
  <2> QED BY <1>12, <1>a, <1>b, <2>1, <2>2, <2>3, <2>4 DEF ReapStuckJobs, Quiet
<1>13. ASSUME NEW ok \in BOOLEAN, PurgeOldJobs(ok) PROVE Quiet
  <2>1. ASSUME NEW j \in JobIds
        PROVE  /\ QuietJob(j)
               /\ j \in Old => jobs'[j].status = "absent"
               /\ j \notin Old => jobs'[j] = jobs[j]
    <3>1. CASE j \in Old
      <4>1. jobs'[j] = Absent BY <1>13, <3>1 DEF PurgeOldJobs
      <4>2. jobs'[j].status = "absent" BY <4>1 DEF Absent
      <4>3. /\ jobs[j].status \in Terminal
            /\ maint.now - jobs[j].finished > Retention BY <3>1 DEF Old, IsTerminal
      <4>4. created[j] <= jobs[j].finished BY <1>0, <4>3 DEF TimeInv
      <4>5. jobs[j].finished \in Nat /\ created[j] \in Nat BY <1>0 DEF JobState
      <4>6. Expired(j) BY <1>0, <1>d, <4>3, <4>4, <4>5, TimeAssumption DEF Expired
      <4> QED BY <3>1, <4>2, <4>6 DEF QuietJob, Terminal
    <3>2. CASE j \notin Old
      <4>1. jobs'[j] = jobs[j] BY <1>13, <3>2 DEF PurgeOldJobs
      <4> QED BY <3>2, <4>1 DEF QuietJob
    <3> QED BY <3>1, <3>2
  <2>2. ASSUME NEW k \in Keys PROVE QuietIdem(k)
    <3>1. idem'[k] = IF idem[k] \in Old THEN 0 ELSE idem[k] BY <1>13 DEF PurgeOldJobs
    <3>2. idem[k] \in JobIds \cup {0} BY <1>0 DEF TypeOK
    <3>3. idem[k] # 0 => jobs[idem[k]].status # "absent" BY DEF IInv, KeyInv, IdemInv
    <3>4. idem[k] \in Old => idem[k] \in JobIds BY DEF Old
    <3> QED BY <2>1, <3>1, <3>2, <3>3, <3>4, BoundAssumption DEF QuietIdem
  <2>3. disk' = disk \/ disk' = jobs' BY <1>13, <1>c DEF PurgeOldJobs
  <2> QED BY <1>0, <1>13, <1>a, <1>b, <2>1, <2>2, <2>3 DEF PurgeOldJobs, Quiet, Waiting
<1>14. CASE UNCHANGED vars
  BY <1>14, <1>a, <1>b, <1>d, SameJobsQuiet DEF vars, Quiet
<1> QED
  BY <1>1, <1>2, <1>3, <1>4, <1>5, <1>6, <1>7, <1>8, <1>9, <1>10, <1>11, <1>12,
     <1>13, <1>14 DEF QuietAction

-----------------------------------------------------------------------------
(* Preservation of the invariant                                            *)

(* The invariant in the initial state.                                      *)
LEMMA IInvInit == Init => IInv
<1> SUFFICES ASSUME Init PROVE IInv OBVIOUS
<1>1. TypeOK BY TypeInit
<1>2. \A j \in JobIds : jobs[j].status = "absent" /\ disk[j].status = "absent" /\ runs[j] = 0
  BY DEF Init, Absent
<1>3. \A j \in JobIds : ~Known(j) BY <1>2 DEF Known
<1>4. FreshIds /\ RunsInv /\ OutcomeInv
  BY <1>2, <1>3 DEF FreshIds, RunsInv, OutcomeInv, Terminal
<1>5. WorkerInv BY BoundAssumption DEF Init, IdleWorker, WorkerInv
<1>6. TimeInv BY <1>2, <1>3 DEF Init, TimeInv, Waiting, NoRequest, Terminal
<1>7. PurgeInv /\ SpacedInv /\ IdemInv
  BY <1>2, <1>3 DEF Init, PurgeInv, SpacedInv, IdemInv
<1> QED BY <1>1, <1>4, <1>5, <1>6, <1>7 DEF IInv, KeyInv

(* A quiet step preserves the invariant.                                    *)
LEMMA QuietPreserves ==
  ASSUME IInv, TypeOK', Quiet
  PROVE  IInv'
<1>0. /\ TypeOK /\ FreshIds /\ RunsInv /\ OutcomeInv /\ WorkerInv
      /\ TimeInv /\ PurgeInv /\ SpacedInv /\ IdemInv
  BY DEF IInv, KeyInv
<1>1. /\ now' = now /\ nextId' = nextId /\ key' = key /\ created' = created /\ runs' = runs
      /\ disk' = disk \/ disk' = jobs'
      /\ \A j \in JobIds : QuietJob(j)
  BY DEF Quiet
<1>2. \A j \in JobIds : Expired(j)' <=> Expired(j) BY <1>1 DEF Expired
<1>3. \A j \in JobIds : Known(j)' => Known(j)
  BY <1>1 DEF Known, QuietJob
<1>4. FreshIds' BY <1>0, <1>1, <1>3 DEF FreshIds
<1>5. RunsInv'
  BY <1>0, <1>1 DEF RunsInv, QuietJob
<1>6. OutcomeInv'
  <2>1. \A j \in JobIds : jobs[j].status \in Terminal =>
          jobs'[j].status \in {jobs[j].status, "absent"}
    BY <1>0, <1>1 DEF QuietJob, TypeOK, JobState, Statuses, Terminal
  <2>2. \A j \in JobIds : jobs[j].status = "absent" => jobs'[j].status = "absent"
    BY <1>1 DEF QuietJob
  <2> QED BY <1>0, <1>1, <2>1, <2>2 DEF OutcomeInv
<1>7. WorkerInv'
  BY <1>0, <1>1, BoundAssumption DEF WorkerInv, Quiet, QuietWorker, QuietJob
<1>8. TimeInv'
  <2>1. maint'.now <= now BY DEF Quiet
  <2>2. \A c \in Callers : request'[c].active =>
          request'[c].now <= now /\ now <= request'[c].now + MaxLag
    <3>1. ASSUME NEW c \in Callers, request'[c].active
          PROVE  request'[c].now <= now /\ now <= request'[c].now + MaxLag
      <4>1. CASE request'[c] = request[c] BY <1>0, <3>1, <4>1 DEF TimeInv
      <4>2. CASE request'[c].now = now BY <1>0, <4>2, TimeAssumption DEF TypeOK
      <4> QED BY <3>1, <4>1, <4>2 DEF Quiet
    <3> QED BY <3>1
  <2>3. \A j \in JobIds : jobs'[j].status = "running" => created[j] <= jobs'[j].heartbeat
    BY <1>0, <1>1 DEF QuietJob, TimeInv, Known
  <2>4. \A j \in JobIds : jobs'[j].status \in Terminal => created[j] <= jobs'[j].finished
    BY <1>0, <1>1 DEF QuietJob, TimeInv
  <2>5. \A j \in JobIds : disk'[j].status \in Terminal => created[j] <= disk'[j].finished
    BY <1>0, <1>1, <2>4 DEF TimeInv
  <2> QED BY <1>0, <1>1, <1>3, <2>1, <2>2, <2>3, <2>4, <2>5 DEF TimeInv
<1>9. PurgeInv'
  BY <1>0, <1>1, <1>2 DEF PurgeInv, QuietJob
<1>10. SpacedInv' BY <1>0, <1>1, <1>3 DEF SpacedInv
<1>11. IdemInv'
  <2>1. ASSUME NEW k \in Keys PROVE IdemInv!(k)'
    <3>0. idem[k] \in JobIds \cup {0} /\ QuietIdem(k) BY <1>0 DEF TypeOK, Quiet
    <3>1. idem'[k] # 0 => key'[idem'[k]] = k /\ jobs'[idem'[k]].status # "absent"
      BY <1>0, <1>1, <3>0 DEF IdemInv, QuietIdem
    <3>2. ASSUME NEW i \in JobIds, key'[i] = k, Known(i)'
          PROVE  \/ Expired(i)'
                 \/ idem'[k] # 0 /\ (i = idem'[k] \/ created'[i] + TTL <= created'[idem'[k]])
      <4>1. \/ Expired(i)
            \/ idem[k] # 0 /\ (i = idem[k] \/ created[i] + TTL <= created[idem[k]])
        BY <1>0, <1>1, <1>3, <3>2 DEF IdemInv
      <4>2. CASE idem'[k] = idem[k] BY <1>1, <1>2, <4>1, <4>2
      <4>3. CASE idem'[k] # idem[k]
        <5>1. idem[k] \in JobIds /\ jobs'[idem[k]].status = "absent"
          BY <3>0, <4>3 DEF QuietIdem
        <5>2. jobs[idem[k]].status # "absent" BY <1>0, <5>1, BoundAssumption DEF IdemInv
        <5>3. Expired(idem[k]) BY <1>1, <5>1, <5>2 DEF QuietJob
        <5>4. created[i] \in Nat /\ created[idem[k]] \in Nat /\ now \in Nat
          BY <1>0, <5>1 DEF TypeOK
        <5> QED BY <1>2, <4>1, <5>3, <5>4, TimeAssumption DEF Expired
      <4> QED BY <4>2, <4>3
    <3> QED BY <3>1, <3>2
  <2> QED BY <2>1 DEF IdemInv
<1> QED BY <1>4, <1>5, <1>6, <1>7, <1>8, <1>9, <1>10, <1>11 DEF IInv, KeyInv

(* Time goes on: a job expires, and none comes back.                        *)
LEMMA TickPreserves ==
  ASSUME IInv, TypeOK', Tick
  PROVE  IInv'
<1> USE DEF attrVars, queueVars, threadVars
<1>0. /\ TypeOK /\ FreshIds /\ RunsInv /\ OutcomeInv /\ WorkerInv
      /\ TimeInv /\ PurgeInv /\ SpacedInv /\ IdemInv
  BY DEF IInv, KeyInv
<1>1. /\ now' = now + 1 /\ now \in Nat
      /\ UNCHANGED <<nextId, key, created, jobs, queue, idem, disk, request, worker, maint, runs>>
  BY <1>0 DEF Tick, TypeOK
<1>2. \A j \in JobIds : Known(j)' <=> Known(j) BY <1>1 DEF Known
<1>3. \A j \in JobIds : Expired(j) => Expired(j)'
  BY <1>0, <1>1, TimeAssumption DEF Expired, TypeOK
<1>4. FreshIds' /\ RunsInv' /\ OutcomeInv' /\ WorkerInv' /\ SpacedInv'
  BY <1>0, <1>1, <1>2 DEF FreshIds, RunsInv, OutcomeInv, WorkerInv, SpacedInv
<1>5. TimeInv'
  <2>1. \A c \in Callers : request[c].active => request[c].now \in Nat /\ now + 1 - request[c].now <= MaxLag
    BY <1>0 DEF Tick, TypeOK
  <2>2. \A c \in Callers : request'[c].active =>
          request'[c].now <= now' /\ now' <= request'[c].now + MaxLag
    BY <1>0, <1>1, <2>1, TimeAssumption DEF TimeInv
  <2>3. \A j \in JobIds : Known(j)' => created'[j] <= now'
    BY <1>0, <1>1, <1>2 DEF TimeInv, TypeOK
  <2>4. maint'.now <= now' BY <1>0, <1>1 DEF TimeInv, TypeOK
  <2> QED BY <1>0, <1>1, <2>2, <2>3, <2>4 DEF TimeInv
<1>6. PurgeInv' BY <1>0, <1>1, <1>3 DEF PurgeInv
<1>7. IdemInv' BY <1>0, <1>1, <1>2, <1>3 DEF IdemInv
<1> QED BY <1>4, <1>5, <1>6, <1>7 DEF IInv, KeyInv

(* A new job has a fresh id, and its key had none that is younger than the  *)
(* TTL, neither in memory nor purged since the clock was read.              *)
LEMMA EnqueueCreatesPreserves ==
  ASSUME IInv, TypeOK', NEW c \in Callers, NEW ok \in BOOLEAN, EnqueueCreates(c, ok)
  PROVE  IInv'
<1>0. /\ TypeOK /\ FreshIds /\ RunsInv /\ OutcomeInv /\ WorkerInv
      /\ TimeInv /\ PurgeInv /\ SpacedInv /\ IdemInv
  BY DEF IInv, KeyInv
<1> DEFINE n == nextId
           k == request[c].key
           t == request[c].now
<1>1. /\ n \in JobIds /\ request[c].active /\ ~IdempotentHit(k, t)
      /\ key' = [key EXCEPT ![n] = k] /\ created' = [created EXCEPT ![n] = t]
      /\ nextId' = n + 1
      /\ jobs' = [jobs EXCEPT ![n] = [Absent EXCEPT !.status = "pending"]]
      /\ idem' = [x \in Keys |-> IF x = k THEN n ELSE idem[x]]
      /\ request' = [request EXCEPT ![c] = NoRequest]
      /\ disk' = disk \/ disk' = jobs'
      /\ UNCHANGED <<now, worker, maint, runs>>
  BY DEF EnqueueCreates, Persist
<1>2. /\ jobs[n].status = "absent" /\ disk[n].status = "absent" /\ runs[n] = 0 /\ n \in Nat
  BY <1>0, <1>1 DEF FreshIds, Known, TypeOK
<1>3. /\ jobs'[n].status = "pending" /\ key'[n] = k /\ created'[n] = t /\ t \in Nat /\ k \in AnyKey
      /\ \A j \in JobIds \ {n} : jobs'[j] = jobs[j] /\ key'[j] = key[j] /\ created'[j] = created[j]
      /\ \A j \in JobIds \ {n} : created[j] \in Nat
      /\ now \in Nat
  BY <1>0, <1>1 DEF TypeOK, Absent
<1>4. t <= now /\ now <= t + MaxLag BY <1>0, <1>1 DEF TimeInv
<1>5. \A j \in JobIds \ {n} : disk'[j] = disk[j] \/ disk'[j] = jobs[j]
  BY <1>1, <1>3
<1>6. disk'[n].status \in {"absent", "pending"} BY <1>1, <1>2, <1>3
<1>7. \A j \in JobIds \ {n} : (Known(j)' => Known(j)) /\ (Expired(j)' <=> Expired(j))
  BY <1>1, <1>3, <1>5 DEF Known, Expired
<1>8. \A j \in JobIds \ {n} : Known(j)' => j < n BY <1>0, <1>7 DEF FreshIds
<1> HIDE DEF n, k, t
<1>9. FreshIds' BY <1>0, <1>1, <1>2, <1>7, <1>8 DEF FreshIds
<1>10. RunsInv' BY <1>0, <1>1, <1>2, <1>3, <1>5 DEF RunsInv
<1>11. OutcomeInv'
  BY <1>0, <1>3, <1>5, <1>6 DEF OutcomeInv, Terminal
<1>12. WorkerInv'
  <2>1. nextId' = n + 1 /\ nextId = n /\ n \in Nat BY <1>1, <1>2 DEF n
  <2>2. \A w \in Workers : worker[w].job \in JobIds => worker[w].job < n /\ worker[w].job # n
    BY <1>0, <2>1 DEF WorkerInv
  <2> QED BY <1>0, <1>1, <1>3, <2>1, <2>2 DEF WorkerInv
<1>13. TimeInv'
  <2>1. \A j \in JobIds : Known(j)' => created'[j] <= now'
    BY <1>0, <1>1, <1>3, <1>4, <1>7 DEF TimeInv
  <2>2. /\ \A j \in JobIds : jobs'[j].status = "running" => created'[j] <= jobs'[j].heartbeat
        /\ \A j \in JobIds : jobs'[j].status \in Terminal => created'[j] <= jobs'[j].finished
    BY <1>0, <1>3 DEF TimeInv, Terminal
  <2>3. \A j \in JobIds : disk'[j].status \in Terminal => created'[j] <= disk'[j].finished
    BY <1>0, <1>3, <1>5, <1>6 DEF TimeInv, Terminal
  <2>4. \A d \in Callers : request'[d].active => request'[d] = request[d]
    BY <1>0, <1>1 DEF NoRequest, TypeOK
  <2> QED BY <1>0, <1>1, <2>1, <2>2, <2>3, <2>4 DEF TimeInv
<1>14. PurgeInv'
  BY <1>0, <1>1, <1>2, <1>3, <1>5, <1>7 DEF PurgeInv
(* The new job comes TTL after every known job of its key.                  *)
<1>15. \A i \in JobIds \ {n} : Known(i) /\ key[i] = k /\ k \in Keys => created[i] + TTL <= t
  <2>1. ASSUME NEW i \in JobIds \ {n}, Known(i), key[i] = k, k \in Keys
        PROVE  created[i] + TTL <= t
    <3>0. idem[k] \in JobIds \cup {0} /\ created[i] \in Nat BY <1>0, <2>1 DEF TypeOK
    <3>1. idem[k] # 0 => jobs[idem[k]].status # "absent" BY <1>0, <2>1 DEF IdemInv
    <3>2. idem[k] # 0 => created[idem[k]] \in Nat /\ created[idem[k]] + TTL <= t
      <4>1. SUFFICES ASSUME idem[k] # 0
                     PROVE  created[idem[k]] \in Nat /\ created[idem[k]] + TTL <= t
        OBVIOUS
      <4>2. created[idem[k]] \in Nat BY <1>0, <3>0, <4>1 DEF TypeOK
      <4>3. ~(t - created[idem[k]] < TTL) BY <1>1, <2>1, <3>1, <4>1 DEF IdempotentHit
      <4> QED BY <1>3, <4>2, <4>3, TimeAssumption
    <3>3. \/ Expired(i)
          \/ idem[k] # 0 /\ (i = idem[k] \/ created[i] + TTL <= created[idem[k]])
      BY <1>0, <2>1 DEF IdemInv
    <3>4. CASE Expired(i) BY <1>3, <1>4, <3>0, <3>4, TimeAssumption DEF Expired
    <3>5. CASE idem[k] # 0 /\ (i = idem[k] \/ created[i] + TTL <= created[idem[k]])
      BY <1>3, <3>0, <3>2, <3>5, TimeAssumption
    <3> QED BY <3>3, <3>4, <3>5
  <2> QED BY <2>1
<1>16. SpacedInv'
  <2>1. ASSUME NEW i \in JobIds, NEW j \in JobIds, i < j, key'[i] = key'[j], key'[i] \in Keys,
               Known(i)', Known(j)'
        PROVE  created'[i] + TTL <= created'[j]
    <3>1. CASE i = n BY <1>2, <1>8, <2>1, <3>1
    <3>2. CASE i # n /\ j = n BY <1>3, <1>7, <1>15, <2>1, <3>2
    <3>3. CASE i # n /\ j # n BY <1>0, <1>3, <1>7, <2>1, <3>3 DEF SpacedInv
    <3> QED BY <3>1, <3>2, <3>3
  <2> QED BY <2>1 DEF SpacedInv
<1>17. IdemInv'
  <2>1. ASSUME NEW x \in Keys PROVE IdemInv!(x)'
    <3>1. CASE x = k
      <4>1. idem'[x] = n BY <1>1, <3>1
      <4>2. \A i \in JobIds : key'[i] = x /\ Known(i)' =>
              i = n \/ created'[i] + TTL <= created'[n]
        BY <1>3, <1>7, <1>15, <3>1
      <4> QED BY <1>1, <1>3, <3>1, <4>1, <4>2
    <3>2. CASE x # k
      <4>1. idem'[x] = idem[x] /\ idem[x] \in JobIds \cup {0} BY <1>0, <1>1, <3>2 DEF TypeOK
      <4>2. idem[x] # 0 => key[idem[x]] = x /\ jobs[idem[x]].status # "absent"
        BY <1>0 DEF IdemInv
      <4>3. idem[x] # n BY <1>1, <1>2, <4>2, BoundAssumption
      <4>4. idem'[x] # 0 => key'[idem'[x]] = x /\ jobs'[idem'[x]].status # "absent"
        BY <1>3, <4>1, <4>2, <4>3
      <4>5. \A i \in JobIds : key'[i] = x => i # n BY <1>3, <3>2
      <4>6. ASSUME NEW i \in JobIds, key'[i] = x, Known(i)'
            PROVE  \/ Expired(i)'
                   \/ idem'[x] # 0 /\ (i = idem'[x] \/ created'[i] + TTL <= created'[idem'[x]])
        <5>1. i \in JobIds \ {n} /\ key[i] = x /\ Known(i) BY <1>3, <1>7, <4>5, <4>6
        <5>2. \/ Expired(i)
              \/ idem[x] # 0 /\ (i = idem[x] \/ created[i] + TTL <= created[idem[x]])
          BY <1>0, <5>1 DEF IdemInv
        <5> QED BY <1>3, <1>7, <4>1, <4>3, <5>1, <5>2
      <4> QED BY <4>4, <4>6
    <3> QED BY <3>1, <3>2
  <2> QED BY <2>1 DEF IdemInv
<1> QED BY <1>9, <1>10, <1>11, <1>12, <1>13, <1>14, <1>16, <1>17 DEF IInv, KeyInv

(* A claim takes a pending job, so one whose handler was never started, and *)
(* saves it as running before the handler starts.                           *)
LEMMA ClaimPreserves ==
  ASSUME IInv, TypeOK', NEW w \in Workers, NEW ok \in BOOLEAN, NEW h \in BOOLEAN, Claim(w, ok, h)
  PROVE  IInv'
<1>0. /\ TypeOK /\ FreshIds /\ RunsInv /\ OutcomeInv /\ WorkerInv
      /\ TimeInv /\ PurgeInv /\ SpacedInv /\ IdemInv
  BY DEF IInv, KeyInv
<1>1. PICK p \in 1..Len(queue) : Claim(w, ok, h)!(p) BY DEF Claim
<1> DEFINE j == queue[p]
           r == [jobs[j] EXCEPT !.status = "running", !.heartbeat = now]
<1>2. j \in JobIds
  <2>1. queue \in Seq(JobIds) BY <1>0 DEF TypeOK
  <2> QED BY <2>1, ElementOfSeq
<1>3. /\ jobs[j].status = "pending" /\ jobs' = [jobs EXCEPT ![j] = r]
      /\ UNCHANGED <<now, nextId, key, created, idem, request, maint>>
      /\ ok => disk' = jobs'
      /\ ~ok => disk' = disk /\ runs' = runs
      /\ runs' = runs \/ runs' = [runs EXCEPT ![j] = @ + 1]
  BY <1>1 DEF ClaimableAt, Persist, attrVars
<1>4. /\ \E x \in WorkerState : worker' = [worker EXCEPT ![w] = x] /\ (x.job = j \/ x.job = 0)
                                 /\ (x.pc \in {"handler", "fail"} => x.job = j)
  <2>1. /\ [pc |-> "handler", job |-> j] \in WorkerState /\ [pc |-> "fail", job |-> j] \in WorkerState
        /\ [pc |-> "dead", job |-> 0] \in WorkerState
    BY <1>2, WorkerValues
  <2> QED BY <1>1, <2>1
<1>5. r.status = "running" /\ r.heartbeat = now /\ jobs'[j] = r
      /\ \A i \in JobIds \ {j} : jobs'[i] = jobs[i]
  <2>1. jobs \in [JobIds -> JobState] /\ jobs[j] \in JobState /\ now \in Nat
    BY <1>0, <1>2 DEF TypeOK
  <2>2. r.status = "running" BY <2>1 DEF JobState
  <2>3. r.heartbeat = now BY <2>1 DEF JobState
  <2> HIDE DEF r
  <2> QED BY <1>2, <1>3, <2>1, <2>2, <2>3
<1>6. runs[j] = 0 /\ j < nextId /\ created[j] <= now
  <2>1. Known(j) BY <1>3 DEF Known
  <2>2. runs[j] \in Nat BY <1>0, <1>2 DEF TypeOK
  <2> QED BY <1>0, <1>2, <1>3, <2>1, <2>2 DEF RunsInv, FreshIds, TimeInv
<1>7. /\ \A i \in JobIds \ {j} : runs'[i] = runs[i]
      /\ runs'[j] \in {0, 1}
      /\ runs'[j] > 0 => disk' = jobs'
  BY <1>0, <1>2, <1>3, <1>6 DEF TypeOK
<1>8. disk'[j].status \in {"running", disk[j].status} BY <1>3, <1>5
<1>9. \A i \in JobIds \ {j} : disk'[i] = disk[i] \/ disk'[i] = jobs[i] BY <1>3, <1>5
<1> HIDE DEF r, j
<1>10. \A i \in JobIds : (Known(i)' => Known(i)) /\ (Expired(i)' <=> Expired(i))
  <2>1. Known(j) BY <1>3 DEF Known
  <2> QED BY <1>3, <1>5, <1>7, <1>9, <2>1 DEF Known, Expired
<1>11. FreshIds' BY <1>0, <1>3, <1>10 DEF FreshIds
<1>12. RunsInv'
  <2>1. \A i \in JobIds \ {j} : runs'[i] > 0 =>
          jobs'[i].status \notin {"pending", "cancelled"} /\ disk'[i].status \notin {"pending", "cancelled"}
    BY <1>0, <1>5, <1>7, <1>9 DEF RunsInv
  <2>2. runs'[j] > 0 =>
          jobs'[j].status \notin {"pending", "cancelled"} /\ disk'[j].status \notin {"pending", "cancelled"}
    BY <1>5, <1>7
  <2> QED BY <1>0, <1>7, <2>1, <2>2 DEF RunsInv
<1>13. OutcomeInv'
  <2>1. disk[j].status \notin Terminal BY <1>0, <1>2, <1>3 DEF OutcomeInv, Terminal
  <2>2. disk'[j].status \notin Terminal BY <1>8, <2>1 DEF Terminal
  <2> QED BY <1>0, <1>2, <1>5, <1>9, <2>2 DEF OutcomeInv
<1>14. WorkerInv'
  <2>1. PICK x \in WorkerState : worker' = [worker EXCEPT ![w] = x] /\ (x.job = j \/ x.job = 0)
                                 /\ (x.pc \in {"handler", "fail"} => x.job = j)
    BY <1>4
  <2>2. worker'[w] = x /\ \A y \in Workers \ {w} : worker'[y] = worker[y]
    BY <1>0, <2>1 DEF TypeOK
  <2>3. \A i \in JobIds : jobs[i].status # "pending" => jobs'[i].status # "pending"
    BY <1>5
  <2> QED BY <1>0, <1>2, <1>3, <1>5, <1>6, <2>1, <2>2, <2>3, BoundAssumption DEF WorkerInv
<1>15. TimeInv'
  <2>1. \A i \in JobIds : Known(i)' => created'[i] <= now' BY <1>0, <1>3, <1>10 DEF TimeInv
  <2>2. /\ \A i \in JobIds : jobs'[i].status = "running" => created'[i] <= jobs'[i].heartbeat
        /\ \A i \in JobIds : jobs'[i].status \in Terminal => created'[i] <= jobs'[i].finished
    BY <1>0, <1>3, <1>5, <1>6 DEF TimeInv, Terminal
  <2>3. \A i \in JobIds : disk'[i].status \in Terminal => created'[i] <= disk'[i].finished
    BY <1>0, <1>3, <2>2 DEF TimeInv
  <2> QED BY <1>0, <1>3, <2>1, <2>2, <2>3 DEF TimeInv
<1>16. PurgeInv'
  <2>1. \A i \in JobIds : jobs[i].status # "absent" => jobs'[i].status # "absent" BY <1>5
  <2>2. \A i \in JobIds : disk'[i].status # "absent" => jobs'[i].status # "absent" \/ Expired(i)'
    BY <1>0, <1>3, <1>10, <2>1 DEF PurgeInv
  <2>3. \A i \in JobIds \ {j} : runs'[i] > 0 => disk'[i].status # "absent" \/ Expired(i)'
    BY <1>0, <1>3, <1>5, <1>7, <1>9, <1>10 DEF PurgeInv
  <2>4. runs'[j] > 0 => disk'[j].status # "absent" BY <1>5, <1>7
  <2> QED BY <2>2, <2>3, <2>4 DEF PurgeInv
<1>17. SpacedInv' BY <1>0, <1>3, <1>10 DEF SpacedInv
<1>18. IdemInv'
  <2>1. \A i \in JobIds : jobs[i].status # "absent" => jobs'[i].status # "absent" BY <1>5
  <2> QED BY <1>0, <1>3, <1>10, <2>1 DEF IdemInv, TypeOK
<1> QED BY <1>11, <1>12, <1>13, <1>14, <1>15, <1>16, <1>17, <1>18 DEF IInv, KeyInv

(* What a restart reads back: the saved jobs, interrupted ones failed.      *)
LEMMA RestartPreserves ==
  ASSUME IInv, TypeOK', Restart
  PROVE  IInv'
<1>0. /\ TypeOK /\ FreshIds /\ RunsInv /\ OutcomeInv /\ WorkerInv
      /\ TimeInv /\ PurgeInv /\ SpacedInv /\ IdemInv
  BY DEF IInv, KeyInv
<1>1. /\ UNCHANGED <<now, nextId, key, created, disk, runs>> /\ now \in Nat
      /\ \A j \in JobIds : jobs'[j] = Recovered(j)
      /\ \A c \in Callers : request'[c] = NoRequest
      /\ \A w \in Workers : worker'[w] = IdleWorker
      /\ maint' = Waiting
  BY <1>0 DEF Restart, attrVars, TypeOK
<1>2. \A j \in JobIds : disk[j] \in JobState BY <1>0 DEF TypeOK
<1>3. \A j \in JobIds : disk[j].status # "running" => jobs'[j] = disk[j]
  BY <1>1 DEF Recovered
<1>4. ASSUME NEW j \in JobIds, disk[j].status = "running"
      PROVE  jobs'[j].status = "failed" /\ jobs'[j].finished = now
  <2> DEFINE r == [disk[j] EXCEPT !.status = "failed", !.finished = now]
  <2>1. jobs'[j] = r BY <1>1, <1>4 DEF Recovered
  <2>2. disk[j] \in JobState /\ now \in Nat BY <1>1, <1>2
  <2>3. r \in JobState /\ r.status = "failed" /\ r.finished = now
    BY <2>2, FinishedVersion, StatusNames
  <2> HIDE DEF r
  <2> QED BY <2>1, <2>3
<1>5. \A j \in JobIds : (Known(j)' => Known(j)) /\ (Expired(j)' <=> Expired(j))
  BY <1>1, <1>3 DEF Known, Expired
<1>6. FreshIds' BY <1>0, <1>1, <1>5 DEF FreshIds
<1>7. RunsInv' BY <1>0, <1>1, <1>3, <1>4 DEF RunsInv
<1>8. OutcomeInv' BY <1>1, <1>3 DEF OutcomeInv, Terminal
<1>9. WorkerInv' BY <1>1, BoundAssumption DEF WorkerInv, IdleWorker
<1>10. TimeInv'
  <2>1. \A j \in JobIds : Known(j)' => created'[j] <= now' BY <1>0, <1>1, <1>5 DEF TimeInv
  <2>2. \A j \in JobIds : disk[j].status = "running" => created[j] <= now
    BY <1>0 DEF TimeInv, Known
  <2>3. \A j \in JobIds : jobs'[j].status # "running" BY <1>3, <1>4
  <2>4. \A j \in JobIds : jobs'[j].status \in Terminal => created'[j] <= jobs'[j].finished
    BY <1>0, <1>1, <1>3, <1>4, <2>2 DEF TimeInv
  <2>5. maint'.now <= now' BY <1>1 DEF Waiting
  <2>6. \A c \in Callers : ~request'[c].active BY <1>1 DEF NoRequest
  <2> QED BY <1>0, <1>1, <2>1, <2>3, <2>4, <2>5, <2>6 DEF TimeInv
<1>11. PurgeInv' BY <1>0, <1>1, <1>3, <1>4, <1>5 DEF PurgeInv
<1>12. SpacedInv' BY <1>0, <1>1, <1>5 DEF SpacedInv
<1>13. IdemInv'
  <2>1. ASSUME NEW k \in Keys PROVE IdemInv!(k)'
    <3> DEFINE Owners == {j \in JobIds : disk[j].status # "absent" /\ key[j] = k}
    <3>0. \A j \in Owners : j \in JobIds OBVIOUS
    <3>1. IF Owners = {} THEN idem'[k] = 0
          ELSE idem'[k] \in Owners /\ \A j \in Owners : j <= idem'[k]
      BY DEF Restart, RecoveredIdem
    <3>2. idem'[k] # 0 => idem'[k] \in Owners BY <3>1
    <3>3. idem'[k] # 0 => key'[idem'[k]] = k /\ jobs'[idem'[k]].status # "absent"
      BY <1>1, <1>3, <1>4, <3>2
    <3>4. ASSUME NEW i \in JobIds, key'[i] = k, Known(i)'
          PROVE  \/ Expired(i)'
                 \/ idem'[k] # 0 /\ (i = idem'[k] \/ created'[i] + TTL <= created'[idem'[k]])
      <4>1. CASE disk[i].status = "absent"
        <5>1. jobs'[i].status = "absent" BY <1>3, <4>1
        <5>2. runs[i] > 0 BY <1>1, <3>4, <4>1, <5>1 DEF Known
        <5> QED BY <1>0, <1>5, <4>1, <5>2 DEF PurgeInv
      <4>2. CASE disk[i].status # "absent"
        <5>1. i \in Owners BY <1>1, <3>4, <4>2
        <5>2. idem'[k] \in Owners /\ i <= idem'[k] BY <3>1, <5>1
        <5>3. idem'[k] \in JobIds /\ idem'[k] # 0 /\ key[idem'[k]] = k /\ disk[idem'[k]].status # "absent"
          BY <5>2, BoundAssumption
        <5>4. Known(i) /\ Known(idem'[k]) BY <4>2, <5>3 DEF Known
        <5>5. i = idem'[k] \/ i < idem'[k] BY <5>2, <5>3, BoundAssumption
        <5>6. i < idem'[k] => created[i] + TTL <= created[idem'[k]]
          BY <1>0, <1>1, <3>4, <5>3, <5>4 DEF SpacedInv
        <5> QED BY <1>1, <5>3, <5>5, <5>6
      <4> QED BY <4>1, <4>2
    <3> QED BY <3>3, <3>4
  <2> QED BY <2>1 DEF IdemInv
<1> QED BY <1>6, <1>7, <1>8, <1>9, <1>10, <1>11, <1>12, <1>13 DEF IInv, KeyInv

(* Every step preserves the invariant.                                      *)
LEMMA IInvStep == IInv /\ [Next]_vars => IInv'
<1> SUFFICES ASSUME IInv, [Next]_vars PROVE IInv' OBVIOUS
<1>1. TypeOK' BY TypeStep DEF IInv
<1>2. CASE QuietAction BY <1>1, <1>2, QuietActionIsQuiet, QuietPreserves
<1>3. CASE \E c \in Callers, ok \in BOOLEAN : EnqueueCreates(c, ok)
  BY <1>1, <1>3, EnqueueCreatesPreserves
<1>4. CASE \E w \in Workers, ok \in BOOLEAN, h \in BOOLEAN : Claim(w, ok, h)
  BY <1>1, <1>4, ClaimPreserves
<1>5. CASE Restart BY <1>1, <1>5, RestartPreserves
<1>6. CASE Tick BY <1>1, <1>6, TickPreserves
<1> QED
  BY <1>2, <1>3, <1>4, <1>5, <1>6
     DEF Next, EnqueueLocked, WorkerStep, Maintenance, QuietAction

(* No handler is ever started twice for one job, across any number of       *)
(* restarts and failing saves of jobs-state.json.                           *)
THEOREM AtMostOnce == Spec => []HandledAtMostOnce
<1>1. IInv => HandledAtMostOnce BY DEF IInv, RunsInv, HandledAtMostOnce
<1> QED BY IInvInit, IInvStep, <1>1, PTL DEF Spec

(* Work for one idempotency key is spaced by the TTL, for every TTL, every  *)
(* retention that exceeds it by the longest lock wait, and every number of  *)
(* restarts and failing saves.                                              *)
THEOREM IdempotentWork == Spec => []KeyWorkSpaced
<1>1. IInv => KeyWorkSpaced BY DEF IInv, KeyInv, SpacedInv, KeyWorkSpaced, Known
<1> QED BY IInvInit, IInvStep, <1>1, PTL DEF Spec

(* A cancelled job has never run and never will.                            *)
THEOREM CancellationHolds == Spec => []CancelledNeverRan
<1>1. IInv => CancelledNeverRan
  BY DEF IInv, TypeOK, RunsInv, CancelledNeverRan
<1> QED BY IInvInit, IInvStep, <1>1, PTL DEF Spec

(* An outcome that was saved is never replaced by another one.              *)
THEOREM OutcomeFinal == Spec => DurableOutcomeIsFinal
<1> DEFINE Final == \A j \in JobIds :
                      disk[j].status \in Terminal =>
                        {disk'[j].status, jobs'[j].status} \subseteq {disk[j].status, "absent"}
<1>1. IInv /\ [Next]_vars => Final
  <2> SUFFICES ASSUME IInv, [Next]_vars, NEW j \in JobIds, disk[j].status \in Terminal
               PROVE  {disk'[j].status, jobs'[j].status} \subseteq {disk[j].status, "absent"}
    OBVIOUS
  <2>0. /\ jobs[j].status \in {disk[j].status, "absent"}
        /\ jobs \in [JobIds -> JobState]
        /\ j < nextId
    BY DEF IInv, OutcomeInv, TypeOK, FreshIds, Known, Terminal
  <2>1. SUFFICES (disk' = disk \/ disk' = jobs') /\ jobs'[j].status \in {disk[j].status, "absent"}
    OBVIOUS
  <2>2. CASE QuietAction
    <3>1. Quiet BY <2>2, QuietActionIsQuiet
    <3>2. jobs'[j].status \in Statuses \cup {"absent"}
      BY TypeStep DEF IInv, TypeOK, JobState
    <3>3. QuietJob(j) /\ (disk' = disk \/ disk' = jobs') BY <3>1 DEF Quiet
    <3> QED BY <2>0, <3>2, <3>3 DEF QuietJob, Statuses, Terminal
  <2>3. CASE \E c \in Callers, ok \in BOOLEAN : EnqueueCreates(c, ok)
    <3>1. nextId \in Nat BY DEF IInv, TypeOK
    <3> QED BY <2>0, <2>3, <3>1 DEF EnqueueCreates, Persist
  <2>4. CASE \E w \in Workers, ok \in BOOLEAN, h \in BOOLEAN : Claim(w, ok, h)
    <3>1. PICK w \in Workers, ok \in BOOLEAN, h \in BOOLEAN : Claim(w, ok, h) BY <2>4
    <3>2. PICK p \in 1..Len(queue) : Claim(w, ok, h)!(p) BY <3>1 DEF Claim
    <3>3. jobs[queue[p]].status = "pending" BY <3>2 DEF ClaimableAt
    <3>4. j # queue[p] BY <2>0, <3>3 DEF Terminal
    <3> QED BY <2>0, <3>2, <3>4 DEF Persist
  <2>5. CASE Restart
    BY <2>5 DEF Restart, Recovered, Terminal
  <2>6. CASE Tick BY <2>0, <2>6 DEF Tick, queueVars
  <2> QED
    BY <2>2, <2>3, <2>4, <2>5, <2>6
       DEF Next, EnqueueLocked, WorkerStep, Maintenance, QuietAction
<1>2. Final => [Final]_vars OBVIOUS
<1> QED BY IInvInit, IInvStep, <1>1, PTL DEF Spec, DurableOutcomeIsFinal

-----------------------------------------------------------------------------
(* The queue list                                                           *)
HIDE DEF JobIds

(***************************************************************************)
(* Elements of a sequence of job ids are natural numbers.                  *)
(***************************************************************************)
LEMMA QueuedIds ==
  ASSUME queue \in Seq(JobIds)
  PROVE  /\ Len(queue) \in Nat
         /\ \A i \in 1..Len(queue) : queue[i] \in JobIds /\ queue[i] \in Nat
<1>1. Len(queue) \in Nat /\ \A i \in 1..Len(queue) : queue[i] \in JobIds
  OBVIOUS
<1>2. \A j \in JobIds : j \in Nat BY BoundAssumption DEF JobIds
<1> QED BY <1>1, <1>2

(***************************************************************************)
(* Steps that change neither the queue nor the set of pending jobs.        *)
(***************************************************************************)
LEMMA SamePendingOrder ==
  ASSUME TypeOK, QueueIsPendingInOrder, queue' = queue,
         \A j \in JobIds : jobs'[j].status = "pending" <=> jobs[j].status = "pending"
  PROVE  QueueIsPendingInOrder'
<1>1. \A i \in 1..Len(queue) : queue[i] \in JobIds BY QueuedIds DEF TypeOK
<1> QED BY <1>1 DEF QueueIsPendingInOrder, Has

(***************************************************************************)
(* Steps that take one pending job out of the queue.                       *)
(***************************************************************************)
LEMMA RemovalOrder ==
  ASSUME TypeOK, QueueIsPendingInOrder, NEW p \in 1..Len(queue),
         queue' = WithoutIndex(queue, p),
         \A j \in JobIds : jobs'[j].status = "pending" <=>
                             jobs[j].status = "pending" /\ j # queue[p]
  PROVE  QueueIsPendingInOrder'
<1> DEFINE L == Len(queue)
<1>1. /\ L \in Nat /\ p \in 1..L
      /\ \A i \in 1..L : queue[i] \in JobIds /\ queue[i] \in Nat
  BY QueuedIds DEF TypeOK
<1>2. queue \in Seq(JobIds) BY DEF TypeOK
<1>3. /\ Len(queue') = L - 1
      /\ \A n \in 1..(L - 1) : queue'[n] = IF n < p THEN queue[n] ELSE queue[n + 1]
  BY <1>1, <1>2, WithoutIndexType
<1>4. \A m, n \in 1..L : m < n => queue[m] < queue[n]
  BY DEF QueueIsPendingInOrder
<1>5. \A m, n \in 1..L : queue[m] = queue[n] => m = n
  BY <1>1, <1>4
<1>6. \A j \in JobIds : jobs[j].status = "pending" => \E i \in 1..L : queue[i] = j
  BY DEF QueueIsPendingInOrder, Has
<1>7. \A i \in 1..L : jobs[queue[i]].status = "pending"
  BY DEF QueueIsPendingInOrder
<1> HIDE DEF L
<1>8. ASSUME NEW i \in 1..(L - 1) PROVE jobs'[queue'[i]].status = "pending"
  <2> DEFINE o == IF i < p THEN i ELSE i + 1
  <2>1. o \in 1..L /\ o # p /\ queue'[i] = queue[o] BY <1>1, <1>3
  <2> HIDE DEF o
  <2>2. queue[o] # queue[p] BY <1>1, <1>5, <2>1
  <2> QED BY <1>1, <1>7, <2>1, <2>2
<1>9. ASSUME NEW j \in JobIds, jobs'[j].status = "pending"
      PROVE  \E i \in 1..(L - 1) : queue'[i] = j
  <2>1. PICK o \in 1..L : queue[o] = j BY <1>6, <1>9
  <2>2. o # p BY <1>9, <2>1
  <2> DEFINE i == IF o < p THEN o ELSE o - 1
  <2>3. i \in 1..(L - 1) /\ queue'[i] = queue[o] BY <1>1, <1>3, <2>1, <2>2
  <2> QED BY <2>1, <2>3
<1>10. ASSUME NEW m \in 1..(L - 1), NEW n \in 1..(L - 1), m < n
       PROVE  queue'[m] < queue'[n]
  <2> DEFINE At(i) == IF i < p THEN i ELSE i + 1
  <2>1. At(m) \in 1..L /\ At(n) \in 1..L /\ At(m) < At(n) BY <1>1, <1>10
  <2>2. queue'[m] = queue[At(m)] /\ queue'[n] = queue[At(n)] BY <1>3
  <2> HIDE DEF At
  <2> QED BY <1>4, <2>1, <2>2
<1> QED BY <1>3, <1>8, <1>9, <1>10 DEF QueueIsPendingInOrder, Has

(***************************************************************************)
(* Quiet actions other than CancelPending keep queue and pending jobs.     *)
(***************************************************************************)
LEMMA QuietKeepsPending ==
  ASSUME IInv, QuietAction,
         ~\E i \in JobIds, ok \in BOOLEAN : CancelPending(i, ok)
  PROVE  /\ queue' = queue
         /\ \A j \in JobIds : jobs'[j].status = "pending" <=> jobs[j].status = "pending"
<1>1. TypeOK /\ jobs \in [JobIds -> JobState] BY DEF IInv, TypeOK
<1>2. Quiet BY QuietActionIsQuiet
<1>3. \A j \in JobIds : jobs'[j].status = "pending" => jobs[j].status = "pending"
  BY <1>2 DEF Quiet, QuietJob
<1>4. CASE \E v \in Workers, ok \in BOOLEAN : Complete(v, ok)
  BY <1>1, <1>3, <1>4 DEF Complete, JobState
<1>5. CASE \E v \in Workers, ok \in BOOLEAN : UpdateProgress(v, ok)
  BY <1>1, <1>3, <1>5 DEF UpdateProgress, JobState
<1>6. CASE \E v \in Workers, ok \in BOOLEAN : Fail(v, ok)
  <2>1. PICK v \in Workers, ok \in BOOLEAN : Fail(v, ok) BY <1>6
  <2>2. /\ queue' = queue
        /\ \/ jobs' = jobs
           \/ jobs' = [jobs EXCEPT ![worker[v].job] =
                       [@ EXCEPT !.status = "failed", !.finished = now]]
    BY <2>1 DEF Fail
  <2>3. worker[v].job \in JobIds => jobs[worker[v].job].status # "pending"
    BY DEF IInv, WorkerInv
  <2> QED BY <1>1, <1>3, <2>2, <2>3 DEF JobState
<1>7. CASE \E i \in JobIds, ok \in BOOLEAN : Heartbeat(i, ok)
  <2>1. PICK i \in JobIds, ok \in BOOLEAN : Heartbeat(i, ok) BY <1>7
  <2>2. queue' = queue /\ (jobs' = jobs \/ jobs' = [jobs EXCEPT ![i] = [@ EXCEPT !.heartbeat = now]])
    BY <2>1 DEF Heartbeat
  <2> QED BY <1>1, <2>2 DEF JobState
<1>8. CASE \E i \in JobIds, ok \in BOOLEAN : CancelRunning(i, ok)
  BY <1>1, <1>3, <1>8 DEF CancelRunning, JobState
<1>9. CASE \E ok \in BOOLEAN : ReapStuckJobs(ok)
  BY <1>1, <1>3, <1>9 DEF ReapStuckJobs, Stuck, Has, JobState
<1>10. CASE \E ok \in BOOLEAN : PurgeOldJobs(ok)
  BY <1>1, <1>3, <1>10 DEF PurgeOldJobs, Old, IsTerminal, Terminal, JobState
<1>11. CASE UNCHANGED <<jobs, queue>>
  BY <1>11
<1> QED
  BY <1>4, <1>5, <1>6, <1>7, <1>8, <1>9, <1>10, <1>11
     DEF QuietAction, EnqueueReadClock, EnqueueReturnsExisting, HeartbeatLoopEnds,
         HandlerRaises, MaintenanceReadClock, vars, queueVars

(***************************************************************************)
(* Each remaining action keeps the queue exact.                            *)
(***************************************************************************)
LEMMA EnqueueOrder ==
  ASSUME IInv, QueueIsPendingInOrder, NEW c \in Callers, NEW ok \in BOOLEAN,
         EnqueueCreates(c, ok)
  PROVE  QueueIsPendingInOrder'
<1> DEFINE L == Len(queue)
<1>1. /\ queue \in Seq(JobIds) /\ L \in Nat /\ jobs \in [JobIds -> JobState]
      /\ \A i \in 1..L : queue[i] \in JobIds /\ queue[i] \in Nat
      /\ nextId \in JobIds /\ nextId \in Nat
  BY QueuedIds DEF IInv, TypeOK, EnqueueCreates
<1>2. queue' = Append(queue, nextId)
        /\ jobs' = [jobs EXCEPT ![nextId] = [Absent EXCEPT !.status = "pending"]]
  BY DEF EnqueueCreates
<1>3. Len(queue') = L + 1 /\ queue'[L + 1] = nextId
        /\ \A i \in 1..L : queue'[i] = queue[i]
  BY <1>1, <1>2
<1>4. \A i \in 1..L : queue[i] < nextId /\ jobs[queue[i]].status = "pending"
  BY <1>1 DEF QueueIsPendingInOrder, IInv, FreshIds, Known
<1>5. \A j \in JobIds : jobs'[j].status = IF j = nextId THEN "pending" ELSE jobs[j].status
  BY <1>1, <1>2 DEF Absent
<1>6. /\ \A m, n \in 1..L : m < n => queue[m] < queue[n]
      /\ \A j \in JobIds : jobs[j].status = "pending" => \E i \in 1..L : queue[i] = j
  BY DEF QueueIsPendingInOrder, Has
<1> HIDE DEF L
<1>7. ASSUME NEW i \in 1..(L + 1) PROVE jobs'[queue'[i]].status = "pending"
  BY <1>1, <1>3, <1>4, <1>5
<1>8. ASSUME NEW j \in JobIds, jobs'[j].status = "pending"
      PROVE  \E i \in 1..(L + 1) : queue'[i] = j
  BY <1>1, <1>3, <1>5, <1>6, <1>8
<1>9. ASSUME NEW m \in 1..(L + 1), NEW n \in 1..(L + 1), m < n
      PROVE  queue'[m] < queue'[n]
  <2>1. m \in 1..L /\ queue'[m] = queue[m] BY <1>1, <1>3, <1>9
  <2>2. CASE n \in 1..L BY <1>3, <1>6, <1>9, <2>1, <2>2
  <2>3. CASE n = L + 1 BY <1>3, <1>4, <2>1, <2>3
  <2> QED BY <1>1, <2>2, <2>3
<1> QED BY <1>3, <1>7, <1>8, <1>9 DEF QueueIsPendingInOrder, Has

LEMMA ClaimOrder ==
  ASSUME IInv, QueueIsPendingInOrder, NEW w \in Workers, NEW ok \in BOOLEAN,
         NEW h \in BOOLEAN, Claim(w, ok, h)
  PROVE  QueueIsPendingInOrder'
<1>1. TypeOK BY DEF IInv
<1>2. PICK p \in 1..Len(queue) : Claim(w, ok, h)!(p) BY DEF Claim
<1>3. queue' = WithoutIndex(queue, p) BY <1>2
<1>4. \A j \in JobIds : jobs'[j].status = "pending" <=>
                          jobs[j].status = "pending" /\ j # queue[p]
  <2>1. queue[p] \in JobIds /\ jobs \in [JobIds -> JobState]
    BY <1>1, QueuedIds DEF TypeOK
  <2>2. jobs' = [jobs EXCEPT ![queue[p]] = [@ EXCEPT !.status = "running", !.heartbeat = now]]
    BY <1>2
  <2>3. \A j \in JobIds : jobs'[j].status = IF j = queue[p] THEN "running" ELSE jobs[j].status
    BY <2>1, <2>2 DEF JobState
  <2>4. jobs[queue[p]].status = "pending" BY <1>2 DEF ClaimableAt
  <2> QED BY <2>3, <2>4
<1> QED BY <1>1, <1>3, <1>4, RemovalOrder

LEMMA CancelOrder ==
  ASSUME IInv, QueueIsPendingInOrder, NEW j \in JobIds, NEW ok \in BOOLEAN,
         CancelPending(j, ok)
  PROVE  QueueIsPendingInOrder'
<1>1. TypeOK BY DEF IInv
<1>2. \A i \in JobIds : jobs'[i].status = "pending" <=> jobs[i].status = "pending" /\ i # j
  BY <1>1 DEF CancelPending, TypeOK, JobState
<1>3. Positions(queue, j) # {}
  BY DEF CancelPending, QueueIsPendingInOrder, Has, Positions
<1>4. PICK p \in Positions(queue, j) : queue' = WithoutIndex(queue, p)
  BY <1>3 DEF CancelPending
<1>5. p \in 1..Len(queue) /\ queue[p] = j BY DEF Positions
<1> QED BY <1>1, <1>2, <1>4, <1>5, RemovalOrder

LEMMA RestartOrder ==
  ASSUME IInv, Restart
  PROVE  QueueIsPendingInOrder'
<1> DEFINE S == {j \in JobIds : Recovered(j).status = "pending"}
<1>1. jobs' = [j \in JobIds |-> Recovered(j)] /\ queue' \in InOrder(S)
  BY DEF Restart
<1>2. S = {j \in JobIds : jobs'[j].status = "pending"} BY <1>1
<1>3. S \in SUBSET JobIds OBVIOUS
<1> HIDE DEF S
<1>4. /\ \A n \in 1..Len(queue') : queue'[n] \in S
      /\ \A x \in S : \E n \in 1..Len(queue') : queue'[n] = x
      /\ \A m, n \in 1..Len(queue') : m < n => queue'[m] < queue'[n]
  BY <1>1, <1>3, InOrderType
<1> QED BY <1>2, <1>4 DEF QueueIsPendingInOrder, Has

(* The queue holds exactly the pending jobs, each once and oldest first:    *)
(* no sequence of enqueue, claim, cancel, reaping, failing saves and        *)
(* restarts strands a job or breaks the order, for every bound.             *)
THEOREM QueueExact == Spec => []QueueIsPendingInOrder
<1>1. Init => QueueIsPendingInOrder
  BY DEF Init, QueueIsPendingInOrder, Has, Absent
<1>2. IInv /\ QueueIsPendingInOrder /\ [Next]_vars => QueueIsPendingInOrder'
  <2> SUFFICES ASSUME IInv, QueueIsPendingInOrder, [Next]_vars
               PROVE  QueueIsPendingInOrder'
    OBVIOUS
  <2>1. TypeOK BY DEF IInv
  <2>2. CASE \E i \in JobIds, ok \in BOOLEAN : CancelPending(i, ok)
    BY <2>2, CancelOrder
  <2>3. CASE QuietAction /\ ~\E i \in JobIds, ok \in BOOLEAN : CancelPending(i, ok)
    BY <2>1, <2>3, QuietKeepsPending, SamePendingOrder
  <2>4. CASE \E c \in Callers, ok \in BOOLEAN : EnqueueCreates(c, ok)
    BY <2>4, EnqueueOrder
  <2>5. CASE \E w \in Workers, ok \in BOOLEAN, h \in BOOLEAN : Claim(w, ok, h)
    BY <2>5, ClaimOrder
  <2>6. CASE Restart BY <2>6, RestartOrder
  <2>7. CASE Tick BY <2>1, <2>7, SamePendingOrder DEF Tick, queueVars
  <2> QED
    BY <2>2, <2>3, <2>4, <2>5, <2>6, <2>7
       DEF Next, EnqueueLocked, WorkerStep, Maintenance, QuietAction
<1> QED BY <1>1, <1>2, IInvInit, IInvStep, PTL DEF Spec

-----------------------------------------------------------------------------
(* The reaper                                                               *)

(* A job with a living heartbeat thread has had a recent sign of life.      *)
BeatInv ==
  \A j \in beating : jobs[j].status = "running" => now <= jobs[j].heartbeat + HeartbeatBound

(* Quiet steps start no heartbeat thread and turn no heartbeat back.        *)
LEMMA QuietBeats ==
  ASSUME IInv, BeatInv, QuietAction
  PROVE  BeatInv'
<1>1. Quiet BY QuietActionIsQuiet
<1>2. beating' \subseteq beating
  BY DEF QuietAction, EnqueueReadClock, EnqueueReturnsExisting, UpdateProgress,
         HandlerRaises, Complete, Fail, HeartbeatLoopEnds, Heartbeat, CancelPending,
         CancelRunning, MaintenanceReadClock, ReapStuckJobs, PurgeOldJobs, vars,
         threadVars
<1> SUFFICES ASSUME NEW j \in beating', jobs'[j].status = "running"
             PROVE  now' <= jobs'[j].heartbeat + HeartbeatBound
  BY DEF BeatInv
<1>3. /\ j \in beating /\ j \in JobIds /\ now \in Nat /\ now' = now
      /\ QuietJob(j)
  BY <1>1, <1>2 DEF IInv, TypeOK, Quiet
<1>4. /\ jobs[j].status = "running"
      /\ jobs'[j].heartbeat \in {jobs[j].heartbeat, now}
  BY <1>3 DEF QuietJob
<1> QED BY <1>3, <1>4, TimeAssumption DEF BeatInv

(* A claimed job starts with a heartbeat of the time of the claim.          *)
LEMMA ClaimBeats ==
  ASSUME IInv, BeatInv, NEW w \in Workers, NEW ok \in BOOLEAN, NEW h \in BOOLEAN,
         Claim(w, ok, h)
  PROVE  BeatInv'
<1>1. PICK p \in 1..Len(queue) : Claim(w, ok, h)!(p) BY DEF Claim
<1>2. /\ jobs \in [JobIds -> JobState] /\ queue[p] \in JobIds /\ now \in Nat
      /\ beating \subseteq JobIds
  BY DEF IInv, TypeOK
<1>3. /\ jobs' = [jobs EXCEPT ![queue[p]] =
                    [@ EXCEPT !.status = "running", !.heartbeat = now]]
      /\ beating' \in {beating, beating \cup {queue[p]}} /\ now' = now
  BY <1>1
<1> SUFFICES ASSUME NEW j \in beating', jobs'[j].status = "running"
             PROVE  now' <= jobs'[j].heartbeat + HeartbeatBound
  BY DEF BeatInv
<1>4. CASE j = queue[p]
  <2>1. jobs[j] \in JobState BY <1>2, <1>4
  <2>2. jobs'[j].heartbeat = now BY <1>2, <1>3, <1>4, <2>1 DEF JobState
  <2> QED BY <1>2, <1>3, <2>2, TimeAssumption
<1>5. CASE j # queue[p]
  <2>1. j \in beating /\ jobs'[j] = jobs[j] BY <1>2, <1>3, <1>5
  <2> QED BY <1>3, <2>1 DEF BeatInv
<1> QED BY <1>4, <1>5

(* Every step keeps the heartbeats of living threads recent.                *)
LEMMA BeatStep ==
  ASSUME IInv, BeatInv, [Next]_vars
  PROVE  BeatInv'
<1>1. CASE QuietAction BY <1>1, QuietBeats
<1>2. CASE \E c \in Callers, ok \in BOOLEAN : EnqueueCreates(c, ok)
  <2>1. PICK c \in Callers, ok \in BOOLEAN : EnqueueCreates(c, ok) BY <1>2
  <2>2. /\ jobs' = [jobs EXCEPT ![nextId] = [Absent EXCEPT !.status = "pending"]]
        /\ UNCHANGED <<now, beating>>
    BY <2>1 DEF EnqueueCreates
  <2>3. jobs \in [JobIds -> JobState] BY DEF IInv, TypeOK
  <2>4. [Absent EXCEPT !.status = "pending"].status = "pending" BY DEF Absent
  <2>5. \A j \in JobIds : jobs'[j].status = "running" => jobs'[j] = jobs[j]
    BY <2>2, <2>3, <2>4
  <2>6. beating \subseteq JobIds BY DEF IInv, TypeOK
  <2> QED BY <2>2, <2>5, <2>6 DEF BeatInv
<1>3. CASE \E w \in Workers, ok \in BOOLEAN, h \in BOOLEAN : Claim(w, ok, h)
  BY <1>3, ClaimBeats
<1>4. CASE Restart BY <1>4 DEF Restart, BeatInv
<1>5. CASE Tick
  <2>1. now' = now + 1 /\ UNCHANGED <<jobs, beating>>
    BY <1>5 DEF Tick, queueVars, threadVars
  <2>2. \A j \in beating : jobs[j].status = "running" =>
          now + 1 - jobs[j].heartbeat <= HeartbeatBound
    BY <1>5 DEF Tick
  <2>3. now \in Nat /\ \A j \in beating : jobs[j].heartbeat \in Nat
    <3>1. \A j \in beating : jobs[j] \in JobState BY DEF IInv, TypeOK
    <3> QED BY <3>1 DEF IInv, TypeOK, JobState
  <2> QED BY <2>1, <2>2, <2>3, TimeAssumption DEF BeatInv
<1> QED
  BY <1>1, <1>2, <1>3, <1>4, <1>5
     DEF Next, EnqueueLocked, WorkerStep, Maintenance, QuietAction

(* The reaper fails no job that has a living heartbeat thread, although it  *)
(* read the clock before it took the lock: for every number of jobs,        *)
(* workers and restarts, if a living thread is never silent for longer than *)
(* stuck_threshold (reap_stuck_jobs).                                       *)
THEOREM ReaperSparesLiving ==
  ASSUME HeartbeatBound <= StuckThreshold
  PROVE  Spec => NoFalseReap
<1> DEFINE Spared == maint.pc = "reap" /\ maint'.pc = "reaped" =>
                       \A j \in beating : jobs[j].status = "running"
                                            => jobs'[j].status = "running"
<1>1. Init => BeatInv BY DEF Init, BeatInv
<1>2. IInv /\ BeatInv /\ [Next]_vars => BeatInv' BY BeatStep
<1>3. IInv /\ BeatInv /\ [Next]_vars => Spared
  <2> SUFFICES ASSUME IInv, BeatInv, [Next]_vars, maint.pc = "reap", maint'.pc = "reaped",
                      NEW j \in beating, jobs[j].status = "running"
               PROVE  jobs'[j].status = "running"
    OBVIOUS
  <2>1. \E ok \in BOOLEAN : ReapStuckJobs(ok)
    <3> USE DEF threadVars
    <3>1. maint' # maint /\ maint'.pc # "wait" OBVIOUS
    <3>2. ~ Restart BY <3>1 DEF Restart, Waiting
    <3>3. ~ Tick /\ ~ UNCHANGED vars BY <3>1 DEF Tick, vars
    <3>4. \A c \in Callers, k \in AnyKey : ~ EnqueueReadClock(c, k)
      BY <3>1 DEF EnqueueReadClock
    <3>5. \A c \in Callers : ~ EnqueueLocked(c)
      BY <3>1 DEF EnqueueLocked, EnqueueReturnsExisting, EnqueueCreates
    <3>6. \A w \in Workers : ~ WorkerStep(w)
      BY <3>1 DEF WorkerStep, Claim, HandlerRaises, Complete, Fail
    <3>7. \A w \in Workers, ok \in BOOLEAN : ~ UpdateProgress(w, ok)
      BY <3>1 DEF UpdateProgress
    <3>8. \A i \in JobIds : ~ HeartbeatLoopEnds(i)
      BY <3>1 DEF HeartbeatLoopEnds
    <3>9. \A i \in JobIds, ok \in BOOLEAN :
            ~ Heartbeat(i, ok) /\ ~ CancelPending(i, ok) /\ ~ CancelRunning(i, ok)
      BY <3>1 DEF Heartbeat, CancelPending, CancelRunning
    <3>10. Maintenance
      BY <3>2, <3>3, <3>4, <3>5, <3>6, <3>7, <3>8, <3>9 DEF Next
    <3> QED BY <3>1, <3>10 DEF Maintenance, MaintenanceReadClock, PurgeOldJobs, Waiting
  <2>2. j \in JobIds /\ jobs[j] \in JobState /\ now \in Nat /\ maint.now \in Nat
    BY DEF IInv, TypeOK
  <2>3. /\ maint.now <= now /\ now <= jobs[j].heartbeat + HeartbeatBound
    BY DEF IInv, KeyInv, TimeInv, BeatInv
  <2>4. jobs[j].heartbeat \in Nat BY <2>2 DEF JobState
  <2>5. j \notin Stuck BY <2>2, <2>3, <2>4, TimeAssumption DEF Stuck
  <2> QED BY <2>1, <2>2, <2>5 DEF ReapStuckJobs
<1>4. Spared => [Spared]_vars OBVIOUS
<1> HIDE DEF Spared
<1>5. Spec => [][Spared]_vars
  BY <1>1, <1>2, <1>3, <1>4, IInvInit, IInvStep, PTL DEF Spec
<1> QED BY <1>5 DEF NoFalseReap, Spared

=============================================================================
