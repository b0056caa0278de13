------------------------------- MODULE JobQueue -------------------------------
(***************************************************************************)
(* The asynchronous job queue of the control plane                          *)
(* (beagle-host/services/job_queue_service.py) together with the threads    *)
(* that use it (beagle-host/services/job_worker.py).                        *)
(*                                                                          *)
(* One lock guards the queue, so every method body under `with self._lock`  *)
(* is one action.  What happens outside the lock is a separate step: the    *)
(* clock that enqueue, reap_stuck_jobs and purge_old_jobs read before they  *)
(* take the lock, and the worker's path from one queue call to the next.    *)
(*                                                                          *)
(* A job id is a fresh UUID in the code and the next natural number here;   *)
(* Python dictionaries keep insertion order, so id order is the order of    *)
(* self._jobs and of the "jobs" list on disk.  A job's idempotency key and  *)
(* creation time never change, so they are kept apart from its mutable part *)
(* and are remembered for jobs that have been purged or lost.               *)
(***************************************************************************)
EXTENDS Integers, Sequences, FiniteSets

CONSTANTS
  Workers,          \* worker threads (max_workers of them)
  Callers,          \* HTTP request threads that enqueue
  Keys,             \* idempotency keys
  NoKey,            \* the empty idempotency key
  TTL,              \* idempotency_ttl
  Retention,        \* job_retention
  StuckThreshold,   \* stuck_threshold
  MaxLag,           \* longest wait between enqueue's clock read and its lock
  HeartbeatBound,   \* longest silence of a living heartbeat thread
  MaxJobs, MaxClock,              \* bounds of the explored instance:
  MaxCrashes, MaxSaveFailures     \* jobs, time, restarts, failing saves

(* Retention is 7 days and the TTL 24 hours (job_queue_service.py:59-60): a *)
(* finished job outlives its key by far more than a request waits.          *)
ASSUME TimeAssumption ==
  /\ TTL \in Nat /\ Retention \in Nat /\ StuckThreshold \in Nat
  /\ MaxLag \in Nat /\ HeartbeatBound \in Nat
  /\ TTL + MaxLag <= Retention

ASSUME BoundAssumption ==
  /\ MaxJobs \in Nat /\ MaxClock \in Nat /\ MaxCrashes \in Nat
  /\ MaxSaveFailures \in Nat
  /\ NoKey \notin Keys

JobIds == 1..MaxJobs
Terminal == {"completed", "failed", "cancelled"}
Statuses == {"pending", "running"} \cup Terminal
AnyKey == Keys \cup {NoKey}

(* The mutable part of a job.  "absent": the id is not in self._jobs.       *)
JobState == [status : Statuses \cup {"absent"}, heartbeat : Nat,
             finished : Nat, cancelRequested : BOOLEAN]
Absent == [status |-> "absent", heartbeat |-> 0, finished |-> 0,
           cancelRequested |-> FALSE]

VARIABLES
  now,        \* time.time()
  nextId,     \* the next unused job id
  key,        \* job id -> idempotency key given at enqueue
  created,    \* job id -> created_at
  jobs,       \* self._jobs
  queue,      \* self._queue
  idem,       \* self._idem, 0 for no entry; created_at is created[idem[k]]
  disk,       \* the "jobs" list of jobs-state.json
  saveFailures,  \* how many saves of that file have failed so far
  request,    \* caller -> the enqueue call it is in
  worker,     \* worker thread -> where it is and for which job
  beating,    \* jobs that have a heartbeat thread
  maint,      \* the maintenance thread and the clock it read
  crashes,    \* number of control-plane restarts so far
  runs        \* history: how often a handler was started for a job

queueVars == <<jobs, queue, idem, disk, saveFailures>>
attrVars == <<nextId, key, created>>
threadVars == <<request, worker, beating, maint>>
vars == <<now, attrVars, queueVars, threadVars, crashes, runs>>

NoRequest == [key |-> NoKey, now |-> 0, active |-> FALSE]
WorkerState == [pc : {"idle", "handler", "fail", "dead"}, job : JobIds \cup {0}]
IdleWorker == [pc |-> "idle", job |-> 0]
Waiting == [pc |-> "wait", now |-> 0]

Init ==
  /\ now = 0 /\ nextId = 1 /\ crashes = 0 /\ saveFailures = 0
  /\ key = [j \in JobIds |-> NoKey]
  /\ created = [j \in JobIds |-> 0]
  /\ jobs = [j \in JobIds |-> Absent]
  /\ disk = [j \in JobIds |-> Absent]
  /\ queue = <<>>
  /\ idem = [k \in Keys |-> 0]
  /\ request = [c \in Callers |-> NoRequest]
  /\ worker = [w \in Workers |-> IdleWorker]
  /\ beating = {}
  /\ maint = Waiting
  /\ runs = [j \in JobIds |-> 0]

Has(status) == {j \in JobIds : jobs[j].status = status}
IsTerminal(j) == jobs[j].status \in Terminal

(* _persist_locked: the whole state replaces the file atomically, or save   *)
(* raises and the file keeps its old content; memory is changed either way. *)
Persist(ok) ==
  /\ disk' = IF ok THEN jobs' ELSE disk
  /\ saveFailures' = IF ok THEN saveFailures ELSE saveFailures + 1
  /\ saveFailures' <= MaxSaveFailures

-----------------------------------------------------------------------------
(* enqueue                                                                  *)

(* enqueue reads the clock before it takes the lock.  The guard keeps an id *)
(* for every call in progress (bound MaxJobs).                              *)
EnqueueReadClock(c, k) ==
  /\ ~request[c].active
  /\ nextId + Cardinality({d \in Callers : request[d].active}) <= MaxJobs
  /\ request' = [request EXCEPT ![c] = [key |-> k, now |-> now, active |-> TRUE]]
  /\ UNCHANGED <<now, attrVars, queueVars, worker, beating, maint, crashes, runs>>

(* Mutant of IdempotentHit: the key is forgotten one time unit too early.   *)
HitExpiresEarly(k, t) ==
  /\ k \in Keys
  /\ idem[k] # 0
  /\ t - created[idem[k]] < TTL - 1
  /\ jobs[idem[k]].status # "absent"

(* The idempotency entry decides: it is young enough and its job is known.  *)
IdempotentHit(k, t) ==
  /\ k \in Keys
  /\ idem[k] # 0
  /\ t - created[idem[k]] < TTL
  /\ jobs[idem[k]].status # "absent"

EnqueueReturnsExisting(c) ==
  /\ request[c].active
  /\ IdempotentHit(request[c].key, request[c].now)
  /\ request' = [request EXCEPT ![c] = NoRequest]
  /\ UNCHANGED <<now, attrVars, queueVars, worker, beating, maint, crashes, runs>>

(* Mutant of EnqueueCreates: the new job is not appended to the queue.      *)
CreatesUnqueued(c, ok) ==
  LET k == request[c].key IN
  /\ request[c].active
  /\ ~IdempotentHit(k, request[c].now)
  /\ nextId \in JobIds
  /\ key' = [key EXCEPT ![nextId] = k]
  /\ created' = [created EXCEPT ![nextId] = request[c].now]
  /\ nextId' = nextId + 1
  /\ jobs' = [jobs EXCEPT ![nextId] = [Absent EXCEPT !.status = "pending"]]
  /\ idem' = [x \in Keys |-> IF x = k THEN nextId ELSE idem[x]]
  /\ Persist(ok)
  /\ request' = [request EXCEPT ![c] = NoRequest]
  /\ UNCHANGED <<now, queue, worker, beating, maint, crashes, runs>>

EnqueueCreates(c, ok) ==
  LET k == request[c].key IN
  /\ request[c].active
  /\ ~IdempotentHit(k, request[c].now)
  /\ nextId \in JobIds
  /\ key' = [key EXCEPT ![nextId] = k]
  /\ created' = [created EXCEPT ![nextId] = request[c].now]
  /\ nextId' = nextId + 1
  /\ jobs' = [jobs EXCEPT ![nextId] = [Absent EXCEPT !.status = "pending"]]
  /\ queue' = Append(queue, nextId)
  /\ idem' = [x \in Keys |-> IF x = k THEN nextId ELSE idem[x]]
  /\ Persist(ok)
  /\ request' = [request EXCEPT ![c] = NoRequest]
  /\ UNCHANGED <<now, worker, beating, maint, crashes, runs>>

-----------------------------------------------------------------------------
(* The worker threads                                                       *)

(* list.pop(i) and list.remove(x) on the pending queue.                     *)
WithoutIndex(s, i) ==
  [n \in 1..(Len(s) - 1) |-> IF n < i THEN s[n] ELSE s[n + 1]]
Positions(s, j) == {i \in 1..Len(s) : s[i] = j}

(* The first index of the queue whose job is known and pending.             *)
ClaimableAt(i) ==
  /\ jobs[queue[i]].status = "pending"
  /\ \A n \in 1..(i - 1) : jobs[queue[n]].status # "pending"

(* Mutant of Claim: the job is handed out but keeps the status "pending".   *)
ClaimKeepsPending(w, ok, hasHandler) ==
  \E i \in 1..Len(queue) :
    LET j == queue[i] IN
    /\ worker[w].pc = "idle"
    /\ ClaimableAt(i)
    /\ jobs' = [jobs EXCEPT ![j] = [@ EXCEPT !.heartbeat = now]]
    /\ UNCHANGED queue
    /\ Persist(ok)
    /\ worker' = [worker EXCEPT ![w] = [pc |-> "handler", job |-> j]]
    /\ runs' = [runs EXCEPT ![j] = @ + 1]
    /\ UNCHANGED <<now, attrVars, idem, request, beating, maint, crashes>>

(* Mutant of Claim: the worker calls the handler although the save raised.  *)
ClaimIgnoresSave(w, ok, hasHandler) ==
  \E i \in 1..Len(queue) :
    LET j == queue[i] IN
    /\ worker[w].pc = "idle"
    /\ ClaimableAt(i)
    /\ jobs' = [jobs EXCEPT ![j] = [@ EXCEPT !.status = "running", !.heartbeat = now]]
    /\ queue' = WithoutIndex(queue, i)
    /\ Persist(ok)
    /\ worker' = [worker EXCEPT ![w] = [pc |-> "handler", job |-> j]]
    /\ runs' = [runs EXCEPT ![j] = @ + 1]
    /\ UNCHANGED <<now, attrVars, idem, request, beating, maint, crashes>>

(* claim_next_pending, and _run_job up to the handler call.  A failing save *)
(* raises out of _worker_loop: the thread is gone, the job stays running.   *)
(* Without a handler for the job's name the worker goes straight to fail.   *)
Claim(w, ok, hasHandler) ==
  \E i \in 1..Len(queue) :
    LET j == queue[i] IN
    /\ worker[w].pc = "idle"
    /\ ClaimableAt(i)
    /\ jobs' = [jobs EXCEPT ![j] = [@ EXCEPT !.status = "running", !.heartbeat = now]]
    /\ queue' = WithoutIndex(queue, i)
    /\ Persist(ok)
    /\ \/ /\ ok /\ hasHandler
          /\ worker' = [worker EXCEPT ![w] = [pc |-> "handler", job |-> j]]
          /\ beating' = beating \cup {j}
          /\ runs' = [runs EXCEPT ![j] = @ + 1]
       \/ /\ ok /\ ~hasHandler
          /\ worker' = [worker EXCEPT ![w] = [pc |-> "fail", job |-> j]]
          /\ UNCHANGED <<beating, runs>>
       \/ /\ ~ok
          /\ worker' = [worker EXCEPT ![w] = [pc |-> "dead", job |-> 0]]
          /\ UNCHANGED <<beating, runs>>
    /\ UNCHANGED <<now, attrVars, idem, request, maint, crashes>>

(* A handler reports progress: refreshes the heartbeat of a running job.    *)
(* On any other job it raises, which is HandlerRaises.                      *)
UpdateProgress(w, ok) ==
  LET j == worker[w].job IN
  /\ worker[w].pc = "handler"
  /\ jobs[j].status = "running"
  /\ jobs' = [jobs EXCEPT ![j] = [@ EXCEPT !.heartbeat = now]]
  /\ Persist(ok)
  /\ worker' = IF ok THEN worker ELSE [worker EXCEPT ![w] = [@ EXCEPT !.pc = "fail"]]
  /\ UNCHANGED <<now, attrVars, queue, idem, request, beating, maint, crashes, runs>>

(* The handler raises: an error, or _CancelledJobError from check_cancelled *)
(* once cancel_requested is set.  Either way the worker calls fail.         *)
HandlerRaises(w) ==
  /\ worker[w].pc = "handler"
  /\ worker' = [worker EXCEPT ![w] = [@ EXCEPT !.pc = "fail"]]
  /\ UNCHANGED <<now, attrVars, queueVars, request, beating, maint, crashes, runs>>

(* Mutant of Complete: _assert_running is missing, so a job that was reaped *)
(* meanwhile turns from "failed" into "completed".                          *)
CompleteUnchecked(w, ok) ==
  LET j == worker[w].job IN
  /\ worker[w].pc = "handler"
  /\ jobs[j].status # "absent"
  /\ jobs' = [jobs EXCEPT ![j] = [@ EXCEPT !.status = "completed", !.finished = now]]
  /\ Persist(ok)
  /\ worker' = [worker EXCEPT ![w] = IdleWorker]
  /\ UNCHANGED <<now, attrVars, queue, idem, request, beating, maint, crashes, runs>>

(* The handler returns and the worker calls complete, which raises for a    *)
(* job that was purged or reaped meanwhile, or when the save fails.         *)
Complete(w, ok) ==
  LET j == worker[w].job IN
  /\ worker[w].pc = "handler"
  /\ IF jobs[j].status = "running"
       THEN /\ jobs' = [jobs EXCEPT ![j] = [@ EXCEPT !.status = "completed", !.finished = now]]
            /\ Persist(ok)
            /\ worker' = [worker EXCEPT ![w] =
                 IF ok THEN IdleWorker ELSE [pc |-> "fail", job |-> j]]
       ELSE /\ worker' = [worker EXCEPT ![w] = [@ EXCEPT !.pc = "fail"]]
            /\ UNCHANGED <<jobs, disk, saveFailures>>
  /\ UNCHANGED <<now, attrVars, queue, idem, request, beating, maint, crashes, runs>>

(* fail: nothing for a terminal job; JobNotFoundError for a purged one, and *)
(* a failing save, leave _run_job and end the thread.                       *)
Fail(w, ok) ==
  LET j == worker[w].job
      Goes(pc) == worker' = [worker EXCEPT ![w] = [pc |-> pc, job |-> 0]] IN
  /\ worker[w].pc = "fail"
  /\ \/ /\ jobs[j].status = "absent"
        /\ Goes("dead")
        /\ UNCHANGED <<jobs, disk, saveFailures>>
     \/ /\ IsTerminal(j)
        /\ Goes("idle")
        /\ UNCHANGED <<jobs, disk, saveFailures>>
     \/ /\ jobs[j].status \in {"pending", "running"}
        /\ jobs' = [jobs EXCEPT ![j] = [@ EXCEPT !.status = "failed", !.finished = now]]
        /\ Persist(ok)
        /\ Goes(IF ok THEN "idle" ELSE "dead")
  /\ UNCHANGED <<now, attrVars, queue, idem, request, beating, maint, crashes, runs>>

-----------------------------------------------------------------------------
(* The heartbeat threads                                                    *)

(* hb_stop is set once no worker is running the job any more.               *)
InHandler(j) == \E w \in Workers : worker[w].job = j

(* One turn of _heartbeat_loop.  heartbeat does not look at the status; the *)
(* loop ends on an exception, and after the beat that was already under way *)
(* when hb_stop was set.                                                    *)
Heartbeat(j, ok) ==
  /\ j \in beating
  /\ IF jobs[j].status = "absent"
       THEN UNCHANGED <<jobs, disk, saveFailures>>
       ELSE /\ jobs' = [jobs EXCEPT ![j] = [@ EXCEPT !.heartbeat = now]]
            /\ Persist(ok)
  /\ beating' = IF jobs[j].status # "absent" /\ ok /\ InHandler(j)
                  THEN beating ELSE beating \ {j}
  /\ UNCHANGED <<now, attrVars, queue, idem, request, worker, maint, crashes, runs>>

HeartbeatLoopEnds(j) ==
  /\ j \in beating
  /\ ~InHandler(j)
  /\ beating' = beating \ {j}
  /\ UNCHANGED <<now, attrVars, queueVars, request, worker, maint, crashes, runs>>

-----------------------------------------------------------------------------
(* cancel, through DELETE /api/v1/jobs/{id}                                 *)

(* Mutant of CancelPending: the job is left in the pending queue.           *)
CancelKeepsQueued(j, ok) ==
  /\ jobs[j].status = "pending"
  /\ jobs' = [jobs EXCEPT ![j] = [@ EXCEPT !.status = "cancelled", !.finished = now]]
  /\ Persist(ok)
  /\ UNCHANGED <<now, attrVars, queue, idem, threadVars, crashes, runs>>

CancelPending(j, ok) ==
  /\ jobs[j].status = "pending"
  /\ jobs' = [jobs EXCEPT ![j] = [@ EXCEPT !.status = "cancelled", !.finished = now]]
  /\ IF Positions(queue, j) = {} THEN UNCHANGED queue
     ELSE \E i \in Positions(queue, j) :
            /\ \A n \in Positions(queue, j) : i <= n
            /\ queue' = WithoutIndex(queue, i)
  /\ Persist(ok)
  /\ UNCHANGED <<now, attrVars, idem, threadVars, crashes, runs>>

(* Mutant of CancelRunning: a running job is marked "cancelled" at once.    *)
CancelRunningAtOnce(j, ok) ==
  /\ jobs[j].status = "running"
  /\ jobs' = [jobs EXCEPT ![j] = [@ EXCEPT !.status = "cancelled", !.finished = now]]
  /\ Persist(ok)
  /\ UNCHANGED <<now, attrVars, queue, idem, threadVars, crashes, runs>>

CancelRunning(j, ok) ==
  /\ jobs[j].status = "running"
  /\ jobs' = [jobs EXCEPT ![j] = [@ EXCEPT !.cancelRequested = TRUE]]
  /\ Persist(ok)
  /\ UNCHANGED <<now, attrVars, queue, idem, threadVars, crashes, runs>>

-----------------------------------------------------------------------------
(* The maintenance thread: reap_stuck_jobs, then purge_old_jobs.  Each reads *)
(* the clock before it takes the lock; exceptions are logged and swallowed.  *)

MaintenanceReadClock ==
  /\ maint.pc \in {"wait", "reaped"}
  /\ maint' = [pc |-> IF maint.pc = "wait" THEN "reap" ELSE "purge", now |-> now]
  /\ UNCHANGED <<now, attrVars, queueVars, request, worker, beating, crashes, runs>>

(* Mutants of Stuck: the threshold off by one, in either direction.         *)
StuckTooEarly == {j \in Has("running") : maint.now - jobs[j].heartbeat >= StuckThreshold}
StuckTooLate == {j \in Has("running") : maint.now - jobs[j].heartbeat > StuckThreshold + 1}

Stuck == {j \in Has("running") : maint.now - jobs[j].heartbeat > StuckThreshold}

ReapStuckJobs(ok) ==
  /\ maint.pc = "reap"
  /\ jobs' = [j \in JobIds |->
                IF j \in Stuck
                  THEN [jobs[j] EXCEPT !.status = "failed", !.finished = maint.now]
                  ELSE jobs[j]]
  /\ IF Stuck # {} THEN Persist(ok) ELSE UNCHANGED <<disk, saveFailures>>
  /\ maint' = [pc |-> "reaped", now |-> 0]
  /\ UNCHANGED <<now, attrVars, queue, idem, request, worker, beating, crashes, runs>>

Old == {j \in JobIds : IsTerminal(j) /\ maint.now - jobs[j].finished > Retention}

PurgeOldJobs(ok) ==
  /\ maint.pc = "purge"
  /\ jobs' = [j \in JobIds |-> IF j \in Old THEN Absent ELSE jobs[j]]
  /\ idem' = [k \in Keys |-> IF idem[k] \in Old THEN 0 ELSE idem[k]]
  /\ IF Old # {} THEN Persist(ok) ELSE UNCHANGED <<disk, saveFailures>>
  /\ maint' = Waiting
  /\ UNCHANGED <<now, attrVars, queue, request, worker, beating, crashes, runs>>

-----------------------------------------------------------------------------
(* Restart of the control plane, and time                                   *)

(* The increasing sequences of all elements of S.                           *)
InOrder(S) ==
  {q \in [1..Cardinality(S) -> S] :
     /\ \A m, n \in 1..Cardinality(S) : m < n => q[m] < q[n]
     /\ \A x \in S : \E n \in 1..Cardinality(S) : q[n] = x}

(* Mutants of Recovered: a job that was running is queued again; it gets a  *)
(* status of its own.                                                       *)
RecoveredRequeues(j) ==
  IF disk[j].status = "running" THEN [disk[j] EXCEPT !.status = "pending"] ELSE disk[j]
RecoveredInterrupted(j) ==
  IF disk[j].status = "running" THEN [disk[j] EXCEPT !.status = "interrupted"] ELSE disk[j]

(* What _load_persisted_state makes of a job record: one that was running   *)
(* has been interrupted.                                                    *)
Recovered(j) ==
  IF disk[j].status = "running"
    THEN [disk[j] EXCEPT !.status = "failed", !.finished = now]
    ELSE disk[j]

(* Mutant of RecoveredIdem: the entries do not survive a restart.           *)
RecoveredIdemLost(k, e) == e = 0

(* The saved "idempotency" table is not read: the entries are rebuilt from  *)
(* the job records, later records overwriting earlier ones.                 *)
RecoveredIdem(k, e) ==
  LET Owners == {j \in JobIds : disk[j].status # "absent" /\ key[j] = k} IN
  IF Owners = {} THEN e = 0
  ELSE e \in Owners /\ \A j \in Owners : j <= e

(* The process dies and the service comes back with what the file holds.    *)
Restart ==
  /\ crashes < MaxCrashes
  /\ crashes' = crashes + 1
  /\ jobs' = [j \in JobIds |-> Recovered(j)]
  /\ queue' \in InOrder({j \in JobIds : Recovered(j).status = "pending"})
  /\ idem' \in [Keys -> JobIds \cup {0}]
  /\ \A k \in Keys : RecoveredIdem(k, idem'[k])
  /\ request' = [c \in Callers |-> NoRequest]
  /\ worker' = [w \in Workers |-> IdleWorker]
  /\ beating' = {}
  /\ maint' = Waiting
  /\ UNCHANGED <<now, attrVars, disk, saveFailures, runs>>

(* Time passes.  The two timing assumptions: a request waits at most MaxLag *)
(* for the lock, and a living heartbeat thread of a running job is silent   *)
(* for at most HeartbeatBound.                                              *)
Tick ==
  /\ now < MaxClock
  /\ \A c \in Callers : request[c].active => now + 1 - request[c].now <= MaxLag
  /\ \A j \in beating : jobs[j].status = "running"
                          => now + 1 - jobs[j].heartbeat <= HeartbeatBound
  /\ now' = now + 1
  /\ UNCHANGED <<attrVars, queueVars, threadVars, crashes, runs>>

EnqueueLocked(c) ==
  \/ EnqueueReturnsExisting(c)
  \/ \E ok \in BOOLEAN : EnqueueCreates(c, ok)

WorkerStep(w) ==
  \/ \E ok, h \in BOOLEAN : Claim(w, ok, h)
  \/ HandlerRaises(w)
  \/ \E ok \in BOOLEAN : Complete(w, ok) \/ Fail(w, ok)

Maintenance ==
  \/ MaintenanceReadClock
  \/ \E ok \in BOOLEAN : ReapStuckJobs(ok) \/ PurgeOldJobs(ok)

Next ==
  \/ \E c \in Callers, k \in AnyKey : EnqueueReadClock(c, k)
  \/ \E c \in Callers : EnqueueLocked(c)
  \/ \E w \in Workers : WorkerStep(w)
  \/ \E w \in Workers, ok \in BOOLEAN : UpdateProgress(w, ok)
  \/ \E j \in JobIds : HeartbeatLoopEnds(j)
  \/ \E j \in JobIds, ok \in BOOLEAN :
       Heartbeat(j, ok) \/ CancelPending(j, ok) \/ CancelRunning(j, ok)
  \/ Maintenance
  \/ Restart
  \/ Tick

Spec == Init /\ [][Next]_vars

(* Fairness: a thread that can run does run (the OS schedules the threads   *)
(* of the process), every handler ends at some point, and time goes on.     *)
FairSpec ==
  /\ Spec
  /\ \A c \in Callers : WF_vars(EnqueueLocked(c))
  /\ \A w \in Workers : WF_vars(WorkerStep(w))
  /\ \A j \in JobIds : WF_vars(HeartbeatLoopEnds(j))
  /\ WF_vars(Maintenance)
  /\ WF_vars(Tick)

-----------------------------------------------------------------------------
(* Properties                                                               *)

(* Every variable has its type.                                             *)
TypeOK ==
  /\ now \in Nat /\ crashes \in Nat /\ saveFailures \in Nat
  /\ nextId \in Nat \ {0}
  /\ key \in [JobIds -> AnyKey]
  /\ created \in [JobIds -> Nat]
  /\ jobs \in [JobIds -> JobState]
  /\ disk \in [JobIds -> JobState]
  /\ queue \in Seq(JobIds)
  /\ idem \in [Keys -> JobIds \cup {0}]
  /\ request \in [Callers -> [key : AnyKey, now : Nat, active : BOOLEAN]]
  /\ worker \in [Workers -> WorkerState]
  /\ beating \subseteq JobIds
  /\ maint \in [pc : {"wait", "reap", "reaped", "purge"}, now : Nat]
  /\ runs \in [JobIds -> Nat]

(* The queue holds exactly the pending jobs, each once, oldest first: no    *)
(* path through claim, cancel or a restart strands a pending job outside    *)
(* self._queue, leaves a job there that is no longer pending, or breaks     *)
(* first-in-first-out order.                                                *)
QueueIsPendingInOrder ==
  /\ \A i \in 1..Len(queue) : jobs[queue[i]].status = "pending"
  /\ \A j \in Has("pending") : \E i \in 1..Len(queue) : queue[i] = j
  /\ \A m, n \in 1..Len(queue) : m < n => queue[m] < queue[n]

(* A job's handler is started at most once, whatever crashes, failing saves *)
(* and restarts happen: claim_next_pending saves "running" before the       *)
(* worker calls the handler, and a restart turns "running" into "failed".   *)
HandledAtMostOnce == \A j \in JobIds : runs[j] <= 1

(* "The same key within the TTL returns the existing job", for the work     *)
(* that is done: of two jobs with one key whose handlers have been started  *)
(* the later was requested at least the TTL after the earlier, across       *)
(* restarts, failed saves and purges, and although enqueue compares with a  *)
(* clock it read before it took the lock.                                   *)
KeyWorkSpaced ==
  \A i, j \in JobIds :
    /\ i < j /\ key[i] = key[j] /\ key[i] \in Keys
    /\ runs[i] > 0 /\ runs[j] > 0
    => created[i] + TTL <= created[j]

(* A cancellation that took effect holds: a job that is "cancelled", in     *)
(* memory or on disk, has never been handed to a handler.                   *)
CancelledNeverRan ==
  \A j \in JobIds :
    "cancelled" \in {jobs[j].status, disk[j].status} => runs[j] = 0

(* An outcome that reached the disk is final: neither the file nor the      *)
(* memory of the process ever shows another one for that job afterwards,    *)
(* restarts included; the job can only be purged.                           *)
DurableOutcomeIsFinal ==
  [][\A j \in JobIds :
       disk[j].status \in Terminal =>
         {disk'[j].status, jobs'[j].status} \subseteq {disk[j].status, "absent"}]_vars

(* The reaper never fails a job whose heartbeat thread lives and is at most *)
(* StuckThreshold late, although the clock it uses was read before it took  *)
(* the lock.                                                                *)
NoFalseReap ==
  [][maint.pc = "reap" /\ maint'.pc = "reaped" =>
       \A j \in beating : jobs[j].status = "running" => jobs'[j].status = "running"]_vars

(* A pending job is claimed or cancelled in the end, unless every worker    *)
(* thread has died (a failing save in claim_next_pending or fail, or a job  *)
(* purged under its worker, ends the thread and nothing starts a new one).  *)
PendingIsServed ==
  \A j \in JobIds :
    jobs[j].status = "pending"
      ~> (jobs[j].status # "pending" \/ \A w \in Workers : worker[w].pc = "dead")

(* A running job that no thread works on any more: its worker died.         *)
Orphan(j) ==
  jobs[j].status = "running" /\ ~InHandler(j) /\ j \notin beating

(* The reaper cleans up after dead worker threads: an orphaned job does not *)
(* stay "running" once the clock has passed its last heartbeat by more than *)
(* StuckThreshold.                                                          *)
OrphanIsReaped ==
  \A j \in JobIds :
    Orphan(j) /\ jobs[j].heartbeat + StuckThreshold < MaxClock
      ~> jobs[j].status # "running"

(* The ledger a client sees: the statuses in jobs-state.json and the        *)
(* handlers that were started.                                              *)
Ledger == INSTANCE JobLedger WITH
  Jobs <- JobIds,
  record <- [j \in JobIds |-> disk[j].status],
  starts <- runs

(* The queue with its threads, restarts and failing saves implements the    *)
(* ledger: seen through the file, a handler starts only together with the   *)
(* first record that says "running", only a started job completes, and no   *)
(* save or restart moves a record backwards.                                *)
ImplementsLedger == Ledger!Spec

=============================================================================
