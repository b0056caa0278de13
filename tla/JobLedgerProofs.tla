---------------------------- MODULE JobLedgerProofs ----------------------------
(* The job queue implements the ledger of JobLedger: a refinement, checked  *)
(* by TLAPS for every number of jobs, workers, keys, crashes and failing    *)
(* saves.                                                                   *)
EXTENDS JobQueueProofs

(* What the mapping needs beyond IInv: memory is at most one permitted move *)
(* ahead of the file, a completed job was handled, and so is one that a     *)
(* worker has in its handler.                                               *)
AheadOfFile == \A j \in JobIds : jobs[j].status \in Ledger!After(disk[j].status, runs[j])
CompletedRan ==
  \A j \in JobIds : "completed" \in {jobs[j].status, disk[j].status} => runs[j] = 1
HandledRan ==
  \A w \in Workers :
    worker[w].pc = "handler" => worker[w].job \in JobIds /\ runs[worker[w].job] = 1
LedgerInv == AheadOfFile /\ CompletedRan /\ HandledRan

(* A step after which memory is a permitted move ahead of the old file.     *)
Ahead == \A j \in JobIds : jobs'[j].status \in Ledger!After(disk[j].status, runs[j])

(***************************************************************************)
(* Saving or not saving such a memory is a step of the ledger.             *)
(***************************************************************************)
LEMMA AheadSettles ==
  ASSUME TypeOK, TypeOK', Ahead, runs' = runs, disk' = disk \/ disk' = jobs'
  PROVE  Ledger!Settle /\ AheadOfFile'
<1>1. \A j \in JobIds : disk'[j].status \in Ledger!After(disk[j].status, runs[j])
  BY DEF Ahead, Ledger!After
<1>2. \A j \in JobIds : disk'[j].status \in Ledger!Records
  BY DEF TypeOK, JobState, Statuses, Terminal, Ledger!Records
<1>3. Ledger!Save
  BY <1>1, <1>2 DEF Ledger!Save
<1>4. AheadOfFile'
  <2>1. CASE disk' = disk BY <2>1 DEF Ahead, AheadOfFile
  <2>2. CASE disk' = jobs' BY <2>2 DEF AheadOfFile, Ledger!After
  <2> QED BY <2>1, <2>2
<1> QED BY <1>3, <1>4 DEF Ledger!Settle

(***************************************************************************)
(* No action but Claim puts a worker into a handler.                       *)
(***************************************************************************)
LEMMA QuietHandlers ==
  ASSUME TypeOK, QuietAction, NEW w \in Workers, worker'[w].pc = "handler"
  PROVE  worker'[w] = worker[w]
<1> USE DEF TypeOK, WorkerState, IdleWorker
<1>1. CASE \E v \in Workers, ok \in BOOLEAN : UpdateProgress(v, ok)
  BY <1>1 DEF UpdateProgress
<1>2. CASE \E v \in Workers : HandlerRaises(v)
  BY <1>2 DEF HandlerRaises
<1>3. CASE \E v \in Workers, ok \in BOOLEAN : Complete(v, ok)
  BY <1>3 DEF Complete
<1>4. CASE \E v \in Workers, ok \in BOOLEAN : Fail(v, ok)
  BY <1>4 DEF Fail
<1>5. CASE UNCHANGED worker
  BY <1>5
<1> QED
  BY <1>1, <1>2, <1>3, <1>4, <1>5
     DEF QuietAction, EnqueueReadClock, EnqueueReturnsExisting, HeartbeatLoopEnds,
         Heartbeat, CancelPending, CancelRunning, MaintenanceReadClock,
         ReapStuckJobs, PurgeOldJobs, vars, threadVars

(***************************************************************************)
(* Only Complete completes a job, and it does so for a handled one.        *)
(***************************************************************************)
LEMMA QuietCompletes ==
  ASSUME TypeOK, HandledRan, QuietAction, NEW j \in JobIds,
         jobs'[j].status = "completed"
  PROVE  jobs[j].status = "completed" \/ (jobs[j].status = "running" /\ runs[j] = 1)
<1>0. jobs \in [JobIds -> JobState] BY DEF TypeOK
<1>1. CASE \E v \in Workers, ok \in BOOLEAN : Complete(v, ok)
  BY <1>0, <1>1 DEF Complete, HandledRan, JobState
<1>2. CASE \E v \in Workers, ok \in BOOLEAN : UpdateProgress(v, ok)
  BY <1>0, <1>2 DEF UpdateProgress, JobState
<1>3. CASE \E v \in Workers, ok \in BOOLEAN : Fail(v, ok)
  <2>1. PICK v \in Workers, ok \in BOOLEAN : Fail(v, ok) BY <1>3
  <2>2. \/ jobs' = jobs
        \/ jobs' = [jobs EXCEPT ![worker[v].job] =
                       [@ EXCEPT !.status = "failed", !.finished = now]]
    BY <2>1 DEF Fail
  <2> QED BY <1>0, <2>2 DEF JobState
<1>4. CASE \E i \in JobIds, ok \in BOOLEAN : Heartbeat(i, ok)
  BY <1>0, <1>4 DEF Heartbeat, JobState
<1>5. CASE \E i \in JobIds, ok \in BOOLEAN : CancelPending(i, ok)
  BY <1>0, <1>5 DEF CancelPending, JobState
<1>6. CASE \E i \in JobIds, ok \in BOOLEAN : CancelRunning(i, ok)
  BY <1>0, <1>6 DEF CancelRunning, JobState
<1>7. CASE \E ok \in BOOLEAN : ReapStuckJobs(ok)
  BY <1>0, <1>7 DEF ReapStuckJobs, JobState
<1>8. CASE \E ok \in BOOLEAN : PurgeOldJobs(ok)
  BY <1>0, <1>8 DEF PurgeOldJobs, Absent
<1>9. CASE UNCHANGED jobs
  BY <1>9
<1> QED
  BY <1>1, <1>2, <1>3, <1>4, <1>5, <1>6, <1>7, <1>8, <1>9
     DEF QuietAction, EnqueueReadClock, EnqueueReturnsExisting, HeartbeatLoopEnds,
         HandlerRaises, MaintenanceReadClock, vars, queueVars

(***************************************************************************)
(* The actions that start no handler are steps of the ledger.              *)
(***************************************************************************)
LEMMA QuietSettles ==
  ASSUME IInv, LedgerInv, QuietAction, TypeOK'
  PROVE  Ledger!Settle /\ LedgerInv'
<1>1. Quiet BY QuietActionIsQuiet
<1>2. TypeOK BY DEF IInv
<1>3. \A j \in JobIds : jobs'[j].status = "completed" =>
        jobs[j].status = "completed" \/ (jobs[j].status = "running" /\ runs[j] = 1)
  BY <1>2, QuietCompletes DEF LedgerInv
<1>4. Ahead
  <2> SUFFICES ASSUME NEW j \in JobIds
               PROVE  jobs'[j].status \in Ledger!After(disk[j].status, runs[j])
    BY DEF Ahead
  <2>1. QuietJob(j) BY <1>1 DEF Quiet
  <2>2. jobs[j].status \in Ledger!After(disk[j].status, runs[j])
    BY DEF LedgerInv, AheadOfFile
  <2>3. /\ jobs[j].status \in Statuses \cup {"absent"}
        /\ disk[j].status \in Statuses \cup {"absent"}
        /\ jobs'[j].status \in Statuses \cup {"absent"}
        /\ runs[j] \in Nat
    BY <1>2 DEF TypeOK, JobState
  <2>4. jobs'[j].status = "completed" =>
          jobs[j].status = "completed" \/ (jobs[j].status = "running" /\ runs[j] = 1)
    BY <1>3
  <2>5. disk[j].status \in Terminal => jobs[j].status \in {disk[j].status, "absent"}
    BY DEF IInv, OutcomeInv
  <2>6. disk[j].status = "running" => jobs[j].status \notin {"pending", "cancelled"}
    BY <2>2 DEF Ledger!After
  <2>7. CASE jobs'[j].status = "absent" BY <2>7 DEF Ledger!After
  <2>8. CASE jobs'[j].status = jobs[j].status BY <2>2, <2>8
  <2>9. CASE jobs[j].status \in {"pending", "running"} /\ jobs'[j].status \in Terminal
    <3>1. disk[j].status \in {"absent", "pending", "running"}
      BY <2>3, <2>5, <2>9 DEF Statuses, Terminal
    <3>2. disk[j].status = "absent" => runs[j] = 0
      BY <2>2, <2>3, <2>9, <3>1 DEF Ledger!After, Statuses, Terminal
    <3>3. jobs'[j].status \in {"failed", "cancelled", "completed"} BY <2>9 DEF Terminal
    <3>4. CASE jobs'[j].status = "failed" BY <3>1, <3>2, <3>4 DEF Ledger!After
    <3>5. CASE jobs'[j].status = "cancelled"
      <4>1. jobs[j].status = "pending" BY <2>1, <2>9, <3>5 DEF QuietJob
      <4> QED BY <2>6, <3>1, <3>2, <3>5, <4>1 DEF Ledger!After
    <3>6. CASE jobs'[j].status = "completed"
      <4>1. jobs[j].status = "running" /\ runs[j] = 1 BY <2>4, <2>9, <3>6
      <4>2. disk[j].status = "running"
        BY <2>2, <3>1, <3>2, <4>1 DEF Ledger!After, IInv, RunsInv
      <4> QED BY <3>6, <4>1, <4>2 DEF Ledger!After
    <3> QED BY <3>3, <3>4, <3>5, <3>6
  <2> QED BY <2>1, <2>3, <2>7, <2>8, <2>9 DEF QuietJob, Statuses, Terminal
<1>5. runs' = runs /\ (disk' = disk \/ disk' = jobs') BY <1>1 DEF Quiet
<1>6. Ledger!Settle /\ AheadOfFile' BY <1>2, <1>4, <1>5, AheadSettles
<1>7. CompletedRan'
  BY <1>3, <1>5 DEF LedgerInv, CompletedRan
<1>8. HandledRan'
  BY <1>2, <1>5, QuietHandlers DEF LedgerInv, HandledRan
<1> QED BY <1>6, <1>7, <1>8 DEF LedgerInv

(***************************************************************************)
(* A new job has no record: putting one into the file is a step.           *)
(***************************************************************************)
LEMMA EnqueueSettles ==
  ASSUME IInv, LedgerInv, TypeOK', NEW c \in Callers, NEW ok \in BOOLEAN,
         EnqueueCreates(c, ok)
  PROVE  Ledger!Settle /\ LedgerInv'
<1>1. TypeOK BY DEF IInv
<1>2. nextId \in JobIds /\ jobs[nextId].status = "absent"
        /\ disk[nextId].status = "absent" /\ runs[nextId] = 0
  <2>1. nextId \in JobIds /\ nextId \in Nat BY <1>1 DEF EnqueueCreates, TypeOK
  <2>2. ~Known(nextId) BY <2>1 DEF IInv, FreshIds
  <2>3. runs[nextId] \in Nat BY <1>1, <2>1 DEF TypeOK
  <2> QED BY <2>1, <2>2, <2>3 DEF Known
<1>3. jobs' = [jobs EXCEPT ![nextId] = [Absent EXCEPT !.status = "pending"]]
        /\ runs' = runs /\ worker' = worker /\ (disk' = disk \/ disk' = jobs')
  BY DEF EnqueueCreates, Persist
<1>4. \A j \in JobIds : jobs'[j].status = IF j = nextId THEN "pending" ELSE jobs[j].status
  BY <1>1, <1>3 DEF TypeOK, Absent
<1>5. Ahead
  BY <1>2, <1>4 DEF LedgerInv, AheadOfFile, Ahead, Ledger!After
<1>6. Ledger!Settle /\ AheadOfFile' BY <1>1, <1>3, <1>5, AheadSettles
<1>7. CompletedRan'
  <2> SUFFICES ASSUME NEW i \in JobIds,
                      "completed" \in {jobs'[i].status, disk'[i].status}
               PROVE  runs'[i] = 1
    BY DEF CompletedRan
  <2>1. jobs'[i].status = "completed" => jobs[i].status = "completed" BY <1>4
  <2>2. disk'[i] = disk[i] \/ disk'[i] = jobs'[i] BY <1>3
  <2>3. "completed" \in {jobs[i].status, disk[i].status} BY <2>1, <2>2
  <2> QED BY <1>3, <2>3 DEF LedgerInv, CompletedRan
<1>8. HandledRan' BY <1>3 DEF LedgerInv, HandledRan
<1> QED BY <1>6, <1>7, <1>8 DEF LedgerInv

(***************************************************************************)
(* A claim starts the handler, or, without a handler or with a failing     *)
(* save, is a step that starts none.                                       *)
(***************************************************************************)
LEMMA ClaimIsStep ==
  ASSUME IInv, LedgerInv, TypeOK', NEW w \in Workers, NEW ok \in BOOLEAN,
         NEW h \in BOOLEAN, Claim(w, ok, h)
  PROVE  Ledger!Next /\ LedgerInv'
<1>1. TypeOK BY DEF IInv
<1>2. PICK p \in 1..Len(queue) : Claim(w, ok, h)!(p) BY DEF Claim
<1>3. PICK j \in JobIds : j = queue[p] /\ jobs[j].status = "pending"
  <2>1. queue[p] \in JobIds BY <1>1, <1>2 DEF TypeOK
  <2>2. jobs[queue[p]].status = "pending" BY <1>2 DEF ClaimableAt
  <2> QED BY <2>1, <2>2
<1>4. runs[j] = 0
  <2>1. runs[j] > 0 => jobs[j].status # "pending" BY <1>3 DEF IInv, RunsInv
  <2>2. runs[j] \in Nat BY <1>1, <1>3 DEF TypeOK
  <2> QED BY <1>3, <2>1, <2>2
<1>5. disk[j].status \in {"absent", "pending"}
  BY <1>1, <1>3, <1>4
     DEF LedgerInv, AheadOfFile, Ledger!After, TypeOK, JobState, Statuses, Terminal
<1>6. \A i \in JobIds : jobs'[i].status = IF i = j THEN "running" ELSE jobs[i].status
  BY <1>1, <1>2, <1>3 DEF TypeOK, JobState
<1>7. disk' = disk \/ disk' = jobs' BY <1>2 DEF Persist
<1>8. Ahead
  BY <1>4, <1>5, <1>6 DEF LedgerInv, AheadOfFile, Ahead, Ledger!After
<1>9. CASE ok /\ h
  <2>1. /\ disk' = jobs'
        /\ runs' = [runs EXCEPT ![j] = @ + 1]
        /\ worker' = [worker EXCEPT ![w] = [pc |-> "handler", job |-> j]]
    BY <1>2, <1>3, <1>9 DEF Persist
  <2>2. runs' = [runs EXCEPT ![j] = 1] BY <1>1, <1>3, <1>4, <2>1 DEF TypeOK
  <2>3. \A i \in JobIds : disk'[i].status \in Ledger!After(disk[i].status, runs[i])
    BY <1>8, <2>1 DEF Ahead
  <2>4. \A i \in JobIds : disk'[i].status \in Ledger!Records
    BY DEF TypeOK, JobState, Statuses, Terminal, Ledger!Records
  <2>5. Ledger!Save BY <2>3, <2>4 DEF Ledger!Save
  <2>6. Ledger!Start(j)
    BY <1>3, <1>4, <1>5, <1>6, <2>1, <2>2, <2>5 DEF Ledger!Start
  <2>7. AheadOfFile' BY <2>1 DEF AheadOfFile, Ledger!After
  <2>8. CompletedRan'
    <3> SUFFICES ASSUME NEW i \in JobIds,
                        "completed" \in {jobs'[i].status, disk'[i].status}
                 PROVE  runs'[i] = 1
      BY DEF CompletedRan
    <3>1. jobs'[i].status = "completed" BY <2>1
    <3>2. i # j /\ jobs[i].status = "completed" BY <1>6, <3>1
    <3>3. runs[i] = 1 BY <3>2 DEF LedgerInv, CompletedRan
    <3> QED BY <1>1, <2>2, <3>2, <3>3 DEF TypeOK
  <2>9. HandledRan'
    <3> SUFFICES ASSUME NEW v \in Workers, worker'[v].pc = "handler"
                 PROVE  worker'[v].job \in JobIds /\ runs'[worker'[v].job] = 1
      BY DEF HandledRan
    <3>1. CASE v = w BY <1>1, <1>3, <2>1, <2>2, <3>1 DEF TypeOK
    <3>2. CASE v # w
      <4>1. worker'[v] = worker[v] BY <1>1, <2>1, <3>2 DEF TypeOK
      <4>2. worker[v].job \in JobIds /\ runs[worker[v].job] = 1
        BY <4>1 DEF LedgerInv, HandledRan
      <4> QED BY <1>1, <2>2, <4>1, <4>2 DEF TypeOK
    <3> QED BY <3>1, <3>2
  <2>10. \E i \in JobIds : Ledger!Start(i) BY <1>3, <2>6
  <2> QED BY <2>7, <2>8, <2>9, <2>10 DEF Ledger!Next, LedgerInv
<1>10. CASE ~(ok /\ h)
  <2>1. runs' = runs BY <1>2, <1>10
  <2>2. Ledger!Settle /\ AheadOfFile' BY <1>1, <1>7, <1>8, <2>1, AheadSettles
  <2>3. CompletedRan' BY <1>6, <1>7, <2>1 DEF LedgerInv, CompletedRan
  <2>4. worker' = [worker EXCEPT ![w] = [pc |-> "fail", job |-> j]]
          \/ worker' = [worker EXCEPT ![w] = [pc |-> "dead", job |-> 0]]
    BY <1>2, <1>3, <1>10
  <2>5. \A v \in Workers : worker'[v].pc = "handler" => worker'[v] = worker[v]
    <3> SUFFICES ASSUME NEW v \in Workers, worker'[v].pc = "handler"
                 PROVE  worker'[v] = worker[v]
      OBVIOUS
    <3>1. worker \in [Workers -> WorkerState] BY <1>1 DEF TypeOK
    <3>2. v # w
      <4>1. worker'[w] \in {[pc |-> "fail", job |-> j], [pc |-> "dead", job |-> 0]}
        BY <2>4, <3>1
      <4>2. worker'[w].pc \in {"fail", "dead"} BY <4>1
      <4> QED BY <4>2
    <3> QED BY <2>4, <3>1, <3>2
  <2>6. HandledRan' BY <2>1, <2>5 DEF LedgerInv, HandledRan
  <2> QED BY <2>2, <2>3, <2>6 DEF Ledger!Next, LedgerInv
<1> QED BY <1>9, <1>10

(***************************************************************************)
(* A restart changes neither the file nor the history of handlers.         *)
(***************************************************************************)
LEMMA RestartSettles ==
  ASSUME IInv, LedgerInv, TypeOK', Restart
  PROVE  Ledger!Settle /\ LedgerInv'
<1>1. TypeOK BY DEF IInv
<1>2. /\ jobs' = [j \in JobIds |-> Recovered(j)]
      /\ worker' = [w \in Workers |-> IdleWorker]
      /\ disk' = disk /\ runs' = runs
  BY DEF Restart
<1>3. \A j \in JobIds : jobs'[j].status =
        IF disk[j].status = "running" THEN "failed" ELSE disk[j].status
  <2> SUFFICES ASSUME NEW j \in JobIds
               PROVE  jobs'[j].status =
                        IF disk[j].status = "running" THEN "failed" ELSE disk[j].status
    OBVIOUS
  <2>1. disk[j] \in JobState BY <1>1 DEF TypeOK
  <2>2. [disk[j] EXCEPT !.status = "failed", !.finished = now].status = "failed"
    BY <2>1 DEF JobState
  <2> QED BY <1>2, <2>2 DEF Recovered
<1>4. Ahead BY <1>3 DEF Ahead, Ledger!After
<1>5. Ledger!Settle /\ AheadOfFile' BY <1>1, <1>2, <1>4, AheadSettles
<1>6. CompletedRan' BY <1>2, <1>3 DEF LedgerInv, CompletedRan
<1>7. HandledRan' BY <1>2 DEF HandledRan, IdleWorker
<1> QED BY <1>5, <1>6, <1>7 DEF LedgerInv

LEMMA LedgerInit == Init => Ledger!Init /\ LedgerInv
BY DEF Init, Absent, IdleWorker, Ledger!Init, LedgerInv, AheadOfFile, CompletedRan,
       HandledRan, Ledger!After

(***************************************************************************)
(* Every step of the queue is a step of the ledger or leaves it unchanged. *)
(***************************************************************************)
LEMMA LedgerStep == IInv /\ LedgerInv /\ [Next]_vars => [Ledger!Next]_(Ledger!ledger) /\ LedgerInv'
<1> SUFFICES ASSUME IInv, LedgerInv, [Next]_vars
             PROVE  [Ledger!Next]_(Ledger!ledger) /\ LedgerInv'
  OBVIOUS
<1>1. TypeOK' BY TypeStep DEF IInv
<1>2. CASE QuietAction BY <1>1, <1>2, QuietSettles DEF Ledger!Next
<1>3. CASE \E c \in Callers, ok \in BOOLEAN : EnqueueCreates(c, ok)
  BY <1>1, <1>3, EnqueueSettles DEF Ledger!Next
<1>4. CASE \E w \in Workers, ok \in BOOLEAN, h \in BOOLEAN : Claim(w, ok, h)
  BY <1>1, <1>4, ClaimIsStep
<1>5. CASE Restart BY <1>1, <1>5, RestartSettles DEF Ledger!Next
<1>6. CASE Tick
  <2>1. UNCHANGED <<jobs, disk, runs, worker>> BY <1>6 DEF Tick, queueVars, threadVars
  <2>2. Ledger!ledger' = Ledger!ledger BY <2>1 DEF Ledger!ledger
  <2>3. LedgerInv' BY <2>1 DEF LedgerInv, AheadOfFile, CompletedRan, HandledRan
  <2> QED BY <2>2, <2>3
<1> QED
  BY <1>2, <1>3, <1>4, <1>5, <1>6
     DEF Next, EnqueueLocked, WorkerStep, Maintenance, QuietAction

(* The job queue, with its threads, restarts and failing saves of           *)
(* jobs-state.json, implements the ledger: what a client sees of it is one  *)
(* start per job, with the save that first says "running", and records that *)
(* only move forward.                                                       *)
THEOREM QueueImplementsLedger == Spec => ImplementsLedger
<1>1. Init => IInv /\ LedgerInv /\ Ledger!Init BY IInvInit, LedgerInit
<1>2. IInv /\ LedgerInv /\ [Next]_vars
        => IInv' /\ LedgerInv' /\ [Ledger!Next]_(Ledger!ledger)
  BY IInvStep, LedgerStep
<1> QED BY <1>1, <1>2, PTL DEF Spec, ImplementsLedger, Ledger!Spec

(***************************************************************************)
(* The ledger alone keeps what clients rely on: whatever behaves like      *)
(* JobLedger handles no job twice, completes none that was not handled and *)
(* shows none as pending or cancelled that was.                            *)
(***************************************************************************)
LedgerPromise ==
  \A j \in JobIds : /\ disk[j].status = "completed" => runs[j] = 1
                    /\ disk[j].status \in {"pending", "cancelled"} => runs[j] = 0

THEOREM LedgerKeepsWork == ImplementsLedger => [](HandledAtMostOnce /\ LedgerPromise)
<1> DEFINE record == [j \in JobIds |-> disk[j].status]
           Kept == /\ runs \in [JobIds -> {0, 1}]
                   /\ \A j \in JobIds : /\ record[j] = "completed" => runs[j] = 1
                                        /\ record[j] \in {"pending", "cancelled"} => runs[j] = 0
<1>1. Ledger!Init => Kept
  BY DEF Ledger!Init
<1>2. Kept /\ [Ledger!Next]_(Ledger!ledger) => Kept'
  <2> SUFFICES ASSUME Kept, [Ledger!Next]_(Ledger!ledger) PROVE Kept'
    OBVIOUS
  <2>1. CASE Ledger!Settle
    <3>1. runs' = runs /\ \A j \in JobIds : record'[j] \in Ledger!After(record[j], runs[j])
      BY <2>1 DEF Ledger!Settle, Ledger!Save
    <3> HIDE DEF record
    <3> QED BY <3>1 DEF Ledger!After
  <2>2. CASE \E i \in JobIds : Ledger!Start(i)
    <3>1. PICK i \in JobIds : Ledger!Start(i)
      BY <2>2
    <3>2. /\ record'[i] = "running" /\ runs' = [runs EXCEPT ![i] = 1]
          /\ \A j \in JobIds : record'[j] \in Ledger!After(record[j], runs[j])
      BY <3>1 DEF Ledger!Start, Ledger!Save
    <3> HIDE DEF record
    <3> QED BY <3>2 DEF Ledger!After
  <2>3. CASE UNCHANGED Ledger!ledger
    <3>1. record' = record /\ runs' = runs
      BY <2>3 DEF Ledger!ledger
    <3> HIDE DEF record
    <3> QED BY <3>1
  <2> QED BY <2>1, <2>2, <2>3 DEF Ledger!Next
<1>3. Kept => HandledAtMostOnce /\ LedgerPromise
  BY DEF HandledAtMostOnce, LedgerPromise
<1> QED BY <1>1, <1>2, <1>3, PTL DEF ImplementsLedger, Ledger!Spec

=============================================================================
