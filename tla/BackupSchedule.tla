--------------------------- MODULE BackupSchedule ---------------------------
(***************************************************************************)
(* Backups of pools and VMs: policies, the schedule, runs, retention and   *)
(* replicated archives.  Policies and job records are one JSON document.   *)
(* Each operation loads it, works for up to minutes and saves the whole    *)
(* copy, with no lock over the two, in the scheduler's thread, the job     *)
(* workers and the request threads at once.                                *)
(*                                                                         *)
(* Code: backup_service.py, the backup routes of backups_http_surface.py,  *)
(* the targets of core/backup_targets, and the scheduler thread and the    *)
(* backup.run handler of service_registry.py.  A pool or a VM is a scope;  *)
(* an NFS share behaves like a local directory.                            *)
(***************************************************************************)
EXTENDS Naturals, FiniteSets

CONSTANTS Scopes,        \* pools and VMs
          Requests,      \* request threads and job workers
          Scheduler,     \* the thread backup-scheduler
          NoScope,       \* a thread at rest works for no scope
          NoTime,        \* last_backup of a scope never backed up
          Retentions,    \* values that operators give retention_days
          DefaultDays,   \* retention_days of a scope without a policy
          Schedules,     \* schedules that operators choose from
          HoursPerDay,   \* length of a day on the model's clock
          MaxHour,       \* bound: the clock
          MaxEvents      \* bound: requests, failures and restarts

ASSUME BackupAssumption ==
    /\ Scheduler \notin Requests /\ NoScope \notin Scopes
    /\ NoTime \notin Nat
    /\ Retentions \subseteq Nat \ {0} /\ DefaultDays \in Nat \ {0}
    /\ Schedules \subseteq {"hourly", "daily", "weekly"}
    /\ HoursPerDay \in Nat \ {0}
    /\ MaxHour \in Nat /\ MaxEvents \in Nat

VARIABLES doc,        \* backup-state.json: policies and job records
          archives,   \* archive files and objects that exist
          thr,        \* what each thread is doing, with its copy of doc
          due,        \* scopes that the scheduler's round has yet to back up
          hour,       \* the clock
          made,       \* <<scope, hour>> of every archive a run has finished
          wanted,     \* <<scope, days>> of every retention ever in force
          jobs, events

files   == <<doc, archives>>
history == <<made, wanted>>
bounds  == <<jobs, events>>
vars    == <<files, thr, due, hour, history, bounds>>

Threads == Requests \cup {Scheduler}
Day(h)  == h \div HoursPerDay

Policy == [enabled  : BOOLEAN,
           schedule : {"hourly", "daily", "weekly"},
           days     : Retentions \cup {DefaultDays},
           target   : {"local", "s3"},
           last     : Nat \cup {NoTime}]

Default == [enabled |-> FALSE, schedule |-> "daily", days |-> DefaultDays,
            target |-> "local", last |-> NoTime]

\* What a job record says of its archive: no two archives have one name.
Ref == [id : Nat, scope : Scopes, created : Nat, store : {"local", "s3"}]

Job == [ref : Ref, status : {"running", "success", "error"}]

Document == [pol : [Scopes -> Policy], jobs : SUBSET Job]

Blank == [pol |-> [s \in Scopes |-> Default], jobs |-> {}]

\* What a thread is doing; now is the clock reading that a prune decides with.
Task == [pc     : {"idle", "record", "archive", "save", "prune"},
         copy   : Document,
         job    : Nat,
         scope  : Scopes \cup {NoScope},
         left   : SUBSET Job,
         pruned : BOOLEAN,
         now    : Nat]

Rest == [pc |-> "idle", copy |-> Blank, job |-> 0, scope |-> NoScope,
         left |-> {}, pruned |-> FALSE, now |-> 0]

Init == /\ doc = Blank
        /\ archives = {}
        /\ thr = [t \in Threads |-> Rest]
        /\ due = {}
        /\ hour = 0
        /\ made = {}
        /\ wanted = Scopes \X {DefaultDays}
        /\ jobs = 0 /\ events = 0

\* Something that happens a bounded number of times.
Event == events < MaxEvents /\ events' = events + 1

-----------------------------------------------------------------------------
(* Loading and saving the document.                                        *)

\* Thread t goes to pc with copy c.
Goes(t, pc, c) == thr' = [thr EXCEPT ![t].pc = pc, ![t].copy = c]

Rests(t) == thr' = [thr EXCEPT ![t] = Rest]

\* The document becomes copy c, and the retentions in it are in force.
Store(c) == /\ doc' = c
            /\ wanted' = wanted \cup {<<s, c.pol[s].days>> : s \in Scopes}

\* The last save of an operation.
SaveDoc(t) ==
    /\ thr[t].pc = "save"
    /\ Store(thr[t].copy)
    /\ Rests(t)
    /\ UNCHANGED <<archives, due, hour, made, bounds>>

\* A save raises: the operation ends there, and with it the whole round of
\* the scheduler.
SaveRaises(t) ==
    /\ thr[t].pc \in {"record", "save"}
    /\ Event
    /\ Rests(t)
    /\ due' = IF t = Scheduler THEN {} ELSE due
    /\ UNCHANGED <<files, hour, history, jobs>>

-----------------------------------------------------------------------------
(* Runs.                                                                   *)

\* _schedule_due: a weekly policy is due on every later day.
Due(p, now) ==
    \/ p.last = NoTime
    \/ p.schedule = "hourly" /\ now # p.last
    \/ p.schedule = "weekly" /\ Day(now) > Day(p.last)
    \/ p.schedule = "daily" /\ Day(now) # Day(p.last)

\* Mutant: a scope with a run that seems to be under way is left out.
DuesNotRunning ==
    {s \in Scopes : /\ doc.pol[s].enabled /\ Due(doc.pol[s], hour)
                    /\ \A j \in doc.jobs :
                          j.ref.scope = s => j.status # "running"}

Dues == {s \in Scopes : doc.pol[s].enabled /\ Due(doc.pol[s], hour)}

ScheduleRound ==
    /\ thr[Scheduler].pc = "idle" /\ due = {}
    /\ due' = Dues
    /\ UNCHANGED <<files, thr, hour, history, bounds>>

Running(id, s, target) ==
    [ref |-> [id |-> id, scope |-> s, created |-> hour, store |-> target],
     status |-> "running"]

\* The copy that t works on, with the record of its own job replaced by j.
WithJob(t, j) ==
    [thr[t].copy EXCEPT !.jobs =
        {k \in @ : k.ref.id # thr[t].job} \cup {j}]

\* The record of t's own job.
OwnJob(t) == CHOOSE j \in thr[t].copy.jobs : j.ref.id = thr[t].job

\* run_backup_now loads the document, adds the job to the copy ...
BeginRun(t, s) ==
    /\ thr[t].pc = "idle"
    /\ IF t = Scheduler THEN /\ s \in due
                             /\ due' = due \ {s}
                             /\ UNCHANGED events
                        ELSE Event /\ UNCHANGED due
    /\ jobs' = jobs + 1
    /\ thr' = [thr EXCEPT ![t] =
          [Rest EXCEPT !.pc = "record", !.job = jobs + 1, !.scope = s,
             !.copy = [doc EXCEPT !.jobs =
                         @ \cup {Running(jobs + 1, s, doc.pol[s].target)}]]]
    /\ UNCHANGED <<files, hour, history>>

\* ... and saves it.
RecordRun(t) ==
    /\ thr[t].pc = "record"
    /\ Store(thr[t].copy)
    /\ Goes(t, "archive", thr[t].copy)
    /\ UNCHANGED <<archives, due, hour, made, bounds>>

\* Mutant: a status that the rest of the code does not know.
SucceededAsCompleted(t) ==
    [WithJob(t, [OwnJob(t) EXCEPT !.status = "completed"])
       EXCEPT !.pol[thr[t].scope].last = hour]

\* The copy of t after a run that succeeded now.
Succeeded(t) ==
    [WithJob(t, [OwnJob(t) EXCEPT !.status = "success"])
       EXCEPT !.pol[thr[t].scope].last = hour]

\* Mutant: last_backup is set whatever comes of the run.
FailedButMarked(t) ==
    [WithJob(t, [OwnJob(t) EXCEPT !.status = "error"])
       EXCEPT !.pol[thr[t].scope].last = hour]

Failed(t) == WithJob(t, [OwnJob(t) EXCEPT !.status = "error"])

MakeArchive(t) ==
    /\ thr[t].pc = "archive"
    /\ archives' = archives \cup {OwnJob(t).ref}
    /\ made' = made \cup {<<thr[t].scope, hour>>}
    /\ Goes(t, "save", Succeeded(t))
    /\ UNCHANGED <<doc, due, hour, wanted, bounds>>

\* The archive cannot be written, read again for its checksum or uploaded.
\* (A file left behind has no record, and nothing here looks at it.)
ArchiveFails(t) ==
    /\ thr[t].pc = "archive"
    /\ Event
    /\ Goes(t, "save", Failed(t))
    /\ UNCHANGED <<files, due, hour, history, jobs>>

-----------------------------------------------------------------------------
(* Policies, retention and replicated archives.                            *)

UpdatePolicy(t, s) ==
    /\ thr[t].pc = "idle"
    /\ Event
    /\ \E on \in BOOLEAN, sch \in Schedules, d \in Retentions,
          target \in {"local", "s3"} :
          thr' = [thr EXCEPT ![t] = [Rest EXCEPT !.pc = "save",
             !.copy = [doc EXCEPT !.pol[s] =
                [enabled |-> on, schedule |-> sch, days |-> d,
                 target |-> target, last |-> @.last]]]]
    /\ UNCHANGED <<files, due, hour, history, jobs>>

\* prune_old_snapshots, of all scopes, a kind of them or one, loads the
\* document and reads the clock, ...
BeginPrune(t) ==
    /\ thr[t].pc = "idle"
    /\ Event
    /\ \E of \in SUBSET Scopes :
          thr' = [thr EXCEPT ![t] = [Rest EXCEPT !.pc = "prune", !.copy = doc,
             !.now = hour,
             !.left = {j \in doc.jobs : j.status = "success"
                                        /\ j.ref.scope \in of}]]
    /\ UNCHANGED <<files, due, hour, history, jobs>>

\* Mutant: the age is counted from one day further on.
TooOldByOne(ref, days, now) == Day(now) + 1 >= Day(ref.created) + days

TooOld(ref, days, now) == Day(now) >= Day(ref.created) + days

\* ... and then, job by job, reads the policy again.  Only an object in S3
\* can be deleted: the name of a file is a path, which no target accepts.
PruneJob(t) ==
    /\ thr[t].pc = "prune"
    /\ \E j \in thr[t].left :
          LET p   == doc.pol[j.ref.scope]
              old == TooOld(j.ref, p.days, thr[t].now)
          IN  /\ thr' = [thr EXCEPT ![t].left = @ \ {j},
                                    ![t].copy.jobs = IF old THEN @ \ {j} ELSE @,
                                    ![t].pruned = @ \/ old]
              /\ archives' = IF old /\ p.target = "s3" /\ j.ref.store = "s3"
                             THEN archives \ {j.ref}
                             ELSE archives
    /\ UNCHANGED <<doc, due, hour, history, bounds>>

EndPrune(t) ==
    /\ thr[t].pc = "prune" /\ thr[t].left = {}
    /\ IF thr[t].pruned THEN Goes(t, "save", thr[t].copy) ELSE Rests(t)
    /\ UNCHANGED <<files, due, hour, history, bounds>>

Replicated(id, s) ==
    [ref |-> [id |-> id, scope |-> s, created |-> hour, store |-> "local"],
     status |-> "success"]

\* ingest_replicated_backup writes the archive and adds a job to the document.
IngestFile(t, s) ==
    /\ thr[t].pc = "idle"
    /\ Event
    /\ jobs' = jobs + 1
    /\ archives' = archives \cup {Replicated(jobs + 1, s).ref}
    /\ thr' = [thr EXCEPT ![t] = [Rest EXCEPT !.pc = "save",
          !.copy = [doc EXCEPT !.jobs = @ \cup {Replicated(jobs + 1, s)}]]]
    /\ UNCHANGED <<doc, due, hour, history>>

-----------------------------------------------------------------------------
\* The control plane dies and starts again.
Restart ==
    /\ Event
    /\ thr' = [t \in Threads |-> Rest]
    /\ due' = {}
    /\ UNCHANGED <<files, hour, history, jobs>>

Tick == /\ hour < MaxHour
        /\ hour' = hour + 1
        /\ UNCHANGED <<files, thr, due, history, bounds>>

Work(t) == \/ RecordRun(t) \/ MakeArchive(t)
           \/ PruneJob(t) \/ EndPrune(t) \/ SaveDoc(t)

Ask(t) == \E s \in Scopes : BeginRun(t, s) \/ UpdatePolicy(t, s) \/ IngestFile(t, s)

Next == \/ ScheduleRound
        \/ \E s \in Scopes : BeginRun(Scheduler, s)
        \/ \E t \in Requests : Ask(t) \/ BeginPrune(t)
        \/ \E t \in Threads : Work(t) \/ ArchiveFails(t) \/ SaveRaises(t)
        \/ Restart
        \/ Tick

Spec == Init /\ [][Next]_vars

\* The scheduler's loop runs, and threads finish what they have begun.
Fairness == /\ WF_vars(ScheduleRound)
            /\ WF_vars(\E s \in Scopes : BeginRun(Scheduler, s))
            /\ \A t \in Threads : WF_vars(Work(t))

FairSpec == Spec /\ Fairness

-----------------------------------------------------------------------------
TypeOK ==
    /\ doc \in Document
    /\ archives \subseteq Ref
    /\ thr \in [Threads -> Task]
    /\ due \subseteq Scopes
    /\ hour \in Nat
    /\ made \subseteq Scopes \X Nat
    /\ wanted \subseteq Scopes \X (Retentions \cup {DefaultDays})
    /\ jobs \in Nat /\ events \in Nat

\* A job on record as successful can be restored: its archive exists as long
\* as it is younger than every retention its scope has ever had, whatever
\* stale copies are saved over one another and wherever a run or a prune
\* breaks off (run_backup_now, prune_old_snapshots).
SuccessHasArchive ==
    \A j \in doc.jobs :
        j.status = "success" =>
            \/ j.ref \in archives
            \/ \E w \in wanted : /\ w[1] = j.ref.scope
                                 /\ Day(j.ref.created) + w[2] <= Day(hour)

\* The schedule passes over a scope only if a run has finished an archive of
\* it in the present hour or day: failed, lost and half-recorded runs never
\* count (run_scheduled_backups, _schedule_due).
NotDueMeansMade ==
    \A s \in Scopes :
        ~Due(doc.pol[s], hour) =>
            \E h \in {m[2] : m \in {w \in made : w[1] = s}} :
                IF doc.pol[s].schedule = "hourly" THEN h = hour
                                                  ELSE Day(h) = Day(hour)

\* A scope whose backups stay enabled is backed up in every period, although
\* runs fail, copies are lost and records of dead runs stay "running" for
\* ever (scheduler thread).
EnabledIsBackedUp ==
    \A s \in Scopes :
        <>[](doc.pol[s].enabled) => <>[]~Due(doc.pol[s], hour)

=============================================================================
