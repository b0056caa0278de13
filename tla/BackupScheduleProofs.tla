------------------------ MODULE BackupScheduleProofs ------------------------
(***************************************************************************)
(* Proofs about BackupSchedule, for any number of scopes, threads and      *)
(* hours, and for every mixture of failures, restarts and stale saves:     *)
(*   - TypeCorrect, the type invariant;                                    *)
(*   - SuccessKeepsArchive, a job on record as successful has an archive   *)
(*     until a retention of its scope has run out;                         *)
(*   - MarkIsEarned, the schedule passes over a scope only if there is an  *)
(*     archive of the present period.                                      *)
(*                                                                         *)
(* Any thread may at any time put the copy it holds in the document's      *)
(* place, so the argument is about copies: what the two properties say of  *)
(* the document holds of every copy as well, however old (Restorable,      *)
(* Marked), and no step of another thread takes it away.                   *)
(***************************************************************************)
EXTENDS BackupSchedule, TLAPS

\* Job j can be restored if its record says so.
Restorable(j) ==
    j.status = "success" =>
        \/ j.ref \in archives
        \/ \E w \in wanted : /\ w[1] = j.ref.scope
                             /\ Day(j.ref.created) + w[2] <= Day(hour)

\* An archive of scope s was finished at hour h.
Marked(s, h) == h = NoTime \/ <<s, h>> \in made

JobsRestorable ==
    /\ \A j \in doc.jobs : Restorable(j)
    /\ \A t \in Threads : \A j \in thr[t].copy.jobs : Restorable(j)

MarksEarned ==
    /\ \A s \in Scopes : Marked(s, doc.pol[s].last)
    /\ \A t \in Threads : \A s \in Scopes : Marked(s, thr[t].copy.pol[s].last)

\* A thread that runs a backup has the record of its job in its copy.
OwnJobs ==
    \A t \in Threads :
        thr[t].pc \in {"record", "archive"} =>
            /\ thr[t].scope \in Scopes
            /\ \E j \in thr[t].copy.jobs : j.ref.id = thr[t].job

\* Nothing is dated in the future, and the policies in force are known.
Dated ==
    /\ \A m \in made : m[2] <= hour
    /\ \A t \in Threads : thr[t].now <= hour
    /\ \A s \in Scopes : <<s, doc.pol[s].days>> \in wanted

(***************************************************************************)
(* Days are numbered in the order of the hours.                            *)
(***************************************************************************)
LEMMA DayOrder ==
    ASSUME NEW a \in Nat, NEW b \in Nat, a <= b
    PROVE  Day(a) \in Nat /\ Day(b) \in Nat /\ Day(a) <= Day(b)
  <1>1. HoursPerDay \in Nat \ {0}
    BY BackupAssumption
  <1> QED BY <1>1 DEF Day

(***************************************************************************)
(* A scope that was never backed up and has no policy.                     *)
(***************************************************************************)
LEMMA BlankType == Blank \in Document /\ Rest \in Task
  <1>1. Default \in Policy
    BY BackupAssumption DEF Default, Policy
  <1>2. Blank \in Document
    BY <1>1 DEF Blank, Document
  <1> QED BY <1>2 DEF Rest, Task

(***************************************************************************)
(* A document with another set of jobs, or another policy of one scope, is *)
(* a document.                                                             *)
(***************************************************************************)
LEMMA DocumentType ==
    ASSUME NEW d \in Document
    PROVE  /\ \A js \in SUBSET Job : [d EXCEPT !.jobs = js] \in Document
           /\ \A s \in Scopes, p \in Policy : [d EXCEPT !.pol[s] = p] \in Document
  BY DEF Document

(***************************************************************************)
(* The record of a run or of a file that comes in is a job.                *)
(***************************************************************************)
LEMMA NewJobType ==
    ASSUME hour \in Nat, NEW id \in Nat, NEW s \in Scopes,
           NEW target \in {"local", "s3"}
    PROVE  Running(id, s, target) \in Job /\ Replicated(id, s) \in Job
  <1>1. Running(id, s, target).ref \in Ref /\ Replicated(id, s).ref \in Ref
    BY DEF Running, Replicated, Ref
  <1> QED BY <1>1 DEF Running, Replicated, Job

(***************************************************************************)
(* A thread that runs a backup finds the record of its job.                *)
(***************************************************************************)
LEMMA OwnJobFound ==
    ASSUME TypeOK, OwnJobs, NEW t \in Threads,
           thr[t].pc \in {"record", "archive"}
    PROVE  /\ thr[t].scope \in Scopes
           /\ OwnJob(t) \in thr[t].copy.jobs
           /\ OwnJob(t) \in Job /\ OwnJob(t).ref \in Ref
           /\ OwnJob(t).ref.id = thr[t].job
  <1>1. /\ thr[t].scope \in Scopes
        /\ \E j \in thr[t].copy.jobs : j.ref.id = thr[t].job
    BY DEF OwnJobs
  <1>2. OwnJob(t) \in thr[t].copy.jobs /\ OwnJob(t).ref.id = thr[t].job
    BY <1>1 DEF OwnJob
  <1>3. thr[t].copy.jobs \subseteq Job
    BY DEF TypeOK, Task, Document
  <1>4. OwnJob(t) \in Job
    BY <1>2, <1>3
  <1>5. OwnJob(t).ref \in Ref
    BY <1>4 DEF Job
  <1> QED BY <1>1, <1>2, <1>4, <1>5

(***************************************************************************)
(* The copy of a thread whose run is over is a document.                   *)
(***************************************************************************)
LEMMA FinishedType ==
    ASSUME TypeOK, OwnJobs, NEW t \in Threads, thr[t].pc = "archive"
    PROVE  Succeeded(t) \in Document /\ Failed(t) \in Document
  <1> DEFINE own == OwnJob(t)
             copy == thr[t].copy
             s == thr[t].scope
             with(j) == [copy EXCEPT !.jobs =
                           {k \in copy.jobs : k.ref.id # thr[t].job} \cup {j}]
  <1>1. own \in Job /\ s \in Scopes
    BY OwnJobFound
  <1>2. copy \in Document /\ hour \in Nat
    BY DEF TypeOK, Task
  <1>3. [own EXCEPT !.status = "success"] \in Job
        /\ [own EXCEPT !.status = "error"] \in Job
    <2> HIDE DEF own
    <2> QED BY <1>1 DEF Job
  <1>4. \A j \in Job : with(j) \in Document
    <2> HIDE DEF copy
    <2> QED BY <1>2 DEF Document
  <1>5. \A j : WithJob(t, j) = with(j)
    BY DEF WithJob
  <1>6. \A d \in Document : [d EXCEPT !.pol[s].last = hour] \in Document
    <2> HIDE DEF s
    <2> TAKE d \in Document
    <2>1. d.pol \in [Scopes -> Policy] /\ d.jobs \in SUBSET Job
      BY DEF Document
    <2>2. d.pol[s] \in Policy
      BY <1>1, <2>1
    <2>3. [d.pol[s] EXCEPT !.last = hour] \in Policy
      BY <1>2, <2>2 DEF Policy
    <2>4. [d.pol EXCEPT ![s] = [d.pol[s] EXCEPT !.last = hour]]
            \in [Scopes -> Policy]
      BY <2>1, <2>3
    <2>5. [d EXCEPT !.pol[s].last = hour]
            = [d EXCEPT !.pol = [d.pol EXCEPT ![s] =
                                   [d.pol[s] EXCEPT !.last = hour]]]
      BY <1>1, <2>1 DEF Document
    <2> QED BY <2>1, <2>4, <2>5 DEF Document
  <1> HIDE DEF with
  <1> QED BY <1>3, <1>4, <1>5, <1>6 DEF Succeeded, Failed

(***************************************************************************)
(* A thread that takes up a task keeps the type of the thread table, and   *)
(* no other thread notices.                                                *)
(***************************************************************************)
LEMMA TaskSet ==
    ASSUME thr \in [Threads -> Task], NEW t \in Threads, NEW k \in Task
    PROVE  /\ [thr EXCEPT ![t] = k] \in [Threads -> Task]
           /\ [thr EXCEPT ![t] = k][t] = k
           /\ \A u \in Threads \ {t} : [thr EXCEPT ![t] = k][u] = thr[u]
  OBVIOUS

(***************************************************************************)
(* A thread that goes on with another copy.                                *)
(***************************************************************************)
LEMMA GoesType ==
    ASSUME thr \in [Threads -> Task], NEW t \in Threads, NEW c \in Document,
           NEW pc \in {"archive", "save"}, Goes(t, pc, c)
    PROVE  /\ thr' \in [Threads -> Task]
           /\ thr'[t] = [thr[t] EXCEPT !.pc = pc, !.copy = c]
           /\ \A u \in Threads \ {t} : thr'[u] = thr[u]
  <1> DEFINE k == [thr[t] EXCEPT !.pc = pc, !.copy = c]
  <1>1. k \in Task
    BY DEF Task
  <1>2. thr' = [thr EXCEPT ![t] = k]
    BY DEF Goes
  <1> HIDE DEF k
  <1>3. thr' \in [Threads -> Task] /\ thr'[t] = k
        /\ \A u \in Threads \ {t} : thr'[u] = thr[u]
    BY <1>1, <1>2, TaskSet
  <1> QED BY <1>3 DEF k

(***************************************************************************)
(* A thread that rests.                                                    *)
(***************************************************************************)
LEMMA RestsType ==
    ASSUME thr \in [Threads -> Task], NEW t \in Threads, Rests(t)
    PROVE  /\ thr' \in [Threads -> Task]
           /\ thr'[t] = Rest
           /\ \A u \in Threads \ {t} : thr'[u] = thr[u]
  BY BlankType DEF Rests

(***************************************************************************)
(* Saving a copy keeps the types of the document and of its history.       *)
(***************************************************************************)
LEMMA StoreType ==
    ASSUME TypeOK, NEW c \in Document, Store(c)
    PROVE  /\ doc' \in Document
           /\ wanted' \subseteq Scopes \X (Retentions \cup {DefaultDays})
           /\ wanted \subseteq wanted'
           /\ \A s \in Scopes : <<s, doc'.pol[s].days>> \in wanted'
  <1>1. \A s \in Scopes : c.pol[s].days \in Retentions \cup {DefaultDays}
    BY DEF Document, Policy
  <1> QED BY <1>1 DEF Store, TypeOK

(***************************************************************************)
(* A counted event keeps the type of the counter.                          *)
(***************************************************************************)
LEMMA EventType == TypeOK /\ Event => events' \in Nat
  BY DEF TypeOK, Event

(***************************************************************************)
(* Only the thread that moves could lose sight of its job.                 *)
(***************************************************************************)
LEMMA OwnJobsOthers ==
    ASSUME OwnJobs, NEW t \in Threads,
           \A u \in Threads \ {t} : thr'[u] = thr[u],
           thr'[t].pc \in {"record", "archive"} =>
               /\ thr'[t].scope \in Scopes
               /\ \E j \in thr'[t].copy.jobs : j.ref.id = thr'[t].job
    PROVE  OwnJobs'
  BY DEF OwnJobs

(***************************************************************************)
(* The operations that begin: a run, an update, a prune, a file coming in. *)
(***************************************************************************)
LEMMA BeginningsType ==
    ASSUME TypeOK, OwnJobs, NEW t \in Threads,
           \/ \E s \in Scopes : \/ BeginRun(t, s) \/ UpdatePolicy(t, s)
                                \/ IngestFile(t, s)
           \/ BeginPrune(t)
    PROVE  TypeOK' /\ OwnJobs'
  <1> USE DEF files, history, bounds
  <1>1. /\ thr \in [Threads -> Task] /\ doc \in Document /\ hour \in Nat
        /\ jobs \in Nat /\ jobs + 1 \in Nat
        /\ doc.pol \in [Scopes -> Policy] /\ doc.jobs \subseteq Job
    BY DEF TypeOK, Document
  <1>2. ASSUME NEW k \in Task, thr' = [thr EXCEPT ![t] = k],
               k.pc \in {"record", "archive"} =>
                   /\ k.scope \in Scopes
                   /\ \E j \in k.copy.jobs : j.ref.id = k.job
        PROVE  thr' \in [Threads -> Task] /\ OwnJobs'
    <2>1. /\ thr' \in [Threads -> Task] /\ thr'[t] = k
          /\ \A u \in Threads \ {t} : thr'[u] = thr[u]
      BY <1>1, <1>2, TaskSet
    <2> QED BY <1>2, <2>1, OwnJobsOthers
  <1>3. ASSUME NEW s \in Scopes, BeginRun(t, s) PROVE TypeOK' /\ OwnJobs'
    <2> DEFINE j == Running(jobs + 1, s, doc.pol[s].target)
               c == [doc EXCEPT !.jobs = @ \cup {j}]
               k == [Rest EXCEPT !.pc = "record", !.job = jobs + 1,
                                 !.scope = s, !.copy = c]
    <2>1. thr' = [thr EXCEPT ![t] = k]
      BY <1>3 DEF BeginRun
    <2>2. j \in Job
      BY <1>1, NewJobType DEF Policy
    <2>3. j.ref.id = jobs + 1
      BY DEF Running
    <2> HIDE DEF j
    <2>4. c \in Document /\ j \in c.jobs
      BY <1>1, <2>2 DEF Document
    <2> HIDE DEF c
    <2>5. k \in Task /\ k.pc = "record" /\ k.scope = s /\ k.copy = c
          /\ k.job = jobs + 1
      BY <1>1, <2>4, BlankType DEF Task
    <2> HIDE DEF k
    <2>6. thr' \in [Threads -> Task] /\ OwnJobs'
      BY <1>2, <2>1, <2>3, <2>4, <2>5
    <2>7. due' \subseteq Scopes
      BY <1>3 DEF BeginRun, TypeOK
    <2>8. Event \/ events' = events
      BY <1>3 DEF BeginRun
    <2>9. events' \in Nat
      BY <2>8, EventType DEF TypeOK
    <2> QED BY <1>1, <1>3, <2>6, <2>7, <2>9 DEF BeginRun, TypeOK
  <1>4. ASSUME NEW s \in Scopes, UpdatePolicy(t, s) PROVE TypeOK' /\ OwnJobs'
    <2>1. PICK on \in BOOLEAN, sch \in Schedules, d \in Retentions,
               target \in {"local", "s3"} :
             thr' = [thr EXCEPT ![t] = [Rest EXCEPT !.pc = "save",
               !.copy = [doc EXCEPT !.pol[s] =
                  [enabled |-> on, schedule |-> sch, days |-> d,
                   target |-> target, last |-> @.last]]]]
      BY <1>4 DEF UpdatePolicy
    <2> DEFINE p == [enabled |-> on, schedule |-> sch, days |-> d,
                     target |-> target, last |-> doc.pol[s].last]
               c == [doc EXCEPT !.pol[s] = p]
               k == [Rest EXCEPT !.pc = "save", !.copy = c]
    <2>2. doc.pol[s].last \in Nat \cup {NoTime}
      BY <1>1 DEF Policy
    <2>3. p \in Policy
      BY <2>2, BackupAssumption DEF Policy
    <2>4. thr' = [thr EXCEPT ![t] = k]
      BY <1>1, <2>1
    <2> HIDE DEF p
    <2>5. c \in Document
      BY <1>1, <2>3, DocumentType
    <2> HIDE DEF c
    <2>6. k \in Task /\ k.pc = "save"
      BY <2>5, BlankType DEF Task
    <2> HIDE DEF k
    <2>7. thr' \in [Threads -> Task] /\ OwnJobs'
      BY <1>2, <2>4, <2>6
    <2>8. events' \in Nat
      BY <1>4, EventType DEF UpdatePolicy
    <2> QED BY <1>4, <2>7, <2>8 DEF UpdatePolicy, TypeOK
  <1>5. ASSUME NEW s \in Scopes, IngestFile(t, s) PROVE TypeOK' /\ OwnJobs'
    <2> DEFINE j == Replicated(jobs + 1, s)
               c == [doc EXCEPT !.jobs = @ \cup {j}]
               k == [Rest EXCEPT !.pc = "save", !.copy = c]
    <2>1. thr' = [thr EXCEPT ![t] = k] /\ archives' = archives \cup {j.ref}
      BY <1>5 DEF IngestFile
    <2>2. j \in Job
      BY <1>1, NewJobType
    <2> HIDE DEF j
    <2>3. j.ref \in Ref
      BY <2>2 DEF Job
    <2>4. c \in Document
      BY <1>1, <2>2 DEF Document
    <2> HIDE DEF c
    <2>5. k \in Task /\ k.pc = "save"
      BY <2>4, BlankType DEF Task
    <2> HIDE DEF k
    <2>6. thr' \in [Threads -> Task] /\ OwnJobs'
      BY <1>2, <2>1, <2>5
    <2>7. archives' \subseteq Ref
      BY <2>1, <2>3 DEF TypeOK
    <2>8. events' \in Nat
      BY <1>5, EventType DEF IngestFile
    <2> QED BY <1>1, <1>5, <2>6, <2>7, <2>8 DEF IngestFile, TypeOK
  <1>6. CASE BeginPrune(t)
    <2>0. PICK of \in SUBSET Scopes :
            thr' = [thr EXCEPT ![t] = [Rest EXCEPT !.pc = "prune",
               !.copy = doc, !.now = hour,
               !.left = {j \in doc.jobs : j.status = "success"
                                          /\ j.ref.scope \in of}]]
      BY <1>6 DEF BeginPrune
    <2> DEFINE k == [Rest EXCEPT !.pc = "prune", !.copy = doc, !.now = hour,
                        !.left = {j \in doc.jobs : j.status = "success"
                                                   /\ j.ref.scope \in of}]
    <2>1. thr' = [thr EXCEPT ![t] = k]
      BY <2>0
    <2>2. k \in Task /\ k.pc = "prune"
      BY <1>1, BlankType DEF Task
    <2> HIDE DEF k
    <2>3. thr' \in [Threads -> Task] /\ OwnJobs'
      BY <1>2, <2>1, <2>2
    <2>4. events' \in Nat
      BY <1>6, EventType DEF BeginPrune
    <2> QED BY <1>6, <2>3, <2>4 DEF BeginPrune, TypeOK
  <1> QED BY <1>3, <1>4, <1>5, <1>6

(***************************************************************************)
(* The operations that go on, end or break off.                            *)
(***************************************************************************)
LEMMA WorkType ==
    ASSUME TypeOK, OwnJobs, NEW t \in Threads,
           Work(t) \/ ArchiveFails(t) \/ SaveRaises(t)
    PROVE  TypeOK' /\ OwnJobs'
  <1> USE DEF files, history, bounds
  <1>1. /\ thr \in [Threads -> Task] /\ thr[t] \in Task
        /\ thr[t].copy \in Document
    BY DEF TypeOK, Task
  <1>2. ASSUME thr'[t].pc \notin {"record", "archive"},
               \A u \in Threads \ {t} : thr'[u] = thr[u]
        PROVE  OwnJobs'
    BY <1>2, OwnJobsOthers
  <1>3. ASSUME NEW c \in Document, Goes(t, "save", c)
        PROVE  thr' \in [Threads -> Task] /\ OwnJobs'
    <2>1. /\ thr' \in [Threads -> Task]
          /\ thr'[t] = [thr[t] EXCEPT !.pc = "save", !.copy = c]
          /\ \A u \in Threads \ {t} : thr'[u] = thr[u]
      BY <1>1, <1>3, GoesType
    <2>2. thr'[t].pc = "save"
      BY <1>1, <2>1 DEF Task
    <2> QED BY <1>2, <2>1, <2>2
  <1>4. ASSUME Rests(t)
        PROVE  thr' \in [Threads -> Task] /\ OwnJobs'
    BY <1>1, <1>2, <1>4, RestsType DEF Rest
  <1>5. CASE RecordRun(t)
    <2>1. /\ thr' \in [Threads -> Task]
          /\ thr'[t] = [thr[t] EXCEPT !.pc = "archive", !.copy = thr[t].copy]
          /\ \A u \in Threads \ {t} : thr'[u] = thr[u]
      BY <1>1, <1>5, GoesType DEF RecordRun
    <2>2. /\ thr'[t].scope = thr[t].scope /\ thr'[t].job = thr[t].job
          /\ thr'[t].copy = thr[t].copy
      BY <1>1, <2>1 DEF Task
    <2>3. /\ thr[t].scope \in Scopes
          /\ \E j \in thr[t].copy.jobs : j.ref.id = thr[t].job
      BY <1>5 DEF RecordRun, OwnJobs
    <2>4. OwnJobs'
      BY <2>1, <2>2, <2>3, OwnJobsOthers
    <2>5. doc' \in Document
          /\ wanted' \subseteq Scopes \X (Retentions \cup {DefaultDays})
      BY <1>1, <1>5, StoreType DEF RecordRun
    <2> QED BY <1>5, <2>1, <2>4, <2>5 DEF RecordRun, TypeOK
  <1>6. CASE MakeArchive(t)
    <2>1. thr[t].pc = "archive"
      BY <1>6 DEF MakeArchive
    <2>2. Succeeded(t) \in Document
      BY <2>1, FinishedType
    <2>3. thr' \in [Threads -> Task] /\ OwnJobs'
      BY <1>3, <1>6, <2>2 DEF MakeArchive
    <2>4. thr[t].scope \in Scopes /\ OwnJob(t).ref \in Ref
      BY <2>1, OwnJobFound
    <2>5. archives' \subseteq Ref /\ made' \subseteq Scopes \X Nat
      BY <1>6, <2>4 DEF MakeArchive, TypeOK
    <2> QED BY <1>6, <2>3, <2>5 DEF MakeArchive, TypeOK
  <1>7. CASE ArchiveFails(t)
    <2>1. Failed(t) \in Document
      BY <1>7, FinishedType DEF ArchiveFails
    <2>2. thr' \in [Threads -> Task] /\ OwnJobs'
      BY <1>3, <1>7, <2>1 DEF ArchiveFails
    <2>3. events' \in Nat
      BY <1>7, EventType DEF ArchiveFails
    <2> QED BY <1>7, <2>2, <2>3 DEF ArchiveFails, TypeOK
  <1>8. CASE SaveDoc(t)
    <2>1. thr' \in [Threads -> Task] /\ OwnJobs'
      BY <1>4, <1>8 DEF SaveDoc
    <2>2. doc' \in Document
          /\ wanted' \subseteq Scopes \X (Retentions \cup {DefaultDays})
      BY <1>1, <1>8, StoreType DEF SaveDoc
    <2> QED BY <1>8, <2>1, <2>2 DEF SaveDoc, TypeOK
  <1>9. CASE SaveRaises(t)
    <2>1. thr' \in [Threads -> Task] /\ OwnJobs'
      BY <1>4, <1>9 DEF SaveRaises
    <2>2. events' \in Nat
      BY <1>9, EventType DEF SaveRaises
    <2>3. due' \subseteq Scopes
      BY <1>9 DEF SaveRaises, TypeOK
    <2> QED BY <1>9, <2>1, <2>2, <2>3 DEF SaveRaises, TypeOK
  <1>10. CASE PruneJob(t)
    <2>1. PICK j \in thr[t].left, old \in BOOLEAN :
             /\ thr' = [thr EXCEPT ![t].left = @ \ {j},
                          ![t].copy.jobs = IF old THEN @ \ {j} ELSE @,
                          ![t].pruned = @ \/ old]
             /\ archives' \subseteq archives
      BY <1>10 DEF PruneJob, TooOld
    <2> DEFINE js == IF old THEN thr[t].copy.jobs \ {j} ELSE thr[t].copy.jobs
               c  == [thr[t].copy EXCEPT !.jobs = js]
               k  == [thr[t] EXCEPT !.left = @ \ {j}, !.copy = c,
                                    !.pruned = @ \/ old]
    <2>2. js \in SUBSET Job
      BY <1>1 DEF Document
    <2>3. thr' = [thr EXCEPT ![t] = k]
      BY <1>1, <2>1 DEF Task, Document
    <2> HIDE DEF js
    <2>4. c \in Document
      BY <1>1, <2>2, DocumentType
    <2> HIDE DEF c
    <2>5. k \in Task /\ k.pc = thr[t].pc
      BY <1>1, <2>4 DEF Task
    <2> HIDE DEF k
    <2>6. /\ thr' \in [Threads -> Task] /\ thr'[t] = k
          /\ \A u \in Threads \ {t} : thr'[u] = thr[u]
      BY <1>1, <2>3, <2>5, TaskSet
    <2>7. OwnJobs'
      BY <1>2, <1>10, <2>5, <2>6 DEF PruneJob
    <2>8. archives' \subseteq Ref
      BY <2>1 DEF TypeOK
    <2> QED BY <1>10, <2>6, <2>7, <2>8 DEF PruneJob, TypeOK
  <1>11. CASE EndPrune(t)
    <2>1. thr' \in [Threads -> Task] /\ OwnJobs'
      BY <1>1, <1>3, <1>4, <1>11 DEF EndPrune
    <2> QED BY <1>11, <2>1 DEF EndPrune, TypeOK
  <1> QED BY <1>5, <1>6, <1>7, <1>8, <1>9, <1>10, <1>11 DEF Work

(***************************************************************************)
(* Every step keeps the types and the threads' own jobs.                   *)
(***************************************************************************)
LEMMA TypeStep == TypeOK /\ OwnJobs /\ [Next]_vars => TypeOK' /\ OwnJobs'
  <1> SUFFICES ASSUME TypeOK, OwnJobs, [Next]_vars PROVE TypeOK' /\ OwnJobs'
    OBVIOUS
  <1>1. Scheduler \in Threads /\ Requests \subseteq Threads
    BY DEF Threads
  <1>2. CASE ScheduleRound
    <2>1. due' \subseteq Scopes
      BY <1>2 DEF ScheduleRound, Dues
    <2> QED BY <1>2, <2>1 DEF ScheduleRound, TypeOK, OwnJobs, files, history, bounds
  <1>3. CASE \E s \in Scopes : BeginRun(Scheduler, s)
    BY <1>1, <1>3, BeginningsType
  <1>4. CASE \E t \in Requests : Ask(t) \/ BeginPrune(t)
    BY <1>1, <1>4, BeginningsType DEF Ask
  <1>5. CASE \E t \in Threads : Work(t) \/ ArchiveFails(t) \/ SaveRaises(t)
    BY <1>5, WorkType
  <1>6. CASE Restart
    <2>1. thr' \in [Threads -> Task] /\ due' \subseteq Scopes
      BY <1>6, BlankType DEF Restart
    <2>2. events' \in Nat
      BY <1>6, EventType DEF Restart
    <2>3. OwnJobs'
      BY <1>6 DEF Restart, OwnJobs, Rest
    <2> QED BY <1>6, <2>1, <2>2, <2>3 DEF Restart, TypeOK, files, history
  <1>7. CASE Tick
    <2>1. hour' \in Nat
      BY <1>7 DEF Tick, TypeOK
    <2> QED BY <1>7, <2>1 DEF Tick, TypeOK, OwnJobs, files, history, bounds
  <1>8. CASE UNCHANGED vars
    BY <1>8 DEF vars, TypeOK, OwnJobs, files, history, bounds
  <1> QED BY <1>2, <1>3, <1>4, <1>5, <1>6, <1>7, <1>8 DEF Next

(***************************************************************************)
(* The types and the threads' own jobs, for ever.                          *)
(***************************************************************************)
LEMMA TypesAndJobs == Spec => [](TypeOK /\ OwnJobs)
  <1>1. Init => TypeOK /\ OwnJobs
    <2> SUFFICES ASSUME Init PROVE TypeOK /\ OwnJobs
      OBVIOUS
    <2>1. thr \in [Threads -> Task]
      BY BlankType DEF Init
    <2>2. OwnJobs
      BY DEF Init, OwnJobs, Rest
    <2> QED BY <2>1, <2>2, BlankType DEF Init, TypeOK
  <1> QED BY <1>1, TypeStep, PTL DEF Spec

(***************************************************************************)
(* Documents, copies, archives and clocks always have the shape that the   *)
(* code gives them, wherever an operation breaks off.                      *)
(***************************************************************************)
THEOREM TypeCorrect == Spec => []TypeOK
  BY TypesAndJobs, PTL

(***************************************************************************)
(* The clock, the archives made and the retentions ever in force only grow.*)
(***************************************************************************)
LEMMA HistoryGrows ==
    ASSUME TypeOK, OwnJobs, [Next]_vars
    PROVE  hour <= hour' /\ made \subseteq made' /\ wanted \subseteq wanted'
  <1> USE DEF files, history, bounds
  <1>0. hour \in Nat
    BY DEF TypeOK
  <1>1. CASE Tick
    BY <1>0, <1>1 DEF Tick
  <1>2. CASE ScheduleRound
    BY <1>0, <1>2 DEF ScheduleRound
  <1>3. ASSUME NEW t \in Threads, NEW s \in Scopes,
               BeginRun(t, s) \/ UpdatePolicy(t, s) \/ IngestFile(t, s)
        PROVE  UNCHANGED <<hour, made, wanted>>
    BY <1>3 DEF BeginRun, UpdatePolicy, IngestFile
  <1>4. ASSUME NEW t \in Threads, BeginPrune(t) \/ ArchiveFails(t) \/ SaveRaises(t)
        PROVE  UNCHANGED <<hour, made, wanted>>
    BY <1>4 DEF BeginPrune, ArchiveFails, SaveRaises
  <1>5. ASSUME NEW t \in Threads, Work(t)
        PROVE  /\ hour' = hour /\ made \subseteq made'
               /\ wanted \subseteq wanted'
    <2>1. \A c : Store(c) => wanted \subseteq wanted'
      BY DEF Store
    <2> QED BY <1>5, <2>1 DEF Work, RecordRun, MakeArchive, PruneJob, EndPrune, SaveDoc
  <1>6. CASE Restart
    BY <1>0, <1>6 DEF Restart
  <1>7. CASE UNCHANGED vars
    BY <1>0, <1>7 DEF vars
  <1>8. Scheduler \in Threads /\ Requests \subseteq Threads
    BY DEF Threads
  <1>9. ASSUME UNCHANGED <<hour, made, wanted>>
        PROVE  hour <= hour' /\ made \subseteq made' /\ wanted \subseteq wanted'
    BY <1>0, <1>9
  <1>10. CASE \E t \in Requests : Ask(t)
    BY <1>3, <1>8, <1>9, <1>10 DEF Ask
  <1>11. CASE \E s \in Scopes : BeginRun(Scheduler, s)
    BY <1>3, <1>8, <1>9, <1>11
  <1>12. CASE \E t \in Requests : BeginPrune(t)
    BY <1>4, <1>8, <1>9, <1>12
  <1>13. CASE \E t \in Threads : Work(t)
    BY <1>0, <1>5, <1>13
  <1>14. CASE \E t \in Threads : ArchiveFails(t) \/ SaveRaises(t)
    BY <1>4, <1>9, <1>14
  <1> QED BY <1>1, <1>2, <1>6, <1>7, <1>10, <1>11, <1>12, <1>13, <1>14 DEF Next

(***************************************************************************)
(* The document changes only by a copy that a thread saves, and then its   *)
(* retentions are in force.                                                *)
(***************************************************************************)
LEMMA DocumentComes ==
    ASSUME TypeOK, OwnJobs, [Next]_vars
    PROVE  \/ doc' = doc
           \/ /\ \E t \in Threads : doc' = thr[t].copy
              /\ \A s \in Scopes : <<s, doc'.pol[s].days>> \in wanted'
  <1> USE DEF files
  <1>1. CASE ScheduleRound \/ Restart \/ Tick \/ UNCHANGED vars
    BY <1>1 DEF ScheduleRound, Restart, Tick, vars
  <1>2. ASSUME NEW t \in Threads, NEW s \in Scopes,
               BeginRun(t, s) \/ UpdatePolicy(t, s) \/ IngestFile(t, s)
        PROVE  doc' = doc
    BY <1>2 DEF BeginRun, UpdatePolicy, IngestFile
  <1>3. ASSUME NEW t \in Threads, BeginPrune(t) \/ ArchiveFails(t) \/ SaveRaises(t)
        PROVE  doc' = doc
    BY <1>3 DEF BeginPrune, ArchiveFails, SaveRaises
  <1>4. ASSUME NEW t \in Threads, Work(t), doc' # doc
        PROVE  /\ doc' = thr[t].copy
               /\ \A s \in Scopes : <<s, doc'.pol[s].days>> \in wanted'
    <2>1. Store(thr[t].copy)
      BY <1>4 DEF Work, RecordRun, MakeArchive, PruneJob, EndPrune, SaveDoc
    <2> QED BY <2>1 DEF Store
  <1>5. Scheduler \in Threads /\ Requests \subseteq Threads
    BY DEF Threads
  <1>6. CASE \E t \in Requests : Ask(t) \/ BeginPrune(t)
    BY <1>2, <1>3, <1>5, <1>6 DEF Ask
  <1>7. CASE \E s \in Scopes : BeginRun(Scheduler, s)
    BY <1>2, <1>5, <1>7
  <1>8. CASE \E t \in Threads : Work(t) \/ ArchiveFails(t) \/ SaveRaises(t)
    BY <1>3, <1>4, <1>8
  <1> QED BY <1>1, <1>6, <1>7, <1>8 DEF Next

(***************************************************************************)
(* Where the records, marks and clock readings of a thread's copy come     *)
(* from: its earlier copy, the document, nothing, or, for a success, an    *)
(* archive that exists.                                                    *)
(***************************************************************************)
CopyComes(t) ==
    /\ \A j \in thr'[t].copy.jobs :
          \/ j \in thr[t].copy.jobs \/ j \in doc.jobs
          \/ j.status # "success" \/ j.ref \in archives'
    /\ \A s \in Scopes :
          \/ thr'[t].copy.pol[s].last = thr[t].copy.pol[s].last
          \/ thr'[t].copy.pol[s].last = doc.pol[s].last
          \/ thr'[t].copy.pol[s].last = NoTime
          \/ <<s, thr'[t].copy.pol[s].last>> \in made'
    /\ \/ thr'[t].now = thr[t].now
       \/ thr'[t].now = hour
       \/ thr'[t].now = 0

(***************************************************************************)
(* A thread that rests or does not move holds nothing new.                 *)
(***************************************************************************)
LEMMA NothingNew ==
    ASSUME NEW t \in Threads, thr'[t] = thr[t] \/ thr'[t] = Rest
    PROVE  CopyComes(t)
  BY DEF CopyComes, Rest, Blank, Default

(***************************************************************************)
(* Nothing comes into a copy but what the thread does itself.              *)
(***************************************************************************)
LEMMA CopiesComeBeginning ==
    ASSUME TypeOK, NEW t \in Threads,
           \/ \E s \in Scopes : \/ BeginRun(t, s) \/ UpdatePolicy(t, s)
                                \/ IngestFile(t, s)
           \/ BeginPrune(t)
    PROVE  \A u \in Threads : CopyComes(u)
  <1>1. thr \in [Threads -> Task] /\ doc \in Document
        /\ doc.pol \in [Scopes -> Policy]
    BY DEF TypeOK, Document
  <1>2. ASSUME NEW k, thr' = [thr EXCEPT ![t] = k]
        PROVE  thr'[t] = k /\ \A u \in Threads \ {t} : CopyComes(u)
    BY <1>1, <1>2, NothingNew
  <1>3. ASSUME NEW s \in Scopes, BeginRun(t, s) PROVE \A u \in Threads : CopyComes(u)
    <2> DEFINE j == Running(jobs + 1, s, doc.pol[s].target)
               c == [doc EXCEPT !.jobs = @ \cup {j}]
               k == [Rest EXCEPT !.pc = "record", !.job = jobs + 1,
                                 !.scope = s, !.copy = c]
    <2>1. thr' = [thr EXCEPT ![t] = k]
      BY <1>3 DEF BeginRun
    <2>2. k.copy = c /\ k.now = 0
      BY DEF Rest
    <2>3. c.jobs = doc.jobs \cup {j} /\ c.pol = doc.pol
      BY <1>1 DEF Document
    <2>4. j.status # "success"
      BY DEF Running
    <2> HIDE DEF j, c, k
    <2>5. thr'[t] = k /\ \A u \in Threads \ {t} : CopyComes(u)
      BY <1>2, <2>1
    <2>6. CopyComes(t)
      BY <2>2, <2>3, <2>4, <2>5 DEF CopyComes
    <2> QED BY <2>5, <2>6
  <1>4. ASSUME NEW s \in Scopes, UpdatePolicy(t, s)
        PROVE  \A u \in Threads : CopyComes(u)
    <2>1. PICK on \in BOOLEAN, sch \in Schedules, d \in Retentions,
               target \in {"local", "s3"} :
             thr' = [thr EXCEPT ![t] = [Rest EXCEPT !.pc = "save",
               !.copy = [doc EXCEPT !.pol[s] =
                  [enabled |-> on, schedule |-> sch, days |-> d,
                   target |-> target, last |-> @.last]]]]
      BY <1>4 DEF UpdatePolicy
    <2> DEFINE p == [enabled |-> on, schedule |-> sch, days |-> d,
                     target |-> target, last |-> doc.pol[s].last]
               c == [doc EXCEPT !.pol[s] = p]
               k == [Rest EXCEPT !.pc = "save", !.copy = c]
    <2>2. thr' = [thr EXCEPT ![t] = k]
      BY <1>1, <2>1
    <2>3. k.copy = c /\ k.now = 0
      BY DEF Rest
    <2>4. p.last = doc.pol[s].last
      OBVIOUS
    <2> HIDE DEF p
    <2>5. c.jobs = doc.jobs /\ c.pol = [doc.pol EXCEPT ![s] = p]
      BY <1>1 DEF Document
    <2> HIDE DEF c
    <2>6. \A r \in Scopes : c.pol[r].last = doc.pol[r].last
      BY <1>1, <2>4, <2>5
    <2> HIDE DEF k
    <2>7. thr'[t] = k /\ \A u \in Threads \ {t} : CopyComes(u)
      BY <1>2, <2>2
    <2>8. CopyComes(t)
      BY <2>3, <2>5, <2>6, <2>7 DEF CopyComes
    <2> QED BY <2>7, <2>8
  <1>5. ASSUME NEW s \in Scopes, IngestFile(t, s)
        PROVE  \A u \in Threads : CopyComes(u)
    <2> DEFINE j == Replicated(jobs + 1, s)
               c == [doc EXCEPT !.jobs = @ \cup {j}]
               k == [Rest EXCEPT !.pc = "save", !.copy = c]
    <2>1. thr' = [thr EXCEPT ![t] = k] /\ j.ref \in archives'
      BY <1>5 DEF IngestFile
    <2>2. k.copy = c /\ k.now = 0
      BY DEF Rest
    <2>3. c.jobs = doc.jobs \cup {j} /\ c.pol = doc.pol
      BY <1>1 DEF Document
    <2> HIDE DEF j, c, k
    <2>4. thr'[t] = k /\ \A u \in Threads \ {t} : CopyComes(u)
      BY <1>2, <2>1
    <2>5. CopyComes(t)
      BY <2>1, <2>2, <2>3, <2>4 DEF CopyComes
    <2> QED BY <2>4, <2>5
  <1>6. CASE BeginPrune(t)
    <2>0. PICK of \in SUBSET Scopes :
            thr' = [thr EXCEPT ![t] = [Rest EXCEPT !.pc = "prune",
               !.copy = doc, !.now = hour,
               !.left = {j \in doc.jobs : j.status = "success"
                                          /\ j.ref.scope \in of}]]
      BY <1>6 DEF BeginPrune
    <2> DEFINE k == [Rest EXCEPT !.pc = "prune", !.copy = doc, !.now = hour,
                        !.left = {j \in doc.jobs : j.status = "success"
                                                   /\ j.ref.scope \in of}]
    <2>1. thr' = [thr EXCEPT ![t] = k]
      BY <2>0
    <2>2. k.copy = doc /\ k.now = hour
      BY DEF Rest
    <2> HIDE DEF k
    <2>3. thr'[t] = k /\ \A u \in Threads \ {t} : CopyComes(u)
      BY <1>2, <2>1
    <2>4. CopyComes(t)
      BY <2>2, <2>3 DEF CopyComes
    <2> QED BY <2>3, <2>4
  <1> QED BY <1>3, <1>4, <1>5, <1>6

(***************************************************************************)
(* A run that ends adds one record to its copy, and only if it succeeded a *)
(* mark of the present hour.                                               *)
(***************************************************************************)
LEMMA FinishedRecords ==
    ASSUME TypeOK, OwnJobs, NEW t \in Threads, thr[t].pc = "archive"
    PROVE  /\ \A j \in Failed(t).jobs :
                 j \in thr[t].copy.jobs \/ j.status # "success"
           /\ \A j \in Succeeded(t).jobs :
                 j \in thr[t].copy.jobs \/ j.ref = OwnJob(t).ref
           /\ \A s \in Scopes :
                 /\ Failed(t).pol[s].last = thr[t].copy.pol[s].last
                 /\ \/ Succeeded(t).pol[s].last = thr[t].copy.pol[s].last
                    \/ s = thr[t].scope /\ Succeeded(t).pol[s].last = hour
  <1> DEFINE own == OwnJob(t)
             copy == thr[t].copy
             z == thr[t].scope
             good == [own EXCEPT !.status = "success"]
             bad == [own EXCEPT !.status = "error"]
             with(j) == [copy EXCEPT !.jobs =
                           {k \in copy.jobs : k.ref.id # thr[t].job} \cup {j}]
             mark(d) == [d EXCEPT !.pol[z].last = hour]
  <1>1. own \in Job /\ z \in Scopes
    BY OwnJobFound
  <1>2. copy \in Document
    BY DEF TypeOK, Task
  <1>3. good.ref = own.ref /\ bad.status = "error"
    <2> HIDE DEF own
    <2> QED BY <1>1 DEF Job
  <1>4. \A j : WithJob(t, j) = with(j)
    BY DEF WithJob
  <1>5. Failed(t) = with(bad) /\ Succeeded(t) = mark(with(good))
    BY <1>4 DEF Failed, Succeeded
  <1> HIDE DEF own, good, bad
  <1>6. \A j : /\ with(j).pol = copy.pol
               /\ \A k \in with(j).jobs : k \in copy.jobs \/ k = j
    <2> TAKE j
    <2> DEFINE js == {k \in copy.jobs : k.ref.id # thr[t].job} \cup {j}
    <2>1. \A k \in js : k \in copy.jobs \/ k = j
      OBVIOUS
    <2>2. with(j) = [copy EXCEPT !.jobs = js]
      OBVIOUS
    <2> HIDE DEF js, copy
    <2>3. with(j).pol = copy.pol /\ with(j).jobs = js
      BY <1>2, <2>2 DEF Document
    <2> QED BY <2>1, <2>3
  <1>7. \A j : /\ mark(with(j)).jobs = with(j).jobs
               /\ \A s \in Scopes :
                     \/ mark(with(j)).pol[s].last = copy.pol[s].last
                     \/ s = z /\ mark(with(j)).pol[s].last = hour
    <2> HIDE DEF z
    <2> TAKE j
    <2> DEFINE js == {k \in copy.jobs : k.ref.id # thr[t].job} \cup {j}
               d  == with(j)
    <2>0. d = [copy EXCEPT !.jobs = js]
      OBVIOUS
    <2> HIDE DEF js, d
    <2>1. d.pol = copy.pol /\ d.pol \in [Scopes -> Policy]
          /\ d = [pol |-> d.pol, jobs |-> d.jobs]
      BY <1>2, <2>0 DEF Document
    <2> HIDE DEF copy
    <2>2. copy.pol[z] \in Policy
      BY <1>1, <2>1
    <2> DEFINE p == [d.pol[z] EXCEPT !.last = hour]
    <2>3. p.last = hour
      BY <2>1, <2>2 DEF Policy
    <2>4. mark(d).jobs = d.jobs /\ mark(d).pol = [d.pol EXCEPT ![z] = p]
      BY <2>1
    <2> HIDE DEF p
    <2>5. \A s \in Scopes : \/ mark(d).pol[s] = d.pol[s]
                            \/ s = z /\ mark(d).pol[s] = p
      BY <1>1, <2>1, <2>4
    <2> QED BY <2>1, <2>3, <2>4, <2>5 DEF d
  <1> HIDE DEF with, mark, copy, z
  <1>8. \A j \in Failed(t).jobs : j \in copy.jobs \/ j.status # "success"
    BY <1>3, <1>5, <1>6
  <1>9. \A j \in Succeeded(t).jobs : j \in copy.jobs \/ j.ref = own.ref
    BY <1>3, <1>5, <1>6, <1>7
  <1>10. \A s \in Scopes :
           /\ Failed(t).pol[s].last = copy.pol[s].last
           /\ \/ Succeeded(t).pol[s].last = copy.pol[s].last
              \/ s = z /\ Succeeded(t).pol[s].last = hour
    BY <1>5, <1>6, <1>7
  <1> QED BY <1>8, <1>9, <1>10 DEF own, copy, z

(***************************************************************************)
(* The same of the steps that go on, end or break off.                     *)
(***************************************************************************)
LEMMA CopiesComeWork ==
    ASSUME TypeOK, OwnJobs, NEW t \in Threads,
           Work(t) \/ ArchiveFails(t) \/ SaveRaises(t)
    PROVE  \A u \in Threads : CopyComes(u)
  <1>1. thr \in [Threads -> Task] /\ thr[t] \in Task /\ thr[t].copy \in Document
    BY DEF TypeOK, Task
  <1>2. ASSUME NEW c \in Document, NEW pc \in {"archive", "save"}, Goes(t, pc, c)
        PROVE  /\ thr'[t].copy = c /\ thr'[t].now = thr[t].now
               /\ \A u \in Threads \ {t} : CopyComes(u)
    <2>1. /\ thr'[t] = [thr[t] EXCEPT !.pc = pc, !.copy = c]
          /\ \A u \in Threads \ {t} : thr'[u] = thr[u]
      <3>1. CASE pc = "archive"
        BY <1>1, <1>2, <3>1, GoesType
      <3>2. CASE pc = "save"
        BY <1>1, <1>2, <3>2, GoesType
      <3> QED BY <3>1, <3>2
    <2>2. thr'[t].copy = c /\ thr'[t].now = thr[t].now
      BY <1>1, <2>1 DEF Task
    <2> QED BY <2>1, <2>2, NothingNew
  <1>3. ASSUME Rests(t) PROVE \A u \in Threads : CopyComes(u)
    BY <1>1, <1>3, RestsType, NothingNew
  <1>4. CASE RecordRun(t)
    BY <1>1, <1>2, <1>4 DEF RecordRun, CopyComes
  <1>5. CASE MakeArchive(t)
    <2>1. thr[t].pc = "archive" /\ Goes(t, "save", Succeeded(t))
      BY <1>5 DEF MakeArchive
    <2>2. /\ thr'[t].copy = Succeeded(t) /\ thr'[t].now = thr[t].now
          /\ \A u \in Threads \ {t} : CopyComes(u)
      BY <1>2, <2>1, FinishedType
    <2>3. OwnJob(t).ref \in archives' /\ <<thr[t].scope, hour>> \in made'
      BY <1>5 DEF MakeArchive
    <2>4. CopyComes(t)
      BY <2>1, <2>2, <2>3, FinishedRecords DEF CopyComes
    <2> QED BY <2>2, <2>4
  <1>6. CASE ArchiveFails(t)
    <2>1. thr[t].pc = "archive" /\ Goes(t, "save", Failed(t))
      BY <1>6 DEF ArchiveFails
    <2>2. /\ thr'[t].copy = Failed(t) /\ thr'[t].now = thr[t].now
          /\ \A u \in Threads \ {t} : CopyComes(u)
      BY <1>2, <2>1, FinishedType
    <2>3. CopyComes(t)
      BY <2>1, <2>2, FinishedRecords DEF CopyComes
    <2> QED BY <2>2, <2>3
  <1>7. CASE SaveDoc(t) \/ SaveRaises(t)
    BY <1>3, <1>7 DEF SaveDoc, SaveRaises
  <1>8. CASE PruneJob(t)
    <2>1. PICK j \in thr[t].left, old \in BOOLEAN :
             thr' = [thr EXCEPT ![t].left = @ \ {j},
                       ![t].copy.jobs = IF old THEN @ \ {j} ELSE @,
                       ![t].pruned = @ \/ old]
      BY <1>8 DEF PruneJob, TooOld
    <2> DEFINE js == IF old THEN thr[t].copy.jobs \ {j} ELSE thr[t].copy.jobs
               c  == [thr[t].copy EXCEPT !.jobs = js]
               k  == [thr[t] EXCEPT !.left = @ \ {j}, !.copy = c,
                                    !.pruned = @ \/ old]
    <2>2. js \subseteq thr[t].copy.jobs
      OBVIOUS
    <2>3. thr' = [thr EXCEPT ![t] = k]
      BY <1>1, <2>1 DEF Task, Document
    <2> HIDE DEF js
    <2>4. c.jobs = js /\ c.pol = thr[t].copy.pol
      BY <1>1 DEF Document
    <2> HIDE DEF c
    <2>5. k.copy = c /\ k.now = thr[t].now
      BY <1>1 DEF Task
    <2> HIDE DEF k
    <2>6. thr'[t] = k /\ \A u \in Threads \ {t} : CopyComes(u)
      BY <1>1, <2>3, NothingNew
    <2>7. CopyComes(t)
      BY <2>2, <2>4, <2>5, <2>6 DEF CopyComes
    <2> QED BY <2>6, <2>7
  <1>9. CASE EndPrune(t)
    BY <1>1, <1>2, <1>3, <1>9 DEF EndPrune, CopyComes
  <1> QED BY <1>4, <1>5, <1>6, <1>7, <1>8, <1>9 DEF Work

(***************************************************************************)
(* In every step, of every thread.                                         *)
(***************************************************************************)
LEMMA CopiesCome ==
    ASSUME TypeOK, OwnJobs, [Next]_vars
    PROVE  \A u \in Threads : CopyComes(u)
  <1>1. Scheduler \in Threads /\ Requests \subseteq Threads
    BY DEF Threads
  <1>2. CASE ScheduleRound \/ Tick \/ UNCHANGED vars
    BY <1>2, NothingNew DEF ScheduleRound, Tick, vars
  <1>3. CASE Restart
    BY <1>3, NothingNew DEF Restart
  <1>4. CASE \E t \in Requests : Ask(t) \/ BeginPrune(t)
    BY <1>1, <1>4, CopiesComeBeginning DEF Ask
  <1>5. CASE \E s \in Scopes : BeginRun(Scheduler, s)
    BY <1>1, <1>5, CopiesComeBeginning
  <1>6. CASE \E t \in Threads : Work(t) \/ ArchiveFails(t) \/ SaveRaises(t)
    BY <1>6, CopiesComeWork
  <1> QED BY <1>2, <1>3, <1>4, <1>5, <1>6 DEF Next

(***************************************************************************)
(* Nothing becomes dated in the future, and the retentions of the document *)
(* stay known.                                                             *)
(***************************************************************************)
LEMMA DatedStep ==
    ASSUME TypeOK, OwnJobs, Dated, [Next]_vars
    PROVE  Dated'
  <1>1. hour \in Nat /\ hour' \in Nat /\ hour <= hour' /\ wanted \subseteq wanted'
    BY TypeStep, HistoryGrows DEF TypeOK
  <1>2. \A t \in Threads : thr[t].now \in Nat
    BY DEF TypeOK, Task
  <1>3. \A t \in Threads : thr'[t].now <= hour'
    BY <1>1, <1>2, CopiesCome DEF CopyComes, Dated
  <1>4. \A s \in Scopes : <<s, doc'.pol[s].days>> \in wanted'
    BY <1>1, DocumentComes DEF Dated
  <1>5. \A m \in made' : m \in made \/ m[2] = hour
    <2> USE DEF files, history
    <2>1. ASSUME NEW t \in Threads, Work(t)
          PROVE  \A m \in made' : m \in made \/ m[2] = hour
      <3>1. CASE MakeArchive(t)
        BY <3>1 DEF MakeArchive
      <3>2. CASE RecordRun(t) \/ PruneJob(t) \/ EndPrune(t) \/ SaveDoc(t)
        <4>1. made' = made
          BY <3>2 DEF RecordRun, PruneJob, EndPrune, SaveDoc
        <4> QED BY <4>1
      <3> QED BY <2>1, <3>1, <3>2 DEF Work
    <2>2. ASSUME ~\E t \in Threads : Work(t) PROVE made' = made
      <3>1. ASSUME NEW t, NEW s \in Scopes,
                   BeginRun(t, s) \/ UpdatePolicy(t, s) \/ IngestFile(t, s)
            PROVE  made' = made
        BY <3>1 DEF BeginRun, UpdatePolicy, IngestFile
      <3>2. ASSUME NEW t, BeginPrune(t) \/ ArchiveFails(t) \/ SaveRaises(t)
            PROVE  made' = made
        BY <3>2 DEF BeginPrune, ArchiveFails, SaveRaises
      <3>3. ASSUME ScheduleRound \/ Restart \/ Tick \/ UNCHANGED vars
            PROVE  made' = made
        BY <3>3 DEF ScheduleRound, Restart, Tick, vars
      <3> QED BY <2>2, <3>1, <3>2, <3>3 DEF Next, Ask
    <2> QED BY <2>1, <2>2
  <1>6. \A m \in made : m[2] \in Nat
    BY DEF TypeOK
  <1>7. \A m \in made' : m[2] <= hour'
    BY <1>1, <1>5, <1>6 DEF Dated
  <1> QED BY <1>3, <1>4, <1>7 DEF Dated

(***************************************************************************)
(* Only a prune deletes an archive, and only one that the policy it reads  *)
(* says is too old.                                                        *)
(***************************************************************************)
LEMMA ArchiveLost ==
    ASSUME TypeOK, OwnJobs, [Next]_vars, NEW r \in archives, r \notin archives'
    PROVE  /\ r \in Ref
           /\ \E t \in Threads :
                TooOld(r, doc.pol[r.scope].days, thr[t].now)
  <1> USE DEF files
  <1>0. r \in Ref
    BY DEF TypeOK
  <1>1. ASSUME NEW t, NEW s \in Scopes,
               BeginRun(t, s) \/ UpdatePolicy(t, s) \/ IngestFile(t, s)
        PROVE  FALSE
    BY <1>1 DEF BeginRun, UpdatePolicy, IngestFile
  <1>2. ASSUME NEW t, BeginPrune(t) \/ ArchiveFails(t) \/ SaveRaises(t)
        PROVE  FALSE
    BY <1>2 DEF BeginPrune, ArchiveFails, SaveRaises
  <1>3. ASSUME ScheduleRound \/ Restart \/ Tick \/ UNCHANGED vars
        PROVE  FALSE
    BY <1>3 DEF ScheduleRound, Restart, Tick, vars
  <1>4. ASSUME NEW t \in Threads, Work(t)
        PROVE  TooOld(r, doc.pol[r.scope].days, thr[t].now)
    <2>1. PruneJob(t)
      BY <1>4 DEF Work, RecordRun, MakeArchive, EndPrune, SaveDoc
    <2>2. PICK j \in thr[t].left :
             archives' = IF /\ TooOld(j.ref, doc.pol[j.ref.scope].days, thr[t].now)
                            /\ doc.pol[j.ref.scope].target = "s3"
                            /\ j.ref.store = "s3"
                         THEN archives \ {j.ref}
                         ELSE archives
      BY <2>1 DEF PruneJob
    <2>3. r = j.ref /\ TooOld(j.ref, doc.pol[j.ref.scope].days, thr[t].now)
      BY <2>2
    <2> QED BY <2>3
  <1> QED BY <1>0, <1>1, <1>2, <1>3, <1>4 DEF Next, Ask

(***************************************************************************)
(* What can be restored, in the document or in an old copy, can be         *)
(* restored after every step of any thread, or was due to go.              *)
(***************************************************************************)
LEMMA RestorableStays ==
    ASSUME TypeOK, OwnJobs, Dated, [Next]_vars, NEW j \in Job, Restorable(j)
    PROVE  Restorable(j)'
  <1> SUFFICES ASSUME j.status = "success", j.ref \notin archives'
               PROVE  \E w \in wanted' :
                         /\ w[1] = j.ref.scope
                         /\ Day(j.ref.created) + w[2] <= Day(hour')
    BY DEF Restorable, Day
  <1>1. hour \in Nat /\ hour' \in Nat /\ hour <= hour' /\ wanted \subseteq wanted'
    BY TypeStep, HistoryGrows DEF TypeOK
  <1>2. j.ref.scope \in Scopes /\ j.ref.created \in Nat
    BY DEF Job, Ref
  <1>3. Day(hour) <= Day(hour') /\ Day(hour) \in Nat /\ Day(hour') \in Nat
        /\ Day(j.ref.created) \in Nat
    BY <1>1, <1>2, DayOrder
  <1>4. ASSUME NEW w \in wanted, w[1] = j.ref.scope,
               Day(j.ref.created) + w[2] <= Day(hour)
        PROVE  \E v \in wanted' :
                  /\ v[1] = j.ref.scope
                  /\ Day(j.ref.created) + v[2] <= Day(hour')
    <2>1. w[2] \in Nat
      BY BackupAssumption DEF TypeOK
    <2>2. Day(j.ref.created) + w[2] <= Day(hour')
      BY <1>3, <1>4, <2>1
    <2> QED BY <1>1, <1>4, <2>2
  <1>5. ASSUME j.ref \in archives
        PROVE  \E v \in wanted' :
                  /\ v[1] = j.ref.scope
                  /\ Day(j.ref.created) + v[2] <= Day(hour')
    <2> DEFINE days == doc.pol[j.ref.scope].days
    <2>1. PICK t \in Threads : TooOld(j.ref, days, thr[t].now)
      BY <1>5, ArchiveLost
    <2>2. thr[t].now \in Nat /\ thr[t].now <= hour
      BY DEF TypeOK, Task, Dated
    <2>3. Day(thr[t].now) \in Nat /\ Day(thr[t].now) <= Day(hour)
      BY <1>1, <2>2, DayOrder
    <2>4. <<j.ref.scope, days>> \in wanted
      BY <1>2 DEF Dated
    <2>5. days \in Nat
      BY <2>4, BackupAssumption DEF TypeOK
    <2>6. Day(j.ref.created) + days <= Day(thr[t].now)
      BY <1>3, <2>1, <2>3, <2>5 DEF TooOld
    <2> HIDE DEF days
    <2>7. Day(j.ref.created) + days <= Day(hour')
      BY <1>3, <2>3, <2>5, <2>6
    <2>8. <<j.ref.scope, days>> \in wanted'
      BY <1>1, <2>4
    <2> QED BY <2>7, <2>8
  <1> QED BY <1>4, <1>5 DEF Restorable

(***************************************************************************)
(* The document and every copy speak of archives that can be restored.     *)
(***************************************************************************)
LEMMA JobsStep ==
    ASSUME TypeOK, OwnJobs, Dated, JobsRestorable, [Next]_vars
    PROVE  JobsRestorable'
  <1>1. \A j \in Job : Restorable(j) => Restorable(j)'
    BY RestorableStays
  <1>2. doc.jobs \subseteq Job /\ \A t \in Threads : thr[t].copy.jobs \subseteq Job
    BY DEF TypeOK, Task, Document
  <1>3. /\ \A j \in doc.jobs : Restorable(j)'
        /\ \A t \in Threads : \A j \in thr[t].copy.jobs : Restorable(j)'
    BY <1>1, <1>2 DEF JobsRestorable
  <1>4. \A j : (j.status # "success" \/ j.ref \in archives') => Restorable(j)'
    BY DEF Restorable
  <1>5. \A j \in doc'.jobs : Restorable(j)'
    BY <1>3, DocumentComes
  <1>6. \A t \in Threads : \A j \in thr'[t].copy.jobs : Restorable(j)'
    BY <1>3, <1>4, CopiesCome DEF CopyComes
  <1> QED BY <1>5, <1>6 DEF JobsRestorable

(***************************************************************************)
(* Every last_backup, in the document and in every copy, is the hour of an *)
(* archive that was finished.                                              *)
(***************************************************************************)
LEMMA MarksStep ==
    ASSUME TypeOK, OwnJobs, MarksEarned, [Next]_vars
    PROVE  MarksEarned'
  <1>1. made \subseteq made'
    BY HistoryGrows
  <1>2. \A s \in Scopes : Marked(s, doc.pol[s].last)'
    BY <1>1, DocumentComes DEF MarksEarned, Marked
  <1>3. \A t \in Threads : \A s \in Scopes : Marked(s, thr[t].copy.pol[s].last)'
    BY <1>1, CopiesCome DEF CopyComes, MarksEarned, Marked
  <1> QED BY <1>2, <1>3 DEF MarksEarned, Marked

(***************************************************************************)
(* In the beginning there is nothing to restore and nothing is marked.     *)
(***************************************************************************)
LEMMA Beginning == Init => Dated /\ JobsRestorable /\ MarksEarned
  <1> SUFFICES ASSUME Init PROVE Dated /\ JobsRestorable /\ MarksEarned
    OBVIOUS
  <1> USE DEF Init, Blank, Rest, Default
  <1>1. Dated
    BY DEF Dated
  <1>2. JobsRestorable /\ MarksEarned
    BY DEF JobsRestorable, MarksEarned, Marked
  <1> QED BY <1>1, <1>2

(***************************************************************************)
(* A job on record as successful can be restored as long as it is younger  *)
(* than every retention its scope has ever had, whatever stale copies are  *)
(* saved over one another and wherever a run or a prune breaks off.        *)
(***************************************************************************)
THEOREM SuccessKeepsArchive == Spec => []SuccessHasArchive
  <1>1. TypeOK /\ OwnJobs /\ Dated /\ JobsRestorable /\ [Next]_vars
          => Dated' /\ JobsRestorable'
    BY DatedStep, JobsStep
  <1>2. JobsRestorable => SuccessHasArchive
    BY DEF JobsRestorable, Restorable, SuccessHasArchive
  <1> QED BY <1>1, <1>2, Beginning, TypesAndJobs, PTL DEF Spec

(***************************************************************************)
(* A mark that keeps the schedule from backing a scope up is the hour of   *)
(* an archive of the present period.                                       *)
(***************************************************************************)
LEMMA NotDueFromMarks ==
    ASSUME TypeOK, Dated, MarksEarned
    PROVE  NotDueMeansMade
  <1> SUFFICES ASSUME NEW s \in Scopes, ~Due(doc.pol[s], hour)
               PROVE  \E h \in {m[2] : m \in {w \in made : w[1] = s}} :
                         IF doc.pol[s].schedule = "hourly"
                         THEN h = hour ELSE Day(h) = Day(hour)
    BY DEF NotDueMeansMade
  <1> DEFINE last == doc.pol[s].last
  <1>1. /\ hour \in Nat
        /\ doc.pol[s].schedule \in {"hourly", "daily", "weekly"}
    BY DEF TypeOK, Document, Policy
  <1>2. last # NoTime /\ <<s, last>> \in made
    BY DEF Due, MarksEarned, Marked
  <1>3. last \in Nat
    BY <1>2 DEF TypeOK
  <1>4. last <= hour
    BY <1>2 DEF Dated
  <1>5. Day(last) \in Nat /\ Day(hour) \in Nat /\ Day(last) <= Day(hour)
    BY <1>1, <1>3, <1>4, DayOrder
  <1>6. IF doc.pol[s].schedule = "hourly" THEN last = hour
                                          ELSE Day(last) = Day(hour)
    BY <1>1, <1>5 DEF Due
  <1>7. last \in {m[2] : m \in {w \in made : w[1] = s}}
    BY <1>2
  <1> QED BY <1>6, <1>7

(***************************************************************************)
(* The schedule passes over a scope only if a run has finished an archive  *)
(* of it in the present hour or day: failed, lost and half-recorded runs   *)
(* never count.                                                            *)
(***************************************************************************)
THEOREM MarkIsEarned == Spec => []NotDueMeansMade
  <1>1. TypeOK /\ OwnJobs /\ Dated /\ MarksEarned /\ [Next]_vars
          => Dated' /\ MarksEarned'
    BY DatedStep, MarksStep
  <1> QED BY <1>1, Beginning, NotDueFromMarks, TypesAndJobs, PTL DEF Spec

=============================================================================
