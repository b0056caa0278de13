------------------------------- MODULE JobLedger -------------------------------
(***************************************************************************)
(* What the job queue promises a client that only sees the state file and   *)
(* the side effects of handlers: an abstract specification that JobQueue    *)
(* implements.  It knows no threads, no memory, no clock, no crashes and no *)
(* failing saves: one step is one save of the file, which may settle the    *)
(* records of several jobs at once, or the start of one job's handler.      *)
(***************************************************************************)
EXTENDS Naturals

CONSTANT Jobs    \* job ids

VARIABLES
  record,   \* job -> its status in the file, "absent" when it has no record
  starts    \* job -> how often its handler has been started

ledger == <<record, starts>>

Records == {"absent", "pending", "running", "completed", "failed", "cancelled"}

Init ==
  /\ record = [j \in Jobs |-> "absent"]
  /\ starts = [j \in Jobs |-> 0]

(* The records that may follow one with status s of a job started n times.  *)
(* A job without a record that was started has been purged for good.  Only  *)
(* a started job completes, only one that was never running is cancelled,   *)
(* and an outcome stays until the record is dropped.                        *)
After(s, n) ==
  {s, "absent"} \cup
    (IF s = "absent" /\ n = 0 THEN {"pending", "running", "failed", "cancelled"} ELSE {})
    \cup (IF s = "pending" THEN {"running", "failed", "cancelled"} ELSE {})
    \cup (IF s = "running" THEN {"failed"} ELSE {})
    \cup (IF s = "running" /\ n > 0 THEN {"completed"} ELSE {})

(* One save of the file.                                                    *)
Save ==
  /\ record' \in [Jobs -> Records]
  /\ \A j \in Jobs : record'[j] \in After(record[j], starts[j])

Settle == Save /\ UNCHANGED starts

(* A handler starts, once in the life of its job, with the save that shows  *)
(* the job as running for the first time.                                   *)
Start(j) ==
  /\ Save
  /\ starts[j] = 0 /\ record[j] \in {"absent", "pending"}
  /\ record'[j] = "running"
  /\ starts' = [starts EXCEPT ![j] = 1]

Next == Settle \/ \E j \in Jobs : Start(j)

Spec == Init /\ [][Next]_ledger

=============================================================================
