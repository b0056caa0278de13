-------------------------- MODULE BackupScheduleMC --------------------------
(* A small instance of BackupSchedule for TLC.                             *)
EXTENDS BackupSchedule, TLC

\* Every schedule that an operator can choose.
EverySchedule == {"hourly", "daily", "weekly"}

=============================================================================
