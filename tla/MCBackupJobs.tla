---------------------------- MODULE MCBackupJobs ----------------------------
(* Jobs of one source, each keeping its newest snapshot.                   *)
EXTENDS BackupJobs
MCSource == [j \in Jobs |-> 1]
MCRetain == [j \in Jobs |-> 1]
==============================================================================
