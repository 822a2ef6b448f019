------------------------------- MODULE MCHost -------------------------------
(***************************************************************************)
(* What the daemon does by itself beside the storage operations: the apps,  *)
(* the scrubs, the backup of the configuration and the backup jobs.  They   *)
(* share no state: a behaviour moves one of them, so that their states add  *)
(* up instead of multiplying.                                               *)
(***************************************************************************)
EXTENDS MCAppLifecycle, Scrub, ConfigBackup, MCBackupJobs
VARIABLE part

HostParts == Init /\ HostInit /\ ScrubInit /\ ConfigInit /\ JobsInit
HostStart == /\ HostParts /\ part \in {"apps", "scrub", "config", "jobs"}
             /\ part # "apps" => rows = [a \in Apps |-> None]
             /\ part # "scrub" => kernelScrub = "none"
HostNext == /\ UNCHANGED part
            /\ \/ part = "apps" /\ Next /\ UNCHANGED <<scrubVars, configVars, jobVars, hostBounds>>
               \/ part = "scrub" /\ ScrubNext /\ UNCHANGED <<vars, configVars, jobVars>>
               \/ part = "config" /\ ConfigNext /\ UNCHANGED <<vars, scrubVars, jobVars>>
               \/ part = "jobs" /\ JobsNext /\ UNCHANGED <<vars, scrubVars, configVars>>
hostVars == <<vars, scrubVars, configVars, jobVars, hostBounds, part>>
\* The fairness of each part; apps, scrubs and runs that do not exist ask for none,
\* but a clock and a boot do.
HostFairness ==
  /\ Fairness /\ ScrubFairness
  /\ WF_configVars(part = "config" /\ (Flush \/ MarkConfigDirty))
  /\ \A j \in Jobs : WF_jobVars(JobRun(j)) /\ WF_jobVars(part = "jobs" /\ (BecomeDue(j) \/ StartOf(j)))
  /\ WF_jobVars(part = "jobs" /\ Tick)
HostSpec == HostStart /\ [][HostNext]_hostVars /\ HostFairness

\* Every variable of every part has its type.
HostTypesOK == TypeOK /\ HostTypeOK /\ ScrubTypeOK /\ ConfigTypeOK /\ JobsTypeOK
==============================================================================
