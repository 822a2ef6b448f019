----------------------------- MODULE BackupJobs -----------------------------
(***************************************************************************)
(* The backup jobs: each minute the scheduler starts a goroutine for every  *)
(* job that is due, an administrator starts one by hand; the goroutine      *)
(* takes a snapshot of the source, sends it to the paired device as an      *)
(* increment on the last one that arrived, records the outcome and leaves   *)
(* old snapshots to another goroutine.                                      *)
(***************************************************************************)
EXTENDS HostBounds, FiniteSets, FiniteSetsExt

CONSTANTS
  Jobs, Sources, Source,  \* which pool or folder each job copies
  Retain,                 \* how many snapshots each job keeps, 0 when it keeps by age
  SnapshotMax,            \* snapshotRetentionMax
  MaxSnaps,               \* bound: snapshots ever taken
  MaxJobRequests, MaxJobFaults   \* bounds of this module's part of them

ASSUME JobsAssumption ==
  /\ Source \in [Jobs -> Sources] /\ Retain \in [Jobs -> Nat]
  /\ SnapshotMax \in Nat \ {0} /\ {MaxSnaps, MaxJobRequests, MaxJobFaults} \subseteq Nat

VARIABLES
  jobRows,    \* backup_jobs, Nil once deleted
  snaps,      \* <source>/.snapshots, by the order of their timestamps
  remote,     \* what each job's destination has received
  pending,    \* goroutines that have read a job and not started: executeBackupJob(job)
  running,    \* backupRunningJobs, with what the goroutine has got so far
  retaining,  \* goroutines of applyRetention
  taken,      \* bound: snapshots taken so far
  moved       \* history: the jobs whose destination was edited

jobVars == <<jobRows, snaps, remote, pending, running, retaining, taken, moved>>

JobRequest == hostAsked < MaxJobRequests /\ HostRequest
JobFault == hostFaults < MaxJobFaults /\ HostFault
Snaps == 1..MaxSnaps
JobRow == [status : {"ok", "running", "error"}, last : Snaps \cup {Nil}, due : BOOLEAN, enabled : BOOLEAN]
Runs == [pc : {"snapshot", "send", "succeed", "fail"}, parent : Snaps \cup {Nil}, snap : Snaps \cup {Nil}]
In(j, pc) == running[j] # Nil /\ running[j].pc = pc
Proceed(j, pc) == running' = [running EXCEPT ![j].pc = pc]
Exists(j) == jobRows[j] # Nil

\* dbBackupJobUpdate: a job that is gone, and an error of SQLite, are ignored.
Update(j, row) == \/ jobRows' = [jobRows EXCEPT ![j] = IF Exists(j) THEN row ELSE Nil]
                     /\ UNCHANGED hostFaults
                  \/ JobFault /\ UNCHANGED jobRows

\* All but the n newest; what age leaves out, which is never the newest.
Oldest(S, n) == {s \in S : Cardinality({t \in S : t > s}) >= n}
Expired(S) == {{s \in S : s < cut} : cut \in S}

-----------------------------------------------------------------------------
\* checkAndRunDueJobs, and POST /api/backup/run: the goroutine keeps what was read.
Launch(j) == pending' = pending \cup {[job |-> j, last |-> jobRows[j].last]}
Tick ==
  LET due == {j \in Jobs : Exists(j) /\ jobRows[j].enabled /\ jobRows[j].due} IN
  /\ due # {}
  /\ pending' = pending \cup {[job |-> j, last |-> jobRows[j].last] : j \in due}
  /\ UNCHANGED <<jobRows, snaps, remote, running, retaining, taken, moved, hostBounds>>
RunByHand(j) ==
  /\ Exists(j) /\ JobRequest /\ Launch(j)
  /\ UNCHANGED <<jobRows, snaps, remote, running, retaining, taken, moved, hostFaults>>

\* A job that runs refuses; the status is written, and the paired device read:
\* without it the run fails.
StartRun(p) ==
  /\ p \in pending /\ pending' = pending \ {p}
  /\ IF running[p.job] # Nil THEN UNCHANGED <<jobRows, running, hostFaults>>
     ELSE /\ Update(p.job, [jobRows[p.job] EXCEPT !.status = "running"])
          /\ \E pc \in IF Exists(p.job) THEN {"snapshot"} ELSE {"snapshot", "fail"} :
               running' = [running EXCEPT ![p.job] = [pc |-> pc, parent |-> p.last, snap |-> Nil]]
  /\ UNCHANGED <<snaps, remote, retaining, taken, moved, hostAsked>>

TakeSnapshot(j) ==
  /\ In(j, "snapshot") /\ taken < MaxSnaps /\ taken' = taken + 1
  /\ snaps' = [snaps EXCEPT ![Source[j]] = @ \cup {taken'}]
  /\ running' = [running EXCEPT ![j].pc = "send", ![j].snap = taken']
  /\ UNCHANGED <<jobRows, remote, pending, retaining, moved, hostBounds>>
SnapshotFails(j) ==
  /\ In(j, "snapshot") /\ Proceed(j, "fail")
  /\ IF taken = MaxSnaps THEN UNCHANGED hostFaults ELSE JobFault
  /\ UNCHANGED <<jobRows, snaps, remote, pending, retaining, taken, moved, hostAsked>>

\* btrfs send -p needs both snapshots here, btrfs receive the parent there.
Sendable(j) == /\ {running[j].snap, running[j].parent} \ {Nil} \subseteq snaps[Source[j]]
               /\ running[j].parent \in remote[j] \cup {Nil}
Send(j) ==
  /\ In(j, "send") /\ Sendable(j)
  /\ remote' = [remote EXCEPT ![j] = @ \cup {running[j].snap}] /\ Proceed(j, "succeed")
  /\ UNCHANGED <<jobRows, snaps, pending, retaining, taken, moved, hostBounds>>
SendFails(j) ==
  /\ In(j, "send") /\ Proceed(j, "fail")
  /\ IF Sendable(j) THEN JobFault ELSE UNCHANGED hostFaults
  /\ UNCHANGED <<jobRows, snaps, remote, pending, retaining, taken, moved, hostAsked>>

\* Mutant: a snapshot counts as the base of the next increment before it has arrived.
FailButRemember(j) ==
  /\ In(j, "fail") /\ running' = [running EXCEPT ![j] = Nil]
  /\ Update(j, [jobRows[j] EXCEPT !.status = "error",
                                  !.last = IF running[j].snap = Nil THEN @ ELSE running[j].snap])
  /\ UNCHANGED <<snaps, remote, pending, retaining, taken, moved, hostAsked>>

\* recordBackupFailure: the job stays due, its last snapshot as it was.
RecordFailure(j) ==
  /\ In(j, "fail") /\ running' = [running EXCEPT ![j] = Nil]
  /\ Update(j, [jobRows[j] EXCEPT !.status = "error"])
  /\ UNCHANGED <<snaps, remote, pending, retaining, taken, moved, hostAsked>>

\* Mutant: a success forgets to release the job.
SucceedAndHold(j) ==
  /\ In(j, "succeed") /\ Proceed(j, "succeed") /\ j \notin retaining
  /\ Update(j, [jobRows[j] EXCEPT !.status = "ok", !.last = running[j].snap, !.due = FALSE])
  /\ retaining' = retaining \cup {j}
  /\ UNCHANGED <<snaps, remote, pending, taken, moved, hostAsked>>

RecordSuccess(j) ==
  /\ In(j, "succeed") /\ running' = [running EXCEPT ![j] = Nil]
  /\ Update(j, [jobRows[j] EXCEPT !.status = "ok", !.last = running[j].snap, !.due = FALSE])
  /\ retaining' = retaining \cup {j}
  /\ UNCHANGED <<snaps, remote, pending, taken, moved, hostAsked>>

\* applyRetention: all nimbackup snapshots of the source, whoever took them.
ApplyRetention(j) ==
  LET S == snaps[Source[j]] IN
  /\ j \in retaining /\ retaining' = retaining \ {j}
  /\ \E old \in IF Cardinality(S) <= 1 THEN {{}}
                ELSE IF Retain[j] = 0 THEN Expired(S) ELSE {Oldest(S, Retain[j])} :
       snaps' = [snaps EXCEPT ![Source[j]] = @ \ old]
  /\ UNCHANGED <<jobRows, remote, pending, running, taken, moved, hostBounds>>

-----------------------------------------------------------------------------
(* The administrator, the clock, the process.                              *)

\* createBackupSnapshot prunes by number, deleteBackupSnapshot what it is told.
SnapshotByHand(s) ==
  /\ JobRequest /\ taken < MaxSnaps /\ taken' = taken + 1
  /\ LET S == snaps[s] \cup {taken'} IN snaps' = [snaps EXCEPT ![s] = S \ Oldest(S, SnapshotMax)]
  /\ UNCHANGED <<jobRows, remote, pending, running, retaining, moved, hostFaults>>
DeleteSnapshot(s, n) ==
  /\ JobRequest /\ n \in snaps[s] /\ snaps' = [snaps EXCEPT ![s] = @ \ {n}]
  /\ UNCHANGED <<jobRows, remote, pending, running, retaining, taken, moved, hostFaults>>

\* PUT: another destination has received nothing, and the row keeps its last snapshot.
EditJob(j, where, on) ==
  /\ Exists(j) /\ JobRequest /\ (where \/ on # jobRows[j].enabled)
  /\ jobRows' = [jobRows EXCEPT ![j].enabled = on]
  /\ IF where THEN remote' = [remote EXCEPT ![j] = {}] /\ moved' = moved \cup {j}
     ELSE UNCHANGED <<remote, moved>>
  /\ UNCHANGED <<snaps, pending, running, retaining, taken, hostFaults>>
\* DELETE of the job, or of its device with all its jobs.
DeleteJob(j) ==
  /\ Exists(j) /\ JobRequest /\ jobRows' = [jobRows EXCEPT ![j] = Nil]
  /\ UNCHANGED <<snaps, remote, pending, running, retaining, taken, moved, hostFaults>>

\* nextRun is in the past.
BecomeDue(j) ==
  /\ Exists(j) /\ ~jobRows[j].due /\ jobRows' = [jobRows EXCEPT ![j].due = TRUE]
  /\ UNCHANGED <<snaps, remote, pending, running, retaining, taken, moved, hostBounds>>

JobsCrash ==
  /\ JobFault /\ pending' = {} /\ running' = [j \in Jobs |-> Nil] /\ retaining' = {}
  /\ UNCHANGED <<jobRows, snaps, remote, taken, moved, hostAsked>>

-----------------------------------------------------------------------------
JobsInit ==
  /\ jobRows = [j \in Jobs |-> [status |-> "ok", last |-> Nil, due |-> FALSE, enabled |-> TRUE]]
  /\ snaps = [s \in Sources |-> {}] /\ remote = [j \in Jobs |-> {}]
  /\ pending = {} /\ running = [j \in Jobs |-> Nil] /\ retaining = {}
  /\ taken = 0 /\ moved = {}

JobRun(j) == \/ TakeSnapshot(j) \/ SnapshotFails(j) \/ Send(j) \/ SendFails(j)
             \/ RecordFailure(j) \/ RecordSuccess(j)
StartOf(j) == \E p \in pending : p.job = j /\ StartRun(p)
JobsAdministrator ==
  \/ \E j \in Jobs : RunByHand(j) \/ DeleteJob(j) \/ \E where, on \in BOOLEAN : EditJob(j, where, on)
  \/ \E s \in Sources : SnapshotByHand(s) \/ \E n \in Snaps : DeleteSnapshot(s, n)
JobsNext == \/ Tick \/ JobsAdministrator \/ JobsCrash
            \/ \E j \in Jobs : StartOf(j) \/ JobRun(j) \/ ApplyRetention(j) \/ BecomeDue(j)
JobsSpec == HostInit /\ JobsInit /\ [][JobsNext]_<<jobVars, hostBounds>>

\* The pipe has a deadline, the scheduler a ticker, and time passes.
JobsFairness == /\ \A j \in Jobs : /\ WF_<<jobVars, hostBounds>>(JobRun(j))
                                   /\ WF_<<jobVars, hostBounds>>(BecomeDue(j) \/ StartOf(j))
                /\ WF_<<jobVars, hostBounds>>(Tick)

-----------------------------------------------------------------------------
\* Every variable has its type.
JobsTypeOK ==
  /\ jobRows \in [Jobs -> JobRow \cup {Nil}] /\ snaps \in [Sources -> SUBSET Snaps]
  /\ remote \in [Jobs -> SUBSET Snaps] /\ running \in [Jobs -> Runs \cup {Nil}]
  /\ pending \subseteq [job : Jobs, last : Snaps \cup {Nil}]
  /\ retaining \subseteq Jobs /\ moved \subseteq Jobs /\ taken \in 0..MaxSnaps

\* The base of the next increment is on the other side, though runs fail and crash at
\* any point, outcomes are lost and a goroutine works with what it read before.
LastHasArrived == \A j \in Jobs :
  Exists(j) /\ j \notin moved => jobRows[j].last \in remote[j] \cup {Nil}

\* A job that was cut short does not show "running" for ever: the guard is in
\* memory, the status in SQLite, and only a later run writes it again.
RunningIsResolved == \A j \in Jobs :
  (Exists(j) /\ jobRows[j].status = "running")
    ~> (Exists(j) => jobRows[j].status # "running" \/ ~jobRows[j].enabled)

\* "incremental if previous snapshot exists" (backup_executor.go:190): the code looks at
\* the row, and can ask for an increment on a snapshot that retention deleted.
IncrementalFromExisting == [][\A j \in Jobs :
  TakeSnapshot(j) /\ running[j].parent # Nil => running[j].parent \in snaps[Source[j]]]_jobVars
==============================================================================
