--------------------------- MODULE HostJobs_proofs ---------------------------
(***************************************************************************)
(* Theorems about apps, scrubs, the configuration backup and backup jobs,  *)
(* for any number of them, of workers, requests, passes and faults.        *)
(***************************************************************************)
EXTENDS MCHost, TLAPS, WellFoundedInduction

-----------------------------------------------------------------------------
(* Scrub.                                                                  *)

\* What a watcher may find: no operation is younger than the finishes counted, and
\* a watched scrub that is over has been counted since its operation was created.
WatchInv == \A o \in Scrubs :
  /\ since[o] <= finishes
  /\ worker[o] = "watch" /\ kernelScrub = "finished" => since[o] < finishes

ScrubInv == ScrubTypeOK /\ HostTypeOK /\ WatchInv

----------------------------------------------------------------------------
\* The outcome read from the kernel of a scrub that is over is the one of a closed operation.
LEMMA OutcomeIsClosed ==
  ASSUME ScrubTypeOK, ~Running
  PROVE  /\ Outcome \in Statuses \ {"in_progress"}
         /\ Outcome = "completed" => kernelScrub = "finished"
BY DEF ScrubTypeOK, Running, Outcome, Statuses

\* Closing changes the row of one operation.
LEMMA CloseChanges ==
  ASSUME NEW o \in Scrubs, NEW status \in Statuses, ScrubTypeOK, HostTypeOK, Close(o, status)
  PROVE  /\ journal' \in [Scrubs -> Statuses \cup {Nil}]
         /\ unclosed' \subseteq Scrubs /\ hostFaults' \in Nat
         /\ \A x \in Scrubs : journal'[x] # journal[x] => x = o /\ journal'[x] = status
BY HostAssumption DEF Close, ScrubTypeOK, HostTypeOK, HostFault

\* The initial state has the types and no watcher.
LEMMA ScrubInvInit == HostInit /\ ScrubInit => ScrubInv
BY HostAssumption, ScrubAssumption
DEF HostInit, ScrubInit, ScrubInv, ScrubTypeOK, HostTypeOK, WatchInv

\* Every action keeps the types, and no watcher is left with an old finish.
LEMMA ScrubInvNext == ScrubInv /\ [ScrubNext]_<<scrubVars, hostBounds>> => ScrubInv'
<1> SUFFICES ASSUME ScrubInv, [ScrubNext]_<<scrubVars, hostBounds>> PROVE ScrubInv'
  OBVIOUS
<1> USE HostAssumption, ScrubAssumption DEF ScrubInv, ScrubTypeOK, HostTypeOK, WatchInv, HostRequest, HostFault,
          hostBounds, Running
<1>1. ASSUME NEW o \in Scrubs, RequestScrub(o) PROVE ScrubInv'
  BY <1>1 DEF RequestScrub, Statuses
<1>2. ASSUME NEW o \in Scrubs, KernelStarts(o) PROVE ScrubInv'
  BY <1>2 DEF KernelStarts
<1>3. ASSUME NEW o \in Scrubs, KernelRefuses(o) PROVE ScrubInv'
  <2>1. CASE Running /\ Close(o, "failed")
    BY <1>3, <2>1, CloseChanges DEF KernelRefuses, Statuses
  <2>2. CASE HostFault /\ journal' = [journal EXCEPT ![o] = "failed"] /\ unclosed' = unclosed \ {o}
    BY <1>3, <2>2 DEF KernelRefuses, Statuses
  <2> QED BY <1>3, <2>1, <2>2 DEF KernelRefuses
<1>4. ASSUME NEW o \in Scrubs, Watch(o) PROVE ScrubInv'
  BY <1>4, OutcomeIsClosed, CloseChanges DEF Watch
<1>5. ASSUME NEW o \in Scrubs, WatchDeadline(o) PROVE ScrubInv'
  <2>1. Close(o, "failed") /\ "failed" \in Statuses
    BY <1>5 DEF WatchDeadline, Statuses
  <2> QED BY <1>5, <2>1, CloseChanges DEF WatchDeadline
<1>6. CASE UntrackedScrub
  BY <1>6 DEF UntrackedScrub
<1>7. CASE ScrubFinishes
  BY <1>7 DEF ScrubFinishes
<1>8. CASE ScrubStops
  BY <1>8 DEF ScrubStops
<1>9. CASE ScrubDaemonCrash \/ PowerCut
  <2>1. worker' = [o \in Scrubs |-> Nil] /\ orphans' = {} /\ scrubDaemon' = FALSE
        /\ UNCHANGED <<journal, finishes, since, unclosed, hostAsked>> /\ HostFault
    BY <1>9 DEF ScrubDaemonCrash, PowerCut, DaemonStops
  <2>2. kernelScrub' \in {kernelScrub, "interrupted"}
    BY <1>9 DEF ScrubDaemonCrash, PowerCut
  <2>3. HostTypeOK'
    BY <2>1
  <2>4. worker' \in [Scrubs -> {Nil, "start", "watch"}]
    BY <2>1
  <2>5. kernelScrub' \in {"none", "running", "finished", "aborted", "interrupted"}
    BY <2>2
  <2>6. ScrubTypeOK'
    BY <2>1, <2>4, <2>5
  <2>7. WatchInv'
    BY <2>1
  <2> QED BY <2>3, <2>6, <2>7
<1>10. CASE ScrubBoot
  BY <1>10 DEF ScrubBoot
<1>11. ASSUME NEW o \in Scrubs, ReadoptScrub(o) PROVE ScrubInv'
  <2>1. CASE /\ journal' = [journal EXCEPT ![o] = "in_progress"]
             /\ worker' = [worker EXCEPT ![o] = "watch"]
             /\ unclosed' = unclosed \ {o} /\ UNCHANGED hostFaults
    BY <1>11, <2>1 DEF ReadoptScrub, Resolving, Statuses
  <2>2. CASE HostFault /\ unclosed' = unclosed \cup {o} /\ UNCHANGED <<journal, worker>>
    BY <1>11, <2>2 DEF ReadoptScrub, Resolving
  <2> QED BY <1>11, <2>1, <2>2 DEF ReadoptScrub
<1>12. ASSUME NEW o \in Scrubs, ResolveScrub(o) PROVE ScrubInv'
  <2>1. CASE ~Running /\ Close(o, Outcome)
    BY <1>12, <2>1, OutcomeIsClosed, CloseChanges DEF ResolveScrub, Resolving
  <2>2. CASE HostFault /\ journal' = [journal EXCEPT ![o] = "failed"] /\ unclosed' = unclosed \ {o}
    BY <1>12, <2>2 DEF ResolveScrub, Resolving, Statuses
  <2> QED BY <1>12, <2>1, <2>2 DEF ResolveScrub
<1>13. CASE UNCHANGED <<scrubVars, hostBounds>>
  BY <1>13 DEF scrubVars
<1> QED
  BY <1>1, <1>2, <1>3, <1>4, <1>5, <1>6, <1>7, <1>8, <1>9, <1>10, <1>11, <1>12, <1>13
  DEF ScrubNext, ScrubWorker, ScrubRecovery

\* The invariant holds in every reachable state.
LEMMA ScrubInvariance == ScrubSpec => []ScrubInv
BY ScrubInvInit, ScrubInvNext, PTL DEF ScrubSpec

\* Every variable of a scrub, of its workers and of the boot always has its type.
THEOREM ScrubTypes == ScrubSpec => []ScrubTypeOK
<1>1. ScrubInv => ScrubTypeOK
  BY DEF ScrubInv
<1> QED BY ScrubInvariance, <1>1, PTL

\* A watcher completes an operation only when a scrub finished while it was open.
LEMMA OutcomeStep ==
  ASSUME ScrubInv, [ScrubNext]_<<scrubVars, hostBounds>>, NEW x \in Scrubs,
         worker[x] = "watch", ScrubOpen(x), journal'[x] = "completed"
  PROVE  finishes > since[x]
<1> USE DEF ScrubInv, WatchInv, Running, ScrubOpen
<1>0. finishes \in Nat /\ since[x] \in Nat
  BY DEF ScrubTypeOK
<1>1. ASSUME NEW o \in Scrubs, Close(o, Outcome), ~Running PROVE kernelScrub = "finished"
  BY <1>1, OutcomeIsClosed, CloseChanges
<1>2. ASSUME NEW o \in Scrubs, Close(o, "failed") PROVE FALSE
  BY <1>2, CloseChanges DEF Statuses
<1>3. ASSUME NEW o \in Scrubs, RequestScrub(o) \/ ScrubWorker(o) PROVE finishes > since[x]
  <2>1. CASE Watch(o)
    BY <1>0, <1>1, <2>1 DEF Watch
  <2>2. CASE RequestScrub(o) \/ KernelStarts(o)
    BY <2>2 DEF RequestScrub, KernelStarts, ScrubTypeOK
  <2>3. CASE KernelRefuses(o) \/ WatchDeadline(o)
    BY <1>2, <2>3 DEF KernelRefuses, WatchDeadline, ScrubTypeOK
  <2> QED BY <1>3, <2>1, <2>2, <2>3 DEF ScrubWorker
<1>4. ASSUME NEW o \in Scrubs, ReadoptScrub(o) \/ ResolveScrub(o) PROVE finishes > since[x]
  <2>1. CASE ReadoptScrub(o)
    BY <2>1 DEF ReadoptScrub, ScrubTypeOK
  <2>2. CASE ResolveScrub(o)
    BY <1>0, <1>1, <2>2 DEF ResolveScrub, ScrubTypeOK
  <2> QED BY <1>4, <2>1, <2>2
<1>5. CASE UNCHANGED journal
  BY <1>5
<1>6. CASE UntrackedScrub \/ ScrubFinishes \/ ScrubStops \/ ScrubDaemonCrash \/ PowerCut \/ ScrubBoot
  BY <1>5, <1>6 DEF UntrackedScrub, ScrubFinishes, ScrubStops, ScrubDaemonCrash, PowerCut,
       DaemonStops, ScrubBoot
<1> QED
  BY <1>3, <1>4, <1>5, <1>6 DEF ScrubNext, ScrubRecovery, scrubVars

\* "el desenlace real" (storage_btrfs_features.go:286), whatever the number of scrubs.
THEOREM WatchersTellTheTruth == ScrubSpec => WatchedOutcomeIsReal
<1>1. ScrubInv /\ [ScrubNext]_<<scrubVars, hostBounds>> =>
        [\A o \in Scrubs : worker[o] = "watch" /\ ScrubOpen(o) /\ journal'[o] = "completed"
           => finishes > since[o]]_scrubVars
  BY OutcomeStep
<1> QED BY ScrubInvariance, <1>1, PTL DEF ScrubSpec, WatchedOutcomeIsReal

-----------------------------------------------------------------------------
(* BackupJobs.                                                             *)

\* A run that has sent has its snapshot on the other side, unless the job was moved.
SentInv == \A j \in Jobs : running[j] # Nil =>
  /\ running[j].pc \in {"send", "succeed"} => running[j].snap \in Snaps
  /\ running[j].pc = "succeed" /\ j \notin moved => running[j].snap \in remote[j]

BackupInv == JobsTypeOK /\ HostTypeOK /\ SentInv /\ LastHasArrived

----------------------------------------------------------------------------
\* A row keeps its last snapshot in every change but that of a success.
LEMMA StatusChange ==
  ASSUME NEW r \in JobRow, NEW s \in {"ok", "running", "error"}
  PROVE  [r EXCEPT !.status = s] \in JobRow /\ [r EXCEPT !.status = s].last = r.last
BY DEF JobRow

\* A success sets it.
LEMMA SuccessChange ==
  ASSUME NEW r \in JobRow, NEW l \in Snaps
  PROVE  LET new == [r EXCEPT !.status = "ok", !.last = l, !.due = FALSE]
         IN new \in JobRow /\ new.last = l
BY DEF JobRow

\* Whether a job is due, or enabled, does not matter to it.
LEMMA FlagChange ==
  ASSUME NEW r \in JobRow, NEW b \in BOOLEAN
  PROVE  /\ [r EXCEPT !.enabled = b] \in JobRow /\ [r EXCEPT !.enabled = b].last = r.last
         /\ [r EXCEPT !.due = b] \in JobRow /\ [r EXCEPT !.due = b].last = r.last
BY DEF JobRow

\* What Update does to the rows.
LEMMA UpdateRows ==
  ASSUME JobsTypeOK, HostTypeOK, NEW j \in Jobs, NEW row, Exists(j) => row \in JobRow, Update(j, row)
  PROVE  /\ jobRows' \in [Jobs -> JobRow \cup {Nil}] /\ hostFaults' \in Nat
         /\ \A x \in Jobs : \/ jobRows'[x] = jobRows[x]
                            \/ x = j /\ Exists(j) /\ jobRows'[x] = row
BY HostAssumption DEF JobsTypeOK, HostTypeOK, Update, Exists, JobFault, HostFault

\* The initial state: rows without a last snapshot, no run.
LEMMA BackupInvInit == HostInit /\ JobsInit => BackupInv
<1> SUFFICES ASSUME HostInit, JobsInit PROVE BackupInv
  OBVIOUS
<1> USE HostAssumption, JobsAssumption DEF HostInit, JobsInit
<1>1. [status |-> "ok", last |-> Nil, due |-> FALSE, enabled |-> TRUE] \in JobRow
  BY DEF JobRow
<1>2. JobsTypeOK /\ HostTypeOK
  BY <1>1 DEF JobsTypeOK, HostTypeOK
<1>3. SentInv /\ LastHasArrived
  BY DEF SentInv, LastHasArrived
<1> QED BY <1>2, <1>3 DEF BackupInv

----------------------------------------------------------------------------
\* A run moves on: its record changes, or ends, and its row with it.
LEMMA RunMoves ==
  ASSUME BackupInv, NEW j \in Jobs, NEW new \in Runs \cup {Nil},
         running' = [running EXCEPT ![j] = new],
         new # Nil => /\ new.pc \in {"send", "succeed"} => new.snap \in Snaps
                      /\ new.pc = "succeed" /\ j \notin moved => new.snap \in remote'[j],
         remote' \in [Jobs -> SUBSET Snaps], \A x \in Jobs : remote[x] \subseteq remote'[x],
         jobRows' \in [Jobs -> JobRow \cup {Nil}],
         \A x \in Jobs : \/ jobRows'[x] = jobRows[x]
                         \/ jobRows'[x] = Nil
                         \/ jobRows[x] # Nil /\ jobRows'[x].last = jobRows[x].last
                         \/ x \notin moved => jobRows'[x].last \in remote'[x],
         pending' \subseteq pending, retaining' \subseteq Jobs, UNCHANGED moved,
         snaps' \in [Sources -> SUBSET Snaps], taken' \in 0..MaxSnaps,
         hostAsked' \in Nat, hostFaults' \in Nat
  PROVE  BackupInv'
<1> USE HostAssumption DEF BackupInv
<1>1. running' \in [Jobs -> Runs \cup {Nil}]
  BY DEF JobsTypeOK
<1>2. \A x \in Jobs : running'[x] = IF x = j THEN new ELSE running[x]
  BY DEF JobsTypeOK
<1>3. SentInv'
  BY <1>2 DEF SentInv, Snaps
<1>4. LastHasArrived'
  BY DEF LastHasArrived, Exists
<1>5. JobsTypeOK' /\ HostTypeOK'
  BY <1>1 DEF JobsTypeOK, HostTypeOK, Snaps
<1> QED BY <1>3, <1>4, <1>5

\* The steps of a run.
LEMMA RunKeeps ==
  ASSUME BackupInv, NEW j \in Jobs, JobRun(j) \/ StartOf(j)
  PROVE  BackupInv'
<1> USE HostAssumption, JobsAssumption DEF In, Proceed
<1>0. /\ running \in [Jobs -> Runs \cup {Nil}] /\ jobRows \in [Jobs -> JobRow \cup {Nil}]
      /\ remote \in [Jobs -> SUBSET Snaps] /\ snaps \in [Sources -> SUBSET Snaps]
      /\ pending \subseteq [job : Jobs, last : Snaps \cup {Nil}] /\ retaining \subseteq Jobs
      /\ taken \in 0..MaxSnaps /\ hostAsked \in Nat /\ hostFaults \in Nat
  BY DEF BackupInv, JobsTypeOK, HostTypeOK
<1>1. CASE TakeSnapshot(j)
  <2>1. running[j] \in Runs /\ taken + 1 \in Snaps
    BY <1>0, <1>1 DEF TakeSnapshot, Snaps
  <2> DEFINE new == [running[j] EXCEPT !.pc = "send", !.snap = taken + 1]
  <2>2. new \in Runs /\ new.pc = "send" /\ new.snap \in Snaps
    BY <2>1 DEF Runs
  <2>3. running' = [running EXCEPT ![j] = new]
    BY <1>0, <1>1 DEF TakeSnapshot
  <2> HIDE DEF new
  <2>4. snaps' \in [Sources -> SUBSET Snaps] /\ taken' \in 0..MaxSnaps
    BY <1>0, <1>1, <2>1 DEF TakeSnapshot
  <2> QED BY <1>0, <1>1, <2>2, <2>3, <2>4, RunMoves DEF TakeSnapshot, hostBounds
<1>2. CASE SnapshotFails(j) \/ SendFails(j)
  <2>1. running[j] \in Runs
    BY <1>0, <1>2 DEF SnapshotFails, SendFails
  <2> DEFINE new == [running[j] EXCEPT !.pc = "fail"]
  <2>2. new \in Runs /\ new.pc = "fail"
    BY <2>1 DEF Runs
  <2>3. running' = [running EXCEPT ![j] = new]
    BY <1>0, <1>2 DEF SnapshotFails, SendFails
  <2> HIDE DEF new
  <2>4. hostFaults' \in Nat
    BY <1>0, <1>2 DEF SnapshotFails, SendFails, JobFault, HostFault
  <2> QED BY <1>0, <1>2, <2>2, <2>3, <2>4, RunMoves, Zenon DEF SnapshotFails, SendFails
<1>3. CASE Send(j)
  <2>1. running[j] \in Runs /\ running[j].snap \in Snaps
    BY <1>0, <1>3 DEF Send, BackupInv, SentInv
  <2> DEFINE new == [running[j] EXCEPT !.pc = "succeed"]
  <2>2. new \in Runs /\ new.pc = "succeed" /\ new.snap = running[j].snap
    BY <2>1 DEF Runs
  <2>3. running' = [running EXCEPT ![j] = new]
    BY <1>0, <1>3 DEF Send
  <2> HIDE DEF new
  <2>4. /\ remote' \in [Jobs -> SUBSET Snaps] /\ running[j].snap \in remote'[j]
        /\ \A x \in Jobs : remote[x] \subseteq remote'[x]
    BY <1>0, <1>3, <2>1 DEF Send
  <2> QED BY <1>0, <1>3, <2>1, <2>2, <2>3, <2>4, RunMoves DEF Send, hostBounds
<1>4. CASE RecordFailure(j)
  <2>1. PICK row : /\ row = [jobRows[j] EXCEPT !.status = "error"] /\ Update(j, row)
    BY <1>4 DEF RecordFailure
  <2>2. Exists(j) => row \in JobRow /\ row.last = jobRows[j].last
    <3> SUFFICES ASSUME Exists(j) PROVE row \in JobRow /\ row.last = jobRows[j].last
      OBVIOUS
    <3>1. jobRows[j] \in JobRow
      BY <1>0 DEF Exists
    <3> QED BY <2>1, <3>1, StatusChange
  <2>3. /\ jobRows' \in [Jobs -> JobRow \cup {Nil}] /\ hostFaults' \in Nat
        /\ \A x \in Jobs : jobRows'[x] = jobRows[x] \/ (x = j /\ Exists(j) /\ jobRows'[x] = row)
    BY <2>1, <2>2, UpdateRows DEF BackupInv
  <2> QED BY <1>0, <1>4, <2>2, <2>3, RunMoves DEF RecordFailure, Exists
<1>5. CASE RecordSuccess(j)
  <2>1. running[j] \in Runs /\ running[j].snap \in Snaps /\ (j \notin moved => running[j].snap \in remote[j])
    BY <1>0, <1>5 DEF RecordSuccess, BackupInv, SentInv
  <2>2. PICK row : /\ row = [jobRows[j] EXCEPT !.status = "ok", !.last = running[j].snap, !.due = FALSE]
                   /\ Update(j, row)
    BY <1>5 DEF RecordSuccess
  <2>3. Exists(j) => row \in JobRow /\ row.last = running[j].snap
    <3> SUFFICES ASSUME Exists(j) PROVE row \in JobRow /\ row.last = running[j].snap
      OBVIOUS
    <3>1. jobRows[j] \in JobRow
      BY <1>0 DEF Exists
    <3>2. LET new == [jobRows[j] EXCEPT !.status = "ok", !.last = running[j].snap, !.due = FALSE]
          IN new \in JobRow /\ new.last = running[j].snap
      BY <2>1, <3>1, SuccessChange, Zenon
    <3> QED BY <2>2, <3>2
  <2>4. /\ jobRows' \in [Jobs -> JobRow \cup {Nil}] /\ hostFaults' \in Nat
        /\ \A x \in Jobs : jobRows'[x] = jobRows[x] \/ (x = j /\ Exists(j) /\ jobRows'[x] = row)
    BY <2>2, <2>3, UpdateRows DEF BackupInv
  <2>5. retaining' \subseteq Jobs
    BY <1>0, <1>5 DEF RecordSuccess
  <2> QED BY <1>0, <1>5, <2>1, <2>3, <2>4, <2>5, RunMoves DEF RecordSuccess, Exists
<1>6. CASE StartOf(j)
  <2>1. PICK p \in pending : p.job = j /\ StartRun(p)
    BY <1>6 DEF StartOf
  <2>2. p.last \in Snaps \cup {Nil} /\ pending' \subseteq pending
    BY <1>0, <2>1 DEF StartRun
  <2>3. CASE running[j] # Nil
    <3>1. running' = [running EXCEPT ![j] = running[j]] /\ UNCHANGED <<jobRows, hostFaults>>
      BY <1>0, <2>1, <2>3 DEF StartRun
    <3> QED BY <1>0, <2>1, <2>2, <2>3, <3>1, RunMoves DEF StartRun, BackupInv, SentInv
  <2>4. CASE running[j] = Nil
    <3>1. PICK row : row = [jobRows[j] EXCEPT !.status = "running"] /\ Update(j, row)
      BY <2>1, <2>4 DEF StartRun
    <3>2. Exists(j) => row \in JobRow /\ row.last = jobRows[j].last
      <4> SUFFICES ASSUME Exists(j) PROVE row \in JobRow /\ row.last = jobRows[j].last
        OBVIOUS
      <4>1. jobRows[j] \in JobRow
        BY <1>0 DEF Exists
      <4> QED BY <3>1, <4>1, StatusChange
    <3>3. /\ jobRows' \in [Jobs -> JobRow \cup {Nil}] /\ hostFaults' \in Nat
          /\ \A x \in Jobs : jobRows'[x] = jobRows[x] \/ (x = j /\ Exists(j) /\ jobRows'[x] = row)
      BY <3>1, <3>2, UpdateRows DEF BackupInv
    <3>4. PICK pc \in {"snapshot", "fail"} :
            running' = [running EXCEPT ![j] = [pc |-> pc, parent |-> p.last, snap |-> Nil]]
      BY <2>1, <2>4 DEF StartRun
    <3> DEFINE new == [pc |-> pc, parent |-> p.last, snap |-> Nil]
    <3>5. new \in Runs /\ new.pc \notin {"send", "succeed"}
      BY <2>2 DEF Runs
    <3>6. running' = [running EXCEPT ![j] = new]
      BY <3>4
    <3> HIDE DEF new
    <3> QED BY <1>0, <2>1, <2>2, <3>2, <3>3, <3>5, <3>6, RunMoves DEF StartRun, Exists
  <2> QED BY <2>3, <2>4
<1> QED BY <1>1, <1>2, <1>3, <1>4, <1>5, <1>6 DEF JobRun

\* The requests, the clock, the retention and the end of the process leave a run that
\* goes on as it is, and a row its last snapshot, or its job is moved.
LEMMA AroundKeeps ==
  ASSUME BackupInv,
         \/ Tick \/ JobsAdministrator \/ JobsCrash
         \/ \E j \in Jobs : ApplyRetention(j) \/ BecomeDue(j)
  PROVE  BackupInv'
<1> USE HostAssumption, JobsAssumption
<1>0. /\ running \in [Jobs -> Runs \cup {Nil}] /\ jobRows \in [Jobs -> JobRow \cup {Nil}]
      /\ remote \in [Jobs -> SUBSET Snaps] /\ snaps \in [Sources -> SUBSET Snaps]
      /\ pending \subseteq [job : Jobs, last : Snaps \cup {Nil}] /\ retaining \subseteq Jobs
      /\ moved \subseteq Jobs /\ taken \in 0..MaxSnaps /\ hostAsked \in Nat /\ hostFaults \in Nat
  BY DEF BackupInv, JobsTypeOK, HostTypeOK
<1>1. \A j \in Jobs : Exists(j) => jobRows[j].last \in Snaps \cup {Nil}
  BY <1>0 DEF Exists, JobRow
<1>2. /\ jobRows' \in [Jobs -> JobRow \cup {Nil}] /\ moved \subseteq moved' /\ moved' \subseteq Jobs
      /\ remote' \in [Jobs -> SUBSET Snaps] /\ \A x \in Jobs : remote'[x] = remote[x] \/ x \in moved'
      /\ \A x \in Jobs : jobRows'[x] = Nil \/ (jobRows[x] # Nil /\ jobRows'[x].last = jobRows[x].last)
  <2> DEFINE Goal == <1>2!:
  <2>1. ASSUME UNCHANGED <<jobRows, remote, moved>> PROVE Goal
    BY <1>0, <2>1
  <2>2. CASE Tick \/ JobsCrash \/ \E j \in Jobs : ApplyRetention(j) \/ RunByHand(j)
    BY <2>1, <2>2 DEF Tick, JobsCrash, ApplyRetention, RunByHand
  <2>3. CASE \E s \in Sources : SnapshotByHand(s) \/ \E n \in Snaps : DeleteSnapshot(s, n)
    BY <2>1, <2>3 DEF SnapshotByHand, DeleteSnapshot
  <2>4. ASSUME NEW j \in Jobs, DeleteJob(j) PROVE Goal
    BY <1>0, <2>4 DEF DeleteJob
  <2>5. ASSUME NEW j \in Jobs, BecomeDue(j) PROVE Goal
    <3>1. jobRows[j] \in JobRow
      BY <1>0, <2>5 DEF BecomeDue, Exists
    <3>2. jobRows' = [jobRows EXCEPT ![j] = [jobRows[j] EXCEPT !.due = TRUE]]
      BY <1>0, <2>5 DEF BecomeDue
    <3>3. LET new == [jobRows[j] EXCEPT !.due = TRUE] IN new \in JobRow /\ new.last = jobRows[j].last
      BY <3>1, FlagChange
    <3>4. jobRows[j] # Nil /\ UNCHANGED <<remote, moved>>
      BY <2>5 DEF BecomeDue, Exists
    <3> DEFINE new == [jobRows[j] EXCEPT !.due = TRUE]
    <3>5. jobRows' = [jobRows EXCEPT ![j] = new] /\ new \in JobRow /\ new.last = jobRows[j].last
      BY <3>2, <3>3
    <3> HIDE DEF new
    <3> QED BY <1>0, <3>4, <3>5
  <2>6. ASSUME NEW j \in Jobs, NEW where \in BOOLEAN, NEW on \in BOOLEAN, EditJob(j, where, on) PROVE Goal
    <3>1. jobRows[j] \in JobRow /\ jobRows[j] # Nil
      BY <1>0, <2>6 DEF EditJob, Exists
    <3>2. jobRows' = [jobRows EXCEPT ![j] = [jobRows[j] EXCEPT !.enabled = on]]
      BY <1>0, <2>6 DEF EditJob
    <3>3. \/ remote' = [remote EXCEPT ![j] = {}] /\ moved' = moved \cup {j}
          \/ UNCHANGED <<remote, moved>>
      BY <2>6 DEF EditJob
    <3> DEFINE new == [jobRows[j] EXCEPT !.enabled = on]
    <3>4. jobRows' = [jobRows EXCEPT ![j] = new] /\ new \in JobRow /\ new.last = jobRows[j].last
      BY <3>1, <3>2, FlagChange
    <3> HIDE DEF new
    <3> QED BY <1>0, <3>1, <3>3, <3>4
  <2> QED BY <2>2, <2>3, <2>4, <2>5, <2>6 DEF JobsAdministrator
<1>3. UNCHANGED running \/ running' = [j \in Jobs |-> Nil]
  BY DEF Tick, JobsCrash, JobsAdministrator, RunByHand, DeleteJob, EditJob, SnapshotByHand, DeleteSnapshot,
     ApplyRetention, BecomeDue
<1>4. SentInv'
  BY <1>0, <1>2, <1>3 DEF BackupInv, SentInv, Snaps
<1>5. LastHasArrived'
  BY <1>2 DEF BackupInv, LastHasArrived, Exists
<1>6. pending' \subseteq [job : Jobs, last : Snaps \cup {Nil}] /\ retaining' \subseteq Jobs
  <2>1. CASE Tick
    BY <1>0, <1>1, <2>1 DEF Tick
  <2>2. ASSUME NEW j \in Jobs, RunByHand(j) PROVE <1>6!:
    BY <1>0, <1>1, <2>2 DEF RunByHand, Launch
  <2>3. CASE pending' \subseteq pending /\ retaining' \subseteq retaining
    BY <1>0, <2>3
  <2> QED BY <2>1, <2>2, <2>3 DEF JobsCrash, JobsAdministrator, DeleteJob, EditJob, SnapshotByHand,
            DeleteSnapshot, ApplyRetention, BecomeDue
<1>7. taken' \in 0..MaxSnaps /\ hostAsked' \in Nat /\ hostFaults' \in Nat
  <2> USE <1>0 DEF JobRequest, HostRequest, JobFault, HostFault, hostBounds
  <2>1. CASE Tick \/ JobsCrash
    BY <2>1 DEF Tick, JobsCrash
  <2>2. CASE \E j \in Jobs : ApplyRetention(j) \/ BecomeDue(j)
    BY <2>2 DEF ApplyRetention, BecomeDue
  <2>3. CASE \E j \in Jobs : RunByHand(j) \/ DeleteJob(j) \/ \E where, on \in BOOLEAN : EditJob(j, where, on)
    BY <2>3 DEF RunByHand, DeleteJob, EditJob
  <2>4. CASE \E s \in Sources : SnapshotByHand(s) \/ \E n \in Snaps : DeleteSnapshot(s, n)
    BY <2>4 DEF SnapshotByHand, DeleteSnapshot
  <2> QED BY <2>1, <2>2, <2>3, <2>4 DEF JobsAdministrator
<1>8. snaps' \in [Sources -> SUBSET Snaps]
  <2>1. CASE Tick \/ JobsCrash \/ \E j \in Jobs : \/ BecomeDue(j) \/ RunByHand(j) \/ DeleteJob(j)
                                                 \/ \E where, on \in BOOLEAN : EditJob(j, where, on)
    BY <1>0, <2>1 DEF Tick, JobsCrash, BecomeDue, RunByHand, DeleteJob, EditJob
  <2>2. ASSUME NEW j \in Jobs, ApplyRetention(j) PROVE snaps' \in [Sources -> SUBSET Snaps]
    BY <1>0, <2>2 DEF ApplyRetention
  <2>3. ASSUME NEW s \in Sources, SnapshotByHand(s) PROVE snaps' \in [Sources -> SUBSET Snaps]
    BY <1>0, <2>3 DEF SnapshotByHand, Snaps
  <2>4. ASSUME NEW s \in Sources, NEW n \in Snaps, DeleteSnapshot(s, n) PROVE snaps' \in [Sources -> SUBSET Snaps]
    BY <1>0, <2>4 DEF DeleteSnapshot
  <2> QED BY <2>1, <2>2, <2>3, <2>4 DEF JobsAdministrator
<1>9. running' \in [Jobs -> Runs \cup {Nil}]
  BY <1>0, <1>3
<1> QED BY <1>2, <1>4, <1>5, <1>6, <1>7, <1>8, <1>9 DEF BackupInv, JobsTypeOK, HostTypeOK, Snaps

\* Every step keeps the invariant.
LEMMA BackupInvNext == BackupInv /\ [JobsNext]_<<jobVars, hostBounds>> => BackupInv'
<1> SUFFICES ASSUME BackupInv, [JobsNext]_<<jobVars, hostBounds>> PROVE BackupInv'
  OBVIOUS
<1>1. CASE UNCHANGED <<jobVars, hostBounds>>
  BY <1>1 DEF BackupInv, jobVars, hostBounds, JobsTypeOK, HostTypeOK, SentInv, LastHasArrived, Exists, Snaps
<1>2. CASE JobsNext
  BY <1>2, RunKeeps, AroundKeeps DEF JobsNext
<1> QED BY <1>1, <1>2

\* The invariant holds in every reachable state.
LEMMA BackupInvariance == JobsSpec => []BackupInv
BY BackupInvInit, BackupInvNext, PTL DEF JobsSpec

\* The rows, the snapshots and the goroutines of the jobs keep their types.
THEOREM JobTypes == JobsSpec => []JobsTypeOK
<1>1. BackupInv => JobsTypeOK
  BY DEF BackupInv
<1> QED BY BackupInvariance, <1>1, PTL

\* The base of the next increment has arrived at the destination.
THEOREM BasesHaveArrived == JobsSpec => []LastHasArrived
<1>1. BackupInv => LastHasArrived
  BY DEF BackupInv
<1> QED BY BackupInvariance, <1>1, PTL
-----------------------------------------------------------------------------
(* Apps.  The types are not inductive by themselves: what a worker is at    *)
(* says what it has in its hand, and a pass has a list while there is one.  *)

JobSteps == {"compose", "up", "register", "down", "wipe", "forget", "rewrite", "rollback",
             "persist", "mark", "succeeded", "failed"}
JobKinds == {"install", "run", "uninstall", "access", "update", "rebuild"}
JobOK(j) ==
  /\ j.pc \in {"rewrite", "rollback"} => j.file # None
  /\ j.pc \in {"mark", "succeeded", "failed"} => j.op # None
  /\ j.kind = "access" => j.file # None
  /\ j.kind = "update" => j.op # None
RowTypes == [Apps -> Row \cup {None}]
FileTypes == [Apps -> File \cup {None, Empty}]
ContainerTypes == [Apps -> Containers \cup {None}]
OpTypes == [Ops -> {None, "pending", "running", "succeeded", "failed"}]
PassTypes == [Passes -> [pc : {"rows", "import"}, apps : (SUBSET Apps) \ {{}}] \cup {None}]
SweepTypes ==
  [pc : {"look"}, apps : (SUBSET Apps) \ {{}}] \cup [pc : {"delete"}, apps : (SUBSET Apps) \ {{}}, app : Apps] \cup {None}
ProcOK ==
  /\ proc \in [Workers -> AppJobs \cup {None}]
  /\ \A w \in Workers : proc[w] # None => JobOK(proc[w])
AppInv ==
  /\ rows \in RowTypes /\ files \in FileTypes /\ ctrs \in ContainerTypes /\ ops \in OpTypes /\ ProcOK
  /\ rcn \in PassTypes /\ sweep \in SweepTypes /\ lost \subseteq Ops

LEMMA AppInvTypes == AppInv => TypeOK
<1> SUFFICES ASSUME AppInv PROVE TypeOK
  OBVIOUS
<1>1. /\ \A w \in Workers : At(w, "rewrite") \/ At(w, "rollback") => proc[w].file # None
      /\ \A w \in Workers : At(w, "mark") \/ At(w, "succeeded") \/ At(w, "failed") => proc[w].op # None
  BY DEF AppInv, ProcOK, At, JobOK
<1>2. ASSUME NEW p \in Passes, rcn[p] # None PROVE rcn[p].apps \subseteq Apps /\ rcn[p].apps # {}
  <2>1. rcn[p] \in [pc : {"rows", "import"}, apps : (SUBSET Apps) \ {{}}]
    BY <1>2 DEF AppInv, PassTypes
  <2> QED
    BY <2>1
<1>3. ASSUME sweep # None PROVE sweep.apps \subseteq Apps /\ sweep.apps # {}
  <2>1. \/ sweep \in [pc : {"look"}, apps : (SUBSET Apps) \ {{}}]
        \/ sweep \in [pc : {"delete"}, apps : (SUBSET Apps) \ {{}}, app : Apps]
    BY <1>3 DEF AppInv, SweepTypes
  <2> QED
    BY <2>1
<1> QED
  BY <1>1, <1>2, <1>3 DEF TypeOK, AppInv, RowTypes, FileTypes, ContainerTypes, OpTypes, ProcOK

LEMMA AppStarts == ASSUME Init PROVE AppInv
<1>1. PICK G \in SUBSET Apps :
        rows = [a \in Apps |-> IF a \notin G THEN None ELSE
                  [deleting |-> FALSE, port |-> Preferred[a], locked |-> FALSE, old |-> TRUE]]
  BY DEF Init
<1>2. \A a \in Apps : Preferred[a] \in Ports
  BY DEF Ports
<1>3. rows \in RowTypes
  BY <1>1, <1>2 DEF RowTypes, Row
<1>4. /\ files = [a \in Apps |-> None] /\ ctrs = [a \in Apps |-> None] /\ ops = [o \in Ops |-> None]
      /\ proc = [w \in Workers |-> None] /\ rcn = [p \in Passes |-> None] /\ sweep = None /\ lost = {}
  BY DEF Init
<1>5. files \in FileTypes /\ ctrs \in ContainerTypes /\ ops \in OpTypes /\ rcn \in PassTypes /\ sweep \in SweepTypes
  BY <1>4 DEF FileTypes, ContainerTypes, OpTypes, PassTypes, SweepTypes
<1>6. ProcOK
  BY <1>4 DEF ProcOK
<1> QED
  BY <1>3, <1>4, <1>5, <1>6 DEF AppInv

\* What a worker does has the fields of a job.
LEMMA AppJobIs ==
  ASSUME ProcOK, NEW w \in Workers, proc[w] # None
  PROVE  /\ proc[w] \in AppJobs /\ JobOK(proc[w]) /\ proc[w].app \in Apps /\ proc[w].port \in Ports
         /\ proc[w].pc \in JobSteps /\ proc[w].file \in File \cup {None} /\ proc[w].lock \in BOOLEAN
         /\ proc[w].op \in Ops \cup {None} /\ proc[w].kind \in JobKinds
<1>1. proc[w] \in AppJobs /\ JobOK(proc[w])
  BY DEF ProcOK
<1> QED
  BY <1>1 DEF AppJobs, JobSteps, JobKinds
LEMMA AppJobBegins ==
  ASSUME ProcOK, NEW w \in Workers, NEW j \in AppJobs \cup {None}, j # None => JobOK(j), proc' = [proc EXCEPT ![w] = j]
  PROVE  ProcOK'
<1>1. proc' \in [Workers -> AppJobs \cup {None}] /\ \A v \in Workers : proc'[v] = IF v = w THEN j ELSE proc[v]
  BY DEF ProcOK
<1>2. \A v \in Workers : proc'[v] # None => JobOK(proc'[v])
  BY <1>1 DEF ProcOK
<1> QED
  BY <1>1, <1>2 DEF ProcOK, JobOK
LEMMA AppJobEnds ==
  ASSUME ProcOK, NEW w \in Workers, End(w)
  PROVE  ProcOK'
<1>1. PICK j : j = None
  OBVIOUS
<1> QED
  BY <1>1, AppJobBegins DEF End
LEMMA AppJobGoes ==
  ASSUME ProcOK, NEW w \in Workers, proc[w] # None, NEW pc \in JobSteps, Goto(w, pc),
         pc \in {"rewrite", "rollback"} => proc[w].file # None,
         pc \in {"mark", "succeeded", "failed"} => proc[w].op # None
  PROVE  ProcOK'
<1>1. PICK j : j = [proc[w] EXCEPT !.pc = pc]
  OBVIOUS
<1>2. j \in AppJobs /\ j.pc = pc /\ j.file = proc[w].file /\ j.op = proc[w].op /\ j.kind = proc[w].kind
  BY <1>1, AppJobIs DEF AppJobs, JobSteps
<1>3. JobOK(j)
  BY <1>2, AppJobIs DEF JobOK
<1>4. proc' = [proc EXCEPT ![w] = j]
  BY <1>1 DEF Goto
<1> QED
  BY <1>2, <1>3, <1>4, AppJobBegins
\* The job a request begins with.
LEMMA AppJobOf ==
  ASSUME NEW kind \in JobKinds, NEW a \in Apps, NEW pc \in JobSteps, NEW j,
         NEW port \in Ports, NEW file \in File \cup {None}, NEW lock \in BOOLEAN, NEW op \in Ops \cup {None},
         j = [kind |-> kind, app |-> a, pc |-> pc, port |-> port, file |-> file, lock |-> lock, op |-> op]
  PROVE  j \in AppJobs /\ j.pc = pc /\ j.file = file /\ j.op = op /\ j.kind = kind
BY DEF AppJobs, JobKinds, JobSteps
\* Every non-empty set of ports has a smallest one.
Below == {ss \in Nat \X Nat : ss[1] < ss[2]}
LEMMA BelowIsWellFounded == IsWellFoundedOn(Below, Nat)
<1>1. OpToRel(<, Nat) = Below
  BY Zenon DEF OpToRel, Below
<1> QED
  BY <1>1, NatLessThanWellFounded, Zenon

LEMMA BelowIs == ASSUME NEW x \in Nat, NEW y \in Nat, x < y PROVE <<x, y>> \in Below
<1>1. PICK p : p = <<x, y>>
  OBVIOUS
<1>2. p \in Nat \X Nat /\ p[1] < p[2]
  BY <1>1
<1>3. p \in Below
  BY <1>2, Zenon DEF Below
<1> QED
  BY <1>1, <1>3

\* The port the allocator gives is one of the floating ports, or the app's own.
LEMMA AppPortFor ==
  ASSUME NEW a \in Apps, rows \in RowTypes
  PROVE  PortFor(a) \in Ports
<1>1. Preferred[a] \in Ports /\ (rows[a] # None => rows[a].port \in Ports \cup {None})
  BY DEF Ports, RowTypes, Row
<1>2. ASSUME NEW T, ~ Pool \subseteq T PROVE Min(Pool \ T) \in Ports
  <2>1. Pool \ T \subseteq Nat /\ Pool \ T # {}
    BY <1>2, AppAssumption
  <2>2. PICK x \in Pool \ T : \A y \in Pool \ T : ~(<<y, x>> \in Below)
    BY <2>1, WFMin, BelowIsWellFounded
  <2>3. ASSUME NEW y \in Pool \ T PROVE x =< y
    <3>1. x \in Nat /\ y \in Nat
      BY <2>1, <2>2
    <3>2. ~(y < x)
      BY <2>2, <3>1, BelowIs, Zenon
    <3> QED
      BY <3>1, <3>2
  <2>4. \E z \in Pool \ T : \A y \in Pool \ T : z =< y
    BY <2>3
  <2>5. Min(Pool \ T) \in Pool \ T
    BY <2>4 DEF Min
  <2> QED
    BY <2>5 DEF Ports
<1> QED
  BY <1>1, <1>2 DEF PortFor

LEMMA RowsUpserted ==
  ASSUME rows \in RowTypes, NEW a \in Apps, NEW p \in Ports \cup {None}
  PROVE  Upserted(a, p) \in RowTypes
<1>1. rows[a] # None => rows[a] \in Row
  BY DEF RowTypes
<1>2. PICK l : l = IF rows[a] = None THEN FALSE ELSE rows[a].locked
  OBVIOUS
<1>3. PICK o : o = IF rows[a] = None THEN FALSE ELSE rows[a].old
  OBVIOUS
<1>4. l \in BOOLEAN /\ o \in BOOLEAN
  BY <1>1, <1>2, <1>3 DEF Row
<1>5. PICK r : r = [deleting |-> FALSE, port |-> p, locked |-> l, old |-> o]
  OBVIOUS
<1>6. r \in Row
  BY <1>4, <1>5 DEF Row
<1>7. Upserted(a, p) = [rows EXCEPT ![a] = r]
  BY <1>2, <1>3, <1>5 DEF Upserted, RowTypes
<1> QED
  BY <1>6, <1>7 DEF RowTypes
LEMMA RowsWritten ==
  ASSUME rows \in RowTypes, NEW new \in RowTypes, Write(new)
  PROVE  rows' \in RowTypes
BY DEF Write
LEMMA RowGoes ==
  ASSUME rows \in RowTypes, NEW a \in Apps
  PROVE  [rows EXCEPT ![a] = None] \in RowTypes
BY DEF RowTypes
LEMMA RowIsMarked ==
  ASSUME rows \in RowTypes, NEW a \in Apps, rows[a] # None
  PROVE  /\ [rows EXCEPT ![a].deleting = TRUE] \in RowTypes
         /\ [rows EXCEPT ![a].old = TRUE] \in RowTypes
         /\ \A m \in BOOLEAN : [rows EXCEPT ![a].locked = m] \in RowTypes
<1>1. PICK r : r = rows[a]
  OBVIOUS
<1>2. r \in Row
  BY <1>1 DEF RowTypes
<1>3. /\ [r EXCEPT !.deleting = TRUE] \in Row /\ [r EXCEPT !.old = TRUE] \in Row
      /\ \A m \in BOOLEAN : [r EXCEPT !.locked = m] \in Row
  BY <1>2 DEF Row
<1> QED
  BY <1>1, <1>3 DEF RowTypes
LEMMA FilePut ==
  ASSUME files \in FileTypes, NEW a \in Apps, NEW f \in File \cup {None, Empty}
  PROVE  [files EXCEPT ![a] = f] \in FileTypes
BY DEF FileTypes
LEMMA FileIs ==
  ASSUME files \in FileTypes, NEW a \in Apps, Composed(a)
  PROVE  files[a] \in File /\ files[a] # None
BY DEF FileTypes, Composed
LEMMA ContainerStarts ==
  ASSUME ctrs \in ContainerTypes, NEW a \in Apps, NEW f \in File, NEW up \in BOOLEAN
  PROVE  Started(a, f, up) \in ContainerTypes
<1>1. PICK k : k = [port |-> f.port, locked |-> f.locked, up |-> up]
  OBVIOUS
<1>2. k \in Containers
  BY <1>1 DEF File, Containers
<1> QED
  BY <1>1, <1>2 DEF ContainerTypes, Started
LEMMA ContainerGoes ==
  ASSUME ctrs \in ContainerTypes, NEW a \in Apps
  PROVE  [ctrs EXCEPT ![a] = None] \in ContainerTypes
BY DEF ContainerTypes
LEMMA AppJobsStay == ASSUME ProcOK, UNCHANGED proc PROVE ProcOK'
BY DEF ProcOK, JobOK
LEMMA AppJobAsked ==
  ASSUME ProcOK, NEW w \in Workers, NEW j \in AppJobs, JobOK(j), Begin(w, j)
  PROVE  ProcOK'
BY AppJobBegins DEF Begin

LEMMA PreferredIs == \A a \in Apps : Preferred[a] \in Ports
BY DEF Ports

LEMMA RequestInstallKeeps ==
  ASSUME AppInv, NEW w \in Workers, NEW a \in Apps, RequestInstall(w, a)
  PROVE  AppInv'
<1>0. AppInv
  OBVIOUS
<1>1. UNCHANGED <<rows, ctrs, ops, rcn, sweep, lost>>
  BY DEF RequestInstall
<1>2. PICK f : f = IF files[a] = None THEN Empty ELSE files[a]
  OBVIOUS
<1>3. files' \in FileTypes
  <2>1. files' = [files EXCEPT ![a] = f] /\ f \in File \cup {None, Empty}
    BY <1>0, <1>2 DEF RequestInstall, AppInv, FileTypes
  <2> QED
    BY <1>0, <2>1, FilePut DEF AppInv
<1>4. ProcOK'
  <2>1. CASE UNCHANGED proc
    BY <1>0, <2>1, AppJobsStay DEF AppInv
  <2>2. CASE Begin(w, [Job("install", a, "compose") EXCEPT !.port = PortFor(a)])
    <3>0. PICK p \in Ports : p = PortFor(a)
      BY <1>0, AppPortFor DEF AppInv
    <3>1. PICK j : j = [Job("install", a, "compose") EXCEPT !.port = PortFor(a)]
      OBVIOUS
    <3>2. j \in AppJobs /\ j.pc = "compose" /\ j.kind = "install"
      BY <3>0, <3>1 DEF JobSteps, JobKinds, Job, AppJobs
    <3>3. JobOK(j)
      BY <3>2 DEF JobOK
    <3> QED
      BY <1>0, <2>2, <3>1, <3>2, <3>3, AppJobAsked DEF AppInv
  <2> QED
    BY <2>1, <2>2 DEF RequestInstall
<1> QED
  BY <1>0, <1>1, <1>3, <1>4 DEF AppInv

LEMMA WriteComposeKeeps ==
  ASSUME AppInv, NEW w \in Workers, WriteCompose(w)
  PROVE  AppInv'
<1>0. AppInv /\ ProcOK /\ proc[w] # None /\ Goto(w, "up") /\ UNCHANGED <<rows, ctrs, ops, rcn, sweep, lost>>
  BY DEF AppInv, WriteCompose, At
<1>1. PICK a : a = App(w)
  OBVIOUS
<1>2. PICK f : f = IF files[a] = None THEN None ELSE [port |-> proc[w].port, locked |-> FALSE]
  OBVIOUS
<1>3. a \in Apps /\ proc[w].port \in Ports
  BY <1>0, <1>1, AppJobIs DEF App
<1>4. f \in File \cup {None, Empty}
  BY <1>2, <1>3 DEF File
<1>5. files' = [files EXCEPT ![a] = f]
  BY <1>0, <1>1, <1>2, <1>3 DEF WriteCompose, AppInv, FileTypes
<1>6. files' \in FileTypes
  BY <1>0, <1>3, <1>4, <1>5, FilePut DEF AppInv
<1>7. ProcOK'
  BY <1>0, AppJobGoes DEF JobSteps
<1> QED
  BY <1>0, <1>6, <1>7 DEF AppInv

\* What a compose file or a container's name gives to start.
LEMMA UpKeeps ==
  ASSUME AppInv, NEW w \in Workers, Up(w)
  PROVE  AppInv'
<1>0. AppInv /\ ProcOK /\ proc[w] # None /\ UNCHANGED <<rows, files, ops, rcn, sweep, lost>>
  BY DEF AppInv, Up, At
<1>1. PICK a : a = App(w)
  OBVIOUS
<1>2. PICK f : f = IF a \in Singles THEN [port |-> proc[w].port, locked |-> FALSE] ELSE files[a]
  OBVIOUS
<1>3. a \in Apps /\ proc[w].port \in Ports /\ JobOK(proc[w])
  BY <1>0, <1>1, AppJobIs DEF App
<1>4. f \notin {None, Empty} /\ ctrs' = Started(a, f, TRUE)
  BY <1>1, <1>2 DEF Up
<1>5. f \in File
  BY <1>0, <1>2, <1>3, <1>4 DEF AppInv, FileTypes, File
<1>6. ctrs' \in ContainerTypes
  BY <1>0, <1>3, <1>4, <1>5, ContainerStarts DEF AppInv
<1>7. ProcOK'
  <2>1. \/ Goto(w, "persist") \/ (proc[w].kind = "update" /\ Goto(w, "succeeded"))
        \/ End(w) \/ Goto(w, "register")
    BY DEF Up
  <2>2. proc[w].kind = "update" => proc[w].op # None
    BY <1>3 DEF JobOK
  <2> QED
    BY <1>0, <2>1, <2>2, AppJobGoes, AppJobEnds DEF JobSteps
<1> QED
  BY <1>0, <1>6, <1>7 DEF AppInv

LEMMA UpFailsKeeps ==
  ASSUME AppInv, NEW w \in Workers, UpFails(w)
  PROVE  AppInv'
<1>0. AppInv /\ ProcOK /\ proc[w] # None /\ UNCHANGED <<rows, files, ops, rcn, sweep, lost>>
  BY DEF AppInv, UpFails, At
<1>1. App(w) \in Apps /\ JobOK(proc[w])
  BY <1>0, AppJobIs DEF App
<1>2. ctrs' \in ContainerTypes
  <2>1. CASE UNCHANGED ctrs
    BY <1>0, <2>1 DEF AppInv
  <2>2. CASE Composed(App(w)) /\ ctrs' = Started(App(w), files[App(w)], FALSE)
    BY <1>0, <1>1, <2>2, FileIs, ContainerStarts DEF AppInv
  <2> QED
    BY <2>1, <2>2 DEF UpFails
<1>3. ProcOK'
  <2>1. \/ proc[w].kind = "access" /\ Goto(w, "rollback")
        \/ proc[w].kind = "update" /\ Goto(w, "failed")
        \/ End(w)
    BY DEF UpFails
  <2>2. (proc[w].kind = "update" => proc[w].op # None) /\ (proc[w].kind = "access" => proc[w].file # None)
    BY <1>1 DEF JobOK
  <2> QED
    BY <1>0, <2>1, <2>2, AppJobGoes, AppJobEnds DEF JobSteps
<1> QED
  BY <1>0, <1>2, <1>3 DEF AppInv

LEMMA RegisterKeeps ==
  ASSUME AppInv, NEW w \in Workers, Register(w)
  PROVE  AppInv'
<1>0. AppInv /\ ProcOK /\ proc[w] # None /\ End(w) /\ UNCHANGED <<files, ctrs, ops, rcn, sweep, lost>>
  BY DEF AppInv, Register, At
<1>1. rows' \in RowTypes
  BY <1>0, AppJobIs, RowsUpserted, RowsWritten DEF AppInv, Register, App
<1>2. ProcOK'
  BY <1>0, AppJobEnds
<1> QED
  BY <1>0, <1>1, <1>2 DEF AppInv

LEMMA RequestRunKeeps ==
  ASSUME AppInv, NEW w \in Workers, NEW a \in Apps, RequestRun(w, a) \/ RequestRebuild(w, a)
  PROVE  AppInv'
<1>0. AppInv /\ ProcOK /\ UNCHANGED <<rows, files, ctrs, ops, rcn, sweep, lost>>
  BY DEF AppInv, RequestRun, RequestRebuild
<1>1. PICK k \in {"run", "rebuild"} : Begin(w, Job(k, a, "up"))
  BY DEF RequestRun, RequestRebuild
<1>2. PICK j : j = Job(k, a, "up")
  OBVIOUS
<1>3. j \in AppJobs /\ j.pc = "up" /\ j.kind = k
  BY <1>2, PreferredIs DEF Job, AppJobs
<1>4. JobOK(j)
  BY <1>3 DEF JobOK
<1>5. ProcOK'
  BY <1>0, <1>1, <1>2, <1>3, <1>4, AppJobAsked
<1> QED
  BY <1>0, <1>5 DEF AppInv

LEMMA RequestUninstallKeeps ==
  ASSUME AppInv, NEW w \in Workers, NEW a \in Apps, NEW wipe \in BOOLEAN, RequestUninstall(w, a, wipe)
  PROVE  AppInv'
<1>0. AppInv /\ ProcOK /\ UNCHANGED <<files, ctrs, ops, rcn, sweep, lost>>
  BY DEF AppInv, RequestUninstall
<1>1. PICK j : j = [Job("uninstall", a, "down") EXCEPT !.lock = wipe]
  OBVIOUS
<1>2. j \in AppJobs /\ j.pc = "down" /\ j.kind = "uninstall"
  BY <1>1, PreferredIs DEF Job, AppJobs
<1>3. JobOK(j)
  BY <1>2 DEF JobOK
<1>4. ProcOK'
  BY <1>0, <1>1, <1>2, <1>3, AppJobAsked DEF RequestUninstall
<1>5. rows' \in RowTypes
  BY <1>0, RowIsMarked, RowsWritten DEF AppInv, RequestUninstall
<1> QED
  BY <1>0, <1>4, <1>5 DEF AppInv

LEMMA DownKeeps ==
  ASSUME AppInv, NEW w \in Workers, Down(w)
  PROVE  AppInv'
<1>0. AppInv /\ ProcOK /\ proc[w] # None /\ UNCHANGED <<rows, files, ops, rcn, sweep, lost>>
  BY DEF AppInv, Down, At
<1>1. ctrs' \in ContainerTypes
  BY <1>0, AppJobIs, ContainerGoes DEF AppInv, Down, App
<1>2. Goto(w, "wipe") \/ Goto(w, "forget")
  BY DEF Down
<1>3. ProcOK'
  BY <1>0, <1>2, AppJobGoes DEF JobSteps
<1> QED
  BY <1>0, <1>1, <1>3 DEF AppInv
LEMMA WipeKeeps ==
  ASSUME AppInv, NEW w \in Workers, Wipe(w)
  PROVE  AppInv'
<1>0. AppInv /\ ProcOK /\ proc[w] # None /\ Goto(w, "forget") /\ UNCHANGED <<rows, ctrs, ops, rcn, sweep, lost>>
  BY DEF AppInv, Wipe, At
<1>1. files' \in FileTypes
  BY <1>0, AppJobIs, FilePut DEF AppInv, Wipe, App
<1>2. ProcOK'
  BY <1>0, AppJobGoes DEF JobSteps
<1> QED
  BY <1>0, <1>1, <1>2 DEF AppInv
LEMMA ForgetKeeps ==
  ASSUME AppInv, NEW w \in Workers, Forget(w)
  PROVE  AppInv'
<1>0. AppInv /\ ProcOK /\ proc[w] # None /\ End(w) /\ UNCHANGED <<files, ctrs, ops, rcn, sweep, lost>>
  BY DEF AppInv, Forget, At
<1>1. rows' \in RowTypes
  BY <1>0, AppJobIs, RowGoes, RowsWritten DEF AppInv, Forget, App
<1>2. ProcOK'
  BY <1>0, AppJobEnds
<1> QED
  BY <1>0, <1>1, <1>2 DEF AppInv

\* Only an app with a file gets to write it, and it writes what it read.
LEMMA RequestAccessKeeps ==
  ASSUME AppInv, NEW w \in Workers, NEW a \in Apps, NEW m \in BOOLEAN, RequestAccess(w, a, m)
  PROVE  AppInv'
<1>0. AppInv /\ ProcOK /\ Composed(a) /\ UNCHANGED <<rows, files, ctrs, ops, rcn, sweep, lost>>
  BY DEF AppInv, RequestAccess
<1>1. PICK f \in File : f = files[a] /\ f # None
  BY <1>0, FileIs DEF AppInv
<1>2. PICK pc \in {"persist", "rewrite"} : pc = IF files[a].locked = m THEN "persist" ELSE "rewrite"
  OBVIOUS
<1>3. PICK j : j = [Job("access", a, pc) EXCEPT !.lock = m, !.file = f]
  OBVIOUS
<1>4. j \in AppJobs /\ j.pc = pc /\ j.kind = "access" /\ j.file = f
  BY <1>3, PreferredIs DEF Job, AppJobs
<1>5. JobOK(j)
  BY <1>1, <1>4 DEF JobOK
<1>6. Begin(w, j)
  BY <1>1, <1>2, <1>3 DEF RequestAccess
<1>7. ProcOK'
  BY <1>0, <1>4, <1>5, <1>6, AppJobAsked
<1> QED
  BY <1>0, <1>7 DEF AppInv

LEMMA RewriteKeeps ==
  ASSUME AppInv, NEW w \in Workers, Rewrite(w)
  PROVE  AppInv'
<1>0. AppInv /\ ProcOK /\ proc[w] # None /\ proc[w].pc = "rewrite" /\ UNCHANGED <<rows, ctrs, ops, rcn, sweep, lost>>
  BY DEF AppInv, Rewrite, At
<1>1. App(w) \in Apps /\ proc[w].lock \in BOOLEAN /\ proc[w].file \in File
  BY <1>0, AppJobIs DEF App, JobOK
<1>2. CASE UNCHANGED files /\ End(w)
  BY <1>0, <1>2, AppJobEnds DEF AppInv
<1>3. CASE files' = [files EXCEPT ![App(w)] = [proc[w].file EXCEPT !.locked = proc[w].lock]] /\ Goto(w, "up")
  <2>1. PICK f : f = [proc[w].file EXCEPT !.locked = proc[w].lock]
    OBVIOUS
  <2>2. f \in File
    BY <1>1, <2>1 DEF File
  <2>3. files' \in FileTypes
    BY <1>0, <1>1, <1>3, <2>1, <2>2, FilePut DEF AppInv
  <2>4. ProcOK'
    BY <1>0, <1>3, AppJobGoes DEF JobSteps
  <2> QED
    BY <1>0, <2>3, <2>4 DEF AppInv
<1> QED
  BY <1>2, <1>3 DEF Rewrite

LEMMA RollbackKeeps ==
  ASSUME AppInv, NEW w \in Workers, Rollback(w)
  PROVE  AppInv'
<1>0. AppInv /\ ProcOK /\ proc[w] # None /\ proc[w].pc = "rollback" /\ End(w) /\ UNCHANGED <<rows, ops, rcn, sweep, lost>>
  BY DEF AppInv, Rollback, At
<1>1. App(w) \in Apps /\ proc[w].file \in File
  BY <1>0, AppJobIs DEF App, JobOK
<1>2. PICK f : f = IF files[App(w)] = None THEN None ELSE proc[w].file
  OBVIOUS
<1>3. files' = [files EXCEPT ![App(w)] = f] /\ f \in File \cup {None, Empty}
  BY <1>0, <1>1, <1>2 DEF Rollback, AppInv, FileTypes
<1>4. files' \in FileTypes
  BY <1>0, <1>1, <1>3, FilePut DEF AppInv
<1>5. ctrs' \in ContainerTypes
  BY <1>0, <1>1, ContainerStarts DEF AppInv, Rollback
<1>6. ProcOK'
  BY <1>0, AppJobEnds
<1> QED
  BY <1>0, <1>4, <1>5, <1>6 DEF AppInv

LEMMA PersistKeeps ==
  ASSUME AppInv, NEW w \in Workers, Persist(w)
  PROVE  AppInv'
<1>0. AppInv /\ ProcOK /\ proc[w] # None /\ End(w) /\ UNCHANGED <<files, ctrs, ops, rcn, sweep, lost>>
  BY DEF AppInv, Persist, At
<1>1. App(w) \in Apps /\ proc[w].lock \in BOOLEAN
  BY <1>0, AppJobIs DEF App
<1>2. rows' \in RowTypes
  BY <1>0, <1>1, RowIsMarked DEF AppInv, Persist
<1>3. ProcOK'
  BY <1>0, AppJobEnds
<1> QED
  BY <1>0, <1>2, <1>3 DEF AppInv

\* An update brings the operation it answers for.
LEMMA RequestUpdateKeeps ==
  ASSUME AppInv, NEW w \in Workers, NEW a \in Apps, NEW o \in Ops, RequestUpdate(w, a, o)
  PROVE  AppInv'
<1>0. AppInv /\ ProcOK /\ UNCHANGED <<rows, files, ctrs, rcn, sweep, lost>>
  BY DEF AppInv, RequestUpdate
<1>1. PICK j : j = [Job("update", a, "mark") EXCEPT !.op = o]
  OBVIOUS
<1>2. j \in AppJobs /\ j.pc = "mark" /\ j.kind = "update" /\ j.op = o
  BY <1>1, PreferredIs DEF Job, AppJobs
<1>3. JobOK(j)
  BY <1>2, AppAssumption DEF JobOK
<1>4. ProcOK'
  BY <1>0, <1>1, <1>2, <1>3, AppJobAsked DEF RequestUpdate
<1>5. ops' \in OpTypes
  BY <1>0 DEF AppInv, RequestUpdate, OpTypes
<1> QED
  BY <1>0, <1>4, <1>5 DEF AppInv

LEMMA OpBecomes ==
  ASSUME ops \in OpTypes, NEW o \in Ops, NEW v \in {"running", "succeeded", "failed"}
  PROVE  [ops EXCEPT ![o] = v] \in OpTypes
BY DEF OpTypes

LEMMA MarkRunningKeeps ==
  ASSUME AppInv, NEW w \in Workers, MarkRunning(w)
  PROVE  AppInv'
<1>0. AppInv /\ ProcOK /\ proc[w] # None /\ Goto(w, "up") /\ UNCHANGED <<rows, files, ctrs, rcn, sweep, lost>>
  BY DEF AppInv, MarkRunning, At
<1>1. ProcOK'
  BY <1>0, AppJobGoes DEF JobSteps
<1>2. PICK o : o = proc[w].op
  OBVIOUS
<1>3. o \in Ops
  BY <1>0, <1>2, AppJobIs DEF MarkRunning, At, JobOK
<1>4. ops' \in OpTypes
  BY <1>0, <1>2, <1>3 DEF AppInv, MarkRunning, OpTypes
<1> QED
  BY <1>0, <1>1, <1>4 DEF AppInv

LEMMA MarkFinishedKeeps ==
  ASSUME AppInv, NEW w \in Workers, MarkFinished(w)
  PROVE  AppInv'
<1>0. AppInv /\ ProcOK /\ proc[w] # None /\ End(w) /\ proc[w].pc \in {"succeeded", "failed"}
      /\ UNCHANGED <<rows, files, ctrs, rcn, sweep>>
  BY DEF AppInv, MarkFinished, At
<1>1. ProcOK'
  BY <1>0, AppJobEnds
<1>2. PICK o : o = proc[w].op
  OBVIOUS
<1>3. o \in Ops
  BY <1>0, <1>2, AppJobIs DEF JobOK
<1>4. ops' \in OpTypes /\ lost' \subseteq Ops
  <2>1. CASE ops' = [ops EXCEPT ![o] = IF Open(o) THEN proc[w].pc ELSE ops[o]] /\ UNCHANGED lost
    BY <1>0, <1>3, <2>1 DEF AppInv, OpTypes
  <2>2. CASE UNCHANGED ops /\ lost' = lost \cup {o}
    BY <1>0, <1>3, <2>2 DEF AppInv
  <2> QED
    BY <1>0, <1>2, <2>1, <2>2 DEF MarkFinished, AppInv, OpTypes
<1> QED
  BY <1>0, <1>1, <1>4 DEF AppInv

LEMMA RegistryKeeps ==
  ASSUME AppInv, NEW a \in Apps, RegistryPost(a) \/ RegistryDelete(a) \/ Age(a)
  PROVE  AppInv'
<1>0. AppInv /\ UNCHANGED <<files, ctrs, ops, proc, rcn, sweep, lost>>
  BY DEF RegistryPost, RegistryDelete, Age
<1>1. rows' \in RowTypes
  BY <1>0, RowsUpserted, RowGoes, RowIsMarked, PreferredIs DEF AppInv, RegistryPost, RegistryDelete, Age
<1>2. ProcOK'
  BY <1>0, AppJobsStay DEF AppInv
<1> QED
  BY <1>0, <1>1, <1>2 DEF AppInv
LEMMA ToggleKeeps ==
  ASSUME AppInv, NEW a \in Apps, Toggle(a)
  PROVE  AppInv'
<1>0. AppInv /\ UNCHANGED <<rows, files, ops, proc, rcn, sweep, lost>>
  BY DEF Toggle
<1>1. PICK k : k = ctrs[a]
  OBVIOUS
<1>2. k \in Containers
  BY <1>0, <1>1 DEF Toggle, AppInv, ContainerTypes
<1>3. PICK n : n = [k EXCEPT !.up = ~k.up]
  OBVIOUS
<1>4. n \in Containers
  BY <1>2, <1>3 DEF Containers
<1>5. ctrs' = [ctrs EXCEPT ![a] = n]
  BY <1>0, <1>1, <1>3 DEF Toggle, AppInv, ContainerTypes
<1>6. ctrs' \in ContainerTypes
  BY <1>0, <1>4, <1>5 DEF AppInv, ContainerTypes
<1>7. ProcOK'
  BY <1>0, AppJobsStay DEF AppInv
<1> QED
  BY <1>0, <1>6, <1>7 DEF AppInv

\* A pass of the reconciler has a list while it is under way.
LEMMA PassGoesOn ==
  ASSUME rcn \in PassTypes, NEW p \in Passes, NEW pc \in {"rows", "import"}, NEW G \in SUBSET Apps,
         rcn' = [rcn EXCEPT ![p] = IF G = {} THEN None ELSE [pc |-> pc, apps |-> G]]
  PROVE  rcn' \in PassTypes
<1>1. PICK r : r = IF G = {} THEN None ELSE [pc |-> pc, apps |-> G]
  OBVIOUS
<1>2. r \in [pc : {"rows", "import"}, apps : (SUBSET Apps) \ {{}}] \cup {None}
  BY <1>1
<1>3. rcn' = [rcn EXCEPT ![p] = r]
  BY <1>1
<1> QED
  BY <1>2, <1>3 DEF PassTypes
LEMMA PassIs ==
  ASSUME rcn \in PassTypes, NEW p \in Passes, rcn[p] # None
  PROVE  rcn[p].pc \in {"rows", "import"} /\ rcn[p].apps \subseteq Apps /\ rcn[p].apps # {}
         /\ rcn[p] = [pc |-> rcn[p].pc, apps |-> rcn[p].apps]
<1>1. rcn[p] \in [pc : {"rows", "import"}, apps : (SUBSET Apps) \ {{}}]
  BY DEF PassTypes
<1> QED
  BY <1>1

LEMMA ReconcileKeeps ==
  ASSUME AppInv, NEW p \in Passes, Reconcile(p)
  PROVE  AppInv'
<1>0. AppInv /\ rcn \in PassTypes /\ UNCHANGED <<files, ctrs, ops, proc, sweep, lost>>
  BY DEF AppInv, Reconcile, ListContainers, ListRows, Reimport
<1>1. ProcOK'
  BY <1>0, AppJobsStay DEF AppInv
<1>2. rows' \in RowTypes
  BY <1>0, RowsUpserted, RowsWritten DEF AppInv, Reconcile, ListContainers, ListRows, Reimport
<1>3. rcn' \in PassTypes
  <2>1. CASE ListContainers(p)
    <3>1. PICK G \in SUBSET Apps : G = {a \in Apps : ctrs[a] # None}
      OBVIOUS
    <3>2. G # {}
      BY <2>1, <3>1 DEF ListContainers
    <3> QED
      BY <1>0, <2>1, <3>1, <3>2, PassGoesOn DEF ListContainers
  <2>2. CASE ListRows(p)
    <3>1. PICK G : G = {a \in rcn[p].apps : rows[a] = None}
      OBVIOUS
    <3>2. rcn[p] # None /\ rcn' = [rcn EXCEPT ![p] = IF G = {} THEN None ELSE [pc |-> "import", apps |-> G]]
      BY <2>2, <3>1 DEF ListRows
    <3>3. G \in SUBSET Apps
      BY <1>0, <3>1, <3>2, PassIs
    <3> QED
      BY <1>0, <3>2, <3>3, PassGoesOn
  <2>3. ASSUME NEW a \in Apps, Reimport(p, a) PROVE rcn' \in PassTypes
    <3>1. rcn[p] # None /\ a \in rcn[p].apps /\ rcn[p].pc = "import"
      BY <2>3 DEF Reimport
    <3>2. PICK G : G = rcn[p].apps \ {a}
      OBVIOUS
    <3>3. G \in SUBSET Apps /\ (G = {} <=> rcn[p].apps = {a})
      BY <1>0, <3>1, <3>2, PassIs
    <3>4. PICK q : q = rcn[p]
      OBVIOUS
    <3>5. q \in [pc : {"rows", "import"}, apps : (SUBSET Apps) \ {{}}] /\ q.pc = "import" /\ G = q.apps \ {a}
      BY <1>0, <3>1, <3>2, <3>4 DEF PassTypes
    <3>6. [q EXCEPT !.apps = q.apps \ {a}] = [pc |-> "import", apps |-> G]
      BY <3>5
    <3>7. PICK r : r = IF rcn[p].apps = {a} THEN None ELSE [rcn[p] EXCEPT !.apps = rcn[p].apps \ {a}]
      OBVIOUS
    <3>8. rcn' = [rcn EXCEPT ![p] = r]
      BY <2>3, <3>7 DEF Reimport
    <3>9. r = IF G = {} THEN None ELSE [pc |-> "import", apps |-> G]
      BY <3>3, <3>4, <3>6, <3>7
    <3> QED
      BY <1>0, <3>3, <3>8, <3>9, PassGoesOn
  <2> QED
    BY <2>1, <2>2, <2>3 DEF Reconcile
<1> QED
  BY <1>0, <1>1, <1>2, <1>3 DEF AppInv

\* So has the sweep, and a delete has its app.
LEMMA SweepIs ==
  ASSUME sweep \in SweepTypes, sweep # None
  PROVE  sweep.apps \subseteq Apps /\ sweep.apps # {}
<1>1. \/ sweep \in [pc : {"look"}, apps : (SUBSET Apps) \ {{}}]
      \/ sweep \in [pc : {"delete"}, apps : (SUBSET Apps) \ {{}}, app : Apps]
  BY DEF SweepTypes
<1> QED
  BY <1>1
LEMMA LookedIs ==
  ASSUME sweep \in SweepTypes, sweep # None, NEW a
  PROVE  Looked(a) \in SweepTypes
<1>1. CASE sweep.apps = {a}
  BY <1>1 DEF Looked, SweepTypes
<1>2. CASE sweep.apps # {a}
  <2>1. sweep.apps \ {a} \in (SUBSET Apps) \ {{}}
    BY <1>2, SweepIs
  <2>2. Looked(a) = [pc |-> "look", apps |-> sweep.apps \ {a}]
    BY <1>2 DEF Looked
  <2> QED
    BY <2>1, <2>2 DEF SweepTypes
<1> QED
  BY <1>1, <1>2

LEMMA SweepKeeps ==
  ASSUME AppInv, Sweep
  PROVE  AppInv'
<1>0. AppInv /\ sweep \in SweepTypes /\ UNCHANGED <<files, ctrs, ops, proc, rcn, lost>>
  BY DEF AppInv, Sweep, ListGhosts, LookFor, DeleteGhost
<1>1. ProcOK'
  BY <1>0, AppJobsStay DEF AppInv
<1>2. rows' \in RowTypes
  BY <1>0, RowGoes, RowsWritten DEF AppInv, Sweep, ListGhosts, LookFor, DeleteGhost
<1>3. sweep' \in SweepTypes
  <2>1. CASE ListGhosts
    <3>1. PICK G : G = {a \in Active : rows[a].old}
      OBVIOUS
    <3>2. G \in (SUBSET Apps) \ {{}} /\ sweep' = [pc |-> "look", apps |-> G]
      BY <2>1, <3>1 DEF ListGhosts, Active
    <3> QED
      BY <3>2 DEF SweepTypes
  <2>2. ASSUME NEW a \in Apps, LookFor(a) PROVE sweep' \in SweepTypes
    <3>1. sweep # None /\ (sweep' = Looked(a) \/ sweep' = [pc |-> "delete", apps |-> sweep.apps, app |-> a])
      BY <2>2 DEF LookFor
    <3>2. sweep.apps \in (SUBSET Apps) \ {{}}
      BY <1>0, <3>1, SweepIs
    <3>3. CASE sweep' = [pc |-> "delete", apps |-> sweep.apps, app |-> a]
      BY <3>2, <3>3 DEF SweepTypes
    <3> QED
      BY <1>0, <3>1, <3>3, LookedIs
  <2>3. ASSUME NEW a \in Apps, DeleteGhost(a) PROVE sweep' \in SweepTypes
    BY <1>0, <2>3, LookedIs DEF DeleteGhost
  <2> QED
    BY <2>1, <2>2, <2>3 DEF Sweep
<1> QED
  BY <1>0, <1>1, <1>2, <1>3 DEF AppInv

LEMMA DaemonCrashKeeps == ASSUME AppInv, DaemonCrash PROVE AppInv'
<1>0. AppInv /\ UNCHANGED <<rows, files, ctrs, ops>>
  BY DEF DaemonCrash
<1>1. /\ proc' = [w \in Workers |-> None] /\ rcn' = [p \in Passes |-> None] /\ sweep' = None
      /\ lost' = lost \cup {o \in Ops : Open(o)}
  BY DEF DaemonCrash
<1>2. ProcOK'
  BY <1>1 DEF ProcOK
<1>3. rcn' \in PassTypes /\ sweep' \in SweepTypes /\ lost' \subseteq Ops
  BY <1>0, <1>1 DEF PassTypes, SweepTypes, AppInv
<1> QED
  BY <1>0, <1>2, <1>3 DEF AppInv

\* What the apps' part of the daemon does.
LEMMA AppStep == ASSUME AppInv, Next PROVE AppInv'
<1>1. CASE Requests
  BY <1>1, RequestInstallKeeps, RequestRunKeeps, RequestUninstallKeeps, RequestAccessKeeps, RequestUpdateKeeps,
     RegistryKeeps, ToggleKeeps DEF Requests
<1>2. ASSUME NEW w \in Workers, Work(w) PROVE AppInv'
  BY <1>2, WriteComposeKeeps, UpKeeps, UpFailsKeeps, RegisterKeeps, DownKeeps, WipeKeeps, ForgetKeeps, RewriteKeeps,
     RollbackKeeps, PersistKeeps, MarkRunningKeeps, MarkFinishedKeeps DEF Work
<1> QED
  BY <1>1, <1>2, ReconcileKeeps, SweepKeeps, RegistryKeeps, DaemonCrashKeeps DEF Next
LEMMA AppsStay == ASSUME AppInv, UNCHANGED vars PROVE AppInv'
<1>1. UNCHANGED <<rows, files, ctrs, ops, proc, rcn, sweep, lost>>
  BY DEF vars
<1> QED
  BY <1>1, AppJobsStay DEF AppInv

-----------------------------------------------------------------------------
(* The parts together.  A behaviour moves one of them, and the bounds are   *)
(* those of the part that moves.                                            *)

LEMMA ConfigTypesStep ==
  ASSUME ConfigTypeOK, HostTypeOK, [ConfigNext]_<<configVars, hostBounds>>
  PROVE  ConfigTypeOK' /\ HostTypeOK'
<1>0. version \in Nat /\ marking \in 0..version /\ Nil \notin Nat /\ MaxHostFaults \in Nat
      /\ hostAsked \in Nat /\ hostFaults \in Nat
  BY HostAssumption DEF ConfigTypeOK, HostTypeOK
<1>1. CASE UNCHANGED <<configVars, hostBounds>>
  BY <1>1 DEF ConfigTypeOK, HostTypeOK, configVars, hostBounds
<1>2. CASE CommitConfig
  BY <1>0, <1>2 DEF CommitConfig, ConfigTypeOK, HostTypeOK, hostBounds
<1>3. CASE MarkConfigDirty
  BY <1>0, <1>3 DEF MarkConfigDirty, ConfigTypeOK, HostTypeOK, hostBounds
<1>4. CASE Signal \/ BeginBackup \/ Backstop \/ ConfigBoot
  BY <1>0, <1>4 DEF Signal, BeginBackup, Backstop, ConfigBoot, ConfigTypeOK, HostTypeOK, hostBounds
<1>5. CASE VacuumInto
  BY <1>0, <1>5 DEF VacuumInto, ConfigTypeOK, HostTypeOK, hostBounds
<1>6. CASE RenameCopy
  BY <1>0, <1>6 DEF RenameCopy, ConfigTypeOK, HostTypeOK, hostBounds
<1>7. CASE BackupFails
  BY <1>0, <1>7 DEF BackupFails, ConfigTypeOK, HostTypeOK, HostFault
<1>8. CASE ConfigCrash
  <2>1. /\ marking' = 0 /\ configDirty' = FALSE /\ snapshot' = Nil /\ flusher' = "off"
        /\ UNCHANGED <<version, saved, abandoned, hostAsked>>
    BY <1>8 DEF ConfigCrash
  <2>2. hostFaults' \in Nat
    BY <1>0, <1>8 DEF ConfigCrash, HostFault
  <2>3. 0 \in 0..version'
    BY <1>0, <2>1
  <2> QED
    BY <1>0, <2>1, <2>2, <2>3 DEF ConfigTypeOK, HostTypeOK
<1> QED
  BY <1>1, <1>2, <1>3, <1>4, <1>5, <1>6, <1>7, <1>8 DEF ConfigNext, Flush

HostInv == AppInv /\ ScrubInv /\ ConfigTypeOK /\ BackupInv

LEMMA HostStarts == ASSUME HostStart PROVE HostInv
<1>1. Init /\ HostInit /\ ScrubInit /\ ConfigInit /\ JobsInit
  BY DEF HostStart, HostParts
<1>2. ConfigTypeOK
  <2>1. version = 0 /\ marking = 0 /\ configDirty = FALSE /\ flusher = "off" /\ snapshot = Nil /\ saved = 0 /\ abandoned = 0
    BY <1>1 DEF ConfigInit
  <2>2. 0 \in 0..version
    BY <2>1
  <2> QED
    BY <2>1, <2>2 DEF ConfigTypeOK
<1> QED
  BY <1>1, <1>2, AppStarts, ScrubInvInit, BackupInvInit DEF HostInv

\* What a part says of its own variables and of the bounds stands while they stand.
LEMMA ScrubsStay == ASSUME ScrubInv, UNCHANGED scrubVars, HostTypeOK' PROVE ScrubInv'
BY DEF ScrubInv, ScrubTypeOK, WatchInv, scrubVars
LEMMA BackupsStay == ASSUME BackupInv, UNCHANGED jobVars, HostTypeOK' PROVE BackupInv'
BY DEF BackupInv, JobsTypeOK, SentInv, LastHasArrived, Exists, Snaps, jobVars
LEMMA ConfigStays == ASSUME ConfigTypeOK, UNCHANGED configVars PROVE ConfigTypeOK'
BY DEF ConfigTypeOK, configVars

LEMMA HostStep == ASSUME HostInv, [HostNext]_hostVars PROVE HostInv'
<1>0. AppInv /\ ScrubInv /\ ConfigTypeOK /\ BackupInv /\ HostTypeOK
  BY DEF HostInv, ScrubInv
<1>1. CASE UNCHANGED hostVars
  <2>1. UNCHANGED <<vars, scrubVars, configVars, jobVars, hostBounds>>
    BY <1>1 DEF hostVars
  <2>2. HostTypeOK'
    BY <1>0, <2>1 DEF HostTypeOK, hostBounds
  <2> QED
    BY <1>0, <2>1, <2>2, AppsStay, ScrubsStay, ConfigStays, BackupsStay DEF HostInv
<1>2. CASE Next /\ UNCHANGED <<scrubVars, configVars, jobVars, hostBounds>>
  <2>1. HostTypeOK'
    BY <1>0, <1>2 DEF HostTypeOK, hostBounds
  <2> QED
    BY <1>0, <1>2, <2>1, AppStep, ScrubsStay, ConfigStays, BackupsStay DEF HostInv
<1>3. CASE ScrubNext /\ UNCHANGED <<vars, configVars, jobVars>>
  <2>1. ScrubInv'
    BY <1>0, <1>3, ScrubInvNext
  <2>2. HostTypeOK'
    BY <2>1 DEF ScrubInv
  <2> QED
    BY <1>0, <1>3, <2>1, <2>2, AppsStay, ConfigStays, BackupsStay DEF HostInv
<1>4. CASE ConfigNext /\ UNCHANGED <<vars, scrubVars, jobVars>>
  <2>1. ConfigTypeOK' /\ HostTypeOK'
    BY <1>0, <1>4, ConfigTypesStep
  <2> QED
    BY <1>0, <1>4, <2>1, AppsStay, ScrubsStay, BackupsStay DEF HostInv
<1>5. CASE JobsNext /\ UNCHANGED <<vars, scrubVars, configVars>>
  <2>1. BackupInv'
    BY <1>0, <1>5, BackupInvNext
  <2>2. HostTypeOK'
    BY <2>1 DEF BackupInv
  <2> QED
    BY <1>0, <1>5, <2>1, <2>2, AppsStay, ConfigStays, ScrubsStay DEF HostInv
<1> QED
  BY <1>1, <1>2, <1>3, <1>4, <1>5 DEF HostNext

\* Every part of what the daemon does by itself keeps its types, whatever the number
\* of apps, workers, scrubs, changes and jobs (docker_stacks.go, docker_reconciler.go,
\* maintenance_ghost_apps.go, storage_btrfs_features.go, config_dirty.go, backup_executor.go).
THEOREM HostTypes == HostSpec => []HostTypesOK
<1>1. HostStart => HostInv
  BY HostStarts
<1>2. HostInv /\ [HostNext]_hostVars => HostInv'
  BY HostStep
<1>3. HostInv => HostTypesOK
  BY AppInvTypes DEF HostInv, HostTypesOK, ScrubInv, BackupInv
<1> QED
  BY <1>1, <1>2, <1>3, PTL DEF HostSpec
=============================================================================
