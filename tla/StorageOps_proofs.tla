--------------------------- MODULE StorageOps_proofs ---------------------------
(***************************************************************************)
(* Theorems about StorageOps, for any pools, devices and operations, any   *)
(* number of failures and dead devices.                                    *)
(***************************************************************************)
EXTENDS StorageOps, TLAPS

(* The inductive invariant, in three layers *)

\* What validation guarantees of a request.
IsRequest(r) ==
    /\ r \in Request
    /\ r.type = "add_device"      => r.old = None /\ r.new # None /\ r.to = None
    /\ r.type = "remove_device"   => r.old # None /\ r.new = None /\ r.to = None
    /\ r.type = "replace_device"  => r.old # None /\ r.new # None /\ r.to = None /\ r.old # r.new
    /\ r.type = "convert_profile" => r.old = None /\ r.new = None /\ r.to # None

RequestsOK ==
    /\ req # None => IsRequest(req.data)
    /\ \A o \in Ops : /\ data[o] # None => IsRequest(data[o])
                      /\ data[o] = None <=> status[o] = "absent"

\* A job of the daemon carries out an operation on the pool of the operation.
JobsOK ==
    \A p \in Pools : kjob[p] # None /\ kjob[p].op # External =>
        LET r == data[kjob[p].op] IN r # None /\ r.pool = p /\ r.type # "add_device"

TypeInv == TypeOK /\ RequestsOK /\ JobsOK

\* Who may write the outcome of an operation, and that somebody can.
LockInv ==
    /\ OneLayoutOpPerPool
    /\ DriverHoldsLock
    /\ \A o \in boot : Open(o)
    /\ OpenIsAttended

\* A kernel works only on what is mounted read-write, and only a degraded pool
\* stays unmounted.
MountsOK ==
    \A p \in Pools : /\ Running(p) => mnt[p] = "rw"
                     /\ mnt[p] = "none" => Degraded(p)

\* The kernel shows what a request asked for; a degraded pool may lack the new device.
InEffect(r) ==
    /\ r.old # None => r.old \notin kmem[r.pool]
    /\ r.to # None => kprof[r.pool] = r.to
    /\ r.new # None => r.new \in kmem[r.pool] \/ Degraded(r.pool)

\* Between the return of btrfs and the commit the pool runs no job of the daemon.
Settled(o) ==
    /\ InEffect(data[o])
    /\ LET j == kjob[data[o].pool] IN j = None \/ j.op = External

FinishedOK == \A o \in Ops : driver[o] = "finished" => Settled(o)

IInv == TypeInv /\ LockInv /\ MountsOK /\ FinishedOK

----------------------------------------------------------------------------
(* Typing, and what journalled requests and running jobs look like *)

\* A request carries the devices or the profile its type needs, and only those.
LEMMA RequestShape ==
    ASSUME NEW p \in Pools, NEW r \in Requests(p)
    PROVE  /\ r \in Request /\ r.pool = p
           /\ r.type = "add_device"      => r.old = None /\ r.new # None /\ r.to = None
           /\ r.type = "remove_device"   => r.old # None /\ r.new = None /\ r.to = None
           /\ r.type = "replace_device"  => r.old # None /\ r.new # None /\ r.to = None
           /\ r.type = "convert_profile" => r.old = None /\ r.new = None /\ r.to # None
BY ConstantsAssumption, ModelValueAssumption
DEF Requests, AddRequests, RemoveRequests, ReplaceRequests, ConvertRequests, Request, LayoutTypes

\* The daemon starts well typed, with an empty journal.
LEMMA TypeInvInit == Init => TypeInv
BY ConstantsAssumption, ModelValueAssumption
DEF Init, TypeInv, TypeOK, RequestsOK, JobsOK, Driver, Profiles

\* A self-heal is asked for a profile of a pool, never for None.
LEMMA HealedType ==
    ASSUME TypeInv, NEW p \in Pools,
           NEW f \in ProfileReadings(p) \cup {profile[p]}
    PROVE  Healed(p, f) \in [Pools -> SUBSET Profiles]
<1>1. f \in Profiles
  <2>1. CASE f = kprof[p] \/ f = profile[p]
    BY <2>1 DEF TypeInv, TypeOK
  <2>2. CASE kjob[p] # None /\ JobType(p) = "convert_profile" /\ f = data[kjob[p].op].to
    <3>1. kjob[p].op # External
      BY <2>2 DEF JobType
    <3>2. IsRequest(data[kjob[p].op])
      BY <2>2, <3>1 DEF TypeInv, TypeOK, RequestsOK, JobsOK, Job
    <3>3. QED
      BY <2>2, <3>1, <3>2 DEF IsRequest, Request, JobType
  <2>3. QED
    BY <2>1, <2>2 DEF ProfileReadings
<1>2. QED
  BY <1>1 DEF Healed, TypeInv, TypeOK

\* The handlers of the four requests (AddDevice ... ConvertProfile) keep the types.
LEMMA TypeInvBegin ==
    ASSUME TypeInv, NEW p \in Pools, NEW r \in Requests(p), BeginRequest(r)
    PROVE  TypeInv'
<1>1. IsRequest(r)
  BY RequestShape DEF IsRequest, BeginRequest, AddAllowed, ReplaceAllowed, RemoveAllowed,
     ConvertAllowed, IsAssigned, AddRequests, RemoveRequests, ConvertRequests
<1>2. heal' \in [Pools -> SUBSET Profiles]
  BY HealedType, RequestShape DEF BeginRequest
<1>3. QED
  BY <1>1, <1>2, ConstantsAssumption, ModelValueAssumption
  DEF TypeInv, TypeOK, RequestsOK, JobsOK, BeginRequest, kernel, Pending, IsRequest

\* So does CreateOperation.
LEMMA TypeInvJournal ==
    ASSUME TypeInv, NEW o \in Ops, JournalRequest(o)
    PROVE  TypeInv'
BY ConstantsAssumption, ModelValueAssumption
DEF TypeInv, TypeOK, RequestsOK, JobsOK, JournalRequest, kernel, Pending, Job, IsRequest, Driver

\* A request that INV-1 or SQLite rejects leaves everything as it was.
LEMMA TypeInvReject ==
    ASSUME TypeInv, RejectRequest
    PROVE  TypeInv'
BY DEF TypeInv, TypeOK, RequestsOK, JobsOK, RejectRequest, kernel, db

\* The steps of goroutines and watchers that leave the disks and the journal alone.
LEMMA TypeInvDriver ==
    ASSUME TypeInv, NEW o \in Ops,
           \/ GoRefused(o) \/ GoCommitFails(o) \/ MarkOperationFailedLost(o)
           \/ WatchBalanceGivesUp(o) \/ WatchReplaceConfirms(o) \/ WatchReplaceGivesUp(o)
    PROVE  TypeInv'
BY DEF TypeInv, TypeOK, RequestsOK, JobsOK, kernel, db, Driver, Steps, GoRefused, GoCommitFails,
       MarkOperationFailedLost, WatchBalanceGivesUp, WatchReplaceConfirms, WatchReplaceGivesUp

\* Steps that end, suspend or resume jobs start none.
StartsNoJob ==
    /\ kjob' \in [Pools -> Job \cup {None}]
    /\ \A p \in Pools : kjob'[p] # None => kjob[p] # None /\ kjob'[p].op = kjob[p].op

\* Resuming or suspending a job keeps its owner.
LEMMA ResumedJob ==
    ASSUME NEW j \in Job \cup {None}
    PROVE  /\ Resumed(j) \in Job \cup {None} /\ SuspendedJob(j) \in Job \cup {None}
           /\ j = None <=> Resumed(j) = None
           /\ j = None <=> SuspendedJob(j) = None
           /\ j # None => /\ Resumed(j).op = j.op /\ SuspendedJob(j).op = j.op
                          /\ Resumed(j).state = "running"
                          /\ SuspendedJob(j).state = "suspended"
BY ModelValueAssumption DEF Resumed, SuspendedJob, Job

\* A remount starts no job.
LEMMA RemountJobs ==
    ASSUME TypeInv, NEW p \in Pools, RemountRw(p) \/ RemountRo(p)
    PROVE  /\ StartsNoJob
           /\ mnt' \in [Pools -> {"rw", "ro", "none"}]
<1>1. kjob[p] \in Job \cup {None}
  BY DEF TypeInv, TypeOK
<1>2. QED
  BY <1>1, ResumedJob DEF TypeInv, TypeOK, RemountRw, RemountRo, StartsNoJob

\* Steps that start no job keep every job on the pool of its operation.
LEMMA JobsStayOK ==
    ASSUME TypeInv, StartsNoJob, UNCHANGED data
    PROVE  JobsOK'
BY DEF TypeInv, JobsOK, StartsNoJob

\* The remounts of a repair keep the types.
LEMMA TypeInvRemount ==
    ASSUME TypeInv, NEW o \in Ops, data[o] # None,
           GoRemount(o) \/ GoRevert(o) \/ WatchReplaceResumes(o)
    PROVE  TypeInv'
<1>1. data[o].pool \in Pools
  BY DEF TypeInv, TypeOK, Request
<1>2. StartsNoJob /\ mnt' \in [Pools -> {"rw", "ro", "none"}]
  <2>1. CASE RemountRw(data[o].pool) \/ RemountRo(data[o].pool)
    BY <1>1, <2>1, RemountJobs
  <2>2. CASE UNCHANGED <<mnt, kjob>>
    BY <2>2 DEF StartsNoJob, TypeInv, TypeOK
  <2>3. QED
    BY <2>1, <2>2 DEF GoRemount, GoRevert, WatchReplaceResumes
<1>3. UNCHANGED <<db, req, stale, heal, snap, boot, kmem, kprof, kdone, dead, crashes>>
  BY DEF GoRemount, GoRevert, WatchReplaceResumes
<1>4. driver' \in [Ops -> Driver]
  BY DEF GoRemount, GoRevert, WatchReplaceResumes, Steps, TypeInv, TypeOK, Driver
<1>5. JobsOK'
  BY <1>2, <1>3, JobsStayOK DEF db
<1>6. QED
  BY <1>2, <1>3, <1>4, <1>5 DEF TypeInv, TypeOK, RequestsOK, db, StartsNoJob, IsRequest

\* WipeFirst keeps the types.
LEMMA TypeInvWipe ==
    ASSUME TypeInv, NEW o \in Ops, GoWipe(o)
    PROVE  TypeInv'
BY DEF TypeInv, TypeOK, RequestsOK, JobsOK, GoWipe, Disowned, db, IsRequest

\* btrfs device add keeps the types.
LEMMA TypeInvAdd ==
    ASSUME TypeInv, NEW o \in Ops, data[o] # None, GoAdd(o)
    PROVE  TypeInv'
<1>1. IsRequest(data[o])
  BY DEF TypeInv, RequestsOK
<1>2. data[o].new \in Devices
  BY <1>1 DEF IsRequest, Request, GoAdd
<1>3. kmem' \in [Pools -> SUBSET Devices]
  BY <1>2, Zenon DEF GoAdd, TypeInv, TypeOK
<1>4. driver' \in [Ops -> Driver]
  BY DEF GoAdd, Steps, TypeInv, TypeOK, Driver
<1>5. QED
  BY <1>3, <1>4 DEF TypeInv, TypeOK, RequestsOK, JobsOK, GoAdd, db, IsRequest

\* btrfs device remove, replace and balance start on the pool of their operation.
LEMMA TypeInvStart ==
    ASSUME TypeInv, NEW o \in Ops, data[o] # None, GoStart(o)
    PROVE  TypeInv'
<1>1. data[o] \in Request /\ data[o].pool \in Pools
  BY DEF TypeInv, TypeOK, Request
<1>2. kjob' \in [Pools -> Job \cup {None}]
  BY DEF TypeInv, TypeOK, GoStart, Job
<1>3. JobsOK'
  BY <1>1, ConstantsAssumption, ModelValueAssumption
  DEF TypeInv, TypeOK, JobsOK, GoStart, KernelAccepts, db, Job
<1>4. kmem' \in [Pools -> SUBSET Devices] /\ kdone' \in SUBSET Pools
  BY DEF TypeInv, TypeOK, GoStart, Disowned
<1>5. driver' \in [Ops -> Driver]
  BY DEF GoStart, Steps, TypeInv, TypeOK, Driver
<1>6. QED
  BY <1>2, <1>3, <1>4, <1>5 DEF TypeInv, TypeOK, RequestsOK, GoStart, db, IsRequest

\* The closing transaction writes devices and profiles, never None.
LEMMA TypeInvCommit ==
    ASSUME TypeInv, NEW o \in Ops, data[o] # None, GoCommit(o)
    PROVE  TypeInv'
<1>1. data[o] \in Request
  BY DEF TypeInv, TypeOK
<1>2. member' \in [Pools -> SUBSET Devices] /\ profile' \in [Pools -> Profiles]
  BY <1>1 DEF GoCommit, Committed, Request, TypeInv, TypeOK
<1>3. QED
  BY <1>2 DEF TypeInv, TypeOK, RequestsOK, JobsOK, GoCommit, Close, Driver, kernel, IsRequest

\* markOperationFailed keeps the types.
LEMMA TypeInvFailed ==
    ASSUME TypeInv, NEW o \in Ops, data[o] # None, MarkOperationFailed(o)
    PROVE  TypeInv'
BY DEF TypeInv, TypeOK, RequestsOK, JobsOK, MarkOperationFailed, Close, Driver, kernel, IsRequest

\* The end of watchReadoptedBalance keeps the types.
LEMMA TypeInvWatchBalance ==
    ASSUME TypeInv, NEW o \in Ops, data[o] # None, WatchBalanceEnds(o)
    PROVE  TypeInv'
<1>1. data[o].pool \in Pools
  BY DEF TypeInv, TypeOK, Request
<1>2. heal' \in [Pools -> SUBSET Profiles]
  BY <1>1, HealedType DEF WatchBalanceEnds
<1>3. QED
  BY <1>2 DEF TypeInv, TypeOK, RequestsOK, JobsOK, WatchBalanceEnds, Close, Driver, kernel, IsRequest

\* RecoverPendingOperations keeps the types.
LEMMA TypeInvRecovery ==
    ASSUME TypeInv, NEW o \in Ops, data[o] # None, Recovery(o)
    PROVE  TypeInv'
BY DEF TypeInv, TypeOK, RequestsOK, JobsOK, Recovery, RecoverOperation, RecoverOperationLost,
       Driver, db, kernel, IsRequest

\* A goroutine whose btrfs command returns goes to a state goroutines have.
LEMMA ReturnType ==
    ASSUME TypeInv, NEW p \in Pools, NEW ok \in BOOLEAN, Return(p, ok)
    PROVE  driver' \in [Ops -> Driver]
BY DEF Return, TypeInv, TypeOK, Driver

\* What the kernel leaves when an operation succeeds is well typed.
LEMMA TypeInvFinish ==
    ASSUME TypeInv, NEW p \in Pools, KernelFinish(p)
    PROVE  TypeInv'
<1> DEFINE r == data[kjob[p].op]
<1>1. kjob[p] # None /\ kjob[p] \in Job
  BY DEF KernelFinish, Running, TypeInv, TypeOK
<1>2. CASE kjob[p].op = External
  <2>1. UNCHANGED <<kmem, kprof, kdone>>
    BY <1>2 DEF KernelFinish, JobType
  <2>2. StartsNoJob
    BY DEF KernelFinish, StartsNoJob, TypeInv, TypeOK
  <2>3. driver' \in [Ops -> Driver]
    BY ReturnType DEF KernelFinish
  <2>4. JobsOK'
    BY <2>2, JobsStayOK DEF KernelFinish, db
  <2>5. QED
    BY <2>1, <2>2, <2>3, <2>4 DEF TypeInv, TypeOK, RequestsOK, KernelFinish, StartsNoJob, db, IsRequest
<1>3. CASE kjob[p].op # External
  <2>1. IsRequest(r) /\ r \in Request
    BY <1>1, <1>3 DEF TypeInv, TypeOK, RequestsOK, JobsOK, Job
  <2>2. kmem' \in [Pools -> SUBSET Devices]
    BY <1>3, <2>1 DEF KernelFinish, JobType, IsRequest, Request, TypeInv, TypeOK
  <2>3. kprof' \in [Pools -> Profiles] /\ kdone' \in SUBSET Pools
    BY <1>3, <2>1 DEF KernelFinish, JobType, IsRequest, Request, TypeInv, TypeOK
  <2>4. StartsNoJob
    BY DEF KernelFinish, StartsNoJob, TypeInv, TypeOK
  <2>5. driver' \in [Ops -> Driver]
    BY ReturnType DEF KernelFinish
  <2>6. JobsOK'
    BY <2>4, JobsStayOK DEF KernelFinish, db
  <2>7. QED
    BY <2>2, <2>3, <2>4, <2>5, <2>6
    DEF TypeInv, TypeOK, RequestsOK, KernelFinish, StartsNoJob, db, IsRequest
<1>4. QED
  BY <1>2, <1>3

\* And when it fails.
LEMMA TypeInvAbort ==
    ASSUME TypeInv, NEW p \in Pools, KernelAbort(p)
    PROVE  TypeInv'
<1>1. StartsNoJob
  BY DEF KernelAbort, StartsNoJob, TypeInv, TypeOK
<1>2. driver' \in [Ops -> Driver]
  BY ReturnType DEF KernelAbort
<1>3. JobsOK'
  BY <1>1, JobsStayOK DEF KernelAbort, db
<1>4. QED
  BY <1>1, <1>2, <1>3 DEF TypeInv, TypeOK, RequestsOK, KernelAbort, StartsNoJob, db, IsRequest

\* A balance started by hand belongs to no operation.
LEMMA TypeInvManual ==
    ASSUME TypeInv, NEW p \in Pools, ManualBalance(p)
    PROVE  TypeInv'
BY DEF TypeInv, TypeOK, RequestsOK, JobsOK, ManualBalance, Job, db, IsRequest

\* A rename keeps the types, whether the pool mounts again or not.
LEMMA TypeInvRename ==
    ASSUME TypeInv, NEW p \in Pools, RenamePool(p)
    PROVE  TypeInv'
<1>1. StartsNoJob /\ mnt' \in [Pools -> {"rw", "ro", "none"}]
  <2>1. kjob[p] \in Job \cup {None}
    BY DEF TypeInv, TypeOK
  <2>2. CASE kmem[p] \cap dead = {}
    BY <2>2, RemountJobs DEF RenamePool
  <2>3. CASE kmem[p] \cap dead # {}
    BY <2>1, <2>3, ResumedJob DEF RenamePool, StartsNoJob, TypeInv, TypeOK
  <2>4. QED
    BY <2>2, <2>3
<1>2. req' \in Pending \cup {None} /\ (req' # None => req # None /\ req'.data = req.data)
  BY ModelValueAssumption, Zenon DEF RenamePool, TypeInv, TypeOK, Pending
<1>3. stale' \in SUBSET Ops
  BY DEF RenamePool, TypeInv, TypeOK
<1>4. JobsOK'
  BY <1>1, JobsStayOK DEF RenamePool, db
<1>5. QED
  BY <1>1, <1>2, <1>3, <1>4 DEF TypeInv, TypeOK, RequestsOK, RenamePool, StartsNoJob, db, IsRequest

\* The environment, the observer and the reconcilers.
LEMMA TypeInvObserve ==
    ASSUME TypeInv, Observe \/ \E d \in Devices : DeviceDies(d)
    PROVE  TypeInv'
BY DEF TypeInv, TypeOK, RequestsOK, JobsOK, Observe, DeviceDies, db, kernel, IsRequest

\* reconcilePoolMembership adds members of the pool's filesystem.
LEMMA TypeInvReconcile ==
    ASSUME TypeInv, NEW p \in Pools, ReconcileMount(p) \/ \E d \in Devices : ReconcileMember(p, d)
    PROVE  TypeInv'
BY DEF TypeInv, TypeOK, RequestsOK, JobsOK, ReconcileMount, ReconcileMember, db, kernel, IsRequest

\* Readers, self-heals and the mount reconciler keep the types.
LEMMA TypeInvProfile ==
    ASSUME TypeInv, NEW p \in Pools, ReadProfile(p) \/ \E f \in Profiles : HealProfile(p, f)
    PROVE  TypeInv'
<1>1. heal' \in [Pools -> SUBSET Profiles] /\ profile' \in [Pools -> Profiles]
  BY HealedType DEF ReadProfile, HealProfile, TypeInv, TypeOK, db
<1>2. QED
  BY <1>1 DEF TypeInv, TypeOK, RequestsOK, JobsOK, ReadProfile, HealProfile, db, kernel, IsRequest

\* What a failure leaves of the daemon's memory is well typed.
LEMMA TypeInvMemory ==
    ASSUME TypeInv, MemoryLost
    PROVE  /\ req' = None
           /\ driver' \in [Ops -> Driver] /\ stale' \in SUBSET Ops /\ boot' \in SUBSET Ops
           /\ heal' \in [Pools -> SUBSET Profiles] /\ snap' \in [Pools -> SUBSET Devices]
           /\ crashes' \in 0..MaxCrashes
BY ConstantsAssumption DEF TypeInv, TypeOK, MemoryLost, Driver

\* Both kinds of failure keep the types.
LEMMA TypeInvCrash ==
    ASSUME TypeInv, DaemonCrash \/ Reboot
    PROVE  TypeInv'
<1>1. StartsNoJob
  <2>1. CASE DaemonCrash
    BY <2>1 DEF DaemonCrash, StartsNoJob, TypeInv, TypeOK
  <2>2. CASE Reboot
    <3>1. \A p \in Pools : kjob[p] # None => kjob[p] \in Job
      BY DEF TypeInv, TypeOK
    <3>2. QED
      BY <2>2, <3>1, ModelValueAssumption, Zenon DEF Reboot, StartsNoJob, Job
  <2>3. QED
    BY <2>1, <2>2
<1>2. mnt' \in [Pools -> {"rw", "ro", "none"}]
  BY Zenon DEF DaemonCrash, Reboot, TypeInv, TypeOK
<1>3. JobsOK'
  BY <1>1, JobsStayOK, Zenon DEF DaemonCrash, Reboot, db
<1>4. MemoryLost /\ UNCHANGED <<status, data, member, profile, kmem, kprof, kdone, dead>>
  BY Zenon DEF DaemonCrash, Reboot, db
<1>5. TypeOK'
  BY <1>1, <1>2, <1>4, TypeInvMemory DEF TypeInv, TypeOK, StartsNoJob
<1>6. RequestsOK'
  BY <1>4, TypeInvMemory DEF TypeInv, RequestsOK, IsRequest
<1>7. QED
  BY <1>3, <1>5, <1>6 DEF TypeInv

----------------------------------------------------------------------------
(* What a step does to the journal *)

\* The journal, the boot's list and the set of driven operations stay.
SameJournal ==
    /\ UNCHANGED <<status, data, boot>>
    /\ \A o \in Ops : driver'[o] = "none" <=> driver[o] = "none"

\* Who drives an operation closes it.
Closes(o) ==
    /\ driver[o] # "none"
    /\ Close(o, "completed") \/ Close(o, "failed")
    /\ UNCHANGED boot

\* An operation with a goroutine or a watcher, or listed for the boot, is open.
LEMMA DrivenRequest ==
    ASSUME TypeInv, LockInv, NEW o \in Ops, driver[o] # "none" \/ o \in boot
    PROVE  /\ status[o] = "in_progress" /\ data[o] # None
           /\ IsRequest(data[o]) /\ data[o].pool \in Pools
BY DEF TypeInv, TypeOK, RequestsOK, LockInv, DriverHoldsLock, Open, IsRequest, Request

\* The steps of a goroutine before its last one leave the journal alone.
LEMMA SameJournalGoroutine ==
    ASSUME TypeInv, NEW o \in Ops,
           \/ GoRemount(o) \/ GoWipe(o) \/ GoAdd(o) \/ GoStart(o) \/ GoRefused(o)
           \/ GoRevert(o) \/ GoCommitFails(o)
    PROVE  SameJournal
BY DEF TypeInv, TypeOK, SameJournal, Steps, GoRemount, GoWipe, GoAdd, GoStart, GoRefused, GoRevert,
       GoCommitFails, db

\* So do those of a watcher,
LEMMA SameJournalWatcher ==
    ASSUME TypeInv, NEW o \in Ops,
           \/ WatchBalanceGivesUp(o) \/ WatchReplaceResumes(o)
           \/ WatchReplaceConfirms(o) \/ WatchReplaceGivesUp(o)
    PROVE  SameJournal
BY DEF TypeInv, TypeOK, SameJournal, Steps, WatchBalanceGivesUp, WatchReplaceResumes,
       WatchReplaceConfirms, WatchReplaceGivesUp, db

\* those of the kernel and of a rename,
LEMMA SameJournalKernel ==
    ASSUME TypeInv, NEW p \in Pools,
           KernelFinish(p) \/ KernelAbort(p) \/ ManualBalance(p) \/ RenamePool(p)
    PROVE  SameJournal
BY DEF TypeInv, TypeOK, SameJournal, KernelFinish, KernelAbort, ManualBalance, RenamePool, Return, db

\* and those of the handlers before CreateOperation, the readers and the reconcilers.
LEMMA SameJournalOther ==
    ASSUME TypeInv,
           \/ \E p \in Pools : \E r \in Requests(p) : BeginRequest(r)
           \/ RejectRequest \/ Observe \/ \E d \in Devices : DeviceDies(d)
           \/ \E p \in Pools, d \in Devices : ReconcileMember(p, d)
           \/ \E p \in Pools : ReadProfile(p) \/ ReconcileMount(p)
           \/ \E p \in Pools, f \in Profiles : HealProfile(p, f)
           \/ UNCHANGED vars
    PROVE  SameJournal
BY DEF SameJournal, BeginRequest, RejectRequest, Observe, DeviceDies, ReconcileMember, ReadProfile,
       ReconcileMount, HealProfile, db, vars

\* The journal changes in five ways only.
LEMMA JournalStep ==
    ASSUME TypeInv, [Next]_vars
    PROVE  \/ SameJournal
           \/ \E o \in Ops : JournalRequest(o)
           \/ \E o \in Ops : Closes(o)
           \/ \E o \in Ops : MarkOperationFailedLost(o)
           \/ \E o \in Ops : Recovery(o)
           \/ MemoryLost /\ UNCHANGED <<status, data>>
<1>1. ASSUME NEW o \in Ops, Goroutine(o) \/ Watcher(o)
      PROVE  SameJournal \/ Closes(o) \/ MarkOperationFailedLost(o)
  <2>1. CASE GoCommit(o) \/ MarkOperationFailed(o) \/ WatchBalanceEnds(o)
    BY <2>1 DEF GoCommit, MarkOperationFailed, WatchBalanceEnds, Closes
  <2>2. QED
    BY <1>1, <2>1, SameJournalGoroutine, SameJournalWatcher DEF Goroutine, Watcher
<1>2. ASSUME DaemonCrash \/ Reboot
      PROVE  MemoryLost /\ UNCHANGED <<status, data>>
  BY <1>2, Zenon DEF DaemonCrash, Reboot, db
<1>3. QED
  BY <1>1, <1>2, SameJournalKernel, SameJournalOther DEF Next

----------------------------------------------------------------------------
(* The lock *)

\* An empty journal locks nothing.
LEMMA LockInvInit == Init => LockInv
BY DEF Init, LockInv, OneLayoutOpPerPool, DriverHoldsLock, OpenIsAttended, Open

\* Steps that leave the journal and the drivers alone keep the lock.
LEMMA LockInvSame ==
    ASSUME TypeInv, LockInv, SameJournal
    PROVE  LockInv'
BY DEF LockInv, SameJournal, OneLayoutOpPerPool, DriverHoldsLock, OpenIsAttended, Open

\* The partial unique index admits a new open operation only on a pool without one.
LEMMA LockInvJournal ==
    ASSUME TypeInv, LockInv, NEW o \in Ops, JournalRequest(o)
    PROVE  LockInv'
<1>1. /\ status[o] = "absent" /\ ~Locked(req.data.pool)
      /\ status' = [status EXCEPT ![o] = "in_progress"]
      /\ data' = [data EXCEPT ![o] = req.data]
      /\ driver'[o] # "none" /\ \A x \in Ops \ {o} : driver'[x] = driver[x]
      /\ boot' = boot
  BY DEF JournalRequest, TypeInv, TypeOK
<1>2. OneLayoutOpPerPool'
  BY <1>1 DEF LockInv, OneLayoutOpPerPool, Open, Locked, TypeInv, TypeOK
<1>3. o \notin boot
  BY <1>1 DEF LockInv, Open
<1>4. DriverHoldsLock' /\ (\A x \in boot : Open(x))' /\ OpenIsAttended'
  BY <1>1, <1>3 DEF LockInv, DriverHoldsLock, OpenIsAttended, Open, TypeInv, TypeOK
<1>5. QED
  BY <1>2, <1>4 DEF LockInv

\* A goroutine or watcher that closes its operation leaves nobody behind.
LEMMA LockInvClose ==
    ASSUME TypeInv, LockInv, NEW o \in Ops, Closes(o)
    PROVE  LockInv'
BY DEF TypeInv, TypeOK, LockInv, Closes, Close, OneLayoutOpPerPool, DriverHoldsLock, OpenIsAttended, Open

\* A lost markOperationFailed needs writes that fail.
LEMMA LockInvLost ==
    ASSUME TypeInv, LockInv, NEW o \in Ops, MarkOperationFailedLost(o)
    PROVE  LockInv'
BY DEF TypeInv, TypeOK, LockInv, MarkOperationFailedLost, Steps, db,
       OneLayoutOpPerPool, DriverHoldsLock, OpenIsAttended, Open

\* The boot closes an orphan or gives it a watcher.
LEMMA LockInvRecovery ==
    ASSUME TypeInv, LockInv, NEW o \in Ops, Recovery(o)
    PROVE  LockInv'
<1>1. CASE RecoverOperation(o)
  BY <1>1 DEF TypeInv, TypeOK, LockInv, RecoverOperation,
     OneLayoutOpPerPool, DriverHoldsLock, OpenIsAttended, Open
<1>2. CASE RecoverOperationLost(o)
  BY <1>2 DEF TypeInv, TypeOK, LockInv, RecoverOperationLost, db,
     OneLayoutOpPerPool, DriverHoldsLock, OpenIsAttended, Open
<1>3. QED
  BY <1>1, <1>2 DEF Recovery

\* A boot finds every open operation, whoever drove it.
LEMMA LockInvCrash ==
    ASSUME TypeInv, LockInv, MemoryLost, UNCHANGED <<status, data>>
    PROVE  LockInv'
BY DEF TypeInv, TypeOK, LockInv, MemoryLost, OneLayoutOpPerPool, DriverHoldsLock, OpenIsAttended, Open

\* Every step keeps the lock.
LEMMA LockInvStep ==
    ASSUME TypeInv, LockInv, [Next]_vars
    PROVE  LockInv'
BY JournalStep, LockInvSame, LockInvJournal, LockInvClose, LockInvLost, LockInvRecovery, LockInvCrash

\* Every step keeps the types.
LEMMA TypeInvStep ==
    ASSUME TypeInv, LockInv, [Next]_vars
    PROVE  TypeInv'
<1>1. ASSUME NEW o \in Ops, Goroutine(o) \/ Watcher(o) \/ Recovery(o)
      PROVE  TypeInv'
  <2>1. data[o] # None
    <3>1. driver[o] # "none" \/ o \in boot
      BY <1>1 DEF Goroutine, Watcher, Recovery, Steps, GoRemount, GoWipe, GoAdd, GoStart, GoRefused,
         GoRevert, GoCommit, GoCommitFails, MarkOperationFailed, MarkOperationFailedLost,
         WatchBalanceEnds, WatchBalanceGivesUp, WatchReplaceResumes, WatchReplaceConfirms,
         WatchReplaceGivesUp, RecoverOperation, RecoverOperationLost
    <3>2. QED
      BY <3>1, DrivenRequest
  <2>2. QED
    BY <1>1, <2>1, TypeInvDriver, TypeInvRemount, TypeInvWipe, TypeInvAdd, TypeInvStart,
       TypeInvCommit, TypeInvFailed, TypeInvWatchBalance, TypeInvRecovery
    DEF Goroutine, Watcher
<1>2. CASE UNCHANGED vars
  BY <1>2 DEF TypeInv, TypeOK, RequestsOK, JobsOK, vars, IsRequest
<1>3. QED
  BY <1>1, <1>2, TypeInvBegin, TypeInvReject, TypeInvJournal, TypeInvFinish, TypeInvAbort,
     TypeInvManual, TypeInvRename, TypeInvObserve, TypeInvReconcile, TypeInvProfile, TypeInvCrash
  DEF Next

\* The two layers are one inductive invariant: what drives an operation has a request.
LEMMA LockingInvariant == Spec => [](TypeInv /\ LockInv)
<1>1. Init => TypeInv /\ LockInv
  BY TypeInvInit, LockInvInit
<1>2. TypeInv /\ LockInv /\ [Next]_vars => (TypeInv /\ LockInv)'
  BY TypeInvStep, LockInvStep
<1>3. QED
  BY <1>1, <1>2, PTL DEF Spec

\* Every variable keeps its type: no closing transaction stores the absent device
\* of a removal, no self-heal a profile that is none.
THEOREM TypeCorrect == Spec => []TypeOK
BY LockingInvariant, PTL DEF TypeInv

\* INV-1 holds through every crash, recovery and watcher.
THEOREM OneLayoutOp == Spec => []OneLayoutOpPerPool
BY LockingInvariant, PTL DEF LockInv

\* Only the holder of the lock, and only one, may still write an outcome.
THEOREM DriversHoldLocks == Spec => []DriverHoldsLock
BY LockingInvariant, PTL DEF LockInv

\* While SQLite accepts writes, no open operation is left without anybody to close it.
THEOREM OpenOpsAttended == Spec => []OpenIsAttended
BY LockingInvariant, PTL DEF LockInv

\* Every step that writes an outcome finds the operation open.
LEMMA TerminalStep ==
    ASSUME TypeInv, LockInv, [Next]_vars, NEW o \in Ops, status[o] \in {"completed", "failed"}
    PROVE  status'[o] = status[o] /\ data'[o] = data[o]
<1>1. CASE SameJournal
  BY <1>1 DEF SameJournal
<1>2. ASSUME NEW x \in Ops, JournalRequest(x) \/ Closes(x) \/ MarkOperationFailedLost(x) \/ Recovery(x)
      PROVE  status'[o] = status[o] /\ data'[o] = data[o]
  <2>1. x # o
    BY <1>2, DrivenRequest DEF JournalRequest, Closes, MarkOperationFailedLost, Steps, Recovery,
       RecoverOperation, RecoverOperationLost
  <2>2. QED
    BY <1>2, <2>1 DEF JournalRequest, Closes, Close, MarkOperationFailedLost, Recovery,
       RecoverOperation, RecoverOperationLost, db, TypeInv, TypeOK
<1>3. CASE MemoryLost /\ UNCHANGED <<status, data>>
  BY <1>3
<1>4. QED
  BY <1>1, <1>2, <1>3, JournalStep

\* UpdateOperationStatus overwrites whatever it finds, and still no outcome is ever
\* rewritten.
THEOREM OutcomesAreFinal == Spec => TerminalIsFinal
<1>1. TypeInv /\ LockInv /\ [Next]_vars =>
        [\A o \in Ops : status[o] \in {"completed", "failed"} =>
            status'[o] = status[o] /\ data'[o] = data[o]]_vars
  BY TerminalStep
<1>2. QED
  BY <1>1, LockingInvariant, PTL DEF Spec, TerminalIsFinal

----------------------------------------------------------------------------
(* What the abstract lock promises *)

\* INV-1 of the schema, for any operations and pools: while whoever opens and closes
\* operations does so as LayoutLock says, two operations open on the same pool are the
\* same operation.
THEOREM LockExcludes == Lock!Spec => []Lock!MutualExclusion
<1> DEFINE LInv == Lock!TypeOK /\ Lock!MutualExclusion
<1>1. Lock!Init => LInv
  BY DEF Lock!Init, Lock!TypeOK, Lock!MutualExclusion
<1>2. LInv /\ [Lock!Next]_(Lock!vars) => LInv'
  <2>1. ASSUME LInv, NEW o \in Ops, NEW p \in Pools, Lock!Open(o, p)
        PROVE  LInv'
    BY <2>1 DEF Lock!TypeOK, Lock!MutualExclusion, Lock!Open, Lock!Locked
  <2>2. ASSUME LInv, NEW o \in Ops, Lock!Close(o)
        PROVE  LInv'
    BY <2>2 DEF Lock!TypeOK, Lock!MutualExclusion, Lock!Close
  <2>3. ASSUME LInv, UNCHANGED Lock!vars
        PROVE  LInv'
    BY <2>3 DEF Lock!TypeOK, Lock!MutualExclusion, Lock!vars
  <2>4. QED
    BY <2>1, <2>2, <2>3 DEF Lock!Next
<1>3. LInv => Lock!MutualExclusion
  OBVIOUS
<1> HIDE DEF LInv
<1>4. QED
  BY <1>1, <1>2, <1>3, PTL DEF Lock!Spec

----------------------------------------------------------------------------
(* The journal implements the abstract lock *)

\* The empty journal is an idle lock.
LEMMA LockInit == Init => Lock!Init
BY DEF Init, Lock!Init, Phase, LockOf, Open

\* Steps that leave the journal alone are stutters of the lock.
LEMMA LockUnchanged ==
    ASSUME UNCHANGED <<status, data>>
    PROVE  UNCHANGED <<Phase, LockOf>>
BY DEF Phase, LockOf, Open

\* CreateOperation takes a free lock.
LEMMA LockOpens ==
    ASSUME TypeInv, NEW o \in Ops, JournalRequest(o)
    PROVE  req.data.pool \in Pools /\ Lock!Open(o, req.data.pool)
<1> DEFINE p == req.data.pool
<1>1. /\ req.data \in Request /\ p \in Pools /\ req.data # None
      /\ status[o] = "absent" /\ ~Locked(p)
      /\ status' = [status EXCEPT ![o] = "in_progress"]
      /\ data' = [data EXCEPT ![o] = req.data]
  BY ModelValueAssumption DEF JournalRequest, TypeInv, TypeOK, Pending, Request
<1>2. Phase[o] = "absent"
  BY <1>1 DEF Phase, Open
<1>3. ~Lock!Locked(p)
  BY <1>1 DEF Lock!Locked, Locked, Phase, LockOf, Open, TypeInv, RequestsOK
<1>4. Phase' = [Phase EXCEPT ![o] = "open"]
  BY <1>1 DEF Phase, Open, TypeInv, TypeOK
<1>5. LockOf' = [LockOf EXCEPT ![o] = p]
  BY <1>1 DEF LockOf, TypeInv, TypeOK
<1>6. QED
  BY <1>1, <1>2, <1>3, <1>4, <1>5 DEF Lock!Open

\* An outcome frees the lock of an open operation.
LEMMA LockCloses ==
    ASSUME TypeInv, NEW o \in Ops, status[o] = "in_progress", UNCHANGED data,
           \/ status' = [status EXCEPT ![o] = "completed"]
           \/ status' = [status EXCEPT ![o] = "failed"]
    PROVE  Lock!Close(o)
<1>1. Phase[o] = "open"
  BY DEF Phase, Open
<1>2. Phase' = [Phase EXCEPT ![o] = "closed"]
  BY DEF Phase, Open, TypeInv, TypeOK
<1>3. UNCHANGED LockOf
  BY DEF LockOf
<1>4. QED
  BY <1>1, <1>2, <1>3 DEF Lock!Close

\* Every step is one of the lock or a stutter.
LEMMA LockStep ==
    ASSUME TypeInv, LockInv, [Next]_vars
    PROVE  [Lock!Next]_(Lock!vars)
<1>1. ASSUME UNCHANGED <<status, data>>
      PROVE  [Lock!Next]_(Lock!vars)
  BY <1>1, LockUnchanged DEF Lock!vars
<1>2. ASSUME NEW o \in Ops, JournalRequest(o)
      PROVE  Lock!Next
  BY <1>2, LockOpens DEF Lock!Next
<1>3. ASSUME NEW o \in Ops, Closes(o)
      PROVE  Lock!Next
  <2>1. status[o] = "in_progress"
    BY <1>3, DrivenRequest DEF Closes
  <2>2. Lock!Close(o)
    BY <1>3, <2>1, LockCloses DEF Closes, Close
  <2>3. QED
    BY <2>2 DEF Lock!Next
<1>4. ASSUME NEW o \in Ops, Recovery(o)
      PROVE  [Lock!Next]_(Lock!vars)
  <2>1. status[o] = "in_progress" /\ UNCHANGED data
    BY <1>4, DrivenRequest DEF Recovery, RecoverOperation, RecoverOperationLost, db
  <2>2. UNCHANGED status \/ status' = [status EXCEPT ![o] = "failed"]
    BY <1>4 DEF Recovery, RecoverOperation, RecoverOperationLost, db
  <2>3. QED
    BY <1>1, <2>1, <2>2, LockCloses DEF Lock!Next
<1>5. QED
  BY <1>1, <1>2, <1>3, <1>4, JournalStep DEF SameJournal, MarkOperationFailedLost, db

\* Clients that see only which operations are open, and on which pool, cannot tell
\* the daemon and its failures from LayoutLock.
THEOREM JournalImplementsLock == Spec => ImplementsLock
<1>1. Init => Lock!Init
  BY LockInit
<1>2. TypeInv /\ LockInv /\ [Next]_vars => [Lock!Next]_(Lock!vars)
  BY LockStep
<1>3. QED
  BY <1>1, <1>2, LockingInvariant, PTL DEF Spec, ImplementsLock, Lock!Spec

----------------------------------------------------------------------------
(* What is mounted *)

\* Pools start mounted, and nothing runs.
LEMMA MountsInit == Init => MountsOK
BY DEF Init, MountsOK, Running

\* Nothing running is unmounted, no degraded pool recovers its disk.
LEMMA MountsKept ==
    ASSUME MountsOK, UNCHANGED mnt,
           \A p \in Pools : Running(p)' => Running(p) \/ mnt[p] = "rw",
           \A p \in Pools : Degraded(p) => Degraded(p)' \/ mnt[p] = "rw"
    PROVE  MountsOK'
BY DEF MountsOK

\* A forced claim never takes a dead device from a pool.
LEMMA DisownedDegraded ==
    ASSUME TypeInv, NEW d, Claimable(d), NEW p \in Pools
    PROVE  Degraded(p) <=> Disowned(d)[p] \cap dead # {}
BY DEF Claimable, Disowned, Degraded

\* A job runs after the remount exactly if the pool is read-write.
LEMMA MountsRemount ==
    ASSUME TypeInv, MountsOK, NEW p \in Pools, RemountRw(p) \/ RemountRo(p), UNCHANGED <<kmem, dead>>
    PROVE  MountsOK'
<1>1. kjob[p] \in Job \cup {None}
  BY DEF TypeInv, TypeOK
<1>2. QED
  BY <1>1, ResumedJob DEF RemountRw, RemountRo, MountsOK, Running, Degraded, TypeInv, TypeOK

\* What goroutines and watchers do to the disks keeps MountsOK.
LEMMA MountsGoroutine ==
    ASSUME TypeInv, MountsOK, NEW o \in Ops, data[o] # None,
           GoRemount(o) \/ GoWipe(o) \/ GoAdd(o) \/ GoStart(o) \/ GoRevert(o) \/ WatchReplaceResumes(o)
    PROVE  MountsOK'
<1>1. data[o].pool \in Pools
  BY DEF TypeInv, TypeOK, Request
<1>2. CASE GoRemount(o) \/ GoRevert(o) \/ WatchReplaceResumes(o)
  <2>1. CASE UNCHANGED <<mnt, kjob, kmem, dead>>
    BY <2>1 DEF MountsOK, Running, Degraded
  <2>2. QED
    BY <1>1, <1>2, <2>1, MountsRemount DEF GoRemount, GoRevert, WatchReplaceResumes
<1>3. CASE GoWipe(o)
  BY <1>3, DisownedDegraded DEF GoWipe, MountsOK, Running, Degraded
<1>4. CASE GoAdd(o)
  <2>1. \A p \in Pools : kmem[p] \subseteq kmem'[p]
    BY <1>1, <1>4 DEF GoAdd, TypeInv, TypeOK
  <2>2. QED
    BY <1>4, <2>1 DEF GoAdd, MountsOK, Running, Degraded
<1>5. CASE GoStart(o)
  <2>1. mnt[data[o].pool] = "rw" /\ UNCHANGED <<mnt, dead>>
    BY <1>5 DEF GoStart, KernelReady
  <2>2. \A p \in Pools : Running(p)' => Running(p) \/ mnt[p] = "rw"
    BY <1>5, <2>1 DEF GoStart, Running, TypeInv, TypeOK
  <2>3. \A p \in Pools : Degraded(p) => Degraded(p)'
    <3>1. CASE data[o].type = "replace_device"
      <4>1. kmem' = Disowned(data[o].new) /\ Claimable(data[o].new)
        BY <1>5, <3>1 DEF GoStart, KernelAccepts
      <4>2. QED
        BY <2>1, <4>1, DisownedDegraded DEF Degraded
    <3>2. CASE data[o].type # "replace_device"
      BY <1>5, <2>1, <3>2 DEF GoStart, Degraded
    <3>3. QED
      BY <3>1, <3>2
  <2>4. QED
    BY <2>1, <2>2, <2>3, MountsKept
<1>6. QED
  BY <1>2, <1>3, <1>4, <1>5

\* What the kernel, the administrator and the mount reconciler do keeps it.
LEMMA MountsKernel ==
    ASSUME TypeInv, MountsOK, NEW p \in Pools,
           \/ KernelFinish(p) \/ KernelAbort(p) \/ ManualBalance(p) \/ RenamePool(p) \/ ReconcileMount(p)
    PROVE  MountsOK'
<1>1. CASE KernelFinish(p)
  <2>1. UNCHANGED <<mnt, dead>> /\ mnt[p] = "rw"
    BY <1>1 DEF KernelFinish, MountsOK
  <2>2. \A q \in Pools : Running(q)' => Running(q)
    BY <1>1 DEF KernelFinish, Running, TypeInv, TypeOK
  <2>3. \A q \in Pools \ {p} : kmem'[q] = kmem[q]
    BY <1>1 DEF KernelFinish, TypeInv, TypeOK
  <2>4. QED
    BY <2>1, <2>2, <2>3, MountsKept DEF Degraded
<1>2. CASE KernelAbort(p)
  BY <1>2 DEF KernelAbort, MountsOK, Running, Degraded, TypeInv, TypeOK
<1>3. CASE ManualBalance(p)
  BY <1>3 DEF ManualBalance, MountsOK, Running, Degraded, TypeInv, TypeOK
<1>4. CASE RenamePool(p)
  <2>1. kjob[p] \in Job \cup {None} /\ UNCHANGED <<kmem, dead>>
    BY <1>4 DEF TypeInv, TypeOK, RenamePool
  <2>2. CASE kmem[p] \cap dead = {}
    BY <1>4, <2>1, <2>2, MountsRemount DEF RenamePool
  <2>3. CASE kmem[p] \cap dead # {}
    BY <1>4, <2>1, <2>3, ResumedJob DEF RenamePool, MountsOK, Running, Degraded, TypeInv, TypeOK
  <2>4. QED
    BY <2>2, <2>3
<1>5. CASE ReconcileMount(p)
  BY <1>5 DEF ReconcileMount, MountsOK, Running, Degraded, TypeInv, TypeOK
<1>6. QED
  BY <1>1, <1>2, <1>3, <1>4, <1>5

\* Crashes, reboots and dying disks keep it.
LEMMA MountsFailure ==
    ASSUME TypeInv, MountsOK, DaemonCrash \/ Reboot \/ \E d \in Devices : DeviceDies(d)
    PROVE  MountsOK'
<1>1. CASE DaemonCrash
  BY <1>1 DEF DaemonCrash, MountsOK, Running, Degraded
<1>2. CASE Reboot
  <2>1. \A p \in Pools : mnt'[p] = IF kmem[p] \cap dead = {} THEN "rw" ELSE "none"
    BY <1>2, Zenon DEF Reboot
  <2>2. \A p \in Pools : kjob'[p] # None /\ kjob'[p].state = "running" => mnt'[p] = "rw"
    <3>1. \A p \in Pools : kjob[p] # None => kjob[p] \in Job
      BY DEF TypeInv, TypeOK
    <3>2. QED
      BY <1>2, <3>1, Zenon DEF Reboot, Job
  <2>3. QED
    BY <1>2, <2>1, <2>2, Zenon DEF Reboot, MountsOK, Running, Degraded
<1>3. CASE \E d \in Devices : DeviceDies(d)
  BY <1>3 DEF DeviceDies, MountsOK, Running, Degraded
<1>4. QED
  BY <1>1, <1>2, <1>3

\* The kernel, its jobs and the mounts are none of a step's business.
Elsewhere == UNCHANGED <<kmem, kjob, kprof, mnt, dead>>

\* Steps of goroutines, watchers and recovery that only write memory or SQLite.
LEMMA ElsewhereSteps ==
    ASSUME NEW o \in Ops,
           \/ JournalRequest(o) \/ GoRefused(o) \/ GoCommit(o) \/ GoCommitFails(o)
           \/ MarkOperationFailed(o) \/ MarkOperationFailedLost(o)
           \/ WatchBalanceEnds(o) \/ WatchBalanceGivesUp(o)
           \/ WatchReplaceConfirms(o) \/ WatchReplaceGivesUp(o) \/ Recovery(o)
    PROVE  Elsewhere
BY DEF Elsewhere, kernel, JournalRequest, GoRefused, GoCommit, GoCommitFails, MarkOperationFailed,
       MarkOperationFailedLost, WatchBalanceEnds, WatchBalanceGivesUp, WatchReplaceConfirms,
       WatchReplaceGivesUp, Recovery, RecoverOperation, RecoverOperationLost

\* Steps of handlers, readers and reconcilers that only write memory or SQLite.
LEMMA ElsewhereOthers ==
    ASSUME \/ \E p \in Pools : \E r \in Requests(p) : BeginRequest(r)
           \/ RejectRequest \/ Observe
           \/ \E p \in Pools, d \in Devices : ReconcileMember(p, d)
           \/ \E p \in Pools : ReadProfile(p)
           \/ \E p \in Pools, f \in Profiles : HealProfile(p, f)
           \/ UNCHANGED vars
    PROVE  Elsewhere /\ UNCHANGED <<data, driver>>
BY DEF Elsewhere, kernel, db, vars, BeginRequest, RejectRequest, Observe, ReconcileMember,
       ReadProfile, HealProfile

\* Every step keeps MountsOK.
LEMMA MountsStep ==
    ASSUME TypeInv, LockInv, MountsOK, [Next]_vars
    PROVE  MountsOK'
<1>1. CASE Elsewhere
  BY <1>1 DEF Elsewhere, MountsOK, Running, Degraded
<1>2. ASSUME NEW o \in Ops, Goroutine(o) \/ Watcher(o), ~Elsewhere
      PROVE  MountsOK'
  <2>1. GoRemount(o) \/ GoWipe(o) \/ GoAdd(o) \/ GoStart(o) \/ GoRevert(o) \/ WatchReplaceResumes(o)
    BY <1>2, ElsewhereSteps DEF Goroutine, Watcher
  <2>2. driver[o] # "none"
    BY <2>1 DEF GoRemount, GoWipe, GoAdd, GoStart, GoRevert, WatchReplaceResumes, Steps
  <2>3. data[o] # None
    BY <2>2, DrivenRequest
  <2>4. QED
    BY <2>1, <2>3, MountsGoroutine
<1>3. QED
  BY <1>1, <1>2, ElsewhereSteps, ElsewhereOthers, MountsKernel, MountsFailure DEF Next

----------------------------------------------------------------------------
(* What btrfs did is still so when the goroutine commits *)

\* No goroutine runs at the start.
LEMMA SettledInit == Init => FinishedOK
BY DEF Init, FinishedOK

\* No step but btrfs returning makes a goroutine finished.
LEMMA FinishedFrom ==
    ASSUME TypeInv, [Next]_vars, NEW o \in Ops, driver'[o] = "finished", driver[o] # "finished"
    PROVE  GoAdd(o) \/ \E p \in Pools : KernelFinish(p) /\ kjob[p].op = o
<1>1. ASSUME NEW x \in Ops, JournalRequest(x) \/ Goroutine(x) \/ Watcher(x) \/ Recovery(x)
      PROVE  GoAdd(o)
  BY <1>1, Zenon DEF JournalRequest, Goroutine, Watcher, Recovery, Steps, GoRemount, GoWipe, GoAdd, GoStart,
     GoRefused, GoRevert, GoCommit, GoCommitFails, MarkOperationFailed, MarkOperationFailedLost,
     WatchBalanceEnds, WatchBalanceGivesUp, WatchReplaceResumes, WatchReplaceConfirms,
     WatchReplaceGivesUp, RecoverOperation, RecoverOperationLost, Close, TypeInv, TypeOK
<1>2. ASSUME NEW p \in Pools, KernelFinish(p) \/ KernelAbort(p) \/ ManualBalance(p) \/ RenamePool(p)
      PROVE  KernelFinish(p) /\ kjob[p].op = o
  BY <1>2 DEF KernelFinish, KernelAbort, ManualBalance, RenamePool, Return
<1>3. ASSUME DaemonCrash \/ Reboot
      PROVE  FALSE
  BY <1>3, Zenon DEF DaemonCrash, Reboot, MemoryLost
<1>4. ~(\E d \in Devices : DeviceDies(d)) /\ ~(\E p \in Pools : ReconcileMount(p))
  BY DEF DeviceDies, ReconcileMount
<1>5. QED
  BY <1>1, <1>2, <1>3, <1>4, ElsewhereOthers DEF Next

\* btrfs device add returns with the device in, and the pool idle.
LEMMA SettledByAdd ==
    ASSUME TypeInv, LockInv, NEW o \in Ops, GoAdd(o)
    PROVE  Settled(o)'
<1>1. IsRequest(data[o]) /\ data[o].pool \in Pools
  BY DrivenRequest DEF GoAdd, Steps
<1>2. data[o].old = None /\ data[o].to = None
  BY <1>1 DEF GoAdd, IsRequest
<1>3. data[o].new \in kmem'[data[o].pool]
  BY <1>1 DEF GoAdd, TypeInv, TypeOK
<1>4. QED
  BY <1>2, <1>3 DEF Settled, InEffect, GoAdd, KernelReady, db

\* The other commands return when the kernel has done what they asked.
LEMMA SettledByFinish ==
    ASSUME TypeInv, NEW o \in Ops, NEW p \in Pools, KernelFinish(p), kjob[p].op = o
    PROVE  Settled(o)'
<1> DEFINE r == data[o]
<1>1. /\ kjob[p] # None /\ kjob[p].op # External
      /\ IsRequest(r) /\ r.pool = p /\ r.type # "add_device" /\ JobType(p) = r.type
  BY ConstantsAssumption DEF KernelFinish, Running, TypeInv, JobsOK, RequestsOK, JobType
<1>2. kjob'[p] = None /\ data' = data
  BY DEF KernelFinish, TypeInv, TypeOK, db
<1>3. CASE r.type = "remove_device"
  <2>1. kmem' = [kmem EXCEPT ![p] = @ \ {r.old}]
    BY <1>1, <1>3 DEF KernelFinish
  <2>2. r.old \notin kmem'[p]
    BY <2>1 DEF TypeInv, TypeOK
  <2>3. QED
    BY <1>1, <1>2, <1>3, <2>2 DEF Settled, InEffect, IsRequest
<1>4. CASE r.type = "replace_device"
  <2>1. kmem' = [kmem EXCEPT ![p] = (@ \ {r.old}) \cup {r.new}]
    BY <1>1, <1>4 DEF KernelFinish
  <2>2. r.old \notin kmem'[p] /\ r.new \in kmem'[p]
    BY <1>1, <1>4, <2>1 DEF TypeInv, TypeOK, IsRequest
  <2>3. QED
    BY <1>1, <1>2, <1>4, <2>2 DEF Settled, InEffect, IsRequest
<1>5. CASE r.type = "convert_profile"
  <2>1. kprof' = [kprof EXCEPT ![p] = r.to]
    BY <1>1, <1>5 DEF KernelFinish
  <2>2. kprof'[p] = r.to
    BY <2>1 DEF TypeInv, TypeOK
  <2>3. QED
    BY <1>1, <1>2, <1>5, <2>2 DEF Settled, InEffect, IsRequest
<1>6. QED
  BY <1>1, <1>3, <1>4, <1>5 DEF IsRequest, Request, LayoutTypes

\* The effect of a finished operation o on its pool survives a step that takes
\* nothing from it but a device of a degraded pool, and starts no job of the daemon.
LEMMA StaysSettled ==
    ASSUME NEW o, Settled(o), data'[o] = data[o], NEW p, p = data[o].pool,
           kprof'[p] = kprof[p], kmem'[p] \subseteq kmem[p],
           \A d \in kmem[p] : d \in kmem'[p] \/ Degraded(p)',
           Degraded(p) => Degraded(p)',
           kjob'[p] = None \/ kjob'[p].op = External
    PROVE  Settled(o)'
<1>1. data'[o].pool = p
  OBVIOUS
<1>2. InEffect(data[o])
  BY DEF Settled
<1>3. InEffect(data[o])'
  BY <1>1, <1>2 DEF InEffect
<1>4. QED
  BY <1>1, <1>3 DEF Settled

\* Jobs that end, pause or resume disturb nothing that is settled.
LEMMA SettledWithoutJobs ==
    ASSUME NEW o, Settled(o), data'[o] = data[o], data[o].pool \in Pools, StartsNoJob,
           UNCHANGED <<kmem, kprof>>, dead \subseteq dead'
    PROVE  Settled(o)'
<1> DEFINE p == data[o].pool
<1>1. kjob'[p] = None \/ kjob'[p].op = External
  BY DEF StartsNoJob, Settled
<1>2. Degraded(p) => Degraded(p)'
  BY DEF Degraded
<1>3. QED
  BY <1>1, <1>2, StaysSettled

\* A disk that a wipe or a replace claims by force leaves only unmounted pools,
\* and those are degraded.
LEMMA SettledWhileClaimed ==
    ASSUME TypeInv, MountsOK, NEW o, Settled(o), data[o].pool \in Pools, UNCHANGED <<data, kprof, dead>>,
           NEW d, Claimable(d), kmem' = Disowned(d),
           kjob'[data[o].pool] = None \/ kjob'[data[o].pool].op = External
    PROVE  Settled(o)'
<1> DEFINE p == data[o].pool
<1>1. kmem'[p] = kmem[p] \ {d}
  BY DEF Disowned
<1>2. Degraded(p) <=> Degraded(p)'
  BY DisownedDegraded DEF Degraded
<1>3. d \in kmem[p] => Degraded(p)
  BY DEF Claimable, MountsOK
<1>4. QED
  BY <1>1, <1>2, <1>3, StaysSettled

\* The steps of other goroutines that change a filesystem are on other pools.
LEMMA SettledBesideGoroutines ==
    ASSUME TypeInv, LockInv, MountsOK, NEW o \in Ops, driver[o] = "finished", Settled(o),
           NEW x \in Ops, GoWipe(x) \/ GoAdd(x) \/ GoStart(x)
    PROVE  Settled(o)'
<1> DEFINE p == data[o].pool
<1>1. p \in Pools /\ data[x].pool \in Pools /\ data[x].pool # p
  <2>1. x # o /\ driver[x] # "none"
    BY DEF GoWipe, GoAdd, GoStart, Steps
  <2>2. Open(x) /\ Open(o) /\ p \in Pools /\ data[x].pool \in Pools
    BY <2>1, DrivenRequest DEF Open
  <2>3. QED
    BY <2>1, <2>2 DEF LockInv, OneLayoutOpPerPool
<1>2. UNCHANGED <<data, kprof, dead>>
  BY DEF GoWipe, GoAdd, GoStart, db
<1>3. kjob'[p] = kjob[p]
  BY <1>1 DEF GoWipe, GoAdd, GoStart, TypeInv, TypeOK
<1>4. kjob'[p] = None \/ kjob'[p].op = External
  BY <1>3 DEF Settled
<1>5. CASE GoWipe(x)
  BY <1>1, <1>2, <1>4, <1>5, SettledWhileClaimed DEF GoWipe
<1>6. CASE kmem'[p] = kmem[p]
  BY <1>2, <1>4, <1>6, StaysSettled DEF Degraded
<1>7. CASE GoAdd(x)
  BY <1>1, <1>6, <1>7 DEF GoAdd, TypeInv, TypeOK
<1>8. CASE GoStart(x)
  <2>1. CASE data[x].type = "replace_device"
    BY <1>1, <1>2, <1>4, <1>8, <2>1, SettledWhileClaimed DEF GoStart, KernelAccepts
  <2>2. CASE data[x].type # "replace_device"
    BY <1>6, <1>8, <2>2 DEF GoStart
  <2>3. QED
    BY <2>1, <2>2
<1>9. QED
  BY <1>5, <1>7, <1>8

\* The kernel's job on the pool of a finished operation is a balance started by hand.
LEMMA SettledBesideKernel ==
    ASSUME TypeInv, LockInv, NEW o \in Ops, driver[o] = "finished", Settled(o),
           NEW q \in Pools, KernelFinish(q)
    PROVE  Settled(o)'
<1> DEFINE p == data[o].pool
<1>1. p \in Pools
  BY DrivenRequest
<1>2. UNCHANGED <<data, dead>>
  BY DEF KernelFinish, db
<1>3. kjob'[p] = None \/ kjob'[p].op = External
  BY <1>1 DEF Settled, KernelFinish, TypeInv, TypeOK
<1>4. kmem'[p] = kmem[p] /\ kprof'[p] = kprof[p]
  <2>1. CASE q = p
    <3>1. JobType(q) = "balance"
      BY <2>1, Zenon DEF KernelFinish, Running, Settled, JobType
    <3>2. QED
      BY <3>1 DEF KernelFinish
  <2>2. CASE q # p
    BY <1>1, <2>2 DEF KernelFinish, TypeInv, TypeOK
  <2>3. QED
    BY <2>1, <2>2
<1>5. QED
  BY <1>1, <1>2, <1>3, <1>4, StaysSettled DEF Degraded

\* Nothing that happens between the return of btrfs and the commit undoes its effect.
LEMMA SettledKept ==
    ASSUME TypeInv, LockInv, MountsOK, [Next]_vars,
           NEW o \in Ops, driver[o] = "finished", driver'[o] = "finished", Settled(o)
    PROVE  Settled(o)'
<1>1. data[o].pool \in Pools /\ Open(o)
  BY DrivenRequest DEF Open
<1>2. ASSUME Elsewhere, data'[o] = data[o]
      PROVE  Settled(o)'
  BY <1>1, <1>2, SettledWithoutJobs DEF Elsewhere, StartsNoJob, TypeInv, TypeOK
<1>3. ASSUME StartsNoJob, UNCHANGED <<kmem, kprof, data>>, dead \subseteq dead'
      PROVE  Settled(o)'
  BY <1>1, <1>3, SettledWithoutJobs
<1>4. ASSUME NEW x \in Ops, JournalRequest(x)
      PROVE  data'[o] = data[o]
  BY <1>1, <1>4 DEF JournalRequest, Open, TypeInv, TypeOK
<1>5. ASSUME NEW x \in Ops, Goroutine(x) \/ Watcher(x) \/ Recovery(x)
      PROVE  Settled(o)'
  <2>1. CASE GoWipe(x) \/ GoAdd(x) \/ GoStart(x)
    BY <2>1, SettledBesideGoroutines
  <2>2. CASE GoRemount(x) \/ GoRevert(x) \/ WatchReplaceResumes(x)
    <3>1. UNCHANGED <<kmem, kprof, data, dead>>
      BY <2>2 DEF GoRemount, GoRevert, WatchReplaceResumes, db
    <3>2. data[x].pool \in Pools
      BY <2>2, DrivenRequest DEF GoRemount, GoRevert, WatchReplaceResumes, Steps
    <3>3. StartsNoJob
      <4>1. CASE RemountRw(data[x].pool) \/ RemountRo(data[x].pool)
        BY <3>2, <4>1, RemountJobs
      <4>2. CASE UNCHANGED kjob
        BY <4>2 DEF StartsNoJob, TypeInv, TypeOK
      <4>3. QED
        BY <2>2, <4>1, <4>2 DEF GoRemount, GoRevert, WatchReplaceResumes
    <3>4. QED
      BY <1>3, <3>1, <3>3
  <2>3. CASE GoRefused(x) \/ GoCommit(x) \/ GoCommitFails(x) \/ MarkOperationFailed(x)
             \/ MarkOperationFailedLost(x) \/ WatchBalanceEnds(x) \/ WatchBalanceGivesUp(x)
             \/ WatchReplaceConfirms(x) \/ WatchReplaceGivesUp(x) \/ Recovery(x)
    <3>1. UNCHANGED data
      BY <2>3 DEF GoRefused, GoCommit, GoCommitFails, MarkOperationFailed, MarkOperationFailedLost,
         WatchBalanceEnds, WatchBalanceGivesUp, WatchReplaceConfirms, WatchReplaceGivesUp,
         Recovery, RecoverOperation, RecoverOperationLost, Close, db
    <3>2. QED
      BY <1>2, <2>3, <3>1, ElsewhereSteps
  <2>4. QED
    BY <1>5, <2>1, <2>2, <2>3 DEF Goroutine, Watcher
<1>6. ASSUME NEW q \in Pools, KernelAbort(q)
      PROVE  Settled(o)'
  BY <1>3, <1>6 DEF KernelAbort, StartsNoJob, TypeInv, TypeOK, db
<1>7. ASSUME NEW q \in Pools, ManualBalance(q)
      PROVE  Settled(o)'
  <2>1. UNCHANGED <<kmem, kprof, data, dead>>
    BY <1>7 DEF ManualBalance, db
  <2>2. kjob'[data[o].pool] = None \/ kjob'[data[o].pool].op = External
    BY <1>1, <1>7 DEF ManualBalance, Settled, TypeInv, TypeOK
  <2>3. QED
    BY <2>1, <2>2, StaysSettled DEF Degraded
<1>8. ASSUME NEW q \in Pools, RenamePool(q)
      PROVE  Settled(o)'
  <2>1. StartsNoJob
    <3>1. CASE RemountRw(q)
      BY <3>1, RemountJobs
    <3>2. CASE kjob' = [kjob EXCEPT ![q] = SuspendedJob(@)]
      <4>1. kjob[q] \in Job \cup {None}
        BY DEF TypeInv, TypeOK
      <4>2. QED
        BY <3>2, <4>1, ResumedJob DEF StartsNoJob, TypeInv, TypeOK
    <3>3. QED
      BY <1>8, <3>1, <3>2 DEF RenamePool
  <2>2. QED
    BY <1>3, <1>8, <2>1 DEF RenamePool, db
<1>9. ASSUME (\E d \in Devices : DeviceDies(d)) \/ (\E q \in Pools : ReconcileMount(q))
      PROVE  Settled(o)'
  BY <1>3, <1>9 DEF DeviceDies, ReconcileMount, StartsNoJob, TypeInv, TypeOK, db
<1>10. ~DaemonCrash /\ ~Reboot
  BY Zenon DEF DaemonCrash, Reboot, MemoryLost
<1>11. QED
  BY <1>2, <1>4, <1>5, <1>6, <1>7, <1>8, <1>9, <1>10, ElsewhereSteps, ElsewhereOthers,
     SettledBesideKernel DEF Next

\* Every step keeps FinishedOK.
LEMMA FinishedStep ==
    ASSUME TypeInv, LockInv, MountsOK, FinishedOK, [Next]_vars
    PROVE  FinishedOK'
<1>1. SUFFICES ASSUME NEW o \in Ops, driver'[o] = "finished"
               PROVE  Settled(o)'
  BY DEF FinishedOK
<1>2. CASE driver[o] = "finished"
  BY <1>1, <1>2, SettledKept DEF FinishedOK
<1>3. CASE driver[o] # "finished"
  BY <1>1, <1>3, FinishedFrom, SettledByAdd, SettledByFinish
<1>4. QED
  BY <1>2, <1>3

\* The three layers together are inductive.
LEMMA FullInvariant == Spec => []IInv
<1>1. Init => IInv
  BY TypeInvInit, LockInvInit, MountsInit, SettledInit DEF IInv
<1>2. IInv /\ [Next]_vars => IInv'
  BY TypeInvStep, LockInvStep, MountsStep, FinishedStep DEF IInv
<1>3. QED
  BY <1>1, <1>2, PTL DEF Spec

\* A goroutine never commits what a competing goroutine, a balance started by hand,
\* a rename, a crash or a dying disk has undone since btrfs returned.
THEOREM GoroutinesCompleteWhatIsSo == Spec => CompletionIsReal
<1>1. IInv /\ [Next]_vars =>
        [\A o \in Ops : Completes(o) /\ driver[o] = "finished" =>
            LET r == data[o] IN
            /\ r.old # None => r.old \notin kmem[r.pool]
            /\ r.to # None => kprof[r.pool] = r.to
            /\ r.new # None => r.new \in kmem[r.pool] \/ Degraded(r.pool)]_vars
  BY DEF IInv, FinishedOK, Settled, InEffect
<1>2. QED
  BY <1>1, FullInvariant, PTL DEF Spec, CompletionIsReal
=============================================================================
