------------------------------ MODULE StorageOps ------------------------------
(***************************************************************************)
(* The layout operations of the storage daemon on its managed BTRFS pools: *)
(* add, remove and replace a device, convert the profile.  A request is    *)
(* validated and journalled in SQLite under storageMu; a goroutine then    *)
(* runs btrfs in the background and commits the outcome; the observer and  *)
(* the device reconciler copy what the kernel shows into SQLite; a crashed *)
(* daemon resolves the operations it finds open, and watches those whose   *)
(* kernel work is still running.                                           *)
(***************************************************************************)
EXTENDS Naturals, FiniteSets

CONSTANTS
    Pools, Devices, Ops,   \* managed pools, registered devices, journal entries
    None,                  \* absence of a device, a profile, a request, a job
    External,              \* owner of a balance started with btrfs by hand
    Kinds,                 \* the operation types clients request
    InitMembers,           \* [Pools -> SUBSET Devices]: members at start
    InitProfile,           \* the profile of every pool at start
    MaxCrashes, MaxDead,   \* bounds: daemon or machine failures, dead devices
    Flaky,                 \* TRUE: SQLite writes and btrfs readings may fail
    Manual                 \* TRUE: pools are renamed, balances run by hand

Profiles == {"single", "raid1"}
LayoutTypes == {"add_device", "remove_device", "replace_device", "convert_profile"}

ASSUME ConstantsAssumption ==
    /\ None \notin Pools \cup Devices \cup Ops
    /\ External \notin Ops \cup {None}
    /\ Kinds \subseteq LayoutTypes
    /\ InitMembers \in [Pools -> SUBSET Devices]
    /\ InitProfile \in Profiles
    /\ MaxCrashes \in Nat /\ MaxDead \in Nat
    /\ Flaky \in BOOLEAN /\ Manual \in BOOLEAN

\* Profile.MinDisks
MinDisks == [f \in Profiles |-> IF f = "single" THEN 1 ELSE 2]

\* A request once its devices are resolved; fields a type lacks are None.
Request == [type : LayoutTypes, pool : Pools, old : Devices \cup {None},
            new : Devices \cup {None}, to : Profiles \cup {None}]

AddRequests(p) ==
    {[type |-> "add_device", pool |-> p, old |-> None, new |-> d, to |-> None] :
        d \in Devices}
RemoveRequests(p) ==
    {[type |-> "remove_device", pool |-> p, old |-> d, new |-> None, to |-> None] :
        d \in Devices}
ReplaceRequests(p) ==
    {[type |-> "replace_device", pool |-> p, old |-> d, new |-> e, to |-> None] :
        d, e \in Devices}
ConvertRequests(p) ==
    {[type |-> "convert_profile", pool |-> p, old |-> None, new |-> None, to |-> f] :
        f \in Profiles}

\* A validated request waiting for its journal entry, and a btrfs job; cli says
\* that a btrfs process waits for the job, so that the pool cannot be unmounted.
Pending == [data : Request, stale : BOOLEAN]
Job == [op : Ops \cup {External}, state : {"running", "suspended"}, cli : BOOLEAN]

ASSUME ModelValueAssumption == None \notin Profiles \cup Request \cup Pending \cup Job

VARIABLES
    \* SQLite
    status,    \* status[o]: status of a journal entry, "absent" before it exists
    data,      \* data[o]: its request, None before it exists
    member,    \* member[p]: devices of p in storage_pool_devices
    profile,   \* profile[p]: storage_pools.profile
    \* the daemon's memory
    req,       \* the request validated under storageMu and not yet journalled
    driver,    \* driver[o]: where the goroutine or watcher that closes o stands
    stale,     \* operations whose goroutine holds a mount point that is gone
    heal,      \* heal[p]: profiles that background self-heals are about to write
    snap,      \* snap[p]: devices of p in the observer's last snapshot
    boot,      \* open operations this boot has still to resolve
    \* the kernel and the disks
    kmem,      \* kmem[p]: devices of the filesystem
    kprof,     \* kprof[p]: profile of its chunks
    kjob,      \* kjob[p]: the exclusive btrfs job on p, or None
    kdone,     \* pools whose last replace is reported as finished
    mnt,       \* mnt[p]: "rw", "ro" (degraded) or "none" (not mounted)
    dead,      \* devices that no longer respond
    crashes    \* failures so far

db     == <<status, data, member, profile>>
kernel == <<kmem, kprof, kjob, kdone, mnt, dead>>
vars   == <<status, data, member, profile, req, driver, stale, heal, snap, boot,
            kmem, kprof, kjob, kdone, mnt, dead, crashes>>

Driver == {"none", "spawned", "repairing", "waiting", "waitingRepair", "finished",
           "reverting", "failing", "watchBalance", "watchReplace", "confirmed"}

TypeOK ==
    /\ status \in [Ops -> {"absent", "in_progress", "completed", "failed"}]
    /\ data \in [Ops -> Request \cup {None}]
    /\ member \in [Pools -> SUBSET Devices]
    /\ profile \in [Pools -> Profiles]
    /\ req \in Pending \cup {None}
    /\ driver \in [Ops -> Driver]
    /\ stale \in SUBSET Ops
    /\ heal \in [Pools -> SUBSET Profiles]
    /\ snap \in [Pools -> SUBSET Devices]
    /\ boot \in SUBSET Ops
    /\ kmem \in [Pools -> SUBSET Devices]
    /\ kprof \in [Pools -> Profiles]
    /\ kjob \in [Pools -> Job \cup {None}]
    /\ kdone \in SUBSET Pools
    /\ mnt \in [Pools -> {"rw", "ro", "none"}]
    /\ dead \in SUBSET Devices
    /\ crashes \in 0..MaxCrashes

Init ==
    /\ status = [o \in Ops |-> "absent"]
    /\ data = [o \in Ops |-> None]
    /\ member = InitMembers
    /\ profile = [p \in Pools |-> InitProfile]
    /\ req = None
    /\ driver = [o \in Ops |-> "none"]
    /\ stale = {}
    /\ heal = [p \in Pools |-> {}]
    /\ snap = [p \in Pools |-> {}]
    /\ boot = {}
    /\ kmem = InitMembers
    /\ kprof = [p \in Pools |-> InitProfile]
    /\ kjob = [p \in Pools |-> None]
    /\ kdone = {}
    /\ mnt = [p \in Pools |-> "rw"]
    /\ dead = {}
    /\ crashes = 0

----------------------------------------------------------------------------
(* What btrfs reports *)

Running(p)   == kjob[p] # None /\ kjob[p].state = "running"
Suspended(p) == kjob[p] # None /\ kjob[p].state = "suspended"
JobType(p)   == IF kjob[p].op = External THEN "balance" ELSE data[kjob[p].op].type

\* The mount point a goroutine captured still shows the pool.
Readable(o) == o \notin stale /\ mnt[data[o].pool] # "none"

\* btrfs balance status, FALSE when it cannot be read.  A paused balance counts
\* as active; the relocation of a device removal may or may not be shown.
BalanceReadings(p) ==
    IF kjob[p] = None \/ JobType(p) = "replace_device" THEN {FALSE}
    ELSE IF JobType(p) = "remove_device" \/ Flaky THEN BOOLEAN
    ELSE {TRUE}

BalanceSeen(o) == IF Readable(o) THEN BalanceReadings(data[o].pool) ELSE {FALSE}

\* btrfs replace status
ReplaceReadings(p) ==
    (IF Flaky THEN {"unknown"} ELSE {}) \cup
    (IF kjob[p] # None /\ JobType(p) = "replace_device"
       THEN {IF Running(p) THEN "active" ELSE "suspended"}
       ELSE {IF p \in kdone THEN "finished" ELSE "unknown"})

ReplaceSeen(o) ==
    IF Readable(o) THEN ReplaceReadings(data[o].pool) ELSE {"unknown"}

\* btrfs filesystem df of a mounted pool; a conversion in progress shows chunks
\* of both profiles.
ProfileReadings(p) ==
    {kprof[p]} \cup
    (IF kjob[p] # None /\ JobType(p) = "convert_profile"
       THEN {data[kjob[p].op].to} ELSE {})

\* MUTATION of Healed: the real profile is served and never written back.
HealedInMemory(p, f) == heal

\* reconcilePoolProfileWithReality: a profile that differs from the one in SQLite
\* is written back by a goroutine.
Healed(p, f) == IF f = profile[p] THEN heal
                ELSE [heal EXCEPT ![p] = @ \cup {f}]

(* A remount in read-write resumes what the pool's unmounting suspended, and a
   remount in read-only suspends it. *)
Resumed(j)    == IF j = None THEN None ELSE [j EXCEPT !.state = "running"]
SuspendedJob(j) == IF j = None THEN None ELSE [j EXCEPT !.state = "suspended"]

RemountRw(p) == /\ mnt' = [mnt EXCEPT ![p] = "rw"]
                /\ kjob' = [kjob EXCEPT ![p] = Resumed(@)]
RemountRo(p) == /\ mnt' = [mnt EXCEPT ![p] = "ro"]
                /\ kjob' = [kjob EXCEPT ![p] = SuspendedJob(@)]

----------------------------------------------------------------------------
(* Clients: a request holds storageMu from its validation to its journal entry *)

\* MUTATION of Locked: a type is missing from the list of the partial index.
LockedExceptConvert(p) ==
    \E o \in Ops : /\ status[o] = "in_progress" /\ data[o].pool = p
                  /\ data[o].type # "convert_profile"

\* INV-1, the partial unique index idx_one_layout_op_per_pool.
Locked(p) == \E o \in Ops : status[o] = "in_progress" /\ data[o].pool = p

\* deviceIsAssigned
IsAssigned(d) == \E p \in Pools : d \in member[p]

AddAllowed(r) == r \in AddRequests(r.pool) /\ mnt[r.pool] = "rw" /\ ~IsAssigned(r.new)

\* f is the profile GetPool serves.
RemoveAllowed(r, f) ==
    /\ r \in RemoveRequests(r.pool) /\ mnt[r.pool] = "rw"
    /\ r.old \in member[r.pool]
    /\ Cardinality(member[r.pool]) > MinDisks[f]

\* A degraded pool is mounted read-only, and it is what a replacement repairs.
ReplaceAllowed(r) ==
    /\ r \in ReplaceRequests(r.pool) /\ mnt[r.pool] \in {"rw", "ro"}
    /\ r.old \in member[r.pool] /\ ~IsAssigned(r.new)

ConvertAllowed(r, f) ==
    /\ r \in ConvertRequests(r.pool) /\ mnt[r.pool] = "rw"
    /\ r.to # f
    /\ Cardinality(member[r.pool]) >= MinDisks[r.to]

BeginRequest(r) ==
    /\ boot = {} /\ req = None
    /\ \E o \in Ops : status[o] = "absent"     \* bound: room in the journal
    /\ r.type \in Kinds
    /\ \E f \in ProfileReadings(r.pool) :
        /\ AddAllowed(r) \/ RemoveAllowed(r, f) \/ ReplaceAllowed(r) \/ ConvertAllowed(r, f)
        /\ heal' = Healed(r.pool, f)
    /\ req' = [data |-> r, stale |-> FALSE]
    /\ UNCHANGED <<status, data, member, profile, driver, stale, snap, boot, kernel, crashes>>

\* resolveDevicePath finds the disk the operation acts on (a replaced one may be dead).
HasPath(r) == CASE r.type = "remove_device"   -> r.old \notin dead
                [] r.type = "convert_profile" -> TRUE
                [] OTHER                      -> r.new \notin dead

\* MUTATION of JournalRequest: a retry reuses the entry that failed.
JournalReusing(o) ==
    /\ req # None /\ status[o] \in {"absent", "failed"}
    /\ ~Locked(req.data.pool)
    /\ status' = [status EXCEPT ![o] = "in_progress"]
    /\ data' = [data EXCEPT ![o] = req.data]
    /\ driver' = [driver EXCEPT ![o] = IF HasPath(req.data) THEN "spawned" ELSE "failing"]
    /\ stale' = IF req.stale THEN stale \cup {o} ELSE stale
    /\ req' = None
    /\ UNCHANGED <<member, profile, heal, snap, boot, kernel, crashes>>

JournalRequest(o) ==
    /\ req # None /\ status[o] = "absent"
    /\ ~Locked(req.data.pool)
    /\ status' = [status EXCEPT ![o] = "in_progress"]
    /\ data' = [data EXCEPT ![o] = req.data]
    /\ driver' = [driver EXCEPT ![o] = IF HasPath(req.data) THEN "spawned" ELSE "failing"]
    /\ stale' = IF req.stale THEN stale \cup {o} ELSE stale
    /\ req' = None
    /\ UNCHANGED <<member, profile, heal, snap, boot, kernel, crashes>>

RejectRequest ==
    /\ req # None
    /\ Locked(req.data.pool) \/ Flaky
    /\ req' = None
    /\ UNCHANGED <<db, driver, stale, heal, snap, boot, kernel, crashes>>

----------------------------------------------------------------------------
(* The goroutine of an operation *)

Steps(o, from, to) == driver[o] = from /\ driver' = [driver EXCEPT ![o] = to]

NeedsRepairMount(o) == /\ data[o].type = "replace_device"
                       /\ o \notin stale /\ mnt[data[o].pool] = "ro"

GoRemount(o) ==
    /\ Steps(o, "spawned", "repairing")
    /\ NeedsRepairMount(o)
    /\ RemountRw(data[o].pool)
    /\ UNCHANGED <<db, req, stale, heal, snap, boot, kmem, kprof, kdone, dead, crashes>>

\* A replace is copying, or is suspended while copying, onto d.
IsTarget(d) == \E q \in Pools : /\ kjob[q] # None /\ JobType(q) = "replace_device"
                                /\ data[kjob[q].op].new = d

\* Forced, btrfs and wipefs take d from any filesystem that is not mounted.
Claimable(d) == /\ d \notin dead /\ ~IsTarget(d)
                /\ \A q \in Pools : d \in kmem[q] => mnt[q] = "none"

Disowned(d) == [q \in Pools |-> kmem[q] \ {d}]

\* WipeFirst, before btrfs device add.
GoWipe(o) ==
    /\ driver[o] = "spawned" /\ data[o].type = "add_device"
    /\ Claimable(data[o].new)
    /\ kmem' = Disowned(data[o].new)
    /\ UNCHANGED <<db, req, driver, stale, heal, snap, boot, kprof, kjob, kdone, mnt, dead, crashes>>

KernelReady(o) == /\ Readable(o) /\ ~NeedsRepairMount(o)
                  /\ mnt[data[o].pool] = "rw" /\ kjob[data[o].pool] = None

\* btrfs device add refuses a disk with a filesystem on it, and returns once the
\* device is in.
GoAdd(o) ==
    /\ Steps(o, "spawned", "finished")
    /\ data[o].type = "add_device" /\ KernelReady(o)
    /\ Claimable(data[o].new) /\ Disowned(data[o].new) = kmem
    /\ kmem' = [kmem EXCEPT ![data[o].pool] = @ \cup {data[o].new}]
    /\ UNCHANGED <<db, req, stale, heal, snap, boot, kprof, kjob, kdone, mnt, dead, crashes>>

KernelAccepts(r) ==
    LET m == kmem[r.pool] IN
    CASE r.type = "remove_device"   -> r.old \in m /\ Cardinality(m) > MinDisks[kprof[r.pool]]
      [] r.type = "replace_device"  -> r.old \in m /\ Claimable(r.new)
      [] r.type = "convert_profile" -> Cardinality(m) >= MinDisks[r.to]
      [] OTHER                      -> FALSE

\* MUTATION of GoStart: replace start without -B returns while the kernel copies.
GoStartBackground(o) ==
    /\ Steps(o, "spawned", "finished") \/ Steps(o, "repairing", "finished")
    /\ KernelReady(o) /\ KernelAccepts(data[o])
    /\ kjob' = [kjob EXCEPT ![data[o].pool] =
                    [op |-> o, state |-> "running", cli |-> FALSE]]
    /\ UNCHANGED <<db, req, stale, heal, snap, boot, kmem, kprof, kdone, mnt, dead, crashes>>

\* The btrfs command is started and the goroutine waits for it to return.
GoStart(o) ==
    /\ Steps(o, "spawned", "waiting") \/ Steps(o, "repairing", "waitingRepair")
    /\ KernelReady(o) /\ KernelAccepts(data[o])
    /\ kjob' = [kjob EXCEPT ![data[o].pool] =
                    [op |-> o, state |-> "running", cli |-> TRUE]]
    /\ IF data[o].type = "replace_device"
         THEN /\ kdone' = kdone \ {data[o].pool}
              /\ kmem' = Disowned(data[o].new)
         ELSE UNCHANGED <<kdone, kmem>>
    /\ UNCHANGED <<db, req, stale, heal, snap, boot, kprof, mnt, dead, crashes>>

\* The remount, the wipe or the btrfs command fails at once.
GoRefused(o) ==
    /\ Steps(o, "spawned", "failing") \/ Steps(o, "repairing", "reverting")
    /\ UNCHANGED <<db, req, stale, heal, snap, boot, kernel, crashes>>

\* After a failed repair the pool goes back to read-only, if the remount succeeds.
GoRevert(o) ==
    /\ Steps(o, "reverting", "failing")
    /\ \/ o \notin stale /\ mnt[data[o].pool] = "rw" /\ RemountRo(data[o].pool)
       \/ UNCHANGED <<mnt, kjob>>
    /\ UNCHANGED <<db, req, stale, heal, snap, boot, kmem, kprof, kdone, dead, crashes>>

\* The membership and profile writes of the closing transaction, and the rows
\* they need: an INSERT of an existing row and a DELETE of a missing one fail.
CanCommit(r) ==
    /\ r.new # None => r.new \notin member[r.pool]
    /\ r.old # None => r.old \in member[r.pool]

\* MUTATION of Committed: the absent device of a removal is inserted too.
CommittedBlindly(r) ==
    /\ member' = [member EXCEPT ![r.pool] = (@ \ {r.old}) \cup {r.new}]
    /\ profile' = IF r.to = None THEN profile ELSE [profile EXCEPT ![r.pool] = r.to]

Committed(r) ==
    /\ member' = [member EXCEPT ![r.pool] = (@ \ {r.old}) \cup ({r.new} \ {None})]
    /\ profile' = IF r.to = None THEN profile ELSE [profile EXCEPT ![r.pool] = r.to]

Close(o, s) == /\ status' = [status EXCEPT ![o] = s]
               /\ driver' = [driver EXCEPT ![o] = "none"]
               /\ stale' = stale \ {o}
               /\ UNCHANGED data

\* The goroutine, or the watcher of a replace, commits and closes in a transaction.
GoCommit(o) ==
    /\ driver[o] \in {"finished", "confirmed"} /\ CanCommit(data[o])
    /\ Committed(data[o])
    /\ Close(o, "completed")
    /\ UNCHANGED <<req, heal, snap, boot, kernel, crashes>>

\* MUTATION of GoCommitFails: the goroutine returns without markOperationFailed.
GoCommitFailsSilently(o) ==
    /\ Steps(o, "finished", "none")
    /\ ~CanCommit(data[o]) \/ Flaky
    /\ UNCHANGED <<db, req, stale, heal, snap, boot, kernel, crashes>>

GoCommitFails(o) ==
    /\ Steps(o, "finished", "failing") \/ Steps(o, "confirmed", "failing")
    /\ ~CanCommit(data[o]) \/ Flaky
    /\ UNCHANGED <<db, req, stale, heal, snap, boot, kernel, crashes>>

MarkOperationFailed(o) ==
    /\ driver[o] = "failing"
    /\ Close(o, "failed")
    /\ UNCHANGED <<member, profile, req, heal, snap, boot, kernel, crashes>>

\* Both attempts fail: the entry stays open and nobody drives it until the next boot.
MarkOperationFailedLost(o) ==
    /\ Flaky
    /\ Steps(o, "failing", "none")
    /\ stale' = stale \ {o}
    /\ UNCHANGED <<db, req, heal, snap, boot, kernel, crashes>>

----------------------------------------------------------------------------
(* The kernel, the disks and the administrator *)

\* The goroutine waiting for the job of p, if any, moves on.
Return(p, ok) ==
    driver' = [o \in Ops |->
        IF kjob[p].op # o THEN driver[o]
        ELSE CASE driver[o] = "waiting"       -> IF ok THEN "finished" ELSE "failing"
               [] driver[o] = "waitingRepair" -> IF ok THEN "finished" ELSE "reverting"
               [] OTHER                       -> driver[o]]

KernelFinish(p) ==
    /\ Running(p)
    /\ LET type == JobType(p)  r == data[kjob[p].op] IN
        /\ kmem' = CASE type = "remove_device"  -> [kmem EXCEPT ![p] = @ \ {r.old}]
                     [] type = "replace_device" -> [kmem EXCEPT ![p] = (@ \ {r.old}) \cup {r.new}]
                     [] OTHER                   -> kmem
        /\ kprof' = IF type = "convert_profile" THEN [kprof EXCEPT ![p] = r.to] ELSE kprof
        /\ kdone' = IF type = "replace_device" THEN kdone \cup {p} ELSE kdone
    /\ kjob' = [kjob EXCEPT ![p] = None]
    /\ Return(p, TRUE)
    /\ UNCHANGED <<db, req, stale, heal, snap, boot, mnt, dead, crashes>>

\* Cancelled, out of space, or an I/O error: the filesystem stays as it was.
KernelAbort(p) ==
    /\ kjob[p] # None
    /\ kjob' = [kjob EXCEPT ![p] = None]
    /\ Return(p, FALSE)
    /\ UNCHANGED <<db, req, stale, heal, snap, boot, kmem, kprof, kdone, mnt, dead, crashes>>

DeviceDies(d) ==
    /\ d \notin dead /\ Cardinality(dead) < MaxDead
    /\ dead' = dead \cup {d}
    /\ UNCHANGED <<db, req, driver, stale, heal, snap, boot, kmem, kprof, kjob, kdone, mnt, crashes>>

ManualBalance(p) ==
    /\ Manual /\ mnt[p] = "rw" /\ kjob[p] = None
    /\ kjob' = [kjob EXCEPT ![p] = [op |-> External, state |-> "running", cli |-> TRUE]]
    /\ UNCHANGED <<db, req, driver, stale, heal, snap, boot, kmem, kprof, kdone, mnt, dead, crashes>>

\* RenamePool moves the mount point under the goroutines that captured it; the
\* umount fails while a btrfs command holds the filesystem.  A degraded pool does
\* not mount again from fstab, neither at the new path nor at the old one.
RenamePool(p) ==
    /\ Manual /\ boot = {} /\ mnt[p] # "none"
    /\ kjob[p] # None => ~kjob[p].cli
    /\ IF kmem[p] \cap dead = {}
         THEN /\ RemountRw(p)
              /\ stale' = stale \cup {o \in Ops : driver[o] # "none" /\ data[o].pool = p}
              /\ req' = IF req # None /\ req.data.pool = p
                          THEN [req EXCEPT !.stale = TRUE] ELSE req
         ELSE /\ mnt' = [mnt EXCEPT ![p] = "none"]
              /\ kjob' = [kjob EXCEPT ![p] = SuspendedJob(@)]
              /\ UNCHANGED <<stale, req>>
    /\ UNCHANGED <<db, driver, heal, snap, boot, kmem, kprof, kdone, dead, crashes>>

----------------------------------------------------------------------------
(* The observer, the device reconciler, the profile self-heal, the mounts *)

Observe ==
    /\ boot = {}
    /\ snap' = [p \in Pools |-> kmem[p] \ dead]
    /\ UNCHANGED <<db, req, driver, stale, heal, boot, kernel, crashes>>

\* reconcilePoolMembership adds what the snapshot shows, one transaction per
\* device; it never removes, and it does not take storageMu.
ReconcileMember(p, d) ==
    /\ boot = {}
    /\ d \in snap[p] \ member[p]
    /\ member' = [member EXCEPT ![p] = @ \cup {d}]
    /\ UNCHANGED <<status, data, profile, req, driver, stale, heal, snap, boot, kernel, crashes>>

\* Any reader that lists the pools.
ReadProfile(p) ==
    /\ boot = {} /\ mnt[p] # "none"
    /\ \E f \in ProfileReadings(p) : f # profile[p] /\ heal' = Healed(p, f)
    /\ UNCHANGED <<db, req, driver, stale, snap, boot, kernel, crashes>>

HealProfile(p, f) ==
    /\ f \in heal[p]
    /\ heal' = [heal EXCEPT ![p] = @ \ {f}]
    /\ \/ profile' = [profile EXCEPT ![p] = f]
       \/ Flaky /\ UNCHANGED profile
    /\ UNCHANGED <<status, data, member, req, driver, stale, snap, boot, kernel, crashes>>

\* A pool fstab could not mount: normally, else degraded and read-only.
ReconcileMount(p) ==
    /\ boot = {} /\ mnt[p] = "none"
    /\ kmem[p] \cap dead # {}
    /\ kprof[p] = "raid1" /\ Cardinality(kmem[p] \cap dead) = 1 /\ kmem[p] \ dead # {}
    /\ mnt' = [mnt EXCEPT ![p] = "ro"]
    /\ UNCHANGED <<db, req, driver, stale, heal, snap, boot, kmem, kprof, kjob, kdone, dead, crashes>>

----------------------------------------------------------------------------
(* Failures, and the recovery of the next boot *)

\* MUTATION of MemoryLost: the boot lists failed operations as pending.
MemoryLostListsFailed ==
    /\ crashes < MaxCrashes /\ crashes' = crashes + 1
    /\ req' = None
    /\ driver' = [o \in Ops |-> "none"]
    /\ stale' = {}
    /\ heal' = [p \in Pools |-> {}]
    /\ snap' = [p \in Pools |-> {}]
    /\ boot' = {o \in Ops : status[o] \in {"in_progress", "failed"}}

MemoryLost ==
    /\ crashes < MaxCrashes /\ crashes' = crashes + 1
    /\ req' = None
    /\ driver' = [o \in Ops |-> "none"]
    /\ stale' = {}
    /\ heal' = [p \in Pools |-> {}]
    /\ snap' = [p \in Pools |-> {}]
    /\ boot' = {o \in Ops : status[o] = "in_progress"}

\* The daemon alone: systemd stops its btrfs commands too, and the kernel either
\* gives up their work or carries on.
DaemonCrash ==
    /\ MemoryLost
    /\ \E lost \in SUBSET {p \in Pools : kjob[p] # None /\ kjob[p].cli} :
        kjob' = [p \in Pools |-> IF p \in lost THEN None ELSE kjob[p]]
    /\ UNCHANGED <<db, kmem, kprof, kdone, mnt, dead>>

\* The machine: fstab mounts the pools that have all their disks, which resumes
\* their replaces and balances; a removal is not resumed.
Reboot ==
    /\ MemoryLost
    /\ mnt' = [p \in Pools |-> IF kmem[p] \cap dead = {} THEN "rw" ELSE "none"]
    /\ kjob' = [p \in Pools |->
        IF kjob[p] = None \/ JobType(p) = "remove_device" THEN None
        ELSE [kjob[p] EXCEPT !.cli = FALSE,
                             !.state = IF mnt'[p] = "rw" THEN "running" ELSE "suspended"]]
    /\ UNCHANGED <<db, kmem, kprof, kdone, dead>>

\* resolveOrphanLayoutOp keeps the operation open when the kernel is at work on it.
Readopts(o, replaceState, balanceActive) ==
    \/ data[o].type = "replace_device" /\ replaceState # "unknown"
    \/ balanceActive

\* MUTATION of RecoverOperation: an adopted operation is marked failed, so its
\* watcher runs without the lock.
RecoverAdoptedAsFailed(o) ==
    /\ o \in boot
    /\ boot' = boot \ {o}
    /\ status' = [status EXCEPT ![o] = "failed"]
    /\ \E s \in ReplaceSeen(o), b \in BalanceSeen(o) :
        driver' = IF Readopts(o, s, b) THEN [driver EXCEPT ![o] = "watchBalance"] ELSE driver
    /\ UNCHANGED <<data, member, profile, req, stale, heal, snap, kernel, crashes>>

\* MUTATION of RecoverOperation: the operation is kept open, no watcher is started.
RecoverWithoutWatcher(o) ==
    /\ o \in boot
    /\ boot' = boot \ {o}
    /\ \E s \in ReplaceSeen(o), b \in BalanceSeen(o) :
        status' = IF Readopts(o, s, b) THEN status ELSE [status EXCEPT ![o] = "failed"]
    /\ UNCHANGED <<data, member, profile, req, driver, stale, heal, snap, kernel, crashes>>

RecoverOperation(o) ==
    /\ o \in boot
    /\ boot' = boot \ {o}
    /\ \E s \in ReplaceSeen(o), b \in BalanceSeen(o) :
        IF Readopts(o, s, b)
          THEN /\ driver' = [driver EXCEPT ![o] =
                    IF data[o].type = "replace_device" THEN "watchReplace" ELSE "watchBalance"]
               /\ UNCHANGED status
          ELSE /\ status' = [status EXCEPT ![o] = "failed"]
               /\ UNCHANGED driver
    /\ UNCHANGED <<data, member, profile, req, stale, heal, snap, kernel, crashes>>

\* The outcome cannot be written: left for the next boot.
RecoverOperationLost(o) ==
    /\ Flaky /\ o \in boot
    /\ boot' = boot \ {o}
    /\ UNCHANGED <<db, req, driver, stale, heal, snap, kernel, crashes>>

\* watchReadoptedBalance: no active balance closes the operation as completed.
WatchBalanceEnds(o) ==
    /\ driver[o] = "watchBalance" /\ FALSE \in BalanceSeen(o)
    /\ LET p == data[o].pool IN
        \E f \in IF mnt[p] = "none" THEN {profile[p]} ELSE ProfileReadings(p) :
            heal' = Healed(p, f)
    /\ Close(o, "completed")
    /\ UNCHANGED <<member, profile, req, snap, boot, kernel, crashes>>

\* After 24 hours, or when the closing transaction fails.
WatchBalanceGivesUp(o) ==
    /\ Steps(o, "watchBalance", "failing")
    /\ UNCHANGED <<db, req, stale, heal, snap, boot, kernel, crashes>>

WatchReplaceResumes(o) ==
    /\ driver[o] = "watchReplace" /\ "suspended" \in ReplaceSeen(o)
    /\ mnt[data[o].pool] = "ro"
    /\ RemountRw(data[o].pool)
    /\ UNCHANGED <<db, req, driver, stale, heal, snap, boot, kmem, kprof, kdone, dead, crashes>>

\* Rule 16: the replace is finished, no disk is missing, the new one is a member.
KernelConfirms(r) == r.new \in kmem[r.pool] /\ kmem[r.pool] \cap dead = {}

WatchReplaceConfirms(o) ==
    /\ Steps(o, "watchReplace", "confirmed")
    /\ "finished" \in ReplaceSeen(o) /\ KernelConfirms(data[o])
    /\ UNCHANGED <<db, req, stale, heal, snap, boot, kernel, crashes>>

\* After 48 hours; or the replace is neither active nor finished, the kernel does
\* not confirm it, or the remount fails.
WatchReplaceGivesUp(o) ==
    /\ Steps(o, "watchReplace", "failing")
    /\ UNCHANGED <<db, req, stale, heal, snap, boot, kernel, crashes>>

----------------------------------------------------------------------------
(* Next *)

Goroutine(o) == \/ GoRemount(o) \/ GoWipe(o) \/ GoAdd(o) \/ GoStart(o) \/ GoRefused(o) \/ GoRevert(o)
                \/ GoCommit(o) \/ GoCommitFails(o)
                \/ MarkOperationFailed(o) \/ MarkOperationFailedLost(o)

Watcher(o) == \/ WatchBalanceEnds(o) \/ WatchBalanceGivesUp(o)
              \/ WatchReplaceResumes(o) \/ WatchReplaceConfirms(o) \/ WatchReplaceGivesUp(o)

Recovery(o) == RecoverOperation(o) \/ RecoverOperationLost(o)

Requests(p) == AddRequests(p) \cup RemoveRequests(p) \cup ReplaceRequests(p) \cup ConvertRequests(p)

Next ==
    \/ \E p \in Pools : \E r \in Requests(p) : BeginRequest(r)
    \/ RejectRequest
    \/ \E o \in Ops : JournalRequest(o) \/ Goroutine(o) \/ Watcher(o) \/ Recovery(o)
    \/ \E p \in Pools : KernelFinish(p) \/ KernelAbort(p) \/ ManualBalance(p) \/ RenamePool(p)
    \/ \E d \in Devices : DeviceDies(d)
    \/ Observe
    \/ \E p \in Pools, d \in Devices : ReconcileMember(p, d)
    \/ \E p \in Pools : ReadProfile(p) \/ ReconcileMount(p)
    \/ \E p \in Pools, f \in Profiles : HealProfile(p, f)
    \/ DaemonCrash \/ Reboot

Spec == Init /\ [][Next]_vars

\* Goroutines, watchers and tickers run; the kernel ends what it runs; the boot
\* resolves its orphans; a handler leaves its critical section.
Fairness ==
    /\ WF_vars(RejectRequest) /\ WF_vars(\E o \in Ops : JournalRequest(o))
    /\ \A o \in Ops : WF_vars(Goroutine(o)) /\ WF_vars(Watcher(o)) /\ WF_vars(Recovery(o))
    /\ \A p \in Pools : WF_vars((KernelFinish(p) \/ KernelAbort(p)) /\ Running(p))
    /\ WF_vars(Observe)
    /\ \A p \in Pools, d \in Devices : WF_vars(ReconcileMember(p, d))
    /\ \A p \in Pools : /\ WF_vars(ReadProfile(p))
                        /\ \A f \in Profiles : WF_vars(HealProfile(p, f))

FairSpec == Spec /\ Fairness

----------------------------------------------------------------------------
(* Safety *)

Open(o) == status[o] = "in_progress"

\* INV-1: a pool has at most one open layout operation, whoever opened it and
\* whatever the boots and watchers in between did to it.
OneLayoutOpPerPool ==
    \A o1, o2 \in Ops : Open(o1) /\ Open(o2) /\ data[o1].pool = data[o2].pool => o1 = o2

\* Whoever may still write the outcome of an operation holds its lock, and is
\* alone: an operation left to the boot has no goroutine and no watcher.
DriverHoldsLock ==
    \A o \in Ops : driver[o] # "none" => Open(o) /\ o \notin boot

\* STOR-08: unless writes fail, an open operation is somebody's work; it never
\* keeps its pool locked with nobody left to close it.
OpenIsAttended ==
    Flaky \/ \A o \in Ops : Open(o) => driver[o] # "none" \/ o \in boot

\* What a request asked of the kernel is so.
Effective(r) ==
    /\ r.new # None => r.new \in kmem[r.pool]
    /\ r.old # None => r.old \notin kmem[r.pool]
    /\ r.to # None => kprof[r.pool] = r.to

Completes(o) == status[o] # "completed" /\ status'[o] = "completed"

Degraded(p) == kmem[p] \cap dead # {}

\* A goroutine completes an operation, and changes the membership or the profile,
\* only while the kernel still shows the whole effect: nobody undid it between the
\* return of btrfs and the commit.  Only a degraded pool, which a rename may leave
\* unmounted, can have lost the new device to another pool meanwhile.
CompletionIsReal ==
    [][\A o \in Ops : Completes(o) /\ driver[o] = "finished" =>
        LET r == data[o] IN
        /\ r.old # None => r.old \notin kmem[r.pool]
        /\ r.to # None => kprof[r.pool] = r.to
        /\ r.new # None => r.new \in kmem[r.pool] \/ Degraded(r.pool)]_vars

\* A closed operation keeps its outcome and its request for ever: no late
\* goroutine, watcher or boot rewrites them.
TerminalIsFinal ==
    [][\A o \in Ops : status[o] \in {"completed", "failed"} =>
        status'[o] = status[o] /\ data'[o] = data[o]]_vars

(* The journal implements the lock *)

Phase  == [o \in Ops |-> IF Open(o) THEN "open"
                         ELSE IF status[o] = "absent" THEN "absent" ELSE "closed"]
LockOf == [o \in Ops |-> IF data[o] = None THEN None ELSE data[o].pool]

Lock == INSTANCE LayoutLock WITH phase <- Phase, lockOf <- LockOf

\* Every step of the daemon, crashes included, opens or closes one operation as
\* LayoutLock allows, or none.
ImplementsLock == Lock!Spec

(* Liveness *)

\* ... and every operation it opens is eventually closed.
ImplementsFairLock == Lock!FairSpec

\* A device that joined a filesystem is eventually a member in SQLite, or left
\* again: reconcilePoolMembership repairs what crashes and lost commits forgot.
KernelMembersKnown ==
    \A p \in Pools, d \in Devices :
        d \in kmem[p] \ member[p] ~> (d \in member[p] \/ d \notin kmem[p] \/ d \in dead)

\* Self-heals delayed past later conversions do not win: SQLite settles on the
\* profile the kernel has.
ProfileConverges == \A p \in Pools : <>[](profile[p] = kprof[p])

\* SQLite catches up with the kernel (storage_reconciler.go:285,
\* storage_layout_reconcile.go:179).
SQLiteCatchesUp == KernelMembersKnown /\ ProfileConverges

(* What comments of the code say, and the code does not keep *)

\* storage_recovery.go:18, "NUNCA marcar completed sin evidencia clara".
CompletedHasEvidence == [][\A o \in Ops : Completes(o) => Effective(data[o])]_vars

\* storage_schema.sql:134, "Un device pertenece a 0 o 1 pool".
DeviceInOnePool ==
    \A p, q \in Pools : p # q => member[p] \cap member[q] = {}

\* storage_recovery.go:510, the lock of an adopted operation is kept until its
\* balance ends and the watcher closes it.
LockOutlivesBalance ==
    [][\A o \in Ops : Completes(o) =>
        LET j == kjob[data[o].pool] IN j # None => j.op # o]_vars

\* storage_recovery.go:479, a replace suspended by a reboot is re-adopted.
SuspendedReplaceReadopted ==
    [][\A o \in boot \ boot' :
        Suspended(data[o].pool) /\ kjob[data[o].pool].op = o => Open(o)']_vars
===============================================================================
