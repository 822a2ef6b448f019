---------------------------- MODULE PoolLifecycle ----------------------------
(***************************************************************************)
(* The life of a pool: create, destroy (journalled, and the older path by   *)
(* name), export, import, the wipe of one disk, rename, and the boot that   *)
(* closes what a crash left open.  All but the rename run under storageMu,  *)
(* one procedure at a time (held), but an import reads the observer's       *)
(* snapshot before it takes the mutex, and the wipe's preflight trusts that *)
(* snapshot too.  A pool row is keyed by its btrfs uuid, which is UNIQUE.   *)
(***************************************************************************)
EXTENDS Naturals, Sequences, FiniteSets, SequencesExt

CONSTANTS
  Disks, Names, FSes, Ops,        \* FSes: the uuids mkfs may still give out
  InitFS, InitName, InitDisks,    \* the pool there is at the start
  MaxCrashes, MaxLayers,          \* bounds: crashes, mounts over one another,
  MaxRequests,                    \* and requests of the interface
  Flaky,                          \* whether a SQLite transaction may fail
  None,
  Dangling                        \* primary_pool names a row that was deleted

ASSUME PoolAssumption ==
  /\ InitFS \in FSes /\ InitName \in Names /\ InitDisks \subseteq Disks
  /\ InitDisks # {} /\ Flaky \in BOOLEAN
  /\ None \notin FSes \cup Names \cup Ops \cup {Dangling} /\ Dangling \notin FSes
  /\ MaxCrashes \in Nat /\ MaxLayers \in Nat /\ MaxRequests \in Nat

VARIABLES
  pools,     \* SQLite: the row of each filesystem, None without one
  primary,   \* SQLite: the metadata key primary_pool
  ops,       \* SQLite: the journal of create and destroy operations
  disk,      \* the filesystem whose signature a disk has
  label,     \* the label of each filesystem made so far, None before mkfs
  mnt,       \* what is mounted at /nimos/pools/<name>, the visible one first
  fstab,     \* the managed block: mount point to uuid
  snap,      \* the observer's last snapshot, None before the first
  held,      \* the procedure that has storageMu, None when it is free
  imp, ren,  \* an import that waits for storageMu, a rename (it never takes it)
  boot,      \* the open operations that the boot has yet to resolve
  late,      \* whether bootStorage has yet to run (requests are served already)
  crashes, asked,
  lost       \* the operations whose closing write failed, until the next boot

db == <<pools, primary, ops, lost>>
world == <<disk, label, mnt, fstab>>
vars == <<pools, primary, ops, disk, label, mnt, fstab, snap, held, imp, ren, boot, late, crashes, asked, lost>>

-----------------------------------------------------------------------------
(* Rows and what the kernel shows.                                         *)

Row == [name : Names, mp : Names, devs : (SUBSET Disks) \ {{}}]
OpRow == [type : {"create", "destroy"},
          status : {"open", "completed", "failed", "rolled_back"},
          name : Names, uuid : FSes \cup {None}, pool : FSes \cup {None}]
\* What runs, waits or was seen: the procedure with storageMu, an import, a rename, a snapshot.
\* moved is history: a rename or bootStorage unmounted what a create had mounted.
Holder == [kind : {"create", "destroy", "erase", "export", "import", "wipe"},
           pc : {"mkfs", "mount", "commit", "umount", "wipe", "zero"},
           op : Ops \cup {None}, name : Names, mp : Names, fs : FSes \cup {None},
           devs : SUBSET Disks, force : BOOLEAN, moved : BOOLEAN]
Import == [fs : FSes, name : Names, devs : (SUBSET Disks) \ {{}}, at : Names \cup {None}]
Rename == [fs : FSes, new : Names, old : Names, pc : {"move", "commit"}]
Snapshot == [devs : [FSes -> SUBSET Disks], at : [FSes -> Names \cup {None}], managed : SUBSET FSes]
ASSUME AbsenceAssumption == None \notin Row \cup OpRow \cup Holder \cup Import \cup Rename \cup Snapshot

Pools == {f \in FSes : pools[f] # None}
Assigned == UNION {pools[f].devs : f \in Pools}
NameTaken(n) == \E f \in Pools : pools[f].name = n
Members(f) == {d \in Disks : disk[d] = f}
Layers(f) == {n \in Names : f \in ToSet(mnt[n])}
Mounted(f) == Layers(f) # {}

\* What ObservedSnapshot keeps of the kernel and of SQLite.
Reality == [devs |-> [f \in FSes |-> Members(f)],
            at |-> [f \in FSes |-> IF Mounted(f) THEN CHOOSE n \in Layers(f) : TRUE ELSE None],
            managed |-> Pools]

\* The block syncFstabFromDB derives from the rows p.
FstabOf(p) == [n \in Names |->
  IF \E f \in FSes : p[f] # None /\ p[f].mp = n
  THEN CHOOSE f \in FSes : p[f] # None /\ p[f].mp = n ELSE None]
\* Best effort, after the commit: done or left for the boot.
SyncFstab(p) == fstab' \in {fstab, FstabOf(p)}

\* UNIQUE(name), UNIQUE(mount_point), UNIQUE(btrfs_uuid).
Insertable(f, n, m) == /\ pools[f] = None
                       /\ \A g \in Pools : pools[g].name # n /\ pools[g].mp # m

\* preFlightCheckWithOptions: the snapshot decides, blkid before there is one.
\* With force only a filesystem that the snapshot calls managed is refused.
PreFlight(d, force) ==
  IF snap = None THEN force \/ disk[d] = None
  ELSE \A f \in FSes : d \in snap.devs[f] => force /\ f \notin snap.managed

\* A mutant: only what is mounted where the row says is busy.
BusyAtItsPath(d) == disk[d] # None /\ held # None /\ disk[d] \in ToSet(mnt[held.mp])

\* WipeDevice and mkfs meet EBUSY on a member of a mounted filesystem.
Busy(d) == disk[d] # None /\ Mounted(disk[d])
Erased(E) == [d \in Disks |-> IF d \in E THEN None ELSE disk[d]]
PopFrom(m, n) == [m EXCEPT ![n] = IF @ = <<>> THEN @ ELSE Tail(@)]
PopAt(n) == PopFrom(mnt, n)
\* umount of a place where f is mounted takes the visible layer there, or fails.
AfterUmount(m, f) == {m} \cup {PopFrom(m, n) : n \in {k \in Names : f \in ToSet(m[k])}}
Over(n, f) == [mnt EXCEPT ![n] = <<f>> \o @]
Room(n) == Len(mnt[n]) < MaxLayers

Closed(o, s) == [ops EXCEPT ![o].status = s]
\* DeletePool: ON DELETE SET NULL keeps the operations of the pool.
WithoutPool(f, j) == [o \in Ops |->
  IF j[o] # None /\ j[o].pool = f THEN [j[o] EXCEPT !.pool = None] ELSE j[o]]

Asked == asked < MaxRequests /\ asked' = asked + 1
\* A mutant: requests do not wait for the recovery.
ReadyBeforeRecovery == held = None
Ready == boot = {} /\ held = None
Holding(kind, pc) == held # None /\ held.kind = kind /\ held.pc = pc
Hold(kind, pc, o, n, m, f, D, w) ==
  held' = [kind |-> kind, pc |-> pc, op |-> o, name |-> n, mp |-> m, fs |-> f, devs |-> D,
             force |-> w, moved |-> FALSE]
Goto(pc) == held' = [held EXCEPT !.pc = pc]
Release == held' = None
\* What a create mounted and waits to commit may be unmounted by one that takes no mutex.
Watch == held' = IF Holding("create", "commit") /\ held.fs \notin ToSet(mnt'[held.mp])
                 THEN [held EXCEPT !.moved = TRUE] ELSE held
\* markOperationFailed, tried twice; when both fail the boot closes it.
FailHeld == /\ \/ ops' = Closed(held.op, "failed") /\ UNCHANGED lost
               \/ Flaky /\ lost' = lost \cup {held.op} /\ UNCHANGED ops
            /\ Release

-----------------------------------------------------------------------------
(* CreatePool.                                                             *)

RequestCreate(o, n, D, w) ==
  /\ Ready /\ Asked /\ ops[o] = None /\ D # {}
  /\ ~NameTaken(n) /\ D \cap Assigned = {}
  /\ w \/ \A d \in D : PreFlight(d, FALSE)
  /\ ops' = [ops EXCEPT ![o] = [type |-> "create", status |-> "open", name |-> n,
                                uuid |-> None, pool |-> None]]
  /\ Hold("create", "mkfs", o, n, n, None, D, w)
  /\ UNCHANGED <<pools, primary, lost, world, snap, imp, ren, boot, late, crashes>>

\* Without WipeFirst mkfs runs without -f and refuses any signature.
MkfsRefused(D, w) == \E d \in D : Busy(d) \/ (~w /\ disk[d] # None)

Mkfs(f) ==
  /\ Holding("create", "mkfs") /\ label[f] = None
  /\ ~MkfsRefused(held.devs, held.force)
  /\ disk' = [d \in Disks |-> IF d \in held.devs THEN f ELSE disk[d]]
  /\ label' = [label EXCEPT ![f] = held.name]
  /\ \/ held' = [held EXCEPT !.pc = "mount", !.fs = f] /\ UNCHANGED <<ops, lost>>
     \/ FailHeld                                    \* blkid shows no uuid
  /\ UNCHANGED <<pools, primary, mnt, fstab, snap, imp, ren, boot, late, crashes, asked>>

\* mkfs or one of the wipes before it fails; the disks before it are wiped.
MkfsFails(E) ==
  /\ Holding("create", "mkfs") /\ E \subseteq held.devs
  /\ E # {} => held.force /\ \A d \in E : ~Busy(d)
  /\ disk' = Erased(E) /\ FailHeld
  /\ UNCHANGED <<pools, primary, label, mnt, fstab, snap, imp, ren, boot, late, crashes, asked>>

\* MountFilesystem, then verifyPoolMountedFn.
MountCreated ==
  /\ Holding("create", "mount") /\ Room(held.mp)
  /\ mnt' = Over(held.mp, held.fs) /\ Goto("commit")
  /\ UNCHANGED <<db, disk, label, fstab, snap, imp, ren, boot, late, crashes, asked>>

\* A mutant: the error of the mount is not looked at.
MountErrorIgnored ==
  /\ Holding("create", "mount") /\ Goto("commit")
  /\ UNCHANGED <<db, world, snap, imp, ren, boot, late, crashes, asked>>

MountCreatedFails ==
  /\ Holding("create", "mount") /\ FailHeld
  /\ UNCHANGED <<pools, primary, world, snap, imp, ren, boot, late, crashes, asked>>

CommitCreate ==
  /\ Holding("create", "commit") /\ Insertable(held.fs, held.name, held.mp)
  /\ pools' = [pools EXCEPT ![held.fs] = [name |-> held.name, mp |-> held.mp, devs |-> held.devs]]
  /\ ops' = [ops EXCEPT ![held.op].status = "completed", ![held.op].pool = held.fs]
  /\ SyncFstab(pools') /\ Release
  /\ UNCHANGED <<primary, lost, disk, label, mnt, snap, imp, ren, boot, late, crashes, asked>>

\* A mutant: a transaction that fails leaves the operation open.
CommitCreateFailsQuietly ==
  /\ Holding("create", "commit")
  /\ Flaky \/ ~Insertable(held.fs, held.name, held.mp)
  /\ Release
  /\ UNCHANGED <<db, world, snap, imp, ren, boot, late, crashes, asked>>

\* A name or mount point taken meanwhile (a rename takes no mutex), or SQLite.
\* The filesystem stays made and mounted.
CommitCreateFails ==
  /\ Holding("create", "commit")
  /\ Flaky \/ ~Insertable(held.fs, held.name, held.mp)
  /\ FailHeld
  /\ UNCHANGED <<pools, primary, world, snap, imp, ren, boot, late, crashes, asked>>

-----------------------------------------------------------------------------
(* DestroyPool: journalled, wipes with the guards of WipeDevice.           *)

RequestDestroy(o, f) ==
  /\ Ready /\ Asked /\ ops[o] = None /\ f \in Pools
  /\ ~\E q \in Ops : ops[q] # None /\ ops[q].status = "open" /\ ops[q].pool = f     \* INV-1
  /\ ops' = [ops EXCEPT ![o] = [type |-> "destroy", status |-> "open", name |-> pools[f].name,
                                uuid |-> f, pool |-> f]]
  /\ Hold("destroy", "umount", o, pools[f].name, pools[f].mp, f, pools[f].devs, FALSE)
  /\ UNCHANGED <<pools, primary, lost, world, snap, imp, ren, boot, late, crashes>>

\* umount takes the visible layer off; what findmnt still shows aborts.
UnmountDestroyed ==
  /\ Holding("destroy", "umount") /\ mnt' = PopAt(held.mp)
  /\ IF mnt'[held.mp] = <<>> THEN Goto("wipe") /\ UNCHANGED <<ops, lost>> ELSE FailHeld
  /\ UNCHANGED <<pools, primary, disk, label, fstab, snap, imp, ren, boot, late, crashes, asked>>

\* Submounts, or a process with an open file.
UnmountDestroyedFails ==
  /\ Holding("destroy", "umount") /\ mnt[held.mp] # <<>> /\ FailHeld
  /\ UNCHANGED <<pools, primary, world, snap, imp, ren, boot, late, crashes, asked>>

\* One disk after another; a wipe that fails is logged and the next one runs.
WipeDestroyed(d) ==
  /\ Holding("destroy", "wipe") /\ d \in held.devs
  /\ \/ ~Busy(d) /\ disk' = Erased({d})
     \/ UNCHANGED disk
  /\ held' = [held EXCEPT !.devs = @ \ {d}]
  /\ UNCHANGED <<db, label, mnt, fstab, snap, imp, ren, boot, late, crashes, asked>>

CommitDestroy ==
  /\ Holding("destroy", "wipe") /\ held.devs = {}
  /\ pools' = [pools EXCEPT ![held.fs] = None]
  /\ primary' = IF primary = held.fs THEN Dangling ELSE primary
  /\ ops' = WithoutPool(held.fs, Closed(held.op, "completed"))
  /\ SyncFstab(pools') /\ Release
  /\ UNCHANGED <<lost, disk, label, mnt, snap, imp, ren, boot, late, crashes, asked>>

CommitDestroyFails ==
  /\ Holding("destroy", "wipe") /\ held.devs = {} /\ Flaky /\ FailHeld
  /\ UNCHANGED <<pools, primary, world, snap, imp, ren, boot, late, crashes, asked>>

-----------------------------------------------------------------------------
(* destroyPoolBtrfs and exportPoolBtrfs: by name, without a journal entry.  *)

RequestRemoval(f, kind) ==
  /\ Ready /\ Asked /\ f \in Pools /\ kind \in {"erase", "export"}
  /\ Hold(kind, "umount", None, pools[f].name, pools[f].mp, f, pools[f].devs, FALSE)
  /\ UNCHANGED <<db, world, snap, imp, ren, boot, late, crashes>>

Removing(pc) == Holding("erase", pc) \/ Holding("export", pc)

\* unmountStrict, then the fstab entry goes.  Whatever keeps the mount point
\* busy, and what findmnt still shows there, aborts before anything is lost.
UnmountRemoved ==
  /\ Removing("umount") /\ mnt' = PopAt(held.mp)
  /\ IF mnt'[held.mp] = <<>>
     THEN /\ fstab' = [fstab EXCEPT ![held.mp] = None]
          /\ Goto(IF held.kind = "erase" THEN "wipe" ELSE "commit")
     ELSE Release /\ UNCHANGED fstab
  /\ UNCHANGED <<db, disk, label, snap, imp, ren, boot, late, crashes, asked>>

UnmountRemovedFails ==
  /\ Removing("umount") /\ mnt[held.mp] # <<>> /\ Release
  /\ UNCHANGED <<db, world, snap, imp, ren, boot, late, crashes, asked>>

\* wipefs -af of each disk, mounted elsewhere or not; errors are not looked at.
WipeRemoved(d) ==
  /\ Holding("erase", "wipe") /\ d \in held.devs
  /\ disk' \in {disk, Erased({d})}
  /\ held' = [held EXCEPT !.devs = @ \ {d}, !.pc = IF held.devs = {d} THEN "commit" ELSE @]
  /\ UNCHANGED <<db, label, mnt, fstab, snap, imp, ren, boot, late, crashes, asked>>

\* removePoolFromDB: the row, and the primary moves to another pool if any.
CommitRemoval ==
  /\ Removing("commit") /\ held.fs \in Pools
  /\ pools' = [pools EXCEPT ![held.fs] = None]
  /\ ops' = WithoutPool(held.fs, ops)
  /\ IF primary # held.fs THEN UNCHANGED primary
     ELSE primary' \in IF Pools = {held.fs} THEN {None} ELSE Pools \ {held.fs}
  /\ Release
  /\ UNCHANGED <<lost, world, snap, imp, ren, boot, late, crashes, asked>>

CommitRemovalFails ==
  /\ Removing("commit") /\ Release
  /\ Flaky \/ held.fs \notin Pools
  /\ UNCHANGED <<db, world, snap, imp, ren, boot, late, crashes, asked>>

-----------------------------------------------------------------------------
(* importPoolBtrfs.                                                        *)

\* What it read in the snapshot it keeps while it waits for storageMu.
ReadImport(f, n) ==
  /\ boot = {} /\ Asked /\ imp = None /\ snap # None
  /\ snap.devs[f] # {} /\ f \notin snap.managed
  /\ imp' = [fs |-> f, name |-> n, devs |-> snap.devs[f], at |-> snap.at[f]]
  /\ UNCHANGED <<db, world, snap, held, ren, boot, late, crashes>>

\* A filesystem seen mounted is taken where it was seen; another is mounted,
\* which needs every device unless it was seen incomplete.
MountImport ==
  /\ held = None /\ imp # None /\ ~NameTaken(imp.name)
  /\ IF imp.at # None
     THEN /\ Hold("import", "commit", None, imp.name, imp.at, imp.fs, imp.devs, FALSE)
          /\ UNCHANGED mnt
     ELSE /\ imp.devs \subseteq Members(imp.fs) /\ Room(imp.name)
          /\ mnt' = Over(imp.name, imp.fs)
          /\ Hold("import", "commit", None, imp.name, imp.name, imp.fs, imp.devs, FALSE)
  /\ imp' = None
  /\ UNCHANGED <<db, disk, label, fstab, snap, ren, boot, late, crashes, asked>>

\* A taken name, a failed scan, a mount that fails.
DropImport ==
  /\ held = None /\ imp # None /\ imp' = None
  /\ UNCHANGED <<db, world, snap, held, ren, boot, late, crashes, asked>>

CommitImport ==
  /\ Holding("import", "commit") /\ Insertable(held.fs, held.name, held.mp)
  /\ pools' = [pools EXCEPT ![held.fs] = [name |-> held.name, mp |-> held.mp, devs |-> held.devs]]
  /\ primary' = IF Pools = {} THEN held.fs ELSE primary
  /\ SyncFstab(pools') /\ Release
  /\ UNCHANGED <<ops, lost, disk, label, mnt, snap, imp, ren, boot, late, crashes, asked>>

CommitImportFails ==
  /\ Holding("import", "commit") /\ Release
  /\ Flaky \/ ~Insertable(held.fs, held.name, held.mp)
  /\ UNCHANGED <<db, world, snap, imp, ren, boot, late, crashes, asked>>

-----------------------------------------------------------------------------
(* wipeDiskGo and wipeDiskForce: unmount, kill, zero with dd.              *)

RequestWipe(d, force) ==
  /\ Ready /\ Asked /\ PreFlight(d, force)
  /\ Hold("wipe", "zero", None, InitName, InitName, None, {d}, force)
  /\ UNCHANGED <<db, world, snap, imp, ren, boot, late, crashes>>

\* umount of the mount point lsblk shows, then of the disk; both may fail and the
\* steps go on; dd asks nobody.
ZeroDisk(d) ==
  /\ Holding("wipe", "zero") /\ d \in held.devs
  /\ mnt' \in UNION {AfterUmount(m, disk[d]) : m \in AfterUmount(mnt, disk[d])}
  /\ disk' \in {disk, Erased({d})}
  /\ Release
  /\ UNCHANGED <<db, label, fstab, snap, imp, ren, boot, late, crashes, asked>>

-----------------------------------------------------------------------------
(* RenamePool, without storageMu.                                          *)

CheckRename(f, n) ==
  /\ boot = {} /\ Asked /\ ren = None /\ f \in Pools
  /\ \A g \in Pools \ {f} : pools[g].name # n
  /\ ren' = [fs |-> f, new |-> n, old |-> pools[f].mp, pc |-> "move"]
  /\ UNCHANGED <<db, world, snap, held, imp, boot, late, crashes>>

\* Whatever is visible at the old mount point gets the label; the fstab line
\* and the mount move; the failures put the text of fstab back, not the label.
MoveMount ==
  /\ ren # None /\ ren.pc = "move" /\ mnt[ren.old] # <<>>
  /\ label' = [label EXCEPT ![Head(mnt[ren.old])] = ren.new]
  /\ LET f == fstab[ren.old]
         here == PopAt(ren.old) IN
     \/ /\ f # None /\ Members(f) # {} /\ Len(here[ren.new]) < MaxLayers
        /\ fstab' = [fstab EXCEPT ![ren.old] = None, ![ren.new] = f]
        /\ mnt' = [here EXCEPT ![ren.new] = <<f>> \o @]
        /\ ren' = [ren EXCEPT !.pc = "commit"]
     \/ ren' = None /\ UNCHANGED <<mnt, fstab>>               \* no line, busy, mounted back
     \/ f # None /\ ren' = None /\ mnt' = here /\ UNCHANGED fstab    \* mounted nowhere
  /\ Watch
  /\ UNCHANGED <<db, disk, snap, imp, boot, late, crashes, asked>>

RefuseMove ==
  /\ ren # None /\ ren.pc = "move" /\ ren' = None
  /\ UNCHANGED <<db, world, snap, held, imp, boot, late, crashes, asked>>

Renamable == /\ ren.fs \in Pools
             /\ \A g \in Pools \ {ren.fs} : pools[g].name # ren.new /\ pools[g].mp # ren.new

CommitRename ==
  /\ ren # None /\ ren.pc = "commit" /\ Renamable
  /\ pools' = [pools EXCEPT ![ren.fs].name = ren.new, ![ren.fs].mp = ren.new]
  /\ ren' = None
  /\ UNCHANGED <<primary, ops, lost, world, snap, held, imp, boot, late, crashes, asked>>

CommitRenameFails ==
  /\ ren # None /\ ren.pc = "commit" /\ ren' = None
  /\ Flaky \/ ~Renamable
  /\ UNCHANGED <<db, world, snap, held, imp, boot, late, crashes, asked>>

-----------------------------------------------------------------------------
(* The observer, the boot, failures.                                       *)

Observe ==
  /\ boot = {} /\ snap # Reality /\ snap' = Reality
  /\ UNCHANGED <<db, world, held, imp, ren, boot, late, crashes, asked>>

\* resolveOrphanCreatePool asks for the label; nothing it finds is completed.
\* btrfs filesystem show may fail, which is inconclusive.
RecoverCreate(o) ==
  /\ o \in boot /\ ops[o].type = "create"
  /\ \/ ops' = Closed(o, "failed")
     \/ /\ ~\E f \in FSes : label[f] = ops[o].name /\ Members(f) # {}
        /\ ops' = Closed(o, "rolled_back")
  /\ boot' = boot \ {o}
  /\ UNCHANGED <<pools, primary, lost, world, snap, held, imp, ren, late, crashes, asked>>

\* resolveOrphanDestroyPool asks for the uuid; when it is gone so is the row.
Gone(o) == ops[o].uuid # None /\ Members(ops[o].uuid) = {}
RecoverDestroy(o) ==
  /\ o \in boot /\ ops[o].type = "destroy" /\ boot' = boot \ {o}
  /\ IF Gone(o) /\ ops[o].pool # None
     THEN /\ pools' = [pools EXCEPT ![ops[o].pool] = None]
          /\ primary' = IF primary = ops[o].pool THEN Dangling ELSE primary
          /\ ops' = WithoutPool(ops[o].pool, Closed(o, "completed"))
     ELSE /\ ops' = Closed(o, IF Gone(o) THEN "completed" ELSE "failed")
          /\ UNCHANGED <<pools, primary>>
  /\ UNCHANGED <<lost, world, snap, held, imp, ren, late, crashes, asked>>

\* Its verdict, or the deletion, is not written: it stays open until next boot.
RecoverLost(o) ==
  /\ Flaky /\ o \in boot /\ boot' = boot \ {o} /\ lost' = lost \cup {o}
  /\ UNCHANGED <<pools, primary, ops, world, snap, held, imp, ren, late, crashes, asked>>

\* bootStorage: fstab from the rows, unmounted rows S mounted (others fail),
\* layers taken off down to the oldest.
BootStorage(S) ==
  /\ late /\ boot = {} /\ S \subseteq {f \in Pools : Members(f) # {}}
  /\ fstab' = FstabOf(pools)
  /\ mnt' = [n \in Names |->
       IF ~\E f \in Pools : pools[f].mp = n THEN mnt[n]
       ELSE IF mnt[n] # <<>> THEN <<Last(mnt[n])>>
       ELSE LET f == FstabOf(pools)[n] IN IF f \in S THEN <<f>> ELSE <<>>]
  /\ late' = FALSE /\ Watch
  /\ UNCHANGED <<db, disk, label, snap, imp, ren, boot, crashes, asked>>

MemoryLost ==
  /\ crashes < MaxCrashes /\ crashes' = crashes + 1
  /\ snap' = None /\ held' = None /\ imp' = None /\ ren' = None /\ late' = TRUE /\ lost' = {}
  /\ boot' = {o \in Ops : ops[o] # None /\ ops[o].status = "open"}
  /\ UNCHANGED <<pools, primary, ops, asked>>

DaemonCrash == MemoryLost /\ UNCHANGED world

\* systemd mounts the lines of fstab whose filesystem is there.
Reboot ==
  /\ MemoryLost
  /\ mnt' = [n \in Names |->
       IF fstab[n] # None /\ Members(fstab[n]) # {} THEN <<fstab[n]>> ELSE <<>>]
  /\ UNCHANGED <<disk, label, fstab>>

-----------------------------------------------------------------------------
Init ==
  /\ pools = [f \in FSes |-> IF f = InitFS THEN [name |-> InitName, mp |-> InitName,
                                                devs |-> InitDisks] ELSE None]
  /\ primary \in {None, InitFS}
  /\ ops = [o \in Ops |-> None]
  /\ disk = [d \in Disks |-> IF d \in InitDisks THEN InitFS ELSE None]
  /\ label = [f \in FSes |-> IF f = InitFS THEN InitName ELSE None]
  /\ mnt = [n \in Names |-> IF n = InitName THEN <<InitFS>> ELSE <<>>]
  /\ fstab = [n \in Names |-> IF n = InitName THEN InitFS ELSE None]
  /\ snap = Reality /\ held = None /\ imp = None /\ ren = None /\ lost = {}
  /\ boot = {} /\ late = FALSE /\ crashes = 0 /\ asked = 0

CreateSteps == \/ \E f \in FSes : Mkfs(f)
               \/ \E E \in SUBSET Disks : MkfsFails(E)
               \/ MountCreated \/ MountCreatedFails \/ CommitCreate \/ CommitCreateFails
DestroySteps == \/ UnmountDestroyed \/ UnmountDestroyedFails
                \/ \E d \in Disks : WipeDestroyed(d)
                \/ CommitDestroy \/ CommitDestroyFails
RemovalSteps == \/ UnmountRemoved \/ UnmountRemovedFails
                \/ \E d \in Disks : WipeRemoved(d)
                \/ CommitRemoval \/ CommitRemovalFails
HolderSteps == \/ CreateSteps \/ DestroySteps \/ RemovalSteps
               \/ CommitImport \/ CommitImportFails
               \/ \E d \in Disks : ZeroDisk(d)
ImportSteps == MountImport \/ DropImport
RenameSteps == MoveMount \/ RefuseMove \/ CommitRename \/ CommitRenameFails
BootSteps == \/ \E o \in Ops : RecoverCreate(o) \/ RecoverDestroy(o) \/ RecoverLost(o)
             \/ \E S \in SUBSET FSes : BootStorage(S)
Requests == \/ \E o \in Ops, n \in Names, D \in SUBSET Disks, w \in BOOLEAN : RequestCreate(o, n, D, w)
            \/ \E o \in Ops, f \in FSes : RequestDestroy(o, f)
            \/ \E f \in FSes, kind \in {"erase", "export"} : RequestRemoval(f, kind)
            \/ \E f \in FSes, n \in Names : ReadImport(f, n) \/ CheckRename(f, n)
            \/ \E d \in Disks, force \in BOOLEAN : RequestWipe(d, force)

Next == \/ Requests \/ HolderSteps \/ ImportSteps \/ RenameSteps \/ BootSteps
        \/ Observe \/ DaemonCrash \/ Reboot

Spec == Init /\ [][Next]_vars

-----------------------------------------------------------------------------
\* Every variable has its type; a procedure holds storageMu only after the boot.
TypeOK ==
  /\ pools \in [FSes -> Row \cup {None}]
  /\ primary \in FSes \cup {None, Dangling}
  /\ ops \in [Ops -> OpRow \cup {None}]
  /\ disk \in [Disks -> FSes \cup {None}]
  /\ label \in [FSes -> Names \cup {None}]
  /\ mnt \in [Names -> Seq(FSes)]
  /\ fstab \in [Names -> FSes \cup {None}]
  /\ snap \in Snapshot \cup {None} /\ held \in Holder \cup {None}
  /\ imp \in Import \cup {None} /\ ren \in Rename \cup {None}
  /\ boot \subseteq Ops /\ lost \subseteq Ops /\ late \in BOOLEAN
  /\ crashes \in 0 .. MaxCrashes /\ asked \in 0 .. MaxRequests
  /\ held # None => boot = {}

\* A create that completes has its filesystem on every disk of its row, mounted
\* where the row says, unless a rename that takes no mutex moved it meanwhile, or a
\* late bootStorage (requests are served before it runs) took it for a stacked mount.
CreatedIsReal == [][\A o \in Ops :
  ops[o] # None /\ ops[o].type = "create" /\ ops[o].status = "open" /\ ops'[o].status = "completed"
  => LET f == ops'[o].pool IN
     /\ pools'[f] # None /\ \A d \in pools'[f].devs : disk'[d] = f
     /\ f \in ToSet(mnt'[pools'[f].mp]) \/ held.moved]_vars

\* Without WipeFirst a create erases nothing, however old the snapshot its
\* preflight read: mkfs without -f is the last line of defence (HARD-5).
FreshCreateSpares == [][held # None /\ held.kind = "create" /\ ~held.force
  => \A d \in Disks : disk'[d] # disk[d] => disk[d] = None]_vars

\* CreatePool and DestroyPool never erase a disk of a mounted filesystem, even
\* when a rename moved the mount away from where the row says.
ServiceSparesMounted == [][held # None /\ held.kind \in {"create", "destroy"}
  => \A d \in Disks : disk'[d] # disk[d] /\ disk[d] # None => ~Mounted(disk[d])]_vars

\* A row disappears only under a request to remove that very pool, or at a boot
\* that finds no disk of its filesystem left.
ForgottenOnPurpose == [][\A f \in Pools : pools'[f] = None
  => \/ held # None /\ held.fs = f /\ held.kind \in {"destroy", "erase", "export"}
     \/ boot # {} /\ Members(f) = {}]_vars

\* What the disks hold is spared, by a create without force and by CreatePool and
\* DestroyPool for what is mounted (storage_executor_real.go:96, HARD-5).
DataIsSpared == FreshCreateSpares /\ ServiceSparesMounted
\* Rows tell of filesystems: they come when one is there and go on purpose
\* (storage_service_pool.go:282, storage_recovery.go).
RowsAreReal == CreatedIsReal /\ ForgottenOnPurpose

\* An operation stays open only while its procedure runs or the boot has it in
\* hand, or because the write that closes it was lost, which STOR-08 accepts.
OpenIsHeld == \A o \in Ops : ops[o] # None /\ ops[o].status = "open"
  => o \in boot \cup lost \/ (held # None /\ held.op = o)

\* primary_pool names a pool there is, unless DestroyPool (or the boot that
\* finishes it) deleted the row: only removePoolFromDB hands the mark on.
PrimaryIsAPool == primary \in Pools \cup {None, Dangling}

\* Both: operations that are open have someone who closes them (storage_recovery.go:45),
\* and the primary pool is one there is (storage_service_pool.go:170).
PoolsConsistent == OpenIsHeld /\ PrimaryIsAPool

\* The wipe of a disk, forced or not, is not for managed pools
\* (storage_http_v2.go:923): the code can break this.
WipeSparesManaged == [][held # None /\ held.kind = "wipe"
  => \A d \in Disks : disk'[d] # disk[d] => d \notin Assigned]_vars
==============================================================================
