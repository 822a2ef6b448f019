---------------------------- MODULE MCPools_proofs ----------------------------
(***************************************************************************)
(* Theorems about the life of pools and what is said of disks, room and     *)
(* the network, for any disks, names, filesystems, requests and crashes.    *)
(***************************************************************************)
EXTENDS MCPools, TLAPS, FiniteSetTheorems, WellFoundedInduction

(* What is true of whoever holds storageMu, of the boot, and of the journal.  *)

\* The boot has nothing in hand while a procedure runs; a create or a destroy has its open
\* operation; a create that is past mkfs has its filesystem on every disk it was given, and
\* past the mount it has it mounted, unless it was moved.
HolderOK == held # None =>
  /\ boot = {}
  /\ held.kind \in {"create", "destroy"} =>
       /\ held.op \in Ops /\ ops[held.op] # None
       /\ ops[held.op].type = held.kind /\ ops[held.op].status = "open"
  /\ held.kind \notin {"create", "destroy"} => held.op = None
  /\ held.kind \in {"destroy", "erase", "export", "import"} => held.fs \in FSes
  /\ held.kind \in {"create", "import"} => held.devs # {}
  /\ held.kind = "create" /\ held.pc \in {"mount", "commit"} =>
       held.fs \in FSes /\ \A d \in held.devs : disk[d] = held.fs
  /\ held.kind = "create" /\ held.pc = "commit" => held.fs \in ToSet(mnt[held.mp]) \/ held.moved
\* What the boot resolves is open, and an import that waits waits for no boot.
BootOK == /\ \A o \in boot : ops[o] # None /\ ops[o].status = "open"
          /\ imp # None => boot = {}
\* The journal says of what pool a destroy is: the boot that deletes it deletes no other.
DestroyersAgree == \A o \in Ops :
  ops[o] # None /\ ops[o].type = "destroy" => ops[o].pool \in {None, ops[o].uuid}

IInv == TypeOK /\ HolderOK /\ BootOK /\ DestroyersAgree /\ PoolsConsistent

-----------------------------------------------------------------------------
(* What the operators do.                                                   *)

\* Nothing that is there is None.
LEMMA IsThere ==
  /\ None \notin Row /\ None \notin OpRow /\ None \notin Holder
  /\ None \notin Import /\ None \notin Rename /\ None \notin Snapshot
BY AbsenceAssumption

\* Closing an operation changes its status and nothing else.
LEMMA ClosedIs ==
  ASSUME ops \in [Ops -> OpRow \cup {None}], NEW o \in Ops, ops[o] # None,
         NEW s \in {"completed", "failed", "rolled_back"}
  PROVE  /\ Closed(o, s) \in [Ops -> OpRow \cup {None}]
         /\ Closed(o, s)[o] # None
         /\ Closed(o, s)[o].status = s /\ Closed(o, s)[o].type = ops[o].type
         /\ Closed(o, s)[o].uuid = ops[o].uuid /\ Closed(o, s)[o].pool = ops[o].pool
         /\ \A q \in Ops \ {o} : Closed(o, s)[q] = ops[q]
<1>1. ops[o] \in OpRow
  OBVIOUS
<1>2. [ops[o] EXCEPT !.status = s] \in OpRow
  BY <1>1 DEF OpRow
<1> QED BY <1>1, <1>2, IsThere DEF Closed, OpRow

\* Deleting a pool row takes it out of the operations and changes nothing else of them.
LEMMA WithoutPoolIs ==
  ASSUME NEW f \in FSes, NEW j \in [Ops -> OpRow \cup {None}]
  PROVE  /\ WithoutPool(f, j) \in [Ops -> OpRow \cup {None}]
         /\ \A o \in Ops : j[o] = None <=> WithoutPool(f, j)[o] = None
         /\ \A o \in Ops : j[o] # None =>
              /\ WithoutPool(f, j)[o].status = j[o].status /\ WithoutPool(f, j)[o].type = j[o].type
              /\ WithoutPool(f, j)[o].uuid = j[o].uuid
              /\ WithoutPool(f, j)[o].pool \in {j[o].pool, None}
<1>1. \A o \in Ops : j[o] # None => j[o] \in OpRow /\ [j[o] EXCEPT !.pool = None] \in OpRow
  BY DEF OpRow
<1> QED BY <1>1, IsThere DEF WithoutPool, OpRow

\* The step a procedure is at, the filesystem it made, and the disks it has left may change.
LEMMA HeldMoves ==
  ASSUME held \in Holder,
         NEW pc \in {"mkfs", "mount", "commit", "umount", "wipe", "zero"}, NEW f \in FSes \cup {None},
         NEW D \in SUBSET Disks, NEW m \in BOOLEAN,
         held' = [kind |-> held.kind, pc |-> pc, op |-> held.op, name |-> held.name, mp |-> held.mp,
                  fs |-> f, devs |-> D, force |-> held.force, moved |-> m]
  PROVE  /\ held' \in Holder /\ held' # None
         /\ held'.kind = held.kind /\ held'.op = held.op /\ held'.name = held.name /\ held'.mp = held.mp
         /\ held'.force = held.force
         /\ held'.pc = pc /\ held'.fs = f /\ held'.devs = D /\ held'.moved = m
<1>1. held' \in Holder
  BY DEF Holder
<1> QED BY <1>1, IsThere

\* The procedure goes on to its next step.
LEMMA HeldGoes ==
  ASSUME held \in Holder, NEW pc \in {"mkfs", "mount", "commit", "umount", "wipe", "zero"}, Goto(pc)
  PROVE  /\ held' \in Holder /\ held' # None
         /\ held'.kind = held.kind /\ held'.op = held.op /\ held'.name = held.name /\ held'.mp = held.mp
         /\ held'.force = held.force
         /\ held'.pc = pc /\ held'.fs = held.fs /\ held'.devs = held.devs /\ held'.moved = held.moved
BY IsThere DEF Holder, Goto

\* A layer taken off, or put on, leaves the other mount points alone.
LEMMA PopFromIs ==
  ASSUME NEW m \in [Names -> Seq(FSes)], NEW n \in Names
  PROVE  /\ PopFrom(m, n) \in [Names -> Seq(FSes)]
         /\ \A k \in Names \ {n} : PopFrom(m, n)[k] = m[k]
<1>1. m[n] # <<>> => Tail(m[n]) \in Seq(FSes)
  OBVIOUS
<1> QED BY <1>1 DEF PopFrom

\* The same of what is mounted now.
LEMMA PopIs ==
  ASSUME mnt \in [Names -> Seq(FSes)], NEW n \in Names
  PROVE  /\ PopAt(n) \in [Names -> Seq(FSes)]
         /\ \A m \in Names \ {n} : PopAt(n)[m] = mnt[m]
BY PopFromIs DEF PopAt

\* A mount goes on top of what was mounted there.
LEMMA OverIs ==
  ASSUME mnt \in [Names -> Seq(FSes)], NEW n \in Names, NEW f \in FSes
  PROVE  /\ Over(n, f) \in [Names -> Seq(FSes)]
         /\ f \in ToSet(Over(n, f)[n])
         /\ \A m \in Names \ {n} : Over(n, f)[m] = mnt[m]
<1>1. <<f>> \o mnt[n] \in Seq(FSes) /\ (<<f>> \o mnt[n])[1] = f /\ 1 \in DOMAIN (<<f>> \o mnt[n])
  OBVIOUS
<1> QED BY <1>1 DEF Over, ToSet

-----------------------------------------------------------------------------
(* One lemma for each step.                                                 *)

\* A procedure that fails closes its operation, or the write is lost.
LEMMA FailHeldIs ==
  ASSUME IInv, held # None, held.kind \in {"create", "destroy"}, FailHeld, UNCHANGED boot
  PROVE  /\ ops' \in [Ops -> OpRow \cup {None}] /\ lost' \subseteq Ops /\ held' = None
         /\ DestroyersAgree' /\ OpenIsHeld'
<1>1. held.op \in Ops /\ ops[held.op] # None /\ ops \in [Ops -> OpRow \cup {None}] /\ lost \subseteq Ops
  BY DEF IInv, TypeOK, HolderOK
<1>2. CASE ops' = Closed(held.op, "failed") /\ UNCHANGED lost
  <2>1. /\ ops' \in [Ops -> OpRow \cup {None}]
        /\ ops'[held.op].status = "failed" /\ ops'[held.op].type = ops[held.op].type
        /\ ops'[held.op].uuid = ops[held.op].uuid /\ ops'[held.op].pool = ops[held.op].pool
        /\ \A q \in Ops \ {held.op} : ops'[q] = ops[q]
    BY <1>1, <1>2, ClosedIs
  <2>2. DestroyersAgree'
    BY <1>1, <2>1 DEF DestroyersAgree, IInv
  <2>3. OpenIsHeld'
    BY <1>1, <1>2, <2>1 DEF OpenIsHeld, PoolsConsistent, IInv, FailHeld, Release
  <2> QED BY <1>1, <1>2, <2>1, <2>2, <2>3 DEF FailHeld, Release
<1>3. CASE lost' = lost \cup {held.op} /\ UNCHANGED ops
  BY <1>1, <1>3 DEF DestroyersAgree, OpenIsHeld, PoolsConsistent, IInv, FailHeld, Release
<1> QED BY <1>2, <1>3 DEF FailHeld

\* A procedure that fails keeps the rows; what it left on the disks and mounted may be anything.
LEMMA FailStep ==
  ASSUME IInv, held # None, held.kind \in {"create", "destroy"}, FailHeld,
         disk' \in [Disks -> FSes \cup {None}], label' \in [FSes -> Names \cup {None}],
         mnt' \in [Names -> Seq(FSes)],
         UNCHANGED <<pools, primary, fstab, snap, imp, ren, boot, late, crashes, asked>>
  PROVE  IInv'
<1>1. /\ ops' \in [Ops -> OpRow \cup {None}] /\ lost' \subseteq Ops /\ held' = None
      /\ DestroyersAgree' /\ OpenIsHeld'
  BY FailHeldIs
<1>2. boot = {}
  BY DEF IInv, HolderOK
<1>3. PrimaryIsAPool'
  BY DEF PrimaryIsAPool, PoolsConsistent, IInv, Pools
<1> QED BY <1>1, <1>2, <1>3 DEF IInv, TypeOK, HolderOK, BootOK, PoolsConsistent

\* A crash leaves what is on disk, and hands the open operations to the boot.
LEMMA CrashStep ==
  ASSUME IInv, DaemonCrash \/ Reboot
  PROVE  IInv'
<1> USE IsThere DEF IInv, DaemonCrash, Reboot, MemoryLost, world
<1>1. crashes' \in 0 .. MaxCrashes
  BY PoolAssumption DEF TypeOK
<1>2. mnt' \in [Names -> Seq(FSes)]
  <2>1. <<>> \in Seq(FSes) /\ \A f \in FSes : <<f>> \in Seq(FSes)
    OBVIOUS
  <2>2. \A n \in Names : fstab[n] # None => fstab[n] \in FSes
    BY DEF TypeOK
  <2>3. CASE mnt' = [n \in Names |->
               IF fstab[n] # None /\ Members(fstab[n]) # {} THEN <<fstab[n]>> ELSE <<>>]
    BY <2>1, <2>2, <2>3
  <2> QED BY <2>3 DEF TypeOK
<1>3. TypeOK'
  BY <1>1, <1>2 DEF TypeOK
<1> QED BY <1>3 DEF TypeOK, HolderOK, BootOK, DestroyersAgree, PoolsConsistent, OpenIsHeld, PrimaryIsAPool, Pools

\* The boot closes a create without looking at rows.
LEMMA RecoverCreateStep ==
  ASSUME IInv, NEW o \in Ops, RecoverCreate(o)
  PROVE  IInv'
<1>1. PICK s \in {"failed", "rolled_back"} : ops' = Closed(o, s)
  BY DEF RecoverCreate
<1>2. /\ ops \in [Ops -> OpRow \cup {None}] /\ ops[o] # None /\ o \in boot /\ held = None
  BY DEF RecoverCreate, IInv, TypeOK, BootOK, HolderOK
<1>3. /\ ops' \in [Ops -> OpRow \cup {None}] /\ ops'[o] # None
      /\ ops'[o].status = s /\ ops'[o].type = ops[o].type
      /\ ops'[o].uuid = ops[o].uuid /\ ops'[o].pool = ops[o].pool
      /\ \A q \in Ops \ {o} : ops'[q] = ops[q]
  BY <1>1, <1>2, ClosedIs
<1> USE DEF IInv, RecoverCreate, world
<1>4. TypeOK'
  BY <1>2, <1>3 DEF TypeOK
<1>5. HolderOK' /\ BootOK' /\ DestroyersAgree'
  BY <1>2, <1>3 DEF TypeOK, HolderOK, BootOK, DestroyersAgree
<1>6. OpenIsHeld' /\ PrimaryIsAPool'
  BY <1>2, <1>3 DEF TypeOK, OpenIsHeld, PrimaryIsAPool, PoolsConsistent, Pools
<1> QED BY <1>4, <1>5, <1>6 DEF PoolsConsistent

\* The boot closes a destroy, and deletes the row when the filesystem is gone.
LEMMA RecoverDestroyStep ==
  ASSUME IInv, NEW o \in Ops, RecoverDestroy(o)
  PROVE  IInv'
<1>1. /\ ops \in [Ops -> OpRow \cup {None}] /\ ops[o] \in OpRow /\ ops[o] # None /\ o \in boot /\ held = None
      /\ ops[o].pool \in FSes \cup {None}
  BY DEF RecoverDestroy, IInv, TypeOK, BootOK, HolderOK, OpRow
<1>2. /\ ops' \in [Ops -> OpRow \cup {None}] /\ ops'[o] # None
      /\ ops'[o].status # "open"
      /\ \A q \in Ops : ops[q] = None <=> ops'[q] = None
      /\ \A q \in Ops : ops[q] # None => /\ ops'[q].type = ops[q].type /\ ops'[q].uuid = ops[q].uuid
                                         /\ q # o => ops'[q].status = ops[q].status
                                         /\ ops'[q].pool \in {ops[q].pool, None}
  <2>1. CASE Gone(o) /\ ops[o].pool # None
    BY <1>1, <2>1, ClosedIs, WithoutPoolIs DEF RecoverDestroy
  <2>2. CASE ~(Gone(o) /\ ops[o].pool # None)
    BY <1>1, <2>2, ClosedIs DEF RecoverDestroy
  <2> QED BY <2>1, <2>2
<1>3. /\ pools' \in [FSes -> Row \cup {None}] /\ primary' \in FSes \cup {None, Dangling}
      /\ PrimaryIsAPool'
  <2> USE DEF IInv, TypeOK, PoolsConsistent, PrimaryIsAPool, Pools
  <2>1. CASE Gone(o) /\ ops[o].pool # None
    <3>1. /\ pools' = [pools EXCEPT ![ops[o].pool] = None] /\ ops[o].pool \in FSes
          /\ primary' = IF primary = ops[o].pool THEN Dangling ELSE primary
      BY <1>1, <2>1 DEF RecoverDestroy
    <3> QED BY <3>1, PoolAssumption
  <2>2. CASE ~(Gone(o) /\ ops[o].pool # None)
    BY <2>2 DEF RecoverDestroy
  <2> QED BY <2>1, <2>2
<1> USE DEF IInv, RecoverDestroy, world
<1>4. TypeOK'
  BY <1>1, <1>2, <1>3 DEF TypeOK
<1>5. HolderOK' /\ BootOK' /\ DestroyersAgree'
  BY <1>1, <1>2 DEF TypeOK, HolderOK, BootOK, DestroyersAgree
<1>6. OpenIsHeld'
  BY <1>1, <1>2 DEF TypeOK, OpenIsHeld, PoolsConsistent
<1> QED BY <1>3, <1>4, <1>5, <1>6 DEF PoolsConsistent

\* One that takes no mutex may have unmounted what a create had mounted.
LEMMA WatchIs ==
  ASSUME IInv, Watch, UNCHANGED <<pools, ops, lost, boot, disk, imp>>, mnt' \in [Names -> Seq(FSes)]
  PROVE  /\ held' \in Holder \cup {None}
         /\ HolderOK' /\ BootOK' /\ DestroyersAgree' /\ OpenIsHeld'
<1>1. held \in Holder \cup {None}
  BY DEF IInv, TypeOK
<1>2. CASE held' = held /\ ~(Holding("create", "commit") /\ held.fs \notin ToSet(mnt'[held.mp]))
  BY <1>1, <1>2 DEF IInv, HolderOK, BootOK, DestroyersAgree, PoolsConsistent, OpenIsHeld, Holding
<1>3. CASE held' = [held EXCEPT !.moved = TRUE] /\ held # None
  <2>1. held \in Holder
    BY <1>1, <1>3
  <2>2. held' = [kind |-> held.kind, pc |-> held.pc, op |-> held.op, name |-> held.name, mp |-> held.mp,
                 fs |-> held.fs, devs |-> held.devs, force |-> held.force, moved |-> TRUE]
    BY <1>3, <2>1, Zenon DEF Holder
  <2>3. held.pc \in {"mkfs", "mount", "commit", "umount", "wipe", "zero"} /\ held.fs \in FSes \cup {None}
        /\ held.devs \in SUBSET Disks
    BY <2>1 DEF Holder
  <2>4. /\ held' \in Holder /\ held' # None
        /\ held'.kind = held.kind /\ held'.op = held.op /\ held'.pc = held.pc /\ held'.fs = held.fs
        /\ held'.devs = held.devs /\ held'.moved = TRUE
    BY <2>1, <2>2, <2>3, HeldMoves
  <2> QED BY <1>3, <2>4 DEF IInv, HolderOK, BootOK, DestroyersAgree, PoolsConsistent, OpenIsHeld
<1> QED BY <1>2, <1>3 DEF Watch, Holding

\* bootStorage writes fstab and mounts.
LEMMA BootStorageStep ==
  ASSUME IInv, NEW S \in SUBSET FSes, BootStorage(S)
  PROVE  IInv'
<1>1. FstabOf(pools) \in [Names -> FSes \cup {None}]
  BY DEF FstabOf
<1>2. \A n \in Names : mnt[n] # <<>> => <<Last(mnt[n])>> \in Seq(FSes)
  BY DEF Last, IInv, TypeOK
<1>3. \A f \in S : <<f>> \in Seq(FSes)
  OBVIOUS
<1>4. mnt' \in [Names -> Seq(FSes)]
  BY <1>1, <1>2, <1>3 DEF BootStorage, IInv, TypeOK
<1>5. /\ held' \in Holder \cup {None}
      /\ HolderOK' /\ BootOK' /\ DestroyersAgree' /\ OpenIsHeld'
  BY <1>4, WatchIs DEF BootStorage, db
<1>6. PrimaryIsAPool'
  BY DEF BootStorage, db, IInv, PoolsConsistent, PrimaryIsAPool, Pools
<1>7. TypeOK'
  BY <1>1, <1>4, <1>5 DEF BootStorage, db, IInv, TypeOK, HolderOK
<1> QED BY <1>5, <1>6, <1>7 DEF IInv, PoolsConsistent

\* mkfs puts the filesystem on every disk of the create.
LEMMA MkfsStep ==
  ASSUME IInv, NEW f \in FSes, Mkfs(f)
  PROVE  IInv'
<1>1. /\ held \in Holder /\ held # None /\ held.kind = "create"
      /\ disk' \in [Disks -> FSes \cup {None}] /\ label' \in [FSes -> Names \cup {None}]
  BY DEF Mkfs, Holding, IInv, TypeOK, Holder
<1>2. CASE held' = [held EXCEPT !.pc = "mount", !.fs = f] /\ UNCHANGED <<ops, lost>>
  <2>1. held' = [kind |-> held.kind, pc |-> "mount", op |-> held.op, name |-> held.name, mp |-> held.mp,
                 fs |-> f, devs |-> held.devs, force |-> held.force, moved |-> held.moved]
    BY <1>1, <1>2, Zenon DEF Holder
  <2>2. held.devs \in SUBSET Disks /\ held.moved \in BOOLEAN
    BY <1>1 DEF Holder
  <2>3. /\ held' \in Holder /\ held' # None /\ held'.kind = "create" /\ held'.op = held.op
        /\ held'.pc = "mount" /\ held'.fs = f /\ held'.devs = held.devs
    BY <1>1, <2>1, <2>2, HeldMoves
  <2>4. TypeOK'
    BY <1>1, <1>2, <2>3 DEF Mkfs, IInv, TypeOK, HolderOK
  <2>5. HolderOK'
    BY <1>1, <1>2, <2>2, <2>3 DEF Mkfs, IInv, HolderOK
  <2> QED BY <1>1, <1>2, <2>3, <2>4, <2>5 DEF Mkfs, IInv, BootOK, DestroyersAgree, PoolsConsistent,
                                         OpenIsHeld, PrimaryIsAPool, Pools
<1>3. CASE FailHeld
  BY <1>1, <1>3, FailStep DEF Mkfs, IInv, TypeOK
<1> QED BY <1>2, <1>3 DEF Mkfs

\* mkfs, or a wipe before it, fails.
LEMMA MkfsFailsStep ==
  ASSUME IInv, NEW E \in SUBSET Disks, MkfsFails(E)
  PROVE  IInv'
<1>1. held # None /\ held.kind = "create" /\ disk' \in [Disks -> FSes \cup {None}]
  BY DEF MkfsFails, Holding, Erased, IInv, TypeOK
<1> QED BY <1>1, FailStep DEF MkfsFails, IInv, TypeOK

\* The filesystem of a create is mounted.
LEMMA MountCreatedStep ==
  ASSUME IInv, MountCreated
  PROVE  IInv'
<1>1. /\ held \in Holder /\ held # None /\ held.kind = "create" /\ held.pc = "mount"
      /\ held.mp \in Names /\ held.fs \in FSes
  BY DEF MountCreated, Holding, IInv, TypeOK, HolderOK, Holder
<1>2. /\ held' \in Holder /\ held' # None /\ held'.kind = held.kind /\ held'.op = held.op
      /\ held'.mp = held.mp /\ held'.pc = "commit" /\ held'.fs = held.fs /\ held'.devs = held.devs
  BY <1>1, HeldGoes DEF MountCreated
<1>3. mnt' \in [Names -> Seq(FSes)] /\ held.fs \in ToSet(mnt'[held.mp])
  BY <1>1, OverIs DEF MountCreated, IInv, TypeOK
<1> USE DEF MountCreated, db, IInv
<1>4. TypeOK'
  BY <1>1, <1>2, <1>3 DEF TypeOK, HolderOK
<1>5. HolderOK'
  BY <1>1, <1>2, <1>3 DEF HolderOK
<1> QED BY <1>1, <1>2, <1>4, <1>5 DEF BootOK, DestroyersAgree, PoolsConsistent,
                                     OpenIsHeld, PrimaryIsAPool, Pools

\* The mount, the commit, the unmount or the last step of a destruction fails.
LEMMA ProcedureFailsStep ==
  ASSUME IInv, MountCreatedFails \/ CommitCreateFails \/ UnmountDestroyedFails \/ CommitDestroyFails
  PROVE  IInv'
<1>1. /\ held # None /\ held.kind \in {"create", "destroy"} /\ FailHeld
      /\ UNCHANGED <<pools, primary, world, snap, imp, ren, boot, late, crashes, asked>>
  BY DEF MountCreatedFails, CommitCreateFails, UnmountDestroyedFails, CommitDestroyFails, Holding
<1> QED BY <1>1, FailStep DEF world, IInv, TypeOK

\* The row is inserted and the operation completed at once.
LEMMA CommitCreateStep ==
  ASSUME IInv, CommitCreate
  PROVE  IInv'
<1>1. /\ held \in Holder /\ held # None /\ held.kind = "create" /\ held.pc = "commit"
      /\ held.op \in Ops /\ ops[held.op] # None /\ ops[held.op].type = "create"
      /\ held.fs \in FSes /\ held.devs # {} /\ boot = {}
      /\ ops \in [Ops -> OpRow \cup {None}] /\ pools \in [FSes -> Row \cup {None}]
  BY DEF CommitCreate, Holding, IInv, TypeOK, HolderOK
<1> DEFINE row == [name |-> held.name, mp |-> held.mp, devs |-> held.devs]
<1>2. row \in Row /\ row # None
  BY <1>1, IsThere DEF Holder, Row
<1>3. pools' = [pools EXCEPT ![held.fs] = row]
  BY DEF CommitCreate
<1>4. /\ pools' \in [FSes -> Row \cup {None}]
      /\ \A f \in FSes : pools'[f] = IF f = held.fs THEN row ELSE pools[f]
  BY <1>1, <1>2, <1>3
<1>5. /\ ops' \in [Ops -> OpRow \cup {None}] /\ ops'[held.op].status = "completed" /\ ops'[held.op].type = "create"
      /\ \A q \in Ops \ {held.op} : ops'[q] = ops[q]
  <2>1. ops[held.op] \in OpRow
    BY <1>1
  <2>2. [[ops[held.op] EXCEPT !.status = "completed"] EXCEPT !.pool = held.fs] \in OpRow
    BY <1>1, <2>1 DEF OpRow
  <2> QED BY <1>1, <2>1, <2>2 DEF CommitCreate, OpRow
<1>6. fstab' \in [Names -> FSes \cup {None}]
  BY DEF CommitCreate, SyncFstab, FstabOf, IInv, TypeOK
<1> USE DEF CommitCreate, Release, IInv
<1>7. TypeOK'
  BY <1>1, <1>4, <1>5, <1>6 DEF TypeOK
<1>8. HolderOK' /\ BootOK' /\ DestroyersAgree'
  BY <1>1, <1>5 DEF HolderOK, BootOK, DestroyersAgree
<1>9. OpenIsHeld' /\ PrimaryIsAPool'
  BY <1>1, <1>2, <1>4, <1>5 DEF OpenIsHeld, PrimaryIsAPool, PoolsConsistent, Pools
<1> QED BY <1>7, <1>8, <1>9 DEF PoolsConsistent

\* A destroy unmounts, or gives up.
LEMMA UnmountDestroyedStep ==
  ASSUME IInv, UnmountDestroyed
  PROVE  IInv'
<1>1. /\ held \in Holder /\ held # None /\ held.kind = "destroy" /\ held.pc = "umount" /\ held.mp \in Names
  BY DEF UnmountDestroyed, Holding, IInv, TypeOK, Holder
<1>2. mnt' \in [Names -> Seq(FSes)]
  BY <1>1, PopIs DEF UnmountDestroyed, IInv, TypeOK
<1>3. CASE Goto("wipe") /\ UNCHANGED <<ops, lost>>
  <2>1. /\ held' \in Holder /\ held' # None /\ held'.kind = held.kind /\ held'.op = held.op
        /\ held'.fs = held.fs /\ held'.devs = held.devs
    BY <1>1, <1>3, HeldGoes
  <2> USE DEF UnmountDestroyed, IInv
  <2>2. TypeOK' /\ HolderOK'
    BY <1>1, <1>2, <1>3, <2>1 DEF TypeOK, HolderOK
  <2> QED BY <1>1, <1>3, <2>1, <2>2 DEF BootOK, DestroyersAgree, PoolsConsistent,
                                       OpenIsHeld, PrimaryIsAPool, Pools
<1>4. CASE FailHeld
  BY <1>1, <1>2, <1>4, FailStep DEF UnmountDestroyed, IInv, TypeOK
<1> QED BY <1>3, <1>4 DEF UnmountDestroyed

\* A destroy wipes one disk after another.
LEMMA WipeDestroyedStep ==
  ASSUME IInv, NEW d \in Disks, WipeDestroyed(d)
  PROVE  IInv'
<1>1. /\ held \in Holder /\ held # None /\ held.kind = "destroy" /\ held.pc = "wipe"
      /\ disk' \in [Disks -> FSes \cup {None}]
  BY DEF WipeDestroyed, Holding, Erased, IInv, TypeOK
<1>2. held' = [kind |-> held.kind, pc |-> held.pc, op |-> held.op, name |-> held.name, mp |-> held.mp,
               fs |-> held.fs, devs |-> held.devs \ {d}, force |-> held.force, moved |-> held.moved]
  BY <1>1, Zenon DEF WipeDestroyed, Holder
<1>3. held.fs \in FSes \cup {None} /\ held.devs \ {d} \in SUBSET Disks /\ held.moved \in BOOLEAN
  BY <1>1 DEF Holder
<1>4. held' \in Holder /\ held' # None /\ held'.kind = "destroy" /\ held'.op = held.op /\ held'.fs = held.fs
  BY <1>1, <1>2, <1>3, HeldMoves
<1> USE DEF WipeDestroyed, db, IInv
<1>5. TypeOK' /\ HolderOK'
  BY <1>1, <1>4 DEF TypeOK, HolderOK
<1> QED BY <1>1, <1>4, <1>5 DEF BootOK, DestroyersAgree, PoolsConsistent, OpenIsHeld, PrimaryIsAPool, Pools

\* The row and its mark as primary go with the operation.
LEMMA CommitDestroyStep ==
  ASSUME IInv, CommitDestroy
  PROVE  IInv'
<1>1. /\ held # None /\ held.kind = "destroy" /\ held.op \in Ops /\ ops[held.op] # None /\ held.fs \in FSes
      /\ boot = {} /\ ops \in [Ops -> OpRow \cup {None}]
  BY DEF CommitDestroy, Holding, IInv, TypeOK, HolderOK
<1> DEFINE j == Closed(held.op, "completed")
<1>2. /\ j \in [Ops -> OpRow \cup {None}] /\ j[held.op] # None /\ j[held.op].status = "completed"
      /\ j[held.op].type = ops[held.op].type
      /\ j[held.op].uuid = ops[held.op].uuid /\ j[held.op].pool = ops[held.op].pool
      /\ \A q \in Ops \ {held.op} : j[q] = ops[q]
  BY <1>1, ClosedIs
<1> HIDE DEF j
<1>3. ops' = WithoutPool(held.fs, j)
  BY DEF CommitDestroy, j
<1>4. /\ ops' \in [Ops -> OpRow \cup {None}] /\ ops'[held.op].status = "completed"
      /\ \A q \in Ops : ops'[q] = None <=> ops[q] = None
      /\ \A q \in Ops : ops[q] # None => /\ ops'[q].type = ops[q].type /\ ops'[q].uuid = ops[q].uuid
                                         /\ q # held.op => ops'[q].status = ops[q].status
                                         /\ ops'[q].pool \in {ops[q].pool, None}
  BY <1>1, <1>2, <1>3, WithoutPoolIs
<1>5. fstab' \in [Names -> FSes \cup {None}]
  BY DEF CommitDestroy, SyncFstab, FstabOf, IInv, TypeOK
<1> USE DEF CommitDestroy, Release, IInv
<1>6. PrimaryIsAPool' /\ primary' \in FSes \cup {None, Dangling} /\ pools' \in [FSes -> Row \cup {None}]
  BY <1>1, PoolAssumption DEF PrimaryIsAPool, PoolsConsistent, Pools, TypeOK
<1>7. TypeOK'
  BY <1>1, <1>4, <1>5, <1>6 DEF TypeOK
<1>8. HolderOK' /\ BootOK' /\ DestroyersAgree' /\ OpenIsHeld'
  BY <1>1, <1>4 DEF HolderOK, BootOK, DestroyersAgree, OpenIsHeld, PoolsConsistent
<1> QED BY <1>6, <1>7, <1>8 DEF PoolsConsistent

\* An export, or a destruction by name, unmounts.
LEMMA UnmountRemovedStep ==
  ASSUME IInv, UnmountRemoved
  PROVE  IInv'
<1>1. /\ held \in Holder /\ held # None /\ held.kind \in {"erase", "export"} /\ held.mp \in Names /\ held.op = None
  BY DEF UnmountRemoved, Removing, Holding, IInv, TypeOK, HolderOK, Holder
<1>2. mnt' \in [Names -> Seq(FSes)] /\ fstab' \in [Names -> FSes \cup {None}]
  BY <1>1, PopIs DEF UnmountRemoved, IInv, TypeOK
<1>3. CASE Goto(IF held.kind = "erase" THEN "wipe" ELSE "commit")
  <2>1. /\ held' \in Holder /\ held' # None /\ held'.kind = held.kind /\ held'.op = held.op
        /\ held'.fs = held.fs
    BY <1>1, <1>3, HeldGoes
  <2> USE DEF UnmountRemoved, db, IInv
  <2>2. TypeOK' /\ HolderOK'
    BY <1>1, <1>2, <2>1 DEF TypeOK, HolderOK
  <2> QED BY <1>1, <2>1, <2>2, PoolAssumption DEF BootOK, DestroyersAgree, PoolsConsistent,
                                                 OpenIsHeld, PrimaryIsAPool, Pools
<1>4. CASE Release
  BY <1>1, <1>2, <1>4, PoolAssumption DEF UnmountRemoved, db, Release, IInv, TypeOK, HolderOK, BootOK,
     DestroyersAgree, PoolsConsistent, OpenIsHeld, PrimaryIsAPool, Pools
<1> QED BY <1>3, <1>4 DEF UnmountRemoved

\* A destruction by name wipes one disk after another.
LEMMA WipeRemovedStep ==
  ASSUME IInv, NEW d \in Disks, WipeRemoved(d)
  PROVE  IInv'
<1>1. /\ held \in Holder /\ held # None /\ held.kind = "erase" /\ held.pc = "wipe"
      /\ disk' \in [Disks -> FSes \cup {None}]
  BY DEF WipeRemoved, Holding, Erased, IInv, TypeOK
<1> DEFINE pc == IF held.devs = {d} THEN "commit" ELSE "wipe"
<1>2. held' = [kind |-> held.kind, pc |-> pc, op |-> held.op, name |-> held.name, mp |-> held.mp,
               fs |-> held.fs, devs |-> held.devs \ {d}, force |-> held.force, moved |-> held.moved]
  BY <1>1 DEF WipeRemoved, Holder
<1>3. /\ held.fs \in FSes \cup {None} /\ held.devs \ {d} \in SUBSET Disks /\ held.moved \in BOOLEAN
      /\ pc \in {"mkfs", "mount", "commit", "umount", "wipe", "zero"}
  BY <1>1 DEF Holder
<1>4. held' \in Holder /\ held' # None /\ held'.kind = "erase" /\ held'.op = held.op /\ held'.fs = held.fs
  BY <1>1, <1>2, <1>3, HeldMoves, Zenon
<1> USE DEF WipeRemoved, db, IInv
<1>5. TypeOK' /\ HolderOK'
  BY <1>1, <1>4 DEF TypeOK, HolderOK
<1> QED BY <1>1, <1>4, <1>5, Zenon DEF BootOK, DestroyersAgree, PoolsConsistent, OpenIsHeld, PrimaryIsAPool, Pools

\* The row goes and another pool becomes the primary.
LEMMA CommitRemovalStep ==
  ASSUME IInv, CommitRemoval
  PROVE  IInv'
<1>1. /\ held # None /\ held.op = None /\ held.fs \in FSes /\ held.fs \in Pools
      /\ boot = {} /\ ops \in [Ops -> OpRow \cup {None}]
  BY DEF CommitRemoval, Removing, Holding, IInv, TypeOK, HolderOK
<1>2. /\ ops' \in [Ops -> OpRow \cup {None}]
      /\ \A q \in Ops : ops'[q] = None <=> ops[q] = None
      /\ \A q \in Ops : ops[q] # None => /\ ops'[q].type = ops[q].type /\ ops'[q].uuid = ops[q].uuid
                                         /\ ops'[q].status = ops[q].status
                                         /\ ops'[q].pool \in {ops[q].pool, None}
  BY <1>1, WithoutPoolIs DEF CommitRemoval
<1> USE DEF CommitRemoval, world, Release, IInv
<1>3. PrimaryIsAPool' /\ primary' \in FSes \cup {None, Dangling} /\ pools' \in [FSes -> Row \cup {None}]
  <2>1. pools' \in [FSes -> Row \cup {None}] /\ Pools' = Pools \ {held.fs}
    BY <1>1 DEF Pools, TypeOK
  <2> QED BY <1>1, <2>1, PoolAssumption DEF PrimaryIsAPool, PoolsConsistent, Pools, TypeOK
<1>4. TypeOK'
  BY <1>1, <1>2, <1>3 DEF TypeOK
<1>5. HolderOK' /\ BootOK' /\ DestroyersAgree' /\ OpenIsHeld'
  BY <1>1, <1>2, PoolAssumption DEF HolderOK, BootOK, DestroyersAgree, OpenIsHeld, PoolsConsistent
<1> QED BY <1>3, <1>4, <1>5 DEF PoolsConsistent

\* An import takes storageMu and mounts.
LEMMA MountImportStep ==
  ASSUME IInv, MountImport
  PROVE  IInv'
<1>1. /\ imp \in Import /\ imp # None /\ held = None /\ boot = {}
      /\ imp.fs \in FSes /\ imp.name \in Names /\ imp.devs \in SUBSET Disks /\ imp.devs # {}
      /\ imp.at \in Names \cup {None}
  BY DEF MountImport, IInv, TypeOK, BootOK, Import
<1>2. mnt' \in [Names -> Seq(FSes)]
  <2>1. Over(imp.name, imp.fs) \in [Names -> Seq(FSes)]
    BY <1>1, OverIs DEF IInv, TypeOK
  <2> QED BY <2>1 DEF MountImport, IInv, TypeOK
<1>3. PICK m \in Names : held' = [kind |-> "import", pc |-> "commit", op |-> None, name |-> imp.name, mp |-> m,
                                  fs |-> imp.fs, devs |-> imp.devs, force |-> FALSE, moved |-> FALSE]
  BY <1>1 DEF MountImport, Hold
<1>4. /\ held' \in Holder /\ held' # None /\ held'.kind = "import" /\ held'.op = None
      /\ held'.fs = imp.fs /\ held'.devs = imp.devs
  <2>1. held' \in Holder
    BY <1>1, <1>3 DEF Holder
  <2> QED BY <1>3, <2>1, IsThere
<1> USE DEF MountImport, db, IInv
<1>5. TypeOK' /\ HolderOK'
  BY <1>1, <1>2, <1>4 DEF TypeOK, HolderOK
<1> QED BY <1>1, <1>4, <1>5 DEF BootOK, DestroyersAgree, PoolsConsistent, OpenIsHeld, PrimaryIsAPool, Pools

\* The wipe of a disk unmounts and writes.
LEMMA ZeroDiskStep ==
  ASSUME IInv, NEW d \in Disks, ZeroDisk(d)
  PROVE  IInv'
<1>1. held # None /\ held.op = None /\ boot = {}
  BY DEF ZeroDisk, Holding, IInv, TypeOK, HolderOK
<1>2. mnt' \in [Names -> Seq(FSes)]
  <2>1. \A m \in [Names -> Seq(FSes)] : AfterUmount(m, disk[d]) \subseteq [Names -> Seq(FSes)]
    BY PopFromIs DEF AfterUmount
  <2>2. mnt \in [Names -> Seq(FSes)]
    BY DEF IInv, TypeOK
  <2> QED BY <2>1, <2>2 DEF ZeroDisk
<1>3. disk' \in [Disks -> FSes \cup {None}]
  BY DEF ZeroDisk, Erased, IInv, TypeOK
<1> QED BY <1>1, <1>2, <1>3, PoolAssumption DEF ZeroDisk, Release, db, IInv, TypeOK, HolderOK, BootOK,
     DestroyersAgree, PoolsConsistent, OpenIsHeld, PrimaryIsAPool, Pools

\* A rename moves the label, the mount and the line of fstab.
LEMMA MoveMountStep ==
  ASSUME IInv, MoveMount
  PROVE  IInv'
<1>1. /\ ren \in Rename /\ ren # None /\ ren.old \in Names /\ ren.new \in Names
      /\ fstab[ren.old] \in FSes \cup {None}
  BY DEF MoveMount, IInv, TypeOK, Rename
<1>2. PopAt(ren.old) \in [Names -> Seq(FSes)]
  BY <1>1, PopIs DEF IInv, TypeOK
<1>3. Head(mnt[ren.old]) \in FSes
  BY <1>1 DEF MoveMount, IInv, TypeOK
<1>4. label' \in [FSes -> Names \cup {None}]
  BY <1>1, <1>3 DEF MoveMount, IInv, TypeOK
<1>5. [ren EXCEPT !.pc = "commit"] \in Rename
  BY <1>1 DEF Rename
<1>6. \A f \in FSes, s \in Seq(FSes) : <<f>> \o s \in Seq(FSes)
  OBVIOUS
<1>7. /\ mnt' \in [Names -> Seq(FSes)] /\ fstab' \in [Names -> FSes \cup {None}]
      /\ ren' \in Rename \cup {None}
  <2>1. CASE /\ fstab[ren.old] # None
             /\ mnt' = [PopAt(ren.old) EXCEPT ![ren.new] = <<fstab[ren.old]>> \o @]
             /\ fstab' = [fstab EXCEPT ![ren.old] = None, ![ren.new] = fstab[ren.old]]
             /\ ren' = [ren EXCEPT !.pc = "commit"]
    <3>1. <<fstab[ren.old]>> \o PopAt(ren.old)[ren.new] \in Seq(FSes)
      BY <1>1, <1>2, <1>6, <2>1
    <3> QED BY <1>1, <1>2, <1>5, <2>1, <3>1 DEF IInv, TypeOK
  <2>2. CASE ren' = None /\ UNCHANGED <<mnt, fstab>>
    BY <2>2 DEF IInv, TypeOK
  <2>3. CASE ren' = None /\ mnt' = PopAt(ren.old) /\ UNCHANGED fstab
    BY <1>2, <2>3 DEF IInv, TypeOK
  <2> QED BY <2>1, <2>2, <2>3 DEF MoveMount
<1>8. /\ held' \in Holder \cup {None}
      /\ HolderOK' /\ BootOK' /\ DestroyersAgree' /\ OpenIsHeld'
  BY <1>7, WatchIs DEF MoveMount, db
<1>9. PrimaryIsAPool'
  BY DEF MoveMount, db, IInv, PoolsConsistent, PrimaryIsAPool, Pools
<1>10. TypeOK'
  BY <1>4, <1>7, <1>8 DEF MoveMount, db, IInv, TypeOK, HolderOK
<1> QED BY <1>8, <1>9, <1>10 DEF IInv, PoolsConsistent

\* The row of an import is inserted, and may become the primary.
LEMMA CommitImportStep ==
  ASSUME IInv, CommitImport
  PROVE  IInv'
<1>1. /\ held \in Holder /\ held # None /\ held.kind = "import" /\ held.op = None
      /\ held.fs \in FSes /\ held.devs # {} /\ boot = {} /\ pools \in [FSes -> Row \cup {None}]
  BY DEF CommitImport, Holding, IInv, TypeOK, HolderOK
<1> DEFINE row == [name |-> held.name, mp |-> held.mp, devs |-> held.devs]
<1>2. row \in Row /\ row # None
  BY <1>1, IsThere DEF Holder, Row
<1> HIDE DEF row
<1>3. pools' = [pools EXCEPT ![held.fs] = row]
  BY DEF CommitImport, row
<1>4. /\ pools' \in [FSes -> Row \cup {None}]
      /\ \A f \in FSes : pools'[f] = IF f = held.fs THEN row ELSE pools[f]
  BY <1>1, <1>2, <1>3
<1>5. fstab' \in [Names -> FSes \cup {None}]
  BY DEF CommitImport, SyncFstab, FstabOf, IInv, TypeOK
<1>6. primary' \in FSes \cup {None, Dangling} /\ PrimaryIsAPool'
  BY <1>1, <1>2, <1>4 DEF CommitImport, IInv, TypeOK, PoolsConsistent, PrimaryIsAPool, Pools
<1> USE DEF CommitImport, Release, IInv
<1>7. TypeOK'
  BY <1>1, <1>4, <1>5, <1>6 DEF TypeOK
<1>8. HolderOK' /\ BootOK' /\ DestroyersAgree' /\ OpenIsHeld'
  BY <1>1, PoolAssumption DEF HolderOK, BootOK, DestroyersAgree, OpenIsHeld, PoolsConsistent
<1> QED BY <1>6, <1>7, <1>8 DEF PoolsConsistent

\* The row takes its new name.
LEMMA CommitRenameStep ==
  ASSUME IInv, CommitRename
  PROVE  IInv'
<1>1. /\ ren \in Rename /\ ren.fs \in FSes /\ ren.new \in Names /\ pools[ren.fs] # None
      /\ pools \in [FSes -> Row \cup {None}]
  BY DEF CommitRename, Renamable, Pools, IInv, TypeOK, Rename
<1> DEFINE row == [[pools[ren.fs] EXCEPT !.name = ren.new] EXCEPT !.mp = ren.new]
<1>2. row \in Row /\ row # None
  BY <1>1, IsThere DEF Row
<1> HIDE DEF row
<1>3. pools' = [pools EXCEPT ![ren.fs] = row]
  BY <1>1 DEF CommitRename, row
<1>4. pools' \in [FSes -> Row \cup {None}] /\ Pools' = Pools
  BY <1>1, <1>2, <1>3 DEF Pools
<1> USE DEF CommitRename, world, IInv
<1>5. TypeOK'
  BY <1>4 DEF TypeOK
<1> QED BY <1>4, <1>5 DEF HolderOK, BootOK, DestroyersAgree, OpenIsHeld, PrimaryIsAPool, PoolsConsistent

\* A step that keeps what is stored, mounted and held, and one that gives storageMu back.
LEMMA RestStep ==
  ASSUME IInv, UNCHANGED <<pools, primary, ops, lost, disk, label, mnt, fstab, boot, late, crashes, asked>>,
         held' = held \/ (held' = None /\ held.op = None),
         snap' \in Snapshot \cup {None}, imp' \in Import \cup {None}, ren' \in Rename \cup {None},
         imp' # None => boot = {}
  PROVE  IInv'
BY PoolAssumption DEF db, world, IInv, TypeOK, HolderOK, BootOK, DestroyersAgree, PoolsConsistent,
   OpenIsHeld, PrimaryIsAPool, Pools

\* What waits or runs without a journal gives up.
LEMMA EndsStep ==
  ASSUME IInv, \/ UnmountRemovedFails \/ CommitRemovalFails \/ CommitImportFails
               \/ DropImport \/ RefuseMove \/ CommitRenameFails
  PROVE  IInv'
<1>1. /\ snap \in Snapshot \cup {None} /\ imp \in Import \cup {None} /\ ren \in Rename \cup {None}
      /\ imp # None => boot = {}
  BY DEF IInv, TypeOK, BootOK
<1>2. CASE DropImport \/ RefuseMove \/ CommitRenameFails
  <2>1. /\ UNCHANGED <<pools, primary, ops, lost, disk, label, mnt, fstab, boot, late, crashes, asked>> /\ held' = held /\ snap' = snap
        /\ imp' \in {imp, None} /\ ren' \in {ren, None}
    BY <1>2 DEF DropImport, RefuseMove, CommitRenameFails, db, world
  <2> QED BY <1>1, <2>1, RestStep
<1>3. CASE UnmountRemovedFails \/ CommitRemovalFails \/ CommitImportFails
  <2>1. held # None /\ held.kind \notin {"create", "destroy"} /\ held' = None
        /\ UNCHANGED <<pools, primary, ops, lost, disk, label, mnt, fstab, boot, late, crashes, asked>>
        /\ UNCHANGED <<snap, imp, ren>>
    BY <1>3 DEF db, world, UnmountRemovedFails, CommitRemovalFails, CommitImportFails, Removing, Holding, Release
  <2> QED BY <1>1, <2>1, RestStep DEF IInv, HolderOK
<1> QED BY <1>2, <1>3

\* What the observer writes down has the type of a snapshot.
LEMMA RealityIs ==
  ASSUME disk \in [Disks -> FSes \cup {None}], mnt \in [Names -> Seq(FSes)]
  PROVE  Reality \in Snapshot
<1>1. [f \in FSes |-> Members(f)] \in [FSes -> SUBSET Disks]
  BY DEF Members
<1>2. [f \in FSes |-> IF Mounted(f) THEN CHOOSE n \in Layers(f) : TRUE ELSE None] \in [FSes -> Names \cup {None}]
  <2>1. \A f \in FSes : Mounted(f) => (CHOOSE n \in Layers(f) : TRUE) \in Names
    BY DEF Mounted, Layers
  <2> QED BY <2>1
<1> QED BY <1>1, <1>2 DEF Reality, Snapshot, Pools

\* The observer takes its snapshot.
LEMMA ObserveStep ==
  ASSUME IInv, Observe
  PROVE  IInv'
<1>1. Reality \in Snapshot
  BY RealityIs DEF IInv, TypeOK
<1>2. /\ UNCHANGED <<pools, primary, ops, lost, disk, label, mnt, fstab, boot, late, crashes, asked>> /\ held' = held
      /\ snap' \in Snapshot /\ imp' = imp /\ ren' = ren
  BY <1>1 DEF Observe, db, world
<1>3. /\ imp' \in Import \cup {None} /\ ren' \in Rename \cup {None}
      /\ imp' # None => boot = {}
  BY <1>2 DEF IInv, TypeOK, BootOK
<1> QED BY <1>2, <1>3, RestStep

\* The verdict of the boot is not written.
LEMMA RecoverLostStep ==
  ASSUME IInv, NEW o \in Ops, RecoverLost(o)
  PROVE  IInv'
<1>1. held = None /\ imp = None
  BY DEF RecoverLost, IInv, HolderOK, BootOK
<1> QED BY <1>1 DEF RecoverLost, world, IInv, TypeOK, HolderOK, BootOK, DestroyersAgree,
                   PoolsConsistent, OpenIsHeld, PrimaryIsAPool, Pools

\* A request takes storageMu, with the operation it journals if it journals one.
LEMMA TakeStep ==
  ASSUME IInv, Ready, Asked, held' \in Holder, held' # None,
         held'.pc \in {"mkfs", "umount", "zero"},
         held'.kind \in {"destroy", "erase", "export"} => held'.fs \in FSes,
         held'.kind = "create" => held'.devs # {}, held'.kind # "import",
         \/ held'.kind \notin {"create", "destroy"} /\ held'.op = None /\ UNCHANGED ops
         \/ /\ held'.kind \in {"create", "destroy"} /\ held'.op \in Ops
            /\ \E r \in OpRow : /\ ops' = [ops EXCEPT ![held'.op] = r]
                                /\ r.type = held'.kind /\ r.status = "open"
                                /\ r.type = "destroy" => r.pool = r.uuid,
         UNCHANGED <<pools, primary, lost, world, snap, imp, ren, boot, late, crashes>>
  PROVE  IInv'
<1>1. asked' \in 0 .. MaxRequests
  BY PoolAssumption DEF Asked, IInv, TypeOK
<1>2. boot = {} /\ held = None /\ ops \in [Ops -> OpRow \cup {None}]
  BY DEF Ready, IInv, TypeOK
<1>3. /\ ops' \in [Ops -> OpRow \cup {None}] /\ HolderOK' /\ DestroyersAgree' /\ OpenIsHeld'
  <2>1. CASE held'.kind \notin {"create", "destroy"} /\ held'.op = None /\ UNCHANGED ops
    BY <1>2, <2>1 DEF IInv, HolderOK, DestroyersAgree, PoolsConsistent, OpenIsHeld
  <2>2. CASE held'.kind \in {"create", "destroy"} /\ held'.op \in Ops
    <3>1. PICK r \in OpRow : /\ ops' = [ops EXCEPT ![held'.op] = r]
                             /\ r.type = held'.kind /\ r.status = "open"
                             /\ r.type = "destroy" => r.pool = r.uuid
      BY <2>2
    <3>2. /\ ops' \in [Ops -> OpRow \cup {None}] /\ ops'[held'.op] = r /\ r # None
          /\ \A q \in Ops \ {held'.op} : ops'[q] = ops[q]
      BY <1>2, <2>2, <3>1, IsThere
    <3> QED BY <1>2, <2>2, <3>1, <3>2 DEF IInv, HolderOK, DestroyersAgree, PoolsConsistent, OpenIsHeld
  <2> QED BY <2>1, <2>2
<1>4. BootOK' /\ PrimaryIsAPool'
  BY <1>2 DEF IInv, BootOK, PoolsConsistent, PrimaryIsAPool, Pools
<1>5. TypeOK'
  BY <1>1, <1>2, <1>3 DEF world, IInv, TypeOK
<1> QED BY <1>3, <1>4, <1>5 DEF IInv, PoolsConsistent

\* A create is journalled.
LEMMA RequestCreateStep ==
  ASSUME IInv, NEW o \in Ops, NEW n \in Names, NEW D \in SUBSET Disks, NEW w \in BOOLEAN,
         RequestCreate(o, n, D, w)
  PROVE  IInv'
<1> DEFINE r == [type |-> "create", status |-> "open", name |-> n, uuid |-> None, pool |-> None]
<1>1. r \in OpRow /\ r.type = "create" /\ r.status = "open"
  BY DEF OpRow
<1>2. held' = [kind |-> "create", pc |-> "mkfs", op |-> o, name |-> n, mp |-> n, fs |-> None, devs |-> D,
               force |-> w, moved |-> FALSE]
  BY DEF RequestCreate, Hold
<1>3. held' \in Holder /\ held' # None
  <2>1. held' \in Holder
    BY <1>2 DEF Holder
  <2> QED BY <2>1, IsThere
<1>4. ops' = [ops EXCEPT ![held'.op] = r] /\ D # {} /\ Ready /\ Asked
      /\ UNCHANGED <<pools, primary, lost, world, snap, imp, ren, boot, late, crashes>>
  BY <1>2 DEF RequestCreate
<1> HIDE DEF r
<1> QED BY <1>1, <1>2, <1>3, <1>4, TakeStep

\* A destroy is journalled.
LEMMA RequestDestroyStep ==
  ASSUME IInv, NEW o \in Ops, NEW f \in FSes, RequestDestroy(o, f)
  PROVE  IInv'
<1> DEFINE r == [type |-> "destroy", status |-> "open", name |-> pools[f].name, uuid |-> f, pool |-> f]
<1>1. pools[f].name \in Names /\ pools[f].mp \in Names /\ pools[f].devs \in SUBSET Disks
  BY DEF RequestDestroy, Pools, IInv, TypeOK, Row
<1>2. r \in OpRow /\ r.type = "destroy" /\ r.status = "open" /\ r.pool = r.uuid
  BY <1>1 DEF OpRow
<1>3. held' = [kind |-> "destroy", pc |-> "umount", op |-> o, name |-> pools[f].name, mp |-> pools[f].mp,
               fs |-> f, devs |-> pools[f].devs, force |-> FALSE, moved |-> FALSE]
  BY DEF RequestDestroy, Hold
<1>4. held' \in Holder /\ held' # None
  <2>1. held' \in Holder
    BY <1>1, <1>3 DEF Holder
  <2> QED BY <2>1, IsThere
<1>5. ops' = [ops EXCEPT ![held'.op] = r] /\ Ready /\ Asked
      /\ UNCHANGED <<pools, primary, lost, world, snap, imp, ren, boot, late, crashes>>
  BY <1>3 DEF RequestDestroy
<1> HIDE DEF r
<1> QED BY <1>2, <1>3, <1>4, <1>5, TakeStep

\* An export or a destruction by name begins.
LEMMA RequestRemovalStep ==
  ASSUME IInv, NEW f \in FSes, NEW kind \in {"erase", "export"}, RequestRemoval(f, kind)
  PROVE  IInv'
<1>1. pools[f].name \in Names /\ pools[f].mp \in Names /\ pools[f].devs \in SUBSET Disks
  BY DEF RequestRemoval, Pools, IInv, TypeOK, Row
<1>2. held' = [kind |-> kind, pc |-> "umount", op |-> None, name |-> pools[f].name, mp |-> pools[f].mp,
               fs |-> f, devs |-> pools[f].devs, force |-> FALSE, moved |-> FALSE]
  BY DEF RequestRemoval, Hold
<1>3. held' \in Holder /\ held' # None
  <2>1. held' \in Holder
    BY <1>1, <1>2 DEF Holder
  <2> QED BY <2>1, IsThere
<1> QED BY <1>2, <1>3, TakeStep DEF RequestRemoval, db

\* The wipe of a disk begins.
LEMMA RequestWipeStep ==
  ASSUME IInv, NEW d \in Disks, NEW force \in BOOLEAN, RequestWipe(d, force)
  PROVE  IInv'
<1>1. held' = [kind |-> "wipe", pc |-> "zero", op |-> None, name |-> InitName, mp |-> InitName,
               fs |-> None, devs |-> {d}, force |-> force, moved |-> FALSE]
  BY DEF RequestWipe, Hold
<1>2. held' \in Holder /\ held' # None
  <2>1. held' \in Holder
    BY <1>1, PoolAssumption DEF Holder
  <2> QED BY <2>1, IsThere
<1> QED BY <1>1, <1>2, TakeStep DEF RequestWipe, db

\* What an import or a rename has read is of its type.
LEMMA ReadStep ==
  ASSUME IInv, NEW f \in FSes, NEW n \in Names, ReadImport(f, n) \/ CheckRename(f, n)
  PROVE  IInv'
<1>1. asked' \in 0 .. MaxRequests /\ boot = {}
  BY PoolAssumption DEF ReadImport, CheckRename, Asked, IInv, TypeOK
<1>2. imp' \in Import \cup {None}
  BY DEF ReadImport, CheckRename, Import, Snapshot, IInv, TypeOK
<1>3. ren' \in Rename \cup {None}
  BY DEF ReadImport, CheckRename, Rename, Row, Pools, IInv, TypeOK
<1> QED BY <1>1, <1>2, <1>3 DEF ReadImport, CheckRename, db, world, IInv, TypeOK, HolderOK, BootOK,
     DestroyersAgree, PoolsConsistent, OpenIsHeld, PrimaryIsAPool, Pools

-----------------------------------------------------------------------------
(* The specification.                                                      *)

\* The pool there is at the start has all of it.
LEMMA InitOK == Init => IInv
<1> SUFFICES ASSUME Init PROVE IInv
  OBVIOUS
<1> USE PoolAssumption DEF Init
<1>1. [name |-> InitName, mp |-> InitName, devs |-> InitDisks] \in Row
  BY DEF Row
<1>2. pools \in [FSes -> Row \cup {None}] /\ PrimaryIsAPool
  BY <1>1, IsThere DEF PrimaryIsAPool, Pools
<1>3. /\ disk \in [Disks -> FSes \cup {None}] /\ label \in [FSes -> Names \cup {None}]
      /\ fstab \in [Names -> FSes \cup {None}]
  OBVIOUS
<1>4. mnt \in [Names -> Seq(FSes)]
  <2>1. <<>> \in Seq(FSes) /\ <<InitFS>> \in Seq(FSes)
    OBVIOUS
  <2> QED BY <2>1
<1>5. snap \in Snapshot
  BY <1>3, <1>4, RealityIs
<1>6. /\ primary \in FSes \cup {None, Dangling} /\ ops \in [Ops -> OpRow \cup {None}]
      /\ 0 \in 0 .. MaxCrashes /\ 0 \in 0 .. MaxRequests
  OBVIOUS
<1>7. TypeOK
  BY <1>2, <1>3, <1>4, <1>5, <1>6 DEF TypeOK
<1> QED BY <1>2, <1>7 DEF IInv, HolderOK, BootOK, DestroyersAgree, PoolsConsistent, OpenIsHeld

\* Every step keeps it.
LEMMA NextOK == IInv /\ [Next]_vars => IInv'
<1> SUFFICES ASSUME IInv, [Next]_vars PROVE IInv'
  OBVIOUS
<1>1. CASE Requests
  BY <1>1, RequestCreateStep, RequestDestroyStep, RequestRemovalStep, ReadStep, RequestWipeStep DEF Requests
<1>2. CASE CreateSteps
  BY <1>2, MkfsStep, MkfsFailsStep, MountCreatedStep, ProcedureFailsStep, CommitCreateStep DEF CreateSteps
<1>3. CASE DestroySteps
  BY <1>3, UnmountDestroyedStep, ProcedureFailsStep, WipeDestroyedStep, CommitDestroyStep DEF DestroySteps
<1>4. CASE RemovalSteps
  BY <1>4, UnmountRemovedStep, EndsStep, WipeRemovedStep, CommitRemovalStep DEF RemovalSteps
<1>5. CASE CommitImport \/ CommitImportFails \/ \E d \in Disks : ZeroDisk(d)
  BY <1>5, CommitImportStep, EndsStep, ZeroDiskStep
<1>6. CASE ImportSteps \/ RenameSteps
  BY <1>6, MountImportStep, EndsStep, MoveMountStep, CommitRenameStep DEF ImportSteps, RenameSteps
<1>7. CASE BootSteps
  BY <1>7, RecoverCreateStep, RecoverDestroyStep, RecoverLostStep, BootStorageStep DEF BootSteps
<1>8. CASE Observe \/ DaemonCrash \/ Reboot
  BY <1>8, ObserveStep, CrashStep
<1>9. CASE UNCHANGED vars
  BY <1>9 DEF vars, IInv, TypeOK, HolderOK, BootOK, DestroyersAgree, PoolsConsistent, OpenIsHeld,
     PrimaryIsAPool, Pools
<1> QED BY <1>1, <1>2, <1>3, <1>4, <1>5, <1>6, <1>7, <1>8, <1>9 DEF Next, HolderSteps

\* What the behaviours never leave, for any disks, names, filesystems, requests and crashes.
THEOREM PoolsStay == Spec => []IInv
BY InitOK, NextOK, PTL DEF Spec

\* Every variable keeps its type, and nobody holds storageMu while the boot recovers.
THEOREM PoolsHaveTheirTypes == Spec => []TypeOK
BY PoolsStay, PTL DEF IInv

\* An operation that is open has someone who closes it, and the primary pool is one there is.
THEOREM PoolsAreConsistent == Spec => []PoolsConsistent
BY PoolsStay, PTL DEF IInv

-----------------------------------------------------------------------------
(* What a step may never do.                                               *)

\* Disks change only where they may.
LEMMA SparesStep == IInv /\ [Next]_vars =>
  /\ [held # None /\ held.kind = "create" /\ ~held.force
        => \A d \in Disks : disk'[d] # disk[d] => disk[d] = None]_vars
  /\ [held # None /\ held.kind \in {"create", "destroy"}
        => \A d \in Disks : disk'[d] # disk[d] /\ disk[d] # None => ~Mounted(disk[d])]_vars
<1> SUFFICES ASSUME IInv, Next, held # None, held.kind \in {"create", "destroy"},
                    NEW d \in Disks, disk'[d] # disk[d]
             PROVE  /\ held.kind = "create" /\ ~held.force => disk[d] = None
                    /\ disk[d] # None => ~Mounted(disk[d])
  OBVIOUS
<1>1. disk \in [Disks -> FSes \cup {None}] /\ boot = {}
  BY DEF IInv, TypeOK, HolderOK
<1>2. CASE \E f \in FSes : Mkfs(f)
  BY <1>1, <1>2 DEF Mkfs, MkfsRefused, Busy
<1>3. CASE \E E \in SUBSET Disks : MkfsFails(E)
  BY <1>1, <1>3 DEF MkfsFails, Busy, Erased
<1>4. CASE \E c \in Disks : WipeDestroyed(c)
  BY <1>1, <1>4 DEF WipeDestroyed, Busy, Erased, Holding
<1>5. CASE \E c \in Disks : WipeRemoved(c) \/ ZeroDisk(c)
  BY <1>5 DEF WipeRemoved, ZeroDisk, Holding
<1>6. CASE UNCHANGED disk
  BY <1>6
<1>7. CASE Requests
  BY <1>6, <1>7 DEF Requests, RequestCreate, RequestDestroy, RequestRemoval, ReadImport, CheckRename, RequestWipe, world
<1>8. CASE MountCreated \/ MountCreatedFails \/ CommitCreate \/ CommitCreateFails
  BY <1>6, <1>8 DEF MountCreated, MountCreatedFails, CommitCreate, CommitCreateFails, world
<1>9. CASE UnmountDestroyed \/ UnmountDestroyedFails \/ CommitDestroy \/ CommitDestroyFails
  BY <1>6, <1>9 DEF UnmountDestroyed, UnmountDestroyedFails, CommitDestroy, CommitDestroyFails, world
<1>10. CASE UnmountRemoved \/ UnmountRemovedFails \/ CommitRemoval \/ CommitRemovalFails
  BY <1>6, <1>10 DEF UnmountRemoved, UnmountRemovedFails, CommitRemoval, CommitRemovalFails, world
<1>11. CASE CommitImport \/ CommitImportFails \/ ImportSteps
  BY <1>6, <1>11 DEF CommitImport, CommitImportFails, ImportSteps, MountImport, DropImport, world
<1>12. CASE RenameSteps \/ BootSteps
  BY <1>6, <1>12 DEF RenameSteps, MoveMount, RefuseMove, CommitRename, CommitRenameFails,
     BootSteps, RecoverCreate, RecoverDestroy, RecoverLost, BootStorage, world
<1>13. CASE Observe \/ DaemonCrash \/ Reboot
  BY <1>6, <1>13 DEF Observe, DaemonCrash, Reboot, world
<1> QED BY <1>2, <1>3, <1>4, <1>5, <1>7, <1>8, <1>9, <1>10, <1>11, <1>12, <1>13
        DEF Next, HolderSteps, CreateSteps, DestroySteps, RemovalSteps

\* A create without force erases nothing, and neither CreatePool nor DestroyPool erases a
\* disk of a mounted filesystem, whatever the snapshot said and wherever a rename moved it.
THEOREM DisksAreSpared == Spec => DataIsSpared
BY PoolsStay, SparesStep, PTL DEF Spec, DataIsSpared, FreshCreateSpares, ServiceSparesMounted

\* Only the commit of its own procedure completes a create.
LEMMA CompletesStep ==
  ASSUME IInv, Next, NEW o \in Ops, ops[o] # None, ops[o].type = "create", ops[o].status = "open",
         ops'[o].status = "completed"
  PROVE  CommitCreate /\ o = held.op
<1>1. ops \in [Ops -> OpRow \cup {None}]
  BY DEF IInv, TypeOK
<1>2. FailHeld => ops'[o].status # "completed"
  BY <1>1, IsThere DEF FailHeld, Closed, OpRow
<1>3. CASE UNCHANGED ops
  BY <1>3
<1>4. CASE CommitCreate
  BY <1>1, <1>4 DEF CommitCreate, IInv, HolderOK, Holding
<1>5. CASE \E q \in Ops : RecoverCreate(q)
  <2>1. PICK q \in Ops : RecoverCreate(q)
    BY <1>5
  <2>2. ops[q] # None
    BY <2>1 DEF RecoverCreate, IInv, BootOK
  <2> QED BY <1>1, <2>1, <2>2, ClosedIs DEF RecoverCreate
<1>6. CASE \E q \in Ops : RecoverDestroy(q)
  <2>1. PICK q \in Ops : RecoverDestroy(q)
    BY <1>6
  <2>2. ops[q] # None /\ ops[q].type = "destroy" /\ ops[q].pool \in FSes \cup {None}
    BY <1>1, <2>1 DEF RecoverDestroy, IInv, BootOK, OpRow
  <2>3. \A s \in {"completed", "failed"} :
          Closed(q, s) \in [Ops -> OpRow \cup {None}] /\ Closed(q, s)[o] = ops[o]
    BY <1>1, <2>2, ClosedIs
  <2>4. CASE Gone(q) /\ ops[q].pool # None
    BY <2>1, <2>2, <2>3, <2>4, WithoutPoolIs DEF RecoverDestroy
  <2>5. CASE ~(Gone(q) /\ ops[q].pool # None)
    BY <2>1, <2>3, <2>5 DEF RecoverDestroy
  <2> QED BY <2>4, <2>5
<1>7. CASE CommitDestroy
  <2>1. held.op \in Ops /\ ops[held.op] # None /\ ops[held.op].type = "destroy" /\ held.fs \in FSes
    BY <1>7 DEF CommitDestroy, Holding, IInv, HolderOK
  <2>2. Closed(held.op, "completed") \in [Ops -> OpRow \cup {None}] /\ Closed(held.op, "completed")[o] = ops[o]
    BY <1>1, <2>1, ClosedIs
  <2> QED BY <1>7, <2>1, <2>2, WithoutPoolIs DEF CommitDestroy
<1>8. CASE CommitRemoval
  <2>1. held.fs \in FSes
    BY <1>8 DEF CommitRemoval, Pools
  <2> QED BY <1>1, <1>8, <2>1, WithoutPoolIs DEF CommitRemoval
<1>9. CASE Requests
  BY <1>1, <1>3, <1>9 DEF Requests, RequestCreate, RequestDestroy, RequestRemoval, ReadImport, CheckRename,
     RequestWipe, db
<1>10. CASE HolderSteps /\ ~CommitCreate /\ ~CommitDestroy /\ ~CommitRemoval
  <2>1. CASE CreateSteps
    BY <1>2, <1>3, <1>10, <2>1, Zenon DEF CreateSteps, Mkfs, MkfsFails, MountCreated, MountCreatedFails,
       CommitCreateFails, db
  <2>2. CASE DestroySteps
    BY <1>2, <1>3, <1>10, <2>2 DEF DestroySteps, UnmountDestroyed, UnmountDestroyedFails, WipeDestroyed,
       CommitDestroyFails, db
  <2>3. CASE RemovalSteps
    BY <1>3, <1>10, <2>3, Zenon DEF RemovalSteps, UnmountRemoved, UnmountRemovedFails, WipeRemoved, CommitRemovalFails, db
  <2>4. CASE CommitImport \/ CommitImportFails \/ \E d \in Disks : ZeroDisk(d)
    BY <1>3, <2>4 DEF CommitImport, CommitImportFails, ZeroDisk, db
  <2> QED BY <1>10, <2>1, <2>2, <2>3, <2>4 DEF HolderSteps
<1>11. CASE ImportSteps \/ RenameSteps
  BY <1>3, <1>11 DEF ImportSteps, MountImport, DropImport, RenameSteps, MoveMount, RefuseMove, CommitRename,
     CommitRenameFails, db
<1>12. CASE \/ \E q \in Ops : RecoverLost(q)
            \/ \E S \in SUBSET FSes : BootStorage(S)
            \/ Observe \/ DaemonCrash \/ Reboot
  BY <1>3, <1>12 DEF RecoverLost, BootStorage, Observe, DaemonCrash, Reboot, MemoryLost, db
<1> QED BY <1>4, <1>5, <1>6, <1>7, <1>8, <1>9, <1>10, <1>11, <1>12 DEF Next, BootSteps

\* What it commits is a filesystem that is on its disks, and mounted if nobody moved it.
LEMMA CommitsWhatIsThere ==
  ASSUME IInv, CommitCreate
  PROVE  LET f == ops'[held.op].pool IN
         /\ pools'[f] # None /\ \A d \in pools'[f].devs : disk'[d] = f
         /\ f \in ToSet(mnt'[pools'[f].mp]) \/ held.moved
<1>1. /\ held \in Holder /\ held # None /\ held.op \in Ops /\ ops[held.op] # None /\ held.fs \in FSes
      /\ ops \in [Ops -> OpRow \cup {None}] /\ pools \in [FSes -> Row \cup {None}] /\ held.devs # {}
      /\ \A d \in held.devs : disk[d] = held.fs
      /\ held.fs \in ToSet(mnt[held.mp]) \/ held.moved
  BY DEF CommitCreate, Holding, IInv, TypeOK, HolderOK
<1>2. ops[held.op] \in OpRow
  BY <1>1
<1>3. ops'[held.op].pool = held.fs
  BY <1>1, <1>2 DEF CommitCreate, OpRow
<1> DEFINE row == [name |-> held.name, mp |-> held.mp, devs |-> held.devs]
<1>4. row # None
  <2>1. row \in Row
    BY <1>1 DEF Holder, Row
  <2> QED BY <2>1, IsThere
<1>5. pools'[held.fs] = row
  BY <1>1 DEF CommitCreate
<1> QED BY <1>1, <1>3, <1>4, <1>5 DEF CommitCreate

\* A row goes at a request for that pool, or when the boot finds no disk of it left.
LEMMA ForgetsStep ==
  ASSUME IInv, Next, NEW f \in Pools, pools'[f] = None
  PROVE  \/ held # None /\ held.fs = f /\ held.kind \in {"destroy", "erase", "export"}
         \/ boot # {} /\ Members(f) = {}
<1>1. pools \in [FSes -> Row \cup {None}] /\ f \in FSes /\ pools[f] # None
  BY DEF IInv, TypeOK, Pools
<1>2. CASE UNCHANGED pools
  BY <1>1, <1>2
<1>3. CASE CommitCreate \/ CommitImport
  <2>1. held \in Holder
    BY <1>3 DEF CommitCreate, CommitImport, Holding, IInv, TypeOK
  <2>2. [name |-> held.name, mp |-> held.mp, devs |-> held.devs] \in Row
    BY <2>1, <1>3 DEF CommitCreate, CommitImport, Holding, IInv, HolderOK, Holder, Row
  <2> QED BY <1>1, <1>3, <2>2, IsThere DEF CommitCreate, CommitImport
<1>4. CASE CommitRename
  <2>1. pools'[f] = pools[f] \/ (f = ren.fs /\ pools'[f] = [[pools[f] EXCEPT !.name = ren.new] EXCEPT !.mp = ren.new])
    BY <1>1, <1>4 DEF CommitRename, Renamable, Pools
  <2>2. pools[f] \in Row /\ ren \in Rename
    BY <1>1, <1>4 DEF CommitRename, IInv, TypeOK
  <2>3. [[pools[f] EXCEPT !.name = ren.new] EXCEPT !.mp = ren.new] \in Row
    BY <2>2 DEF Row, Rename
  <2> QED BY <1>1, <2>1, <2>3, IsThere
<1>5. CASE CommitDestroy \/ CommitRemoval
  BY <1>1, <1>5 DEF CommitDestroy, CommitRemoval, Removing, Holding
<1>6. CASE \E o \in Ops : RecoverDestroy(o)
  <2>1. PICK o \in Ops : RecoverDestroy(o)
    BY <1>6
  <2>2. ops[o] # None /\ ops[o].type = "destroy" /\ o \in boot
    BY <2>1 DEF RecoverDestroy, IInv, BootOK
  <2>3. CASE Gone(o) /\ ops[o].pool # None
    BY <1>1, <2>1, <2>2, <2>3 DEF RecoverDestroy, Gone, IInv, DestroyersAgree
  <2>4. CASE ~(Gone(o) /\ ops[o].pool # None)
    BY <1>1, <2>1, <2>4 DEF RecoverDestroy
  <2> QED BY <2>3, <2>4
<1>7. CASE Requests
  BY <1>2, <1>7, Zenon DEF Requests, RequestCreate, RequestDestroy, RequestRemoval, ReadImport, CheckRename, RequestWipe, db
<1>8. CASE HolderSteps /\ ~CommitCreate /\ ~CommitDestroy /\ ~CommitRemoval /\ ~CommitImport
  <2>1. CASE CreateSteps
    BY <1>2, <1>8, <2>1, Zenon DEF CreateSteps, Mkfs, MkfsFails, MountCreated, MountCreatedFails, CommitCreateFails, db
  <2>2. CASE DestroySteps
    BY <1>2, <1>8, <2>2 DEF DestroySteps, UnmountDestroyed, UnmountDestroyedFails, WipeDestroyed,
       CommitDestroyFails, db
  <2>3. CASE RemovalSteps
    BY <1>2, <1>8, <2>3, Zenon DEF RemovalSteps, UnmountRemoved, UnmountRemovedFails, WipeRemoved, CommitRemovalFails, db
  <2>4. CASE CommitImportFails \/ \E d \in Disks : ZeroDisk(d)
    BY <1>2, <2>4 DEF CommitImportFails, ZeroDisk, db
  <2> QED BY <1>8, <2>1, <2>2, <2>3, <2>4 DEF HolderSteps
<1>9. CASE ImportSteps \/ (RenameSteps /\ ~CommitRename)
  BY <1>2, <1>9 DEF ImportSteps, MountImport, DropImport, RenameSteps, MoveMount, RefuseMove, CommitRenameFails, db
<1>10. CASE \/ \E o \in Ops : RecoverCreate(o) \/ RecoverLost(o)
            \/ \E S \in SUBSET FSes : BootStorage(S)
            \/ Observe \/ DaemonCrash \/ Reboot
  BY <1>2, <1>10 DEF RecoverCreate, RecoverLost, BootStorage, Observe, DaemonCrash, Reboot, MemoryLost, db
<1> QED BY <1>3, <1>4, <1>5, <1>6, <1>7, <1>8, <1>9, <1>10 DEF Next, BootSteps

\* A create that completes is there, and a row goes on purpose.
THEOREM RowsTellTheTruth == Spec => RowsAreReal
<1>1. IInv /\ [Next]_vars =>
        [\A o \in Ops :
           ops[o] # None /\ ops[o].type = "create" /\ ops[o].status = "open" /\ ops'[o].status = "completed"
           => LET f == ops'[o].pool IN
              /\ pools'[f] # None /\ \A d \in pools'[f].devs : disk'[d] = f
              /\ f \in ToSet(mnt'[pools'[f].mp]) \/ held.moved]_vars
  BY CompletesStep, CommitsWhatIsThere
<1>2. IInv /\ [Next]_vars =>
        [\A f \in Pools : pools'[f] = None
           => \/ held # None /\ held.fs = f /\ held.kind \in {"destroy", "erase", "export"}
              \/ boot # {} /\ Members(f) = {}]_vars
  BY ForgetsStep
<1> QED BY PoolsStay, <1>1, <1>2, PTL DEF Spec, RowsAreReal, CreatedIsReal, ForgottenOnPurpose

-----------------------------------------------------------------------------
(* The types of what is said of disks, of the network and of room.          *)

Words == {"none", "success", "warning", "error"}
\* A notification is of something there is to speak of.
LEMMA AnnounceTypes ==
  ASSUME told \in [Topics -> Words], unheard \subseteq Topics, NEW say, DOMAIN say \subseteq Topics,
         \A t \in DOMAIN say : say[t] \in Words, Announce(say)
  PROVE  told' \in [Topics -> Words] /\ unheard' \subseteq Topics
<1>1. PICK L \in SUBSET DOMAIN say :
        /\ told' = [t \in Topics |-> IF t \in (DOMAIN say) \ L THEN say[t] ELSE told[t]]
        /\ unheard' = (unheard \ DOMAIN say) \cup L
  BY DEF Announce
<1>2. \A t \in Topics : (IF t \in (DOMAIN say) \ L THEN say[t] ELSE told[t]) \in Words
  OBVIOUS
<1> QED
  BY <1>1, <1>2
LEMMA AbsenteeIs == Absentee \in Drive
BY DEF Drive, Absentee, Conditions
LEMMA DriveIs ==
  ASSUME NEW u \in Drives \cup {0, 99}, NEW c \in Conditions, NEW r,
         r = [unit |-> u, cond |-> c, heat |-> 0, pulse |-> "awake"]
  PROVE  r \in Drive
BY DEF Drive
LEMMA DriveChangesTypes ==
  ASSUME HealthTypeOK, NEW d \in Drives, DriveChanges(d)
  PROVE  drive' \in [Drives -> Drive]
<1>1. PICK r : r = drive[d]
  OBVIOUS
<1>2. r \in Drive /\ drive \in [Drives -> Drive]
  BY <1>1 DEF HealthTypeOK
<1>3. /\ \A h \in 0..3 : [r EXCEPT !.heat = h] \in Drive
      /\ \A p \in {"awake", "asleep", "mute"} : [r EXCEPT !.pulse = p] \in Drive
      /\ \A c \in Conditions : [r EXCEPT !.cond = c] \in Drive
  BY <1>2 DEF Drive
<1>4. /\ \A h : [drive EXCEPT ![d].heat = h] = [drive EXCEPT ![d] = [r EXCEPT !.heat = h]]
      /\ \A p : [drive EXCEPT ![d].pulse = p] = [drive EXCEPT ![d] = [r EXCEPT !.pulse = p]]
      /\ \A c : [drive EXCEPT ![d].cond = c] = [drive EXCEPT ![d] = [r EXCEPT !.cond = c]]
  BY <1>1
<1>5. ASSUME NEW n \in Drive, drive' = [drive EXCEPT ![d] = n] PROVE drive' \in [Drives -> Drive]
  BY <1>2, <1>5
<1>6. ASSUME NEW h \in 0..3, drive' = [drive EXCEPT ![d].heat = h] PROVE drive' \in [Drives -> Drive]
  <2>1. [r EXCEPT !.heat = h] \in Drive
    BY <1>3
  <2>2. drive' = [drive EXCEPT ![d] = [r EXCEPT !.heat = h]]
    BY <1>4, <1>6
  <2> QED
    BY <1>5, <2>1, <2>2
<1>7. ASSUME NEW p \in {"awake", "asleep", "mute"}, drive' = [drive EXCEPT ![d].pulse = p] PROVE drive' \in [Drives -> Drive]
  <2>1. [r EXCEPT !.pulse = p] \in Drive
    BY <1>3
  <2>2. drive' = [drive EXCEPT ![d] = [r EXCEPT !.pulse = p]]
    BY <1>4, <1>7
  <2> QED
    BY <1>5, <2>1, <2>2
<1>8. ASSUME NEW c \in Conditions, drive' = [drive EXCEPT ![d].cond = c] PROVE drive' \in [Drives -> Drive]
  <2>1. [r EXCEPT !.cond = c] \in Drive
    BY <1>3
  <2>2. drive' = [drive EXCEPT ![d] = [r EXCEPT !.cond = c]]
    BY <1>4, <1>8
  <2> QED
    BY <1>5, <2>1, <2>2
<1> QED
  BY <1>6, <1>7, <1>8 DEF DriveChanges

MountTypes == [on : BOOLEAN, ro : BOOLEAN, names : SUBSET Drives, io : SUBSET Drives,
               csum : SUBSET Drives, clean : BOOLEAN]
LEMMA MountChangesTypes ==
  ASSUME HealthTypeOK, MountChanges
  PROVE  mount' \in MountTypes
<1>1. mount \in MountTypes
  BY DEF HealthTypeOK, MountTypes
<1>2. ASSUME NEW d \in Drives, mount' = [mount EXCEPT !.io = @ \cup {d}] PROVE mount' \in MountTypes
  BY <1>1, <1>2 DEF MountTypes
<1>3. ASSUME NEW d \in Drives, mount' = [mount EXCEPT !.csum = @ \cup {d}, !.clean = FALSE] PROVE mount' \in MountTypes
  BY <1>1, <1>3 DEF MountTypes
<1>4. CASE \/ mount' = [mount EXCEPT !.clean = TRUE] \/ mount' = [mount EXCEPT !.ro = TRUE]
           \/ mount' = [mount EXCEPT !.on = FALSE, !.ro = FALSE]
  BY <1>1, <1>4 DEF MountTypes
<1>5. CASE mount' = [mount EXCEPT !.on = TRUE, !.names = {d \in Drives : drive[d].unit = d}]
  BY <1>1, <1>5, Zenon DEF MountTypes
<1> QED
  BY <1>2, <1>3, <1>4, <1>5, Zenon DEF MountChanges

LEMMA RestartTypes ==
  ASSUME HealthTypeOK, RestartMonitors
  PROVE  drive' \in [Drives -> Drive] /\ mount' \in MountTypes
<1>1. mount \in MountTypes /\ drive \in [Drives -> Drive]
  BY DEF HealthTypeOK, MountTypes
<1>2. CASE UNCHANGED <<drive, mount>>
  BY <1>1, <1>2
<1>3. ASSUME NEW d \in Drives, NEW u \in {0, 99},
             drive' = [drive EXCEPT ![d] = IF u = 0 THEN Absentee
                                      ELSE [unit |-> u, cond |-> "ok", heat |-> 0, pulse |-> "awake"]],
             mount' = [mount EXCEPT !.names = {e \in Drives : drive'[e].unit = e},
                                    !.on = \E e \in Drives : drive'[e].unit = e, !.ro = FALSE]
      PROVE  drive' \in [Drives -> Drive] /\ mount' \in MountTypes
  <2>0. u \in Drives \cup {0, 99} /\ "ok" \in Conditions
    BY DEF Conditions
  <2>a. PICK n : n = [unit |-> u, cond |-> "ok", heat |-> 0, pulse |-> "awake"]
    BY Zenon
  <2>1. PICK r \in Drive : r = IF u = 0 THEN Absentee ELSE [unit |-> u, cond |-> "ok", heat |-> 0, pulse |-> "awake"]
    BY <2>0, <2>a, DriveIs, AbsenteeIs
  <2>2. drive' \in [Drives -> Drive]
    BY <1>1, <1>3, <2>1
  <2>3. PICK b \in BOOLEAN : b = (\E e \in Drives : drive'[e].unit = e)
    BY Zenon
  <2>4. PICK N \in SUBSET Drives : N = {e \in Drives : drive'[e].unit = e}
    OBVIOUS
  <2>5. mount' = [mount EXCEPT !.names = N, !.on = b, !.ro = FALSE]
    BY <1>3, <2>3, <2>4
  <2>6. mount' \in MountTypes
    BY <1>1, <2>5 DEF MountTypes
  <2> QED
    BY <2>2, <2>6
<1> QED
  BY <1>2, <1>3, ZenonT(40) DEF RestartMonitors

LEMMA CheckDiskTypes ==
  ASSUME HealthTypeOK, NEW d \in Drives, CheckDisk(d)
  PROVE  /\ smart' \in [Drives -> Conditions \cup {"none"}] /\ heatState' \in [Drives -> {"none", "normal", "high"}]
         /\ hotCache' \subseteq Drives /\ told' \in [Topics -> Words] /\ unheard' \subseteq Topics
<1>0. /\ smart \in [Drives -> Conditions \cup {"none"}] /\ heatState \in [Drives -> {"none", "normal", "high"}]
      /\ hotCache \subseteq Drives /\ told \in [Topics -> Words] /\ unheard \subseteq Topics
      /\ drive[d].cond \in Conditions
  BY DEF HealthTypeOK, Words, Drive
<1>1. CASE UNCHANGED <<smart, hotCache, heatState, told, healthFaults, unheard>>
  BY <1>0, <1>1
<1>2. CASE ~(HasUnit(d) /\ drive[d].pulse = "asleep")
  <2>1. PICK status : status = SmartStatus(d)
    OBVIOUS
  <2>2. PICK warm : warm = IF smart[d] = "none" \/ ~Readable(d) THEN heatState[d] ELSE NextTempState(heatState[d], drive[d].heat)
    OBVIOUS
  <2>3. PICK words : words = [t \in {<<"smart", d>>, <<"heat", d>>} |->
                          IF t[1] = "smart" THEN SmartWords(smart[d], status)
                          ELSE IF warm = heatState[d] THEN "nothing" ELSE HeatWords(heatState[d], warm)]
    OBVIOUS
  <2>4. PICK say : say = [t \in {u \in DOMAIN words : words[u] # "nothing"} |-> words[t]]
    OBVIOUS
  <2>5. status \in Conditions /\ warm \in {"none", "normal", "high"}
    BY <1>0, <2>1, <2>2 DEF SmartStatus, NextTempState, Conditions
  <2>6. \A t \in DOMAIN words : words[t] \in Words \cup {"nothing"}
    BY <2>3 DEF SmartWords, HeatWords, Words
  <2>7. DOMAIN words \subseteq Topics
    BY <2>3 DEF Topics
  <2>8. DOMAIN say \subseteq Topics /\ \A t \in DOMAIN say : say[t] \in Words
    BY <2>4, <2>6, <2>7
  <2>9. /\ smart' = [smart EXCEPT ![d] = status] /\ heatState' = [heatState EXCEPT ![d] = warm]
        /\ hotCache' = IF Readable(d) /\ drive[d].heat = 3 THEN hotCache \cup {d} ELSE hotCache \ {d}
        /\ Announce(say)
    BY <1>2, <2>1, <2>2, <2>3, <2>4 DEF CheckDisk
  <2>10. told' \in [Topics -> Words] /\ unheard' \subseteq Topics
    BY <1>0, <2>8, <2>9, AnnounceTypes
  <2> QED
    BY <1>0, <2>5, <2>9, <2>10
<1> QED
  BY <1>1, <1>2 DEF CheckDisk

LEMMA CheckPoolTypes ==
  ASSUME HealthTypeOK, CheckPoolHealth
  PROVE  record' \in Statuses /\ told' \in [Topics -> Words] /\ unheard' \subseteq Topics
<1>1. ComputePoolHealth \in Statuses
  BY DEF ComputePoolHealth, Statuses
<1>2. record' \in Statuses
  BY <1>1 DEF CheckPoolHealth
<1>3. CASE UNCHANGED <<told, healthFaults, unheard>>
  BY <1>2, <1>3 DEF HealthTypeOK, Words
<1>4. ASSUME NEW say, say = [t \in {<<"pool", 0>>} |-> PoolWords(ComputePoolHealth)], Announce(say)
      PROVE  told' \in [Topics -> Words] /\ unheard' \subseteq Topics
  <2>1. PoolWords(ComputePoolHealth) \in Words
    BY DEF PoolWords, Words
  <2>2. DOMAIN say \subseteq Topics
    BY <1>4 DEF Topics
  <2>3. \A t \in DOMAIN say : say[t] \in Words
    BY <1>4, <2>1
  <2>4. told \in [Topics -> Words] /\ unheard \subseteq Topics
    BY DEF HealthTypeOK, Words
  <2> QED
    BY <1>4, <2>2, <2>3, <2>4, AnnounceTypes
<1> QED
  BY <1>2, <1>3, <1>4 DEF CheckPoolHealth

LEMMA HealthTypesStep ==
  ASSUME HealthTypeOK, [HealthNext]_healthVars
  PROVE  HealthTypeOK'
<1>0. /\ drive \in [Drives -> Drive] /\ mirror \in Mirrors /\ mount \in MountTypes
      /\ smart \in [Drives -> Conditions \cup {"none"}] /\ heatState \in [Drives -> {"none", "normal", "high"}]
      /\ hotCache \subseteq Drives /\ visiting \subseteq present /\ present \subseteq Drives
      /\ record \in Statuses /\ told \in [Topics -> Words] /\ unheard \subseteq Topics /\ settled \in 0..3
  BY DEF HealthTypeOK, MountTypes, Words
<1> DEFINE Told == told' \in [Topics -> Words] /\ unheard' \subseteq Topics
           Remembered == /\ smart' \in [Drives -> Conditions \cup {"none"}]
                         /\ heatState' \in [Drives -> {"none", "normal", "high"}]
                         /\ hotCache' \subseteq Drives /\ visiting' \subseteq present' /\ present' \subseteq Drives
           Shown == record' \in Statuses /\ settled' \in 0..3 /\ mirror' \in Mirrors
           There == drive' \in [Drives -> Drive] /\ mount' \in MountTypes
<1>1. SUFFICES Told /\ Remembered /\ Shown /\ There
  BY DEF HealthTypeOK, MountTypes, Words
<1>2. CASE UNCHANGED healthVars
  BY <1>0, <1>2 DEF healthVars
<1>3. CASE NotifClear
  BY <1>0, <1>3 DEF NotifClear, OfDisks, Words
<1>4. CASE StartPass
  BY <1>0, <1>4 DEF StartPass
<1>5. CASE EndPass
  <2>1. smart' \in [Drives -> Conditions \cup {"none"}] /\ hotCache' \subseteq Drives
    BY <1>0, <1>5 DEF EndPass
  <2>2. unheard' \subseteq Topics
    BY <1>0, <1>5 DEF EndPass, Topics
  <2>3. settled' \in 0..3
    BY <1>0, <1>5 DEF EndPass
  <2> QED
    BY <1>0, <1>5, <2>1, <2>2, <2>3 DEF EndPass
<1>6. CASE CheckPoolHealth
  <2>1. settled' \in 0..3
    BY <1>0, <1>6 DEF CheckPoolHealth
  <2> QED
    BY <1>0, <1>6, <2>1, CheckPoolTypes DEF CheckPoolHealth, OfDisks
<1>7. CASE MountChanges \/ ObserverFinds
  <2>1. settled' = 0 /\ UNCHANGED <<drive, mirror, OfDisks, told, record, unheard>>
    BY <1>7, Zenon DEF MountChanges, ObserverFinds, HealthEvent
  <2>2. mount' \in MountTypes
    BY <1>0, <1>7, MountChangesTypes DEF ObserverFinds
  <2> QED
    BY <1>0, <2>1, <2>2 DEF OfDisks
<1>8. CASE RestartMonitors
  <2>1. drive' \in [Drives -> Drive] /\ mount' \in MountTypes
    BY <1>8, RestartTypes
  <2>2. /\ settled' = 0 /\ smart' = [d \in Drives |-> "none"] /\ heatState' = [d \in Drives |-> "none"]
        /\ hotCache' = {} /\ visiting' = {} /\ present' = {} /\ record' = "none" /\ unheard' = Topics
        /\ UNCHANGED <<mirror, told>>
    BY <1>8, Zenon DEF RestartMonitors
  <2> QED
    BY <1>0, <2>1, <2>2 DEF Statuses
<1>9. ASSUME NEW d \in Drives, CheckDisk(d) PROVE Told /\ Remembered /\ Shown /\ There
  BY <1>0, <1>9, CheckDiskTypes DEF CheckDisk
<1>10. ASSUME NEW d \in Drives, Pull(d) \/ Insert(d) \/ DriveChanges(d) PROVE Told /\ Remembered /\ Shown /\ There
  <2>1. /\ settled' = 0 /\ UNCHANGED <<mirror, OfDisks, told, record, unheard, mount>>
    BY <1>10 DEF Pull, Insert, DriveChanges, HealthEvent
  <2>2. CASE Pull(d)
    <3>1. PICK r \in Drive : r = Absentee
      BY AbsenteeIs
    <3>2. drive' \in [Drives -> Drive]
      BY <1>0, <2>2, <3>1 DEF Pull
    <3> QED
      BY <1>0, <2>1, <3>2 DEF OfDisks
  <2>3. CASE Insert(d)
    <3>1. PICK u \in {d, 99}, c \in Conditions : drive' = [drive EXCEPT ![d] = [unit |-> u, cond |-> c, heat |-> 0, pulse |-> "awake"]]
      BY <2>3 DEF Insert
    <3>a. PICK r : r = [unit |-> u, cond |-> c, heat |-> 0, pulse |-> "awake"]
      BY Zenon
    <3>2. r \in Drive /\ r = [unit |-> u, cond |-> c, heat |-> 0, pulse |-> "awake"]
      BY <3>a, DriveIs
    <3>3. drive' \in [Drives -> Drive]
      BY <1>0, <3>1, <3>2
    <3> QED
      BY <1>0, <2>1, <3>3 DEF OfDisks
  <2>4. CASE DriveChanges(d)
    BY <1>0, <2>1, <2>4, DriveChangesTypes DEF OfDisks
  <2> QED
    BY <1>10, <2>2, <2>3, <2>4
<1> QED
  BY <1>2, <1>3, <1>4, <1>5, <1>6, <1>7, <1>8, <1>9, <1>10 DEF HealthNext

LEMMA HealthTypesStart == HealthInit => HealthTypeOK
<1> SUFFICES ASSUME HealthInit PROVE HealthTypeOK
  OBVIOUS
<1>1. drive \in [Drives -> Drive]
  BY DEF HealthInit, Drive, Conditions
<1>2. mount \in MountTypes
  BY DEF HealthInit, MountTypes
<1> QED
  BY <1>1, <1>2 DEF HealthInit, HealthTypeOK, MountTypes, Statuses

-----------------------------------------------------------------------------
(* What is written down of the network.  A row is made of the event of a    *)
(* caller, and no clock runs back.                                          *)

LogRow == [kind : LogKinds, op : {0, 1}, first : Nat, last : Nat, occ : Nat \ {0}]
EmitState == [at : {"idle", "look", "write"}, kind : LogKinds \cup {"none"}, op : {0, 1}, now : Nat,
              row : SUBSET LogRow, moved : BOOLEAN]
EmitsOK(calls) ==
  /\ calls \in [Callers -> EmitState]
  /\ \A e \in Callers : calls[e].now <= logNow /\ (calls[e].at # "idle" => calls[e].kind \in LogKinds)
RowsOK == logRows \subseteq LogRow /\ \A r \in logRows : r.first <= logNow /\ r.last <= logNow
BucketsOK ==
  /\ buckets \in [{"ddns", "observer"} -> [count : Nat, since : Nat]]
  /\ \A c \in {"ddns", "observer"} : buckets[c].count <= LogLimit
LogClock == logNow \in 1..LastTick /\ forced \in 0..(LastTick + 2) /\ toldDown \in BOOLEAN /\ routerUp \in BOOLEAN
LogInv == LogClock /\ RowsOK /\ BucketsOK /\ EmitsOK(emits)

LEMMA IdleEmitIs ==
  /\ IdleEmit \in EmitState /\ IdleEmit.at = "idle" /\ IdleEmit.now = 0
BY DEF IdleEmit, EmitState

LEMMA OthersWrittenIs ==
  ASSUME logNow \in Nat, EmitsOK(emits), NEW x
  PROVE  EmitsOK(OthersWritten(x))
<1>1. ASSUME NEW y \in Callers
      PROVE  /\ OthersWritten(x)[y] \in EmitState /\ OthersWritten(x)[y].now <= logNow
             /\ OthersWritten(x)[y].at # "idle" => OthersWritten(x)[y].kind \in LogKinds
  <2>1. PICK s : s = emits[y]
    OBVIOUS
  <2>2. s \in EmitState /\ s.now <= logNow /\ (s.at # "idle" => s.kind \in LogKinds)
    BY <2>1 DEF EmitsOK
  <2>3. PICK m : m = [s EXCEPT !.moved = TRUE]
    OBVIOUS
  <2>4. m \in EmitState /\ m.now = s.now /\ m.at = s.at /\ m.kind = s.kind
    BY <2>2, <2>3 DEF EmitState
  <2>5. OthersWritten(x)[y] \in {IdleEmit, m, s}
    BY <2>1, <2>3 DEF OthersWritten
  <2> QED
    BY <2>2, <2>4, <2>5, IdleEmitIs
<1>2. OthersWritten(x) \in [Callers -> EmitState]
  BY <1>1 DEF OthersWritten
<1> QED
  BY <1>1, <1>2 DEF EmitsOK

LEMMA EmitBecomes ==
  ASSUME NEW calls, EmitsOK(calls), NEW e \in Callers, NEW s \in EmitState, s.now <= logNow,
         s.at # "idle" => s.kind \in LogKinds, emits' = [calls EXCEPT ![e] = s], UNCHANGED logNow
  PROVE  EmitsOK(emits)'
BY DEF EmitsOK

LEMMA EmitFromTypes ==
  ASSUME logNow \in Nat, BucketsOK, NEW calls, EmitsOK(calls), NEW e \in Callers, NEW k \in LogKinds,
         NEW op \in {0, 1}, EmitFrom(calls, e, k, op), UNCHANGED logNow
  PROVE  EmitsOK(emits)' /\ BucketsOK'
<1>1. PICK c \in {"ddns", "observer"} : c = CategoryOf(k)
  BY DEF CategoryOf
<1>2. CASE ~Allowed(c)
  <2>1. emits' = calls /\ UNCHANGED buckets
    BY <1>1, <1>2 DEF EmitFrom
  <2> QED
    BY <2>1 DEF EmitsOK, BucketsOK
<1>3. CASE Allowed(c)
  <2>1. PICK s : s = [IdleEmit EXCEPT !.at = "look", !.kind = k, !.op = op, !.now = logNow]
    OBVIOUS
  <2>2. s \in EmitState /\ s.now = logNow /\ s.kind = k
    BY <2>1 DEF IdleEmit, EmitState
  <2>3. emits' = [calls EXCEPT ![e] = s]
    BY <1>1, <1>3, <2>1 DEF EmitFrom
  <2>a. s.now <= logNow /\ (s.at # "idle" => s.kind \in LogKinds)
    BY <2>2
  <2>4. EmitsOK(emits)'
    BY <2>2, <2>3, <2>a, EmitBecomes
  <2>5. PICK b : b = buckets[c]
    OBVIOUS
  <2>6. b \in [count : Nat, since : Nat] /\ b.count <= LogLimit
    BY <2>5 DEF BucketsOK
  <2>7. PICK n : n = IF Renewed(c) THEN [count |-> 1, since |-> logNow] ELSE [b EXCEPT !.count = b.count + 1]
    OBVIOUS
  <2>8. n \in [count : Nat, since : Nat] /\ n.count <= LogLimit
    <3>1. LogLimit \in Nat /\ LogLimit # 0
      BY NetworkLogAssumption
    <3>2. CASE Renewed(c)
      BY <2>7, <3>1, <3>2
    <3>3. CASE ~Renewed(c)
      <4>1. b.count < LogLimit
        BY <1>3, <2>5, <3>3 DEF Allowed
      <4> QED
        BY <2>6, <2>7, <3>1, <3>3, <4>1
    <3> QED
      BY <3>2, <3>3
  <2>9. buckets' = [buckets EXCEPT ![c] = n]
    BY <1>1, <1>3, <2>5, <2>7 DEF EmitFrom
  <2>10. BucketsOK'
    BY <2>8, <2>9 DEF BucketsOK
  <2> QED
    BY <2>4, <2>10
<1> QED
  BY <1>2, <1>3

LEMMA EmitLooksTypes ==
  ASSUME LogInv, NEW e \in Callers, EmitLooks(e)
  PROVE  LogInv'
<1>0. LogClock /\ RowsOK /\ BucketsOK /\ EmitsOK(emits) /\ UNCHANGED <<logNow, logRows, buckets, routerUp, toldDown, forced>>
  BY DEF LogInv, EmitLooks
<1>1. PICK R : R = {r \in {q \in logRows : q.kind = emits[e].kind /\ q.last + LogWindow >= emits[e].now} :
                     \A s \in {q \in logRows : q.kind = emits[e].kind /\ q.last + LogWindow >= emits[e].now} : s.last <= r.last}
  OBVIOUS
<1>2. R \in SUBSET LogRow
  BY <1>0, <1>1 DEF RowsOK
<1>3. PICK s : s = emits[e]
  OBVIOUS
<1>4. s \in EmitState /\ s.now <= logNow /\ s.kind \in LogKinds
  BY <1>0, <1>3 DEF EmitsOK, EmitLooks
<1>5. PICK n : n = [s EXCEPT !.at = "write", !.row = R]
  OBVIOUS
<1>6. n \in EmitState /\ n.now = s.now /\ n.kind = s.kind
  BY <1>2, <1>4, <1>5 DEF EmitState
<1>7. emits' = [emits EXCEPT ![e] = n]
  BY <1>0, <1>1, <1>3, <1>5 DEF EmitLooks, EmitsOK
<1>8. EmitsOK(emits)'
  BY <1>0, <1>4, <1>6, <1>7, EmitBecomes
<1> QED
  BY <1>0, <1>8 DEF LogInv, LogClock, RowsOK, BucketsOK

LEMMA EmitWritesTypes ==
  ASSUME LogInv, NEW e \in Callers, EmitWrites(e)
  PROVE  LogInv'
<1>a. LogClock /\ RowsOK /\ BucketsOK /\ EmitsOK(emits)
  BY DEF LogInv
<1>b. UNCHANGED <<logNow, buckets, routerUp, toldDown, forced>>
  BY Zenon DEF EmitWrites
<1>0. LogClock /\ RowsOK /\ BucketsOK /\ EmitsOK(emits) /\ logNow \in Nat /\ UNCHANGED <<logNow, buckets, routerUp, toldDown, forced>>
  BY <1>a, <1>b DEF LogClock
<1>1. emits[e] \in EmitState /\ emits[e].now \in Nat /\ emits[e].now <= logNow /\ emits[e].kind \in LogKinds
      /\ emits[e].op \in {0, 1}
  BY <1>0, Zenon DEF EmitsOK, EmitWrites, EmitState
<1>2. EmitsOK(emits)'
  <2>1. CASE emits' = OthersWritten(e)
    BY <1>0, <2>1, OthersWrittenIs DEF EmitsOK
  <2>2. CASE emits' = [emits EXCEPT ![e] = IdleEmit]
    <3>1. IdleEmit \in EmitState /\ IdleEmit.now <= logNow /\ (IdleEmit.at # "idle" => IdleEmit.kind \in LogKinds)
      BY <1>0, IdleEmitIs
    <3> QED
      BY <1>0, <2>2, <3>1, EmitBecomes
  <2> QED
    BY <2>1, <2>2, Zenon DEF EmitWrites
<1>3. ASSUME NEW r \in LogRow, r.first <= logNow
      PROVE  [r EXCEPT !.occ = @ + 1, !.last = emits[e].now] \in LogRow
             /\ [r EXCEPT !.occ = @ + 1, !.last = emits[e].now].first <= logNow
             /\ [r EXCEPT !.occ = @ + 1, !.last = emits[e].now].last <= logNow
  <2>1. PICK n : n = emits[e].now
    OBVIOUS
  <2>2. PICK q : q = [r EXCEPT !.occ = r.occ + 1, !.last = n]
    OBVIOUS
  <2>a. PICK o \in Nat \ {0} : o = r.occ + 1
    BY DEF LogRow
  <2>b. q = [r EXCEPT !.occ = o, !.last = n] /\ n \in Nat
    BY <1>1, <2>1, <2>2, <2>a
  <2>3. q \in LogRow /\ q.first = r.first /\ q.last = n
    BY <2>a, <2>b DEF LogRow
  <2> QED
    BY <1>1, <1>3, <2>1, <2>2, <2>3
<1>4. PICK q : q = [kind |-> emits[e].kind, op |-> emits[e].op, first |-> emits[e].now, last |-> emits[e].now, occ |-> 1]
  OBVIOUS
<1>5. q \in LogRow /\ q.first <= logNow /\ q.last <= logNow
  BY <1>1, <1>4 DEF LogRow
<1>6. \/ logRows' = logRows \cup {q} \/ UNCHANGED logRows
      \/ logRows' = (logRows \ emits[e].row)
                      \cup {[r EXCEPT !.occ = @ + 1, !.last = emits[e].now] : r \in emits[e].row \cap logRows}
  BY <1>4, Zenon DEF EmitWrites
<1>7. RowsOK'
  BY <1>0, <1>3, <1>5, <1>6, Zenon DEF RowsOK
<1> QED
  BY <1>0, <1>2, <1>7 DEF LogInv, LogClock, BucketsOK

\* Who emits, with the clock and the operation of a forced update.
LEMMA LogInvStays ==
  ASSUME LogInv, EmitsOK(emits)', BucketsOK', RowsOK', LogClock'
  PROVE  LogInv'
BY DEF LogInv
LEMMA RowsStay == ASSUME RowsOK, UNCHANGED <<logRows, logNow>> PROVE RowsOK'
BY DEF RowsOK
LEMMA BucketsStay == ASSUME BucketsOK, UNCHANGED buckets PROVE BucketsOK'
BY DEF BucketsOK
LEMMA EmitsStay == ASSUME EmitsOK(emits), UNCHANGED <<emits, logNow>> PROVE EmitsOK(emits)'
BY DEF EmitsOK
LEMMA OthersStay ==
  ASSUME logNow \in Nat, EmitsOK(emits), NEW x, emits' = OthersWritten(x), UNCHANGED logNow
  PROVE  EmitsOK(emits)'
<1>1. EmitsOK(OthersWritten(x))
  BY OthersWrittenIs
<1> QED
  BY <1>1 DEF EmitsOK

LEMMA EmittersTypes ==
  ASSUME LogInv, RouterReconcile \/ RefreshCapabilities \/ AuthFailed \/ CreateOperation \/ CloseOperation
  PROVE  LogInv'
<1>0. /\ LogClock /\ RowsOK /\ BucketsOK /\ EmitsOK(emits) /\ logNow \in Nat /\ logNow \in 1..LastTick
      /\ LastTick \in Nat
  BY NetworkLogAssumption DEF LogInv, LogClock
<1>1. UNCHANGED <<logNow, logRows, routerUp>>
  BY DEF RouterReconcile, RefreshCapabilities, AuthFailed, CreateOperation, CloseOperation
<1>2. forced' \in 0..(LastTick + 2)
  BY <1>0 DEF RouterReconcile, RefreshCapabilities, AuthFailed, CreateOperation, CloseOperation, LogClock
<1>3. toldDown' \in BOOLEAN
  BY <1>0 DEF RouterReconcile, RefreshCapabilities, AuthFailed, CreateOperation, CloseOperation, LogClock
<1>4. LogClock'
  BY <1>0, <1>1, <1>2, <1>3 DEF LogClock
<1>5. RowsOK'
  BY <1>0, <1>1, RowsStay
<1>6. ASSUME NEW calls, EmitsOK(calls), NEW e \in Callers, NEW k \in LogKinds, NEW op \in {0, 1},
             EmitFrom(calls, e, k, op)
      PROVE  EmitsOK(emits)' /\ BucketsOK'
  BY <1>0, <1>1, <1>6, EmitFromTypes
<1>7. EmitsOK(emits)' /\ BucketsOK'
  <2>1. CASE RouterReconcile
    <3>1. PICK k \in LogKinds : Emit("router", k, 0)
      BY <2>1 DEF RouterReconcile, LogKinds, RouterKinds
    <3> QED
      BY <1>0, <1>6, <3>1 DEF Emit, Callers
  <2>2. CASE RefreshCapabilities
    BY <1>0, <1>6, <2>2 DEF RefreshCapabilities, Emit, Callers, LogKinds
  <2>3. CASE AuthFailed
    BY <1>0, <1>6, <2>3 DEF AuthFailed, Emit, Callers, LogKinds
  <2>4. CASE CreateOperation
    BY <1>0, <1>1, <2>4, OthersStay, BucketsStay DEF CreateOperation
  <2>5. CASE CloseOperation
    <3>1. EmitsOK(OthersWritten("none"))
      BY <1>0, OthersWrittenIs
    <3> QED
      BY <1>6, <2>5, <3>1 DEF CloseOperation, Callers, LogKinds
  <2> QED
    BY <2>1, <2>2, <2>3, <2>4, <2>5
<1> QED
  BY <1>4, <1>5, <1>7, LogInvStays

\* The observer and the daily pass delete rows and write none but through Emit.
LEMMA DailyTypes ==
  ASSUME LogInv, ObserverRuns \/ RetentionBegins \/ PruneSnapshots \/ PruneOperations \/ PruneEvents
  PROVE  LogInv'
<1>0. /\ LogClock /\ RowsOK /\ BucketsOK /\ EmitsOK(emits) /\ logNow \in Nat /\ LastTick \in Nat
  BY NetworkLogAssumption DEF LogInv, LogClock
<1>1. UNCHANGED <<logNow, buckets, routerUp, toldDown>>
  BY DEF ObserverRuns, RetentionBegins, PruneSnapshots, PruneOperations, PruneEvents
<1>2. forced' \in {0, forced}
  BY DEF ObserverRuns, RetentionBegins, PruneSnapshots, PruneOperations, PruneEvents
<1>3. LogClock'
  BY <1>0, <1>1, <1>2 DEF LogClock
<1>4. logRows' \subseteq logRows
  BY DEF ObserverRuns, RetentionBegins, PruneSnapshots, PruneOperations, PruneEvents, EventsErased
<1>5. RowsOK'
  BY <1>0, <1>1, <1>4 DEF RowsOK
<1>6. emits' = OthersWritten("none") \/ emits' = emits
  BY DEF ObserverRuns, RetentionBegins, PruneSnapshots, PruneOperations, PruneEvents
<1>7. EmitsOK(emits)'
  BY <1>0, <1>1, <1>6, OthersStay, EmitsStay
<1> QED
  BY <1>0, <1>1, <1>3, <1>5, <1>7, BucketsStay, LogInvStays
LEMMA RetentionTellsTypes ==
  ASSUME LogInv, RetentionTells
  PROVE  LogInv'
<1>0. LogClock /\ RowsOK /\ BucketsOK /\ EmitsOK(emits) /\ logNow \in Nat
  BY DEF LogInv, LogClock
<1>1. UNCHANGED <<logNow, logRows, routerUp, toldDown, forced>>
  BY DEF RetentionTells
<1>2. LogClock' /\ RowsOK'
  BY <1>0, <1>1, RowsStay DEF LogClock
<1>3. EmitsOK(emits)' /\ BucketsOK'
  <2>1. CASE UNCHANGED <<emits, buckets, routerLost>>
    BY <1>0, <1>1, <2>1, EmitsStay, BucketsStay
  <2>2. CASE EmitFrom(emits, "retention", "retention_pass", 0)
    <3>1. "retention" \in Callers /\ "retention_pass" \in LogKinds
      BY DEF Callers, LogKinds
    <3> QED
      BY <1>0, <1>1, <2>2, <3>1, EmitFromTypes
  <2> QED
    BY <2>1, <2>2 DEF RetentionTells, Emit
<1> QED
  BY <1>2, <1>3, LogInvStays

\* A tick, the router and a crash.
LEMMA LogRestTypes ==
  ASSUME LogInv, LogTick \/ RouterChanges \/ LogCrash \/ UNCHANGED networkLogVars
  PROVE  LogInv'
<1>0. /\ LogClock /\ RowsOK /\ BucketsOK /\ EmitsOK(emits) /\ logNow \in 1..LastTick /\ LastTick \in Nat
  BY NetworkLogAssumption DEF LogInv, LogClock
<1>1. logNow' \in 1..LastTick /\ logNow <= logNow' /\ UNCHANGED <<logRows, forced>>
  BY <1>0 DEF LogTick, RouterChanges, LogCrash, networkLogVars
<1>2. RowsOK'
  BY <1>0, <1>1 DEF RowsOK, LogRow
<1>3. LogClock'
  <2>1. routerUp' \in BOOLEAN
    BY <1>0 DEF LogTick, RouterChanges, LogCrash, networkLogVars, LogClock
  <2>2. toldDown' \in BOOLEAN
    BY <1>0 DEF LogTick, RouterChanges, LogCrash, networkLogVars, LogClock
  <2> QED
    BY <1>0, <1>1, <2>1, <2>2 DEF LogClock
<1>4. EmitsOK(emits)' /\ BucketsOK'
  <2>1. CASE UNCHANGED <<emits, buckets>>
    BY <1>0, <1>1, <2>1 DEF EmitsOK, EmitState, BucketsOK
  <2>2. CASE emits' = [e \in Callers |-> IdleEmit] /\ buckets' = [c \in {"ddns", "observer"} |-> NoBucket]
    <3>1. NoBucket \in [count : Nat, since : Nat] /\ NoBucket.count = 0
      BY DEF NoBucket
    <3>2. EmitsOK(emits)'
      BY <1>0, <1>1, <2>2, IdleEmitIs DEF EmitsOK
    <3>3. BucketsOK'
      BY <2>2, <3>1, NetworkLogAssumption DEF BucketsOK
    <3> QED
      BY <3>2, <3>3
  <2> QED
    BY <2>1, <2>2 DEF LogTick, RouterChanges, LogCrash, networkLogVars
<1> QED
  BY <1>2, <1>3, <1>4, LogInvStays

LEMMA LogStarts == ASSUME NetworkLogInit PROVE LogInv
<1>1. 1 \in 1..LastTick /\ LogLimit \in Nat
  BY NetworkLogAssumption
<1>a. logNow = 1 /\ forced = 0 /\ toldDown = FALSE /\ routerUp = TRUE /\ logRows = {}
  BY DEF NetworkLogInit
<1>b. 0 \in 0..(LastTick + 2)
  BY NetworkLogAssumption
<1>2. LogClock /\ RowsOK
  BY <1>1, <1>a, <1>b DEF LogClock, RowsOK
<1>3. NoBucket \in [count : Nat, since : Nat] /\ NoBucket.count = 0
  BY DEF NoBucket
<1>4. BucketsOK
  BY <1>1, <1>3 DEF NetworkLogInit, BucketsOK
<1>5. EmitsOK(emits)
  BY IdleEmitIs DEF NetworkLogInit, EmitsOK
<1> QED
  BY <1>2, <1>4, <1>5 DEF LogInv
LEMMA LogStep == ASSUME LogInv, [NetworkLogNext]_networkLogVars PROVE LogInv'
BY EmitLooksTypes, EmitWritesTypes, EmittersTypes, DailyTypes, RetentionTellsTypes, LogRestTypes DEF NetworkLogNext
LEMMA LogInvSays == LogInv => NetworkLogTypeOK
BY DEF LogInv, LogClock, RowsOK, LogRow, BucketsOK, NetworkLogTypeOK

-----------------------------------------------------------------------------
(* The room of a pool.                                                      *)

LEMMA CapacityStarts == ASSUME CapacityInit PROVE CapacityTypeOK
BY CapacityAssumption DEF CapacityInit, CapacityTypeOK
LEMMA AllocateTypes ==
  ASSUME CapacityTypeOK, AllocateChunk
  PROVE  CapacityTypeOK'
<1>0. layout \in Layouts /\ free \in [Bays -> Nat] /\ size \in [Bays -> Nat] /\ filled \in Nat /\ uneven \in BOOLEAN
  BY DEF CapacityTypeOK
<1>1. PICK B \in Roomiest(Stripes(layout, free), free) :
        /\ free' = [b \in Bays |-> free[b] - (IF b \in B THEN 1 ELSE 0)]
        /\ filled' = filled + Cardinality(B) \div ProfileCopies(layout)
  BY DEF AllocateChunk
<1>2. B \subseteq Bays /\ \A b \in B : free[b] > 0
  BY <1>1 DEF Roomiest, WithRoom, InPool
<1>3. \A b \in Bays : free[b] - (IF b \in B THEN 1 ELSE 0) \in Nat
  BY <1>0, <1>2
<1>4. free' \in [Bays -> Nat]
  BY <1>1, <1>3
<1>5. Cardinality(B) \in Nat
  <2>1. IsFiniteSet(B)
    BY <1>2, CapacityAssumption, FS_Subset
  <2> QED
    BY <2>1, FS_CardinalityType
<1>6. ProfileCopies(layout) \in {1, 2, 3}
  BY DEF ProfileCopies
<1>7. Cardinality(B) \div ProfileCopies(layout) \in Nat
  BY <1>5, <1>6
<1>8. filled' \in Nat
  BY <1>0, <1>1, <1>7
<1> QED
  BY <1>0, <1>4, <1>8 DEF AllocateChunk, CapacityTypeOK
LEMMA CapacityStep == ASSUME CapacityTypeOK, [CapacityNext]_capacityVars PROVE CapacityTypeOK'
<1>1. ASSUME NEW b \in Bays, AddToPool(b) PROVE CapacityTypeOK'
  <2>1. PICK s \in Nat : size' = [size EXCEPT ![b] = s] /\ free' = [free EXCEPT ![b] = s]
    BY <1>1, CapacityAssumption DEF AddToPool
  <2>2. uneven' \in BOOLEAN
    <3>1. uneven' = (filled > 0)
      BY <1>1 DEF AddToPool
    <3> QED
      BY <3>1
  <2> QED
    BY <1>1, <2>1, <2>2 DEF AddToPool, CapacityTypeOK
<1>2. CASE BalanceAll
  <2>1. uneven' = FALSE /\ free' = size /\ filled' = 0 /\ UNCHANGED <<layout, size>>
    BY <1>2 DEF BalanceAll
  <2> QED
    BY <2>1 DEF CapacityTypeOK
<1>3. CASE UNCHANGED capacityVars
  BY <1>3 DEF capacityVars, CapacityTypeOK
<1> QED
  BY <1>1, <1>2, <1>3, AllocateTypes DEF CapacityNext

-----------------------------------------------------------------------------
(* The parts together: a behaviour moves one, and the others stand.         *)

PoolsInv == IInv /\ HealthTypeOK /\ LogInv /\ CapacityTypeOK

LEMMA PoolsBegin == ASSUME PoolsStart PROVE PoolsInv
BY InitOK, HealthTypesStart, LogStarts, CapacityStarts DEF PoolsStart, PoolsInv
LEMMA PoolsStep == ASSUME PoolsInv, [PoolsNext]_poolsVars PROVE PoolsInv'
<1>0. IInv /\ HealthTypeOK /\ LogInv /\ CapacityTypeOK
  BY DEF PoolsInv
<1>1. [Next]_vars /\ [HealthNext]_healthVars /\ [NetworkLogNext]_networkLogVars /\ [CapacityNext]_capacityVars
  BY DEF PoolsNext, poolsVars
<1> QED
  BY <1>0, <1>1, NextOK, HealthTypesStep, LogStep, CapacityStep DEF PoolsInv

\* What the daemon keeps of pools, disks, the network and the room keeps its type,
\* whatever the disks, names, events and ticks (storage_health_monitor.go,
\* hardware_smart.go, network_events.go, storage_pool_enrich.go).
THEOREM PoolsTypes == PoolsSpec => []PoolsTypesOK
<1>1. PoolsStart => PoolsInv
  BY PoolsBegin
<1>2. PoolsInv /\ [PoolsNext]_poolsVars => PoolsInv'
  BY PoolsStep
<1>3. PoolsInv => PoolsTypesOK
  BY LogInvSays DEF PoolsInv, PoolsTypesOK, IInv
<1> QED
  BY <1>1, <1>2, <1>3, PTL DEF PoolsSpec
-----------------------------------------------------------------------------
(* The margin of a pool: the k-th largest of the unallocated.               *)

AtLeast(f, v) == {b \in InPool : f[b] >= v}
Above(f, v) == {b \in InPool : f[b] > v}
\* Of naturals that some have, one is the least.
LEMMA LeastIs ==
  ASSUME NEW S, S # {}, NEW f, \A b \in S : f[b] \in Nat
  PROVE  \E b \in S : \A c \in S : f[b] <= f[c]
<1> DEFINE values == {f[b] : b \in S}
           Less == {ss \in Nat \X Nat : ss[1] < ss[2]}
<1>1. IsWellFoundedOn(Less, Nat)
  BY NatLessThanWellFounded DEF OpToRel
<1>2. values \subseteq Nat /\ values # {}
  OBVIOUS
<1> HIDE DEF Less, values
<1>3. PICK m \in values : \A v \in values : ~(<<v, m>> \in Less)
  BY <1>1, <1>2, WFMin
<1>4. \A v \in values : ~(v < m) /\ v \in Nat /\ m \in Nat
  BY <1>2, <1>3 DEF Less
<1>5. PICK b \in S : m = f[b]
  BY <1>3 DEF values
<1> QED
  BY <1>4, <1>5 DEF values
LEMMA LeastNat ==
  ASSUME NEW S \in SUBSET Nat, S # {}
  PROVE  \E n \in S : \A m \in S : n <= m
<1>1. PICK f : f = [n \in S |-> n]
  OBVIOUS
<1>2. PICK n \in S : \A m \in S : f[n] <= f[m]
  BY <1>1, LeastIs
<1> QED
  BY <1>1, <1>2
LEMMA BaysCount ==
  ASSUME NEW A, A \subseteq InPool
  PROVE  IsFiniteSet(A) /\ Cardinality(A) \in Nat /\ \A B \in SUBSET A : Cardinality(B) <= Cardinality(A) /\ Cardinality(B) \in Nat
                                                        /\ (B # A => Cardinality(B) < Cardinality(A))
<1>1. IsFiniteSet(A)
  BY CapacityAssumption, FS_Subset DEF InPool
<1> QED
  BY <1>1, FS_Subset, FS_CardinalityType
\* There is a k-th largest where there are k.
LEMMA NthIs ==
  ASSUME NEW f \in [Bays -> Nat], NEW k \in Nat \ {0}, k <= Cardinality(InPool)
  PROVE  \E b \in InPool : /\ Nth(k, f) = f[b]
                           /\ Cardinality(AtLeast(f, f[b])) >= k /\ Cardinality(Above(f, f[b])) < k
<1>0. InPool \subseteq Bays /\ Cardinality(InPool) \in Nat /\ InPool # {} /\ \A b \in InPool : f[b] \in Nat
  <2>1. InPool # {}
    BY FS_EmptySet
  <2> QED
    BY <2>1, BaysCount DEF InPool
<1>1. \A v : AtLeast(f, v) \subseteq InPool /\ Above(f, v) \subseteq InPool
             /\ Cardinality(AtLeast(f, v)) \in Nat /\ Cardinality(Above(f, v)) \in Nat
  BY BaysCount DEF AtLeast, Above
<1> DEFINE enough == {b \in InPool : Cardinality(AtLeast(f, f[b])) >= k}
           count == [b \in InPool |-> Cardinality(AtLeast(f, f[b]))]
<1>2. enough # {}
  <2>1. PICK b \in InPool : \A c \in InPool : f[b] <= f[c]
    BY <1>0, LeastIs
  <2>2. AtLeast(f, f[b]) = InPool
    BY <1>0, <2>1 DEF AtLeast
  <2>3. b \in enough
    BY <1>0, <2>2
  <2> QED
    BY <2>3
<1>3. PICK b \in enough : \A c \in enough : count[b] <= count[c]
  <2>1. \A c \in enough : count[c] \in Nat
    BY <1>1
  <2> HIDE DEF enough, count
  <2> QED
    BY <1>2, <2>1, LeastIs
<1>4. Cardinality(Above(f, f[b])) < k
  <2> SUFFICES ASSUME Cardinality(Above(f, f[b])) >= k PROVE FALSE
    BY <1>1
  <2>1. Above(f, f[b]) # {} /\ Above(f, f[b]) \subseteq InPool
    BY <1>1, FS_EmptySet
  <2>2. PICK c \in Above(f, f[b]) : \A x \in Above(f, f[b]) : f[c] <= f[x]
    <3>1. \A x \in Above(f, f[b]) : f[x] \in Nat
      BY <1>0, <2>1
    <3> QED
      BY <2>1, <3>1, LeastIs
  <2>3. c \in InPool /\ b \in InPool /\ f[c] > f[b] /\ f[b] \in Nat /\ f[c] \in Nat
    BY <1>0, <2>2 DEF Above
  <2>4. AtLeast(f, f[c]) = Above(f, f[b])
    BY <1>0, <2>2, <2>3 DEF AtLeast, Above
  <2>5. c \in enough
    BY <2>3, <2>4
  <2>6. Above(f, f[b]) \subseteq AtLeast(f, f[b]) /\ b \in AtLeast(f, f[b]) /\ b \notin Above(f, f[b])
    BY <1>0, <2>3 DEF AtLeast, Above
  <2>7. Cardinality(Above(f, f[b])) < Cardinality(AtLeast(f, f[b]))
    BY <1>1, <2>6, BaysCount
  <2>8. count[b] <= count[c] /\ count[b] = Cardinality(AtLeast(f, f[b])) /\ count[c] = Cardinality(Above(f, f[b]))
    BY <1>3, <2>3, <2>4, <2>5
  <2> QED
    BY <1>1, <2>7, <2>8
<1>5. PICK v : v = Nth(k, f)
  OBVIOUS
<1>6. v \in {f[c] : c \in InPool} /\ Cardinality(AtLeast(f, v)) >= k /\ Cardinality(Above(f, v)) < k
  <2>1. ~(Cardinality(InPool) < k)
    BY <1>0
  <2>2. \E w \in {f[c] : c \in InPool} : Cardinality(AtLeast(f, w)) >= k /\ Cardinality(Above(f, w)) < k
    BY <1>3, <1>4
  <2>3. v = CHOOSE w \in {f[c] : c \in InPool} : Cardinality(AtLeast(f, w)) >= k /\ Cardinality(Above(f, w)) < k
    BY <1>5, <2>1 DEF Nth, AtLeast, Above
  <2> QED
    BY <2>2, <2>3, Zenon
<1> QED
  BY <1>5, <1>6
\* So many disks have room where the k-th largest is not zero.
LEMMA RoomIs ==
  ASSUME NEW f \in [Bays -> Nat], NEW k \in Nat \ {0}
  PROVE  /\ Nth(k, f) \in Nat /\ Cardinality(WithRoom(f)) \in Nat
         /\ Nth(k, f) >= 1 <=> Cardinality(WithRoom(f)) >= k
<1>0. WithRoom(f) \subseteq InPool /\ Cardinality(WithRoom(f)) \in Nat /\ Cardinality(InPool) \in Nat
      /\ Cardinality(WithRoom(f)) <= Cardinality(InPool)
  BY BaysCount DEF WithRoom
<1>1. CASE Cardinality(InPool) < k
  BY <1>0, <1>1 DEF Nth
<1>2. CASE k <= Cardinality(InPool)
  <2>1. PICK b \in InPool : /\ Nth(k, f) = f[b]
                            /\ Cardinality(AtLeast(f, f[b])) >= k /\ Cardinality(Above(f, f[b])) < k
    BY <1>2, NthIs
  <2>2. f[b] \in Nat
    BY DEF InPool
  <2>3. CASE f[b] = 0
    <3>1. Above(f, f[b]) = WithRoom(f)
      BY <2>3 DEF Above, WithRoom
    <3> QED
      BY <1>0, <2>1, <2>2, <2>3, <3>1
  <2>4. CASE f[b] >= 1
    <3>1. \A c \in InPool : f[c] \in Nat
      BY DEF InPool
    <3>2. AtLeast(f, f[b]) \subseteq WithRoom(f)
      BY <2>2, <2>4, <3>1 DEF AtLeast, WithRoom
    <3>3. Cardinality(AtLeast(f, f[b])) <= Cardinality(WithRoom(f)) /\ Cardinality(AtLeast(f, f[b])) \in Nat
      BY <1>0, <3>2, BaysCount
    <3> QED
      BY <1>0, <2>1, <2>2, <2>4, <3>3
  <2> QED
    BY <2>2, <2>3, <2>4
<1> QED
  BY <1>0, <1>1, <1>2

\* A pool has a disk, and the margin counts its disks.
LEMMA MarginIs ==
  ASSUME CapacityTypeOK, InPool # {}
  PROVE  StuckIsAnnounced
<1>0. free \in [Bays -> Nat] /\ layout \in {"single", "raid1", "raid1c3", "raid10"}
  BY CapacityAssumption DEF CapacityTypeOK
<1>1. PICK n : n = Cardinality(WithRoom(free))
  OBVIOUS
<1>2. PICK m : m = EffectiveUnallocated(layout, free)
  OBVIOUS
<1>3. n \in Nat /\ (MarginState = IF m < 1 THEN "critical" ELSE "ok")
  BY <1>0, <1>1, <1>2, RoomIs DEF MarginState
<1>4. CASE layout = "raid1"
  <2>1. m = Nth(2, free) /\ Stripes(layout, free) = IF n < 2 THEN 0 ELSE 2
    BY <1>1, <1>2, <1>4 DEF EffectiveUnallocated, Stripes, ProfileCopies
  <2>2. m \in Nat /\ (m >= 1 <=> n >= 2)
    BY <1>0, <1>1, <2>1, RoomIs
  <2> QED
    BY <1>3, <2>1, <2>2 DEF StuckIsAnnounced, CanAllocate
<1>5. CASE layout = "raid1c3"
  <2>1. m = Nth(3, free) /\ Stripes(layout, free) = IF n < 3 THEN 0 ELSE 3
    BY <1>1, <1>2, <1>5 DEF EffectiveUnallocated, Stripes, ProfileCopies
  <2>2. m \in Nat /\ (m >= 1 <=> n >= 3)
    BY <1>0, <1>1, <2>1, RoomIs
  <2> QED
    BY <1>3, <2>1, <2>2 DEF StuckIsAnnounced, CanAllocate
<1>6. CASE layout = "raid10"
  <2>1. m = Nth(4, free) /\ Stripes(layout, free) = IF n < 4 THEN 0 ELSE n - (n % 2)
    BY <1>1, <1>2, <1>6 DEF EffectiveUnallocated, Stripes
  <2>2. m \in Nat /\ (m >= 1 <=> n >= 4)
    BY <1>0, <1>1, <2>1, RoomIs
  <2>3. n >= 4 => n - (n % 2) > 0
    BY <1>3
  <2>4. ~CanAllocate => n < 4
    BY <1>3, <2>1, <2>3 DEF CanAllocate
  <2> QED
    BY <1>3, <1>6, <2>2, <2>4 DEF StuckIsAnnounced
<1>7. CASE layout = "single"
  <2>1. PICK k : k = Cardinality(InPool)
    OBVIOUS
  <2>2. k \in Nat \ {0}
    BY <2>1, BaysCount, FS_EmptySet
  <2>3. m = Nth(k, free) /\ Stripes(layout, free) = IF n < 1 THEN 0 ELSE 1
    BY <1>1, <1>2, <1>7, <2>1 DEF EffectiveUnallocated, Stripes, ProfileCopies
  <2>4. m \in Nat /\ (m >= 1 <=> n >= k)
    BY <1>0, <1>1, <2>2, <2>3, RoomIs
  <2>5. ~CanAllocate => n < 1
    BY <1>3, <2>3 DEF CanAllocate
  <2> QED
    BY <1>3, <1>7, <2>2, <2>4, <2>5 DEF StuckIsAnnounced
<1> QED
  BY <1>0, <1>4, <1>5, <1>6, <1>7

-----------------------------------------------------------------------------
(* Sums over finite sets, as the folds of the library choose them.  What    *)
(* holds of a sum follows from a least set for which it would not.          *)

AnyOf(s) == CHOOSE x \in s : TRUE
SumsTo(g, f, D) == g = [s \in D |-> IF s = {} THEN 0 ELSE f[AnyOf(s)] + g[s \ {AnyOf(s)}]]
SumOver(f, S) == CHOOSE g : SumsTo(g, f, SUBSET S)
SumOf(f, S) == SumOver(f, S)[S]

LEMMA AnyIs == ASSUME NEW s, s # {} PROVE AnyOf(s) \in s
BY DEF AnyOf
\* A set without some element is smaller.
LEMMA SetLess ==
  ASSUME NEW S, IsFiniteSet(S), NEW s \in SUBSET S
  PROVE  /\ IsFiniteSet(s) /\ Cardinality(s) \in Nat /\ Cardinality(s) <= Cardinality(S)
         /\ Cardinality(s) = 0 <=> s = {}
         /\ \A x \in s : Cardinality(s \ {x}) = Cardinality(s) - 1 /\ Cardinality(s \ {x}) < Cardinality(s)
                         /\ Cardinality(s) > 0 /\ s \ {x} \in SUBSET S /\ Cardinality(s \ {x}) \in Nat
<1>1. IsFiniteSet(s) /\ Cardinality(s) \in Nat /\ Cardinality(s) <= Cardinality(S) /\ (Cardinality(s) = 0 <=> s = {})
  BY FS_Subset, FS_CardinalityType, FS_EmptySet
<1>2. ASSUME NEW x \in s PROVE Cardinality(s \ {x}) = Cardinality(s) - 1 /\ Cardinality(s \ {x}) \in Nat
  <2>1. Cardinality(s \ {x}) = IF x \in s THEN Cardinality(s) - 1 ELSE Cardinality(s)
    BY <1>1, FS_RemoveElement
  <2>2. IsFiniteSet(s \ {x})
    BY <1>1, FS_RemoveElement
  <2> QED
    BY <2>1, <2>2, FS_CardinalityType
<1> QED
  BY <1>1, <1>2
\* Of finite sets, one is least.
LEMMA LeastSet ==
  ASSUME NEW S, IsFiniteSet(S), NEW bad, bad \subseteq SUBSET S, bad # {}
  PROVE  \E s \in bad : \A t \in bad : Cardinality(s) <= Cardinality(t)
<1> DEFINE count == [s \in bad |-> Cardinality(s)]
<1>1. \A s \in bad : count[s] \in Nat /\ count[s] = Cardinality(s)
  BY SetLess
<1> HIDE DEF count
<1>2. PICK s \in bad : \A t \in bad : count[s] <= count[t]
  BY <1>1, LeastIs
<1> QED
  BY <1>1, <1>2
LEMMA SumExists ==
  ASSUME NEW S, IsFiniteSet(S), NEW f
  PROVE  \E g : SumsTo(g, f, SUBSET S)
<1> DEFINE Upto(n) == {s \in SUBSET S : Cardinality(s) <= n}
           none == {n \in Nat : ~\E g : SumsTo(g, f, Upto(n))}
<1>1. ASSUME none # {} PROVE FALSE
  <2>1. PICK n \in none : \A m \in none : n <= m
    <3>1. none \in SUBSET Nat
      OBVIOUS
    <3> HIDE DEF none
    <3> QED
      BY <1>1, <3>1, LeastNat
  <2>2. n \in Nat /\ ~\E g : SumsTo(g, f, Upto(n))
    OBVIOUS
  <2>3. CASE n = 0
    <3>1. \A s \in Upto(n) : s = {}
      BY <2>3, SetLess
    <3>2. PICK g : g = [s \in Upto(n) |-> 0]
      OBVIOUS
    <3>3. SumsTo(g, f, Upto(n))
      BY <3>1, <3>2 DEF SumsTo
    <3> QED
      BY <2>2, <3>3
  <2>4. CASE n # 0
    <3>1. n - 1 \in Nat /\ n - 1 \notin none
      <4>1. PICK p \in Nat : p = n - 1
        BY <2>2, <2>4
      <4>2. ~(n <= p)
        BY <2>2, <4>1
      <4>3. p \notin none
        BY <2>1, <4>2
      <4> QED
        BY <4>1, <4>3
    <3>2. PICK g : SumsTo(g, f, Upto(n - 1))
      BY <3>1
    <3>3. PICK h : h = [s \in Upto(n) |-> IF s = {} THEN 0 ELSE f[AnyOf(s)] + g[s \ {AnyOf(s)}]]
      OBVIOUS
    <3>4. ASSUME NEW s \in Upto(n), s # {} PROVE g[s \ {AnyOf(s)}] = h[s \ {AnyOf(s)}]
      <4>1. PICK t : t = s \ {AnyOf(s)}
        OBVIOUS
      <4>2. Cardinality(t) = Cardinality(s) - 1 /\ Cardinality(s) \in Nat /\ t \in SUBSET S /\ Cardinality(s) <= n
        BY <3>4, <4>1, AnyIs, SetLess
      <4>3. t \in Upto(n - 1) /\ t \in Upto(n)
        BY <2>2, <4>2
      <4>4. g[t] = IF t = {} THEN 0 ELSE f[AnyOf(t)] + g[t \ {AnyOf(t)}]
        BY <3>2, <4>3 DEF SumsTo
      <4>5. h[t] = IF t = {} THEN 0 ELSE f[AnyOf(t)] + g[t \ {AnyOf(t)}]
        BY <3>3, <4>3
      <4> QED
        BY <4>1, <4>4, <4>5
    <3> HIDE DEF Upto
    <3>5. SumsTo(h, f, Upto(n))
      <4>1. \A s \in Upto(n) : (IF s = {} THEN 0 ELSE f[AnyOf(s)] + g[s \ {AnyOf(s)}])
                                = (IF s = {} THEN 0 ELSE f[AnyOf(s)] + h[s \ {AnyOf(s)}])
        BY <3>4
      <4>2. h = [s \in Upto(n) |-> IF s = {} THEN 0 ELSE f[AnyOf(s)] + h[s \ {AnyOf(s)}]]
        BY <3>3, <4>1
      <4> QED
        BY <4>2 DEF SumsTo
    <3> QED
      BY <2>2, <3>5
  <2> QED
    BY <2>3, <2>4
<1>2. Cardinality(S) \in Nat /\ Cardinality(S) \notin none
  BY <1>1, FS_CardinalityType
<1>3. PICK g : SumsTo(g, f, Upto(Cardinality(S)))
  BY <1>2
<1>4. Upto(Cardinality(S)) = SUBSET S
  BY SetLess
<1> QED
  BY <1>3, <1>4
LEMMA SumsAgree ==
  ASSUME NEW C, NEW D, NEW f, NEW e, NEW g, SumsTo(g, f, C), NEW h, SumsTo(h, e, D),
         NEW t, IsFiniteSet(t), SUBSET t \subseteq C, SUBSET t \subseteq D, \A x \in t : f[x] = e[x]
  PROVE  g[t] = h[t]
<1> DEFINE bad == {u \in SUBSET t : g[u] # h[u]}
<1>1. ASSUME bad # {} PROVE FALSE
  <2>1. PICK u \in bad : \A v \in bad : Cardinality(u) <= Cardinality(v)
    <3>1. bad \subseteq SUBSET t
      OBVIOUS
    <3> HIDE DEF bad
    <3> QED
      BY <1>1, <3>1, LeastSet
  <2>2. u \in SUBSET t /\ g[u] # h[u] /\ u \in C /\ u \in D
    OBVIOUS
  <2>3. /\ g[u] = (IF u = {} THEN 0 ELSE f[AnyOf(u)] + g[u \ {AnyOf(u)}])
        /\ h[u] = (IF u = {} THEN 0 ELSE e[AnyOf(u)] + h[u \ {AnyOf(u)}])
    BY <2>2 DEF SumsTo
  <2>4. u # {}
    BY <2>2, <2>3
  <2>5. PICK v : v = u \ {AnyOf(u)}
    OBVIOUS
  <2>6. v \in SUBSET t /\ Cardinality(v) < Cardinality(u) /\ Cardinality(v) \in Nat /\ Cardinality(u) \in Nat
    BY <2>2, <2>4, <2>5, AnyIs, SetLess
  <2>7. v \notin bad
    BY <2>1, <2>6
  <2>8. g[v] = h[v]
    BY <2>6, <2>7
  <2>9. f[AnyOf(u)] = e[AnyOf(u)]
    BY <2>2, <2>4, AnyIs
  <2> QED
    BY <2>2, <2>3, <2>4, <2>5, <2>8, <2>9
<1> QED
  BY <1>1
LEMMA SumIs ==
  ASSUME NEW S, IsFiniteSet(S), NEW f, NEW g, NEW D, SumsTo(g, f, SUBSET D), S \subseteq D
  PROVE  SumOf(f, S) = g[S]
<1>1. PICK h : h = SumOver(f, S)
  OBVIOUS
<1>2. SumsTo(h, f, SUBSET S)
  BY <1>1, SumExists DEF SumOver
<1>3. SUBSET S \subseteq SUBSET D /\ SUBSET S \subseteq SUBSET S /\ \A x \in S : f[x] = f[x]
  OBVIOUS
<1>4. g[S] = h[S]
  BY <1>2, <1>3, SumsAgree
<1> QED
  BY <1>1, <1>4 DEF SumOf
LEMMA SumStep ==
  ASSUME NEW S, IsFiniteSet(S), NEW f
  PROVE  /\ S = {} => SumOf(f, S) = 0
         /\ S # {} => AnyOf(S) \in S /\ SumOf(f, S) = f[AnyOf(S)] + SumOf(f, S \ {AnyOf(S)})
<1>1. PICK g : SumsTo(g, f, SUBSET S)
  BY SumExists
<1>2. g[S] = IF S = {} THEN 0 ELSE f[AnyOf(S)] + g[S \ {AnyOf(S)}]
  BY <1>1 DEF SumsTo
<1>3. SumOf(f, S) = g[S]
  BY <1>1, SumIs
<1>4. IsFiniteSet(S \ {AnyOf(S)}) /\ S \ {AnyOf(S)} \subseteq S
  BY FS_Subset
<1>5. SumOf(f, S \ {AnyOf(S)}) = g[S \ {AnyOf(S)}]
  BY <1>1, <1>4, SumIs
<1> QED
  BY <1>2, <1>3, <1>5, AnyIs
LEMMA SumSame ==
  ASSUME NEW S, IsFiniteSet(S), NEW f, NEW e, \A x \in S : f[x] = e[x]
  PROVE  SumOf(f, S) = SumOf(e, S)
<1>1. PICK g, h : SumsTo(g, f, SUBSET S) /\ SumsTo(h, e, SUBSET S)
  BY SumExists
<1>2. SumOf(f, S) = g[S] /\ SumOf(e, S) = h[S]
  BY <1>1, SumIs
<1>3. g[S] = h[S]
  <2>1. SUBSET S \subseteq SUBSET S
    OBVIOUS
  <2> QED
    BY <1>1, <2>1, SumsAgree
<1> QED
  BY <1>2, <1>3
LEMMA SumNat ==
  ASSUME NEW S, IsFiniteSet(S), NEW f, \A x \in S : f[x] \in Nat
  PROVE  SumOf(f, S) \in Nat
<1> DEFINE bad == {t \in SUBSET S : SumOf(f, t) \notin Nat}
<1>1. ASSUME bad # {} PROVE FALSE
  <2>1. PICK t \in bad : \A u \in bad : Cardinality(t) <= Cardinality(u)
    <3>1. bad \subseteq SUBSET S
      OBVIOUS
    <3> HIDE DEF bad
    <3> QED
      BY <1>1, <3>1, LeastSet
  <2>2. t \in SUBSET S /\ SumOf(f, t) \notin Nat /\ IsFiniteSet(t)
    BY SetLess
  <2>3. t # {} /\ AnyOf(t) \in t /\ SumOf(f, t) = f[AnyOf(t)] + SumOf(f, t \ {AnyOf(t)})
    <3>1. t = {} => SumOf(f, t) = 0
      BY <2>2, SumStep
    <3>2. t # {}
      BY <2>2, <3>1
    <3> QED
      BY <2>2, <3>2, SumStep
  <2>4. PICK u : u = t \ {AnyOf(t)}
    OBVIOUS
  <2>5. u \in SUBSET S /\ Cardinality(u) < Cardinality(t) /\ Cardinality(u) \in Nat /\ Cardinality(t) \in Nat
    BY <2>2, <2>3, <2>4, SetLess
  <2>6. SumOf(f, u) \in Nat
    BY <2>1, <2>5
  <2>7. f[AnyOf(t)] \in Nat
    BY <2>2, <2>3
  <2> QED
    BY <2>2, <2>3, <2>4, <2>6, <2>7
<1> QED
  BY <1>1
\* It does not matter which element is taken first.
LEMMA SumTakes ==
  ASSUME NEW S, IsFiniteSet(S), NEW f, \A x \in S : f[x] \in Nat, NEW y \in S
  PROVE  SumOf(f, S) = f[y] + SumOf(f, S \ {y}) /\ SumOf(f, S \ {y}) \in Nat /\ IsFiniteSet(S \ {y})
<1> DEFINE bad == {t \in SUBSET S : \E x \in t : SumOf(f, t) # f[x] + SumOf(f, t \ {x})}
<1>1. ASSUME bad # {} PROVE FALSE
  <2>1. PICK t \in bad : \A u \in bad : Cardinality(t) <= Cardinality(u)
    <3>1. bad \subseteq SUBSET S
      OBVIOUS
    <3> HIDE DEF bad
    <3> QED
      BY <1>1, <3>1, LeastSet
  <2>2. PICK x \in t : t \in SUBSET S /\ IsFiniteSet(t) /\ SumOf(f, t) # f[x] + SumOf(f, t \ {x})
    BY SetLess
  <2>3. PICK a : a = AnyOf(t)
    OBVIOUS
  <2>4. a \in t /\ SumOf(f, t) = f[a] + SumOf(f, t \ {a}) /\ a # x
    BY <2>2, <2>3, SumStep
  <2>5. ASSUME NEW z \in t, NEW w \in t \ {z} PROVE SumOf(f, t \ {z}) = f[w] + SumOf(f, (t \ {z}) \ {w})
    <3>1. PICK u : u = t \ {z}
      OBVIOUS
    <3>2. u \in SUBSET S /\ Cardinality(u) < Cardinality(t) /\ Cardinality(u) \in Nat /\ Cardinality(t) \in Nat
      BY <2>2, <3>1, SetLess
    <3>3. u \notin bad
      BY <2>1, <3>2
    <3> QED
      BY <3>1, <3>2, <3>3
  <2>6. SumOf(f, t \ {a}) = f[x] + SumOf(f, (t \ {a}) \ {x}) /\ SumOf(f, t \ {x}) = f[a] + SumOf(f, (t \ {x}) \ {a})
    BY <2>2, <2>4, <2>5
  <2>7. (t \ {a}) \ {x} = (t \ {x}) \ {a}
    OBVIOUS
  <2>8. PICK n : n = SumOf(f, (t \ {a}) \ {x})
    OBVIOUS
  <2>9. n \in Nat /\ f[a] \in Nat /\ f[x] \in Nat
    <3>1. PICK v : v = (t \ {a}) \ {x}
      OBVIOUS
    <3>2. IsFiniteSet(v) /\ \A z \in v : f[z] \in Nat
      BY <2>2, <3>1, FS_Subset
    <3>3. SumOf(f, v) \in Nat
      BY <3>2, SumNat
    <3> QED
      BY <2>2, <2>4, <2>8, <3>1, <3>3
  <2>10. SumOf(f, t) = f[a] + (f[x] + n) /\ SumOf(f, t \ {x}) = f[a] + n
    BY <2>4, <2>6, <2>7, <2>8
  <2>11. f[a] + (f[x] + n) = f[x] + (f[a] + n)
    BY <2>9
  <2> QED
    BY <2>2, <2>10, <2>11
<1>2. SumOf(f, S) = f[y] + SumOf(f, S \ {y})
  <2>1. S \in SUBSET S /\ S \notin bad
    BY <1>1
  <2> QED
    BY <2>1
<1>3. IsFiniteSet(S \ {y}) /\ \A x \in S \ {y} : f[x] \in Nat
  BY FS_Subset
<1> QED
  BY <1>2, <1>3, SumNat
LEMMA SumAdds ==
  ASSUME NEW S, IsFiniteSet(S), NEW f, NEW y, y \notin S, \A x \in S \cup {y} : f[x] \in Nat
  PROVE  SumOf(f, S \cup {y}) = f[y] + SumOf(f, S) /\ SumOf(f, S) \in Nat
<1>1. PICK T : T = S \cup {y}
  OBVIOUS
<1>2. IsFiniteSet(T) /\ (\A x \in T : f[x] \in Nat) /\ y \in T /\ T \ {y} = S
  BY <1>1, FS_AddElement
<1>3. SumOf(f, T) = f[y] + SumOf(f, T \ {y}) /\ SumOf(f, T \ {y}) \in Nat
  BY <1>2, SumTakes
<1> QED
  BY <1>1, <1>2, <1>3
LEMMA SumParts ==
  ASSUME NEW S, IsFiniteSet(S), NEW f, \A x \in S : f[x] \in Nat, NEW gone \in SUBSET S
  PROVE  SumOf(f, S \ gone) + SumOf(f, gone) = SumOf(f, S)
<1> DEFINE bad == {t \in SUBSET S : SumOf(f, S \ t) + SumOf(f, t) # SumOf(f, S)}
<1>1. ASSUME bad # {} PROVE FALSE
  <2>1. PICK t \in bad : \A u \in bad : Cardinality(t) <= Cardinality(u)
    <3>1. bad \subseteq SUBSET S
      OBVIOUS
    <3> HIDE DEF bad
    <3> QED
      BY <1>1, <3>1, LeastSet
  <2>2. t \in SUBSET S /\ SumOf(f, S \ t) + SumOf(f, t) # SumOf(f, S) /\ IsFiniteSet(t)
    BY SetLess
  <2>3. t # {}
    <3>1. SUFFICES ASSUME t = {} PROVE FALSE
      OBVIOUS
    <3>2. SumOf(f, t) = 0 /\ S \ t = S
      BY <2>2, <3>1, SumStep
    <3>3. PICK n \in Nat : n = SumOf(f, S)
      BY SumNat
    <3>4. SumOf(f, S \ t) = n /\ n + 0 = n
      BY <3>2, <3>3
    <3> QED
      BY <2>2, <3>2, <3>3, <3>4
  <2>4. PICK y \in t : TRUE
    BY <2>3
  <2>5. PICK u, v, w : u = t \ {y} /\ v = S \ u /\ w = S \ t
    OBVIOUS
  <2>6. u \in SUBSET S /\ Cardinality(u) < Cardinality(t) /\ Cardinality(u) \in Nat /\ Cardinality(t) \in Nat
    BY <2>2, <2>4, <2>5, SetLess
  <2>7. SumOf(f, v) + SumOf(f, u) = SumOf(f, S)
    BY <2>1, <2>5, <2>6
  <2>8. SumOf(f, t) = f[y] + SumOf(f, u) /\ SumOf(f, u) \in Nat
    <3>1. \A x \in t : f[x] \in Nat
      BY <2>2
    <3> QED
      BY <2>2, <2>4, <2>5, <3>1, SumTakes
  <2>9. SumOf(f, v) = f[y] + SumOf(f, w) /\ SumOf(f, w) \in Nat
    <3>1. y \in v /\ v \ {y} = w /\ IsFiniteSet(v) /\ \A x \in v : f[x] \in Nat
      BY <2>2, <2>4, <2>5, FS_Subset
    <3>2. SumOf(f, v) = f[y] + SumOf(f, v \ {y}) /\ SumOf(f, v \ {y}) \in Nat
      BY <3>1, SumTakes
    <3> QED
      BY <3>1, <3>2
  <2>10. f[y] \in Nat
    BY <2>2, <2>4
  <2>11. PICK a \in Nat, b \in Nat, c \in Nat : a = SumOf(f, u) /\ b = SumOf(f, w) /\ c = f[y]
    BY <2>8, <2>9, <2>10
  <2>12. (c + b) + a = b + (c + a)
    OBVIOUS
  <2> QED
    BY <2>2, <2>5, <2>7, <2>8, <2>9, <2>11, <2>12
<1> QED
  BY <1>1
LEMMA SumPlus ==
  ASSUME NEW S, IsFiniteSet(S), NEW f, NEW g, NEW h,
         \A x \in S : f[x] \in Nat /\ g[x] \in Nat /\ h[x] = f[x] + g[x]
  PROVE  SumOf(h, S) = SumOf(f, S) + SumOf(g, S)
<1> DEFINE bad == {t \in SUBSET S : SumOf(h, t) # SumOf(f, t) + SumOf(g, t)}
<1>1. ASSUME bad # {} PROVE FALSE
  <2>1. PICK t \in bad : \A u \in bad : Cardinality(t) <= Cardinality(u)
    <3>1. bad \subseteq SUBSET S
      OBVIOUS
    <3> HIDE DEF bad
    <3> QED
      BY <1>1, <3>1, LeastSet
  <2>2. t \in SUBSET S /\ SumOf(h, t) # SumOf(f, t) + SumOf(g, t) /\ IsFiniteSet(t)
    BY SetLess
  <2>3. t # {}
    <3>1. t = {} => SumOf(f, t) = 0 /\ SumOf(g, t) = 0 /\ SumOf(h, t) = 0
      BY <2>2, SumStep
    <3> QED
      BY <2>2, <3>1
  <2>4. PICK y \in t : TRUE
    BY <2>3
  <2>5. PICK u : u = t \ {y}
    OBVIOUS
  <2>6. u \in SUBSET S /\ Cardinality(u) < Cardinality(t) /\ Cardinality(u) \in Nat /\ Cardinality(t) \in Nat
    BY <2>2, <2>4, <2>5, SetLess
  <2>7. SumOf(h, u) = SumOf(f, u) + SumOf(g, u)
    BY <2>1, <2>6
  <2>8. \A x \in t : f[x] \in Nat /\ g[x] \in Nat /\ h[x] \in Nat
    BY <2>2
  <2>9. /\ SumOf(f, t) = f[y] + SumOf(f, u) /\ SumOf(f, u) \in Nat
        /\ SumOf(g, t) = g[y] + SumOf(g, u) /\ SumOf(g, u) \in Nat
        /\ SumOf(h, t) = h[y] + SumOf(h, u)
    BY <2>2, <2>4, <2>5, <2>8, SumTakes
  <2>10. f[y] \in Nat /\ g[y] \in Nat /\ h[y] = f[y] + g[y]
    BY <2>2, <2>4
  <2>11. PICK a \in Nat, b \in Nat, c \in Nat, d \in Nat : a = SumOf(f, u) /\ b = SumOf(g, u) /\ c = f[y] /\ d = g[y]
    BY <2>9, <2>10
  <2>12. (c + d) + (a + b) = (c + a) + (d + b)
    OBVIOUS
  <2> QED
    BY <2>2, <2>7, <2>9, <2>10, <2>11, <2>12
<1>2. S \in SUBSET S /\ S \notin bad
  BY <1>1
<1> QED
  BY <1>2
LEMMA SumLess ==
  ASSUME NEW S, IsFiniteSet(S), NEW f, NEW h, \A x \in S : f[x] \in Nat /\ h[x] \in Nat /\ f[x] <= h[x]
  PROVE  SumOf(f, S) <= SumOf(h, S) /\ SumOf(f, S) \in Nat /\ SumOf(h, S) \in Nat
<1>1. PICK g : g = [x \in S |-> h[x] - f[x]]
  OBVIOUS
<1>2. \A x \in S : g[x] \in Nat /\ h[x] = f[x] + g[x]
  BY <1>1
<1>3. SumOf(h, S) = SumOf(f, S) + SumOf(g, S)
  BY <1>2, SumPlus
<1>4. SumOf(f, S) \in Nat /\ SumOf(g, S) \in Nat /\ SumOf(h, S) \in Nat
  BY <1>2, SumNat
<1>5. PICK a \in Nat, b \in Nat : a = SumOf(f, S) /\ b = SumOf(g, S)
  BY <1>4
<1> QED
  BY <1>3, <1>4, <1>5
\* A function that is n on some and 0 on the others.
LEMMA SumTimes ==
  ASSUME NEW S, IsFiniteSet(S), NEW B \in SUBSET S, NEW n \in Nat, NEW f,
         \A x \in S : f[x] = IF x \in B THEN n ELSE 0
  PROVE  SumOf(f, S) = Cardinality(B) * n /\ Cardinality(B) \in Nat
<1> DEFINE bad == {t \in SUBSET S : SumOf(f, t) # Cardinality(t \cap B) * n}
<1>0. \A x \in S : f[x] \in Nat
  OBVIOUS
<1>1. ASSUME bad # {} PROVE FALSE
  <2>1. PICK t \in bad : \A u \in bad : Cardinality(t) <= Cardinality(u)
    <3>1. bad \subseteq SUBSET S
      OBVIOUS
    <3> HIDE DEF bad
    <3> QED
      BY <1>1, <3>1, LeastSet
  <2>2. t \in SUBSET S /\ SumOf(f, t) # Cardinality(t \cap B) * n /\ IsFiniteSet(t)
    BY SetLess
  <2>3. t # {}
    <3>1. SUFFICES ASSUME t = {} PROVE FALSE
      OBVIOUS
    <3>2. SumOf(f, t) = 0 /\ Cardinality(t \cap B) = 0 /\ 0 * n = 0
      <4>1. t \cap B = {}
        BY <3>1
      <4> QED
        BY <2>2, <3>1, <4>1, SumStep, FS_EmptySet
    <3> QED
      BY <2>2, <3>2
  <2>4. PICK y \in t : TRUE
    BY <2>3
  <2>5. PICK u : u = t \ {y}
    OBVIOUS
  <2>6. u \in SUBSET S /\ Cardinality(u) < Cardinality(t) /\ Cardinality(u) \in Nat /\ Cardinality(t) \in Nat
    BY <2>2, <2>4, <2>5, SetLess
  <2>7. SumOf(f, u) = Cardinality(u \cap B) * n
    BY <2>1, <2>6
  <2>8. SumOf(f, t) = f[y] + SumOf(f, u)
    BY <1>0, <2>2, <2>4, <2>5, SumTakes
  <2>9. IsFiniteSet(t \cap B) /\ Cardinality(t \cap B) \in Nat /\ Cardinality(u \cap B) \in Nat
    <3>1. IsFiniteSet(t \cap B) /\ IsFiniteSet(u \cap B)
      BY <2>2, <2>5, FS_Subset
    <3> QED
      BY <3>1, FS_CardinalityType
  <2>10. CASE y \in B
    <3>1. y \in t \cap B /\ u \cap B = (t \cap B) \ {y}
      BY <2>4, <2>5, <2>10
    <3>2. Cardinality(u \cap B) = Cardinality(t \cap B) - 1
      <4>1. PICK C : C = t \cap B
        OBVIOUS
      <4>2. IsFiniteSet(C) /\ y \in C /\ u \cap B = C \ {y}
        BY <2>9, <3>1, <4>1
      <4>3. Cardinality(C \ {y}) = IF y \in C THEN Cardinality(C) - 1 ELSE Cardinality(C)
        BY <4>2, FS_RemoveElement
      <4>4. Cardinality(C \ {y}) = Cardinality(C) - 1
        BY <4>2, <4>3
      <4> QED
        BY <4>1, <4>2, <4>4
    <3>3. f[y] = n
      BY <2>2, <2>4, <2>10
    <3>4. PICK a \in Nat : a = Cardinality(u \cap B)
      BY <2>9
    <3>5. Cardinality(t \cap B) = a + 1
      BY <2>9, <3>2, <3>4
    <3>6. (a + 1) * n = n + a * n
      OBVIOUS
    <3> QED
      BY <2>2, <2>7, <2>8, <3>3, <3>4, <3>5, <3>6
  <2>11. CASE y \notin B
    <3>1. u \cap B = t \cap B
      BY <2>5, <2>11
    <3>2. f[y] = 0
      BY <2>2, <2>4, <2>11
    <3>3. PICK a \in Nat : a = Cardinality(u \cap B) * n
      BY <2>9
    <3>4. 0 + a = a
      OBVIOUS
    <3> QED
      BY <2>2, <2>7, <2>8, <3>1, <3>2, <3>3, <3>4
  <2> QED
    BY <2>10, <2>11
<1>2. S \in SUBSET S /\ S \notin bad /\ S \cap B = B
  BY <1>1
<1>3. Cardinality(B) \in Nat
  BY FS_Subset, FS_CardinalityType
<1> QED
  BY <1>2, <1>3

-----------------------------------------------------------------------------
(* The bisection: so many chunks fit, and one more does not.                *)

Cut(s, n) == [b \in DOMAIN s |-> IF s[b] < n THEN s[b] ELSE n]
Top(p, s) == Total(s) \div ProfileCopies(p)
Spans(p, s) == (0..Top(p, s)) \X (0..Top(p, s))
MidOf(i) == i[1] + (i[2] - i[1] + 1) \div 2
Upper(i) == <<MidOf(i), i[2]>>
Lower(i) == <<i[1], MidOf(i) - 1>>
FindsTo(g, p, s, D) ==
  g = [i \in D |-> IF i[1] >= i[2] THEN i[1] ELSE IF Fits(p, s, MidOf(i)) THEN g[Upper(i)] ELSE g[Lower(i)]]
LEMMA BisectIs ==
  ASSUME NEW p, NEW s
  PROVE  Bisect(p, s) = (CHOOSE g : FindsTo(g, p, s, Spans(p, s)))[<<0, Top(p, s)>>]
BY DEF Bisect, Top, Spans, FindsTo, MidOf, Upper, Lower
LEMMA TotalIs == ASSUME NEW f PROVE Total(f) = SumOf(f, DOMAIN f)
BY DEF Total, FoldFunction, FoldFunctionOnSet, MapThenFoldSet, AnyOf, SumOf, SumOver, SumsTo
LEMMA CopiesAre == ASSUME NEW p PROVE ProfileCopies(p) \in {1, 2, 3}
BY DEF ProfileCopies
LEMMA FitsIs ==
  ASSUME NEW p, NEW D, NEW s \in [D -> Nat], NEW n
  PROVE  Fits(p, s, n) <=> SumOf(Cut(s, n), D) >= ProfileCopies(p) * n
<1>1. PICK f : f = Cut(s, n)
  OBVIOUS
<1>2. DOMAIN f = D
  BY <1>1 DEF Cut
<1>3. Total(f) = SumOf(f, D)
  BY <1>2, TotalIs
<1> QED
  BY <1>1, <1>3 DEF Fits, Cut
LEMMA CutIs ==
  ASSUME NEW D, IsFiniteSet(D), NEW s \in [D -> Nat], NEW n \in Nat
  PROVE  /\ \A b \in D : Cut(s, n)[b] = (IF s[b] < n THEN s[b] ELSE n) /\ Cut(s, n)[b] \in Nat
         /\ SumOf(Cut(s, n), D) \in Nat
<1>1. \A b \in D : Cut(s, n)[b] = (IF s[b] < n THEN s[b] ELSE n) /\ Cut(s, n)[b] \in Nat
  BY DEF Cut
<1>2. PICK f : f = Cut(s, n)
  OBVIOUS
<1> QED
  BY <1>1, <1>2, SumNat
LEMMA FitsLess ==
  ASSUME NEW p, NEW D, IsFiniteSet(D), NEW s \in [D -> Nat], NEW n \in Nat, Fits(p, s, n + 1)
  PROVE  Fits(p, s, n)
<1>1. PICK c \in {1, 2, 3} : c = ProfileCopies(p)
  BY CopiesAre
<1>2. PICK f, h : f = Cut(s, n) /\ h = Cut(s, n + 1)
  OBVIOUS
<1>3. PICK K \in SUBSET D : K = {b \in D : s[b] > n}
  OBVIOUS
<1>4. PICK e, t : e = [b \in D |-> IF b \in K THEN 1 ELSE 0] /\ t = [b \in D |-> IF b \in K THEN n ELSE 0]
  OBVIOUS
<1>5. \A b \in D : /\ f[b] = (IF s[b] < n THEN s[b] ELSE n) /\ h[b] = (IF s[b] < n + 1 THEN s[b] ELSE n + 1)
                   /\ s[b] \in Nat /\ f[b] \in Nat /\ h[b] \in Nat
  <2>1. n + 1 \in Nat
    OBVIOUS
  <2> QED
    BY <1>2, <2>1, CutIs
<1>6. \A b \in D : e[b] \in Nat /\ h[b] = f[b] + e[b]
  BY <1>3, <1>4, <1>5
<1>7. \A b \in D : t[b] \in Nat /\ t[b] <= f[b]
  BY <1>3, <1>4, <1>5
<1>8. SumOf(h, D) = SumOf(f, D) + SumOf(e, D)
  BY <1>5, <1>6, SumPlus
<1>9. PICK k \in Nat : k = Cardinality(K)
  BY FS_Subset, FS_CardinalityType
<1>10. SumOf(e, D) = k * 1
  <2>1. 1 \in Nat /\ \A b \in D : e[b] = IF b \in K THEN 1 ELSE 0
    BY <1>4
  <2> QED
    BY <1>9, <2>1, SumTimes
<1>11. SumOf(t, D) = k * n
  <2>1. \A b \in D : t[b] = IF b \in K THEN n ELSE 0
    BY <1>4
  <2> QED
    BY <1>9, <2>1, SumTimes
<1>12. SumOf(t, D) <= SumOf(f, D) /\ SumOf(f, D) \in Nat
  BY <1>5, <1>7, SumLess
<1>13. PICK x \in Nat : x = SumOf(f, D)
  BY <1>12
<1>14. x + k >= c * (n + 1) /\ k * n <= x
  <2>1. x + k * 1 >= c * (n + 1)
    BY <1>1, <1>2, <1>8, <1>10, <1>13, FitsIs
  <2> QED
    BY <1>11, <1>12, <1>13, <2>1
<1>15. x >= c * n
  <2>1. c * (n + 1) = c * n + c /\ c * n \in Nat
    BY <1>1
  <2>2. CASE k < c
    BY <1>14, <2>1, <2>2
  <2>3. CASE k >= c
    <3>1. PICK j \in Nat : k = c + j
      BY <2>3
    <3>2. k * n = c * n + j * n /\ j * n \in Nat
      BY <3>1
    <3> QED
      BY <1>14, <2>1, <3>2
  <2> QED
    BY <2>2, <2>3
<1> QED
  BY <1>1, <1>2, <1>13, <1>15, FitsIs
LEMMA FitsDown ==
  ASSUME NEW p, NEW D, IsFiniteSet(D), NEW s \in [D -> Nat], NEW n \in Nat, NEW j \in Nat, Fits(p, s, n + j)
  PROVE  Fits(p, s, n)
<1> DEFINE bad == {k \in Nat : Fits(p, s, n + k)}
<1>1. PICK k \in bad : \A m \in bad : k <= m
  <2>1. bad \in SUBSET Nat /\ bad # {}
    OBVIOUS
  <2> HIDE DEF bad
  <2> QED
    BY <2>1, LeastNat
<1>2. k \in Nat /\ Fits(p, s, n + k)
  OBVIOUS
<1>3. CASE k = 0
  BY <1>2, <1>3
<1>4. CASE k # 0
  <2>1. PICK m \in Nat : k = m + 1
    BY <1>2, <1>4
  <2>2. n + m \in Nat /\ n + k = (n + m) + 1
    BY <2>1
  <2>3. Fits(p, s, n + m)
    BY <1>2, <2>2, FitsLess
  <2>4. k <= m
    BY <1>1, <2>3
  <2> QED
    BY <2>1, <2>4
<1> QED
  BY <1>3, <1>4
LEMMA HalvesAre ==
  ASSUME NEW p, NEW s, Top(p, s) \in Nat, NEW i \in Spans(p, s), ~(i[1] >= i[2])
  PROVE  /\ Upper(i) \in Spans(p, s) /\ Upper(i)[1] = MidOf(i) /\ Upper(i)[2] = i[2]
         /\ Lower(i) \in Spans(p, s) /\ Lower(i)[1] = i[1] /\ Lower(i)[2] = MidOf(i) - 1
         /\ i[1] < MidOf(i) /\ MidOf(i) <= i[2] /\ MidOf(i) \in Nat
<1>1. PICK a, b, t : a = i[1] /\ b = i[2] /\ t = Top(p, s)
  OBVIOUS
<1>2. a \in Nat /\ b \in Nat /\ t \in Nat /\ a < b /\ b <= t
  BY <1>1 DEF Spans
<1>3. PICK m : m = MidOf(i)
  OBVIOUS
<1>4. m = a + (b - a + 1) \div 2
  BY <1>1, <1>3 DEF MidOf
<1>5. m \in Nat /\ a < m /\ m <= b
  BY <1>2, <1>4
<1>6. m \in 0..t /\ b \in 0..t /\ a \in 0..t /\ m - 1 \in 0..t
  BY <1>2, <1>5
<1> QED
  BY <1>1, <1>3, <1>5, <1>6 DEF Upper, Lower, Spans
LEMMA FindsExists ==
  ASSUME NEW p, NEW s, Top(p, s) \in Nat
  PROVE  \E g : FindsTo(g, p, s, Spans(p, s))
<1> DEFINE Upto(n) == {i \in Spans(p, s) : i[2] - i[1] <= n}
           none == {n \in Nat : ~\E g : FindsTo(g, p, s, Upto(n))}
<1>0. \A i \in Spans(p, s) : i[1] \in Nat /\ i[2] \in Nat /\ i[2] - i[1] <= Top(p, s)
  BY DEF Spans
<1>1. ASSUME none # {} PROVE FALSE
  <2>1. PICK n \in none : \A m \in none : n <= m
    <3>1. none \in SUBSET Nat
      OBVIOUS
    <3> HIDE DEF none
    <3> QED
      BY <1>1, <3>1, LeastNat
  <2>2. n \in Nat /\ ~\E g : FindsTo(g, p, s, Upto(n))
    OBVIOUS
  <2>3. CASE n = 0
    <3>1. \A i \in Upto(n) : i[1] >= i[2]
      BY <1>0, <2>3
    <3>2. PICK g : g = [i \in Upto(n) |-> i[1]]
      OBVIOUS
    <3> HIDE DEF Upto
    <3>3. FindsTo(g, p, s, Upto(n))
      BY <3>1, <3>2 DEF FindsTo
    <3> QED
      BY <2>2, <3>3
  <2>4. CASE n # 0
    <3>1. PICK m \in Nat : n = m + 1
      BY <2>2, <2>4
    <3>2. m \notin none
      BY <2>1, <3>1
    <3>3. PICK g : FindsTo(g, p, s, Upto(m))
      BY <3>2
    <3>4. PICK h : h = [i \in Upto(n) |-> IF i[1] >= i[2] THEN i[1]
                                          ELSE IF Fits(p, s, MidOf(i)) THEN g[Upper(i)] ELSE g[Lower(i)]]
      OBVIOUS
    <3>5. ASSUME NEW i \in Upto(n), ~(i[1] >= i[2])
          PROVE  Upper(i) \in Upto(m) /\ Lower(i) \in Upto(m)
      <4>1. i \in Spans(p, s) /\ i[2] - i[1] <= n /\ i[1] \in Nat /\ i[2] \in Nat
        BY <1>0
      <4>2. /\ Upper(i) \in Spans(p, s) /\ Upper(i)[1] = MidOf(i) /\ Upper(i)[2] = i[2]
            /\ Lower(i) \in Spans(p, s) /\ Lower(i)[1] = i[1] /\ Lower(i)[2] = MidOf(i) - 1
            /\ i[1] < MidOf(i) /\ MidOf(i) <= i[2] /\ MidOf(i) \in Nat
        BY <3>5, <4>1, HalvesAre
      <4>3. i[2] - MidOf(i) <= m /\ (MidOf(i) - 1) - i[1] <= m
        BY <3>1, <4>1, <4>2
      <4> QED
        BY <4>2, <4>3
    <3>6. ASSUME NEW j \in Upto(m) PROVE g[j] = h[j]
      <4>1. j \in Upto(n)
        BY <1>0, <3>1
      <4>2. h[j] = IF j[1] >= j[2] THEN j[1] ELSE IF Fits(p, s, MidOf(j)) THEN g[Upper(j)] ELSE g[Lower(j)]
        BY <3>4, <4>1
      <4> HIDE DEF Upto
      <4>3. g[j] = IF j[1] >= j[2] THEN j[1] ELSE IF Fits(p, s, MidOf(j)) THEN g[Upper(j)] ELSE g[Lower(j)]
        BY <3>3 DEF FindsTo
      <4> QED
        BY <4>2, <4>3
    <3> HIDE DEF Upto
    <3>7. FindsTo(h, p, s, Upto(n))
      <4>1. \A i \in Upto(n) :
              (IF i[1] >= i[2] THEN i[1] ELSE IF Fits(p, s, MidOf(i)) THEN g[Upper(i)] ELSE g[Lower(i)])
              = (IF i[1] >= i[2] THEN i[1] ELSE IF Fits(p, s, MidOf(i)) THEN h[Upper(i)] ELSE h[Lower(i)])
        BY <3>5, <3>6
      <4>2. h = [i \in Upto(n) |-> IF i[1] >= i[2] THEN i[1]
                                   ELSE IF Fits(p, s, MidOf(i)) THEN h[Upper(i)] ELSE h[Lower(i)]]
        BY <3>4, <4>1
      <4> QED
        BY <4>2 DEF FindsTo
    <3> QED
      BY <2>2, <3>7
  <2> QED
    BY <2>3, <2>4
<1>2. Top(p, s) \notin none
  BY <1>1
<1>3. PICK g : FindsTo(g, p, s, Upto(Top(p, s)))
  BY <1>2
<1>4. Upto(Top(p, s)) = Spans(p, s)
  BY <1>0
<1> QED
  BY <1>3, <1>4
Reaches(p, s, n) == n \in 0..Top(p, s) /\ Fits(p, s, n) /\ (n = Top(p, s) \/ ~Fits(p, s, n + 1))
LEMMA BisectReaches ==
  ASSUME NEW p, NEW s, Top(p, s) \in Nat, Fits(p, s, 0)
  PROVE  Reaches(p, s, Bisect(p, s))
<1> DEFINE Between(i) == i[1] <= i[2] /\ Fits(p, s, i[1]) /\ (i[2] = Top(p, s) \/ ~Fits(p, s, i[2] + 1))
<1>1. PICK g : g = CHOOSE h : FindsTo(h, p, s, Spans(p, s))
  OBVIOUS
<1>2. FindsTo(g, p, s, Spans(p, s))
  BY <1>1, FindsExists
<1> DEFINE bad == {i \in Spans(p, s) : Between(i) /\ ~Reaches(p, s, g[i])}
<1>3. ASSUME bad # {} PROVE FALSE
  <2>1. PICK i \in bad : \A j \in bad : i[2] - i[1] <= j[2] - j[1]
    <3>1. PICK f : f = [i \in bad |-> i[2] - i[1]]
      OBVIOUS
    <3>2. \A i \in bad : f[i] = i[2] - i[1] /\ f[i] \in Nat
      BY <3>1 DEF Spans
    <3> HIDE DEF bad
    <3>3. PICK i \in bad : \A j \in bad : f[i] <= f[j]
      BY <1>3, <3>2, LeastIs
    <3> QED
      BY <3>2, <3>3
  <2>2. i \in Spans(p, s) /\ Between(i) /\ ~Reaches(p, s, g[i]) /\ i[1] \in 0..Top(p, s) /\ i[2] \in 0..Top(p, s)
    BY DEF Spans
  <2>3. g[i] = IF i[1] >= i[2] THEN i[1] ELSE IF Fits(p, s, MidOf(i)) THEN g[Upper(i)] ELSE g[Lower(i)]
    BY <1>2, <2>2 DEF FindsTo
  <2>4. CASE i[1] >= i[2]
    <3>1. i[1] = i[2] /\ g[i] = i[1]
      BY <2>2, <2>3, <2>4
    <3> QED
      BY <2>2, <3>1 DEF Reaches
  <2>5. CASE ~(i[1] >= i[2])
    <3>1. /\ Upper(i) \in Spans(p, s) /\ Upper(i)[1] = MidOf(i) /\ Upper(i)[2] = i[2]
          /\ Lower(i) \in Spans(p, s) /\ Lower(i)[1] = i[1] /\ Lower(i)[2] = MidOf(i) - 1
          /\ i[1] < MidOf(i) /\ MidOf(i) <= i[2] /\ MidOf(i) \in Nat
      BY <2>2, <2>5, HalvesAre
    <3>2. CASE Fits(p, s, MidOf(i))
      <4>1. PICK j : j = Upper(i)
        OBVIOUS
      <4>2. g[i] = g[j] /\ j \in Spans(p, s) /\ j[1] = MidOf(i) /\ j[2] = i[2]
        BY <2>3, <2>5, <3>1, <3>2, <4>1
      <4>3. Between(j)
        BY <2>2, <3>1, <3>2, <4>2
      <4>4. j \in bad
        BY <2>2, <4>2, <4>3
      <4>5. i[2] - i[1] <= j[2] - j[1]
        BY <2>1, <4>4
      <4> QED
        BY <2>2, <3>1, <4>2, <4>5
    <3>3. CASE ~Fits(p, s, MidOf(i))
      <4>1. PICK j : j = Lower(i)
        OBVIOUS
      <4>2. g[i] = g[j] /\ j \in Spans(p, s) /\ j[1] = i[1] /\ j[2] = MidOf(i) - 1
        BY <2>3, <2>5, <3>1, <3>3, <4>1
      <4>3. Between(j)
        <5>1. j[2] + 1 = MidOf(i) /\ j[1] <= j[2]
          BY <2>2, <3>1, <4>2
        <5> QED
          BY <2>2, <3>3, <4>2, <5>1
      <4>4. j \in bad
        BY <2>2, <4>2, <4>3
      <4>5. i[2] - i[1] <= j[2] - j[1]
        BY <2>1, <4>4
      <4> QED
        BY <2>2, <3>1, <4>2, <4>5
    <3> QED
      BY <3>2, <3>3
  <2> QED
    BY <2>4, <2>5
<1>4. PICK i : i = <<0, Top(p, s)>>
  OBVIOUS
<1>5. i \in Spans(p, s) /\ i[1] = 0 /\ i[2] = Top(p, s)
  BY <1>4 DEF Spans
<1>6. Between(i) /\ i \notin bad
  BY <1>3, <1>5
<1> HIDE DEF Between
<1>7. Reaches(p, s, g[i])
  BY <1>5, <1>6
<1> QED
  BY <1>1, <1>4, <1>7, BisectIs

-----------------------------------------------------------------------------
(* The allocator.  Each chunk takes as many pieces as it has copies, one of *)
(* a disk; and a disk that was passed over has as many others beside it     *)
(* that had no less room, so that none is left with much room alone.        *)

Used == [b \in Bays |-> size[b] - free[b]]
Beside(b) == {x \in InPool \ {b} : free[x] + 1 >= free[b]}
PlacedOK ==
  /\ Cardinality(InPool) >= ProfileCopies(layout)
  /\ \A b \in Bays : free[b] <= size[b] /\ Used[b] <= filled
  /\ SumOf(Used, Bays) = ProfileCopies(layout) * filled
  /\ ~uneven /\ layout # "raid10" =>
       \A b \in InPool : Used[b] = filled \/ Cardinality(Beside(b)) >= ProfileCopies(layout)

LEMMA PlacedTypes ==
  ASSUME CapacityTypeOK, PlacedOK
  PROVE  /\ InPool \subseteq Bays /\ IsFiniteSet(Bays) /\ IsFiniteSet(InPool) /\ size \in [Bays -> Nat] /\ filled \in Nat
         /\ \A b \in Bays : /\ size[b] \in Nat /\ free[b] \in Nat /\ Used[b] \in Nat /\ Used[b] = size[b] - free[b]
                            /\ free[b] <= size[b] /\ Used[b] <= filled
BY CapacityAssumption, FS_Subset DEF CapacityTypeOK, PlacedOK, Used, InPool
\* So many pieces for so many chunks of data.
LEMMA StripesAre ==
  ASSUME NEW p, NEW f, Cardinality(WithRoom(f)) \in Nat, Stripes(p, f) > 0
  PROVE  \E k \in Nat \ {0} : /\ Stripes(p, f) = ProfileCopies(p) * k /\ Stripes(p, f) \div ProfileCopies(p) = k
                              /\ p # "raid10" => k = 1
<1>1. PICK n \in Nat : n = Cardinality(WithRoom(f))
  OBVIOUS
<1>2. PICK c \in {1, 2, 3} : c = ProfileCopies(p)
  BY CopiesAre
<1>3. CASE p = "raid10"
  <2>1. c = 2 /\ Stripes(p, f) = IF n < 4 THEN 0 ELSE n - (n % 2)
    BY <1>1, <1>2, <1>3 DEF ProfileCopies, Stripes
  <2>2. n >= 4 /\ Stripes(p, f) = n - (n % 2)
    BY <2>1
  <2>3. PICK k : k = n \div 2
    OBVIOUS
  <2>4. k \in Nat \ {0} /\ n - (n % 2) = 2 * k /\ (2 * k) \div 2 = k
    BY <2>2, <2>3
  <2> QED
    BY <1>2, <1>3, <2>1, <2>2, <2>4
<1>4. CASE p # "raid10"
  <2>1. Stripes(p, f) = IF n < c THEN 0 ELSE c
    BY <1>1, <1>2, <1>4 DEF Stripes
  <2>2. Stripes(p, f) = c * 1 /\ c \div c = 1
    BY <2>1
  <2> QED
    BY <1>2, <2>1, <2>2
<1> QED
  BY <1>3, <1>4

LEMMA AllocatePlaces ==
  ASSUME CapacityTypeOK, CapacityTypeOK', PlacedOK, AllocateChunk
  PROVE  PlacedOK'
<1>0. /\ InPool \subseteq Bays /\ IsFiniteSet(Bays) /\ filled \in Nat
      /\ \A b \in Bays : /\ size[b] \in Nat /\ free[b] \in Nat /\ Used[b] \in Nat /\ Used[b] = size[b] - free[b]
                         /\ free[b] <= size[b] /\ Used[b] <= filled
  BY PlacedTypes
<1>1. PICK B \in Roomiest(Stripes(layout, free), free) :
        /\ free' = [b \in Bays |-> free[b] - (IF b \in B THEN 1 ELSE 0)]
        /\ filled' = filled + Cardinality(B) \div ProfileCopies(layout)
  BY DEF AllocateChunk
<1>2. UNCHANGED <<layout, size, uneven>> /\ InPool' = InPool /\ Stripes(layout, free) > 0
  BY DEF AllocateChunk, InPool, CanAllocate
<1>3. /\ B \subseteq WithRoom(free) /\ B \subseteq InPool /\ B \in SUBSET Bays /\ Cardinality(B) = Stripes(layout, free)
      /\ \A b \in B, x \in WithRoom(free) \ B : free[b] >= free[x]
  BY DEF Roomiest, WithRoom, InPool
<1>4. PICK c \in {1, 2, 3} : c = ProfileCopies(layout)
  BY CopiesAre
<1>5. PICK k \in Nat \ {0} : /\ Cardinality(B) = c * k /\ filled' = filled + k
                             /\ layout # "raid10" => k = 1
  <2>1. Cardinality(WithRoom(free)) \in Nat
    BY BaysCount DEF WithRoom
  <2>2. PICK k \in Nat \ {0} : /\ Stripes(layout, free) = ProfileCopies(layout) * k
                               /\ Stripes(layout, free) \div ProfileCopies(layout) = k
                               /\ layout # "raid10" => k = 1
    BY <1>2, <2>1, StripesAre
  <2> QED
    BY <1>1, <1>3, <1>4, <2>2
<1>6. PICK e : e = [b \in Bays |-> IF b \in B THEN 1 ELSE 0]
  OBVIOUS
<1>7. \A b \in Bays : /\ e[b] = (IF b \in B THEN 1 ELSE 0) /\ e[b] \in Nat /\ free'[b] = free[b] - e[b]
                      /\ Used'[b] = Used[b] + e[b] /\ (b \in B => free[b] > 0)
  <2>1. \A b \in Bays : e[b] = (IF b \in B THEN 1 ELSE 0) /\ e[b] \in Nat /\ free'[b] = free[b] - e[b]
    BY <1>1, <1>6
  <2>2. \A b \in Bays : Used'[b] = size[b] - free'[b]
    BY <1>2 DEF Used
  <2>3. \A b \in Bays : Used'[b] = Used[b] + e[b]
    BY <1>0, <2>1, <2>2
  <2> QED
    BY <1>3, <2>1, <2>3 DEF WithRoom
<1>8. SumOf(Used', Bays) = c * filled'
  <2>1. PICK f, h : f = Used /\ h = Used'
    OBVIOUS
  <2>2. SumOf(h, Bays) = SumOf(f, Bays) + SumOf(e, Bays)
    BY <1>0, <1>7, <2>1, SumPlus
  <2>3. SumOf(e, Bays) = Cardinality(B) * 1
    <3>1. 1 \in Nat /\ \A b \in Bays : e[b] = IF b \in B THEN 1 ELSE 0
      BY <1>7
    <3> QED
      BY <1>0, <1>3, <3>1, SumTimes
  <2>4. SumOf(f, Bays) = c * filled
    BY <1>4, <2>1 DEF PlacedOK
  <2>5. (c * k) * 1 = c * k /\ c * filled + c * k = c * (filled + k)
    BY <1>0
  <2> QED
    BY <1>5, <2>1, <2>2, <2>3, <2>4, <2>5
<1>9. \A b \in Bays : free'[b] <= size'[b] /\ Used'[b] <= filled'
  <2>1. \A b \in Bays : free[b] - e[b] <= size[b] /\ Used[b] + e[b] <= filled + k
    BY <1>0, <1>7
  <2> QED
    BY <1>2, <1>5, <1>7, <2>1
<1>10. ASSUME ~uneven, layout # "raid10", NEW b \in InPool
       PROVE  Used'[b] = filled' \/ Cardinality(Beside(b)') >= c
  <2>1. k = 1 /\ Cardinality(B) = c /\ filled' = filled + 1 /\ b \in Bays
    BY <1>0, <1>4, <1>5, <1>10
  <2>2. PICK N : N = Beside(b)'
    OBVIOUS
  <2>3. N = {x \in InPool \ {b} : free'[x] + 1 >= free'[b]} /\ N \subseteq InPool
    BY <1>2, <2>2 DEF Beside
  <2>4. CASE b \in B
    <3>1. CASE Used[b] = filled
      BY <1>7, <2>1, <2>4, <3>1
    <3>2. CASE Used[b] # filled
      <4>1. Cardinality(Beside(b)) >= c
        BY <1>4, <1>10, <3>2 DEF PlacedOK
      <4>2. Beside(b) \subseteq N
        <5>1. ASSUME NEW x \in InPool \ {b}, free[x] + 1 >= free[b] PROVE free'[x] + 1 >= free'[b]
          <6>1. x \in Bays /\ free[x] \in Nat /\ free[b] \in Nat /\ e[x] \in {0, 1} /\ e[b] = 1
            BY <1>0, <1>7, <2>1, <2>4
          <6>2. free'[x] = free[x] - e[x] /\ free'[b] = free[b] - e[b]
            BY <1>7, <2>1, <6>1
          <6> QED
            BY <5>1, <6>1, <6>2
        <5> QED
          BY <2>3, <5>1 DEF Beside
      <4>3. Cardinality(Beside(b)) <= Cardinality(N) /\ Cardinality(Beside(b)) \in Nat /\ Cardinality(N) \in Nat
        BY <2>3, <4>2, BaysCount
      <4> QED
        BY <2>2, <4>1, <4>3
    <3> QED
      BY <3>1, <3>2
  <2>5. CASE b \notin B
    <3>1. B \subseteq N
      <4>1. ASSUME NEW x \in B PROVE free'[x] + 1 >= free'[b] /\ x # b
        <5>1. x \in Bays /\ free[x] \in Nat /\ free[b] \in Nat /\ e[x] = 1 /\ e[b] = 0
          BY <1>0, <1>3, <1>7, <2>1, <2>5
        <5>2. free[x] >= free[b]
          <6>1. CASE b \in WithRoom(free)
            BY <1>3, <2>5, <6>1
          <6>2. CASE b \notin WithRoom(free)
            BY <5>1, <6>2 DEF WithRoom
          <6> QED
            BY <6>1, <6>2
        <5>3. free'[x] = free[x] - e[x] /\ free'[b] = free[b] - e[b]
          BY <1>7, <2>1, <5>1
        <5> QED
          BY <2>5, <5>1, <5>2, <5>3
      <4> QED
        BY <1>3, <2>3, <4>1
    <3>2. Cardinality(B) <= Cardinality(N) /\ Cardinality(B) \in Nat /\ Cardinality(N) \in Nat
      BY <2>3, <3>1, BaysCount
    <3> QED
      BY <2>1, <2>2, <3>2
  <2> QED
    BY <2>4, <2>5
<1>11. /\ Cardinality(InPool') >= ProfileCopies(layout') /\ ProfileCopies(layout') = c
       /\ uneven' = uneven /\ layout' = layout
  BY <1>2, <1>4 DEF PlacedOK
<1> QED
  BY <1>2, <1>8, <1>9, <1>10, <1>11 DEF PlacedOK

\* A pool in which nothing is used.
LEMMA NothingAdds ==
  ASSUME NEW f, \A b \in Bays : f[b] = 0
  PROVE  SumOf(f, Bays) = 0
<1>1. PICK B : B = {}
  OBVIOUS
<1>2. B \in SUBSET Bays /\ Cardinality(B) = 0 /\ (\A b \in Bays : f[b] = IF b \in B THEN 0 ELSE 0)
  BY <1>1, FS_EmptySet
<1>3. SumOf(f, Bays) = Cardinality(B) * 0
  BY <1>2, CapacityAssumption, SumTimes
<1> QED
  BY <1>2, <1>3

LEMMA AddPlaces ==
  ASSUME CapacityTypeOK, CapacityTypeOK', PlacedOK, NEW b \in Bays, AddToPool(b)
  PROVE  PlacedOK'
<1>0. /\ InPool \subseteq Bays /\ IsFiniteSet(Bays) /\ IsFiniteSet(InPool) /\ filled \in Nat
      /\ \A x \in Bays : /\ size[x] \in Nat /\ free[x] \in Nat /\ Used[x] \in Nat /\ Used[x] = size[x] - free[x]
                         /\ free[x] <= size[x] /\ Used[x] <= filled
  BY PlacedTypes
<1>1. PICK s \in Sizes \ {0} : size' = [size EXCEPT ![b] = s] /\ free' = [free EXCEPT ![b] = s]
  BY DEF AddToPool
<1>2. size[b] = 0 /\ ~uneven /\ uneven' = (filled > 0) /\ UNCHANGED <<layout, filled>> /\ s \in Nat /\ s > 0
  BY CapacityAssumption DEF AddToPool
<1>3. \A x \in Bays : /\ size'[x] = (IF x = b THEN s ELSE size[x]) /\ free'[x] = (IF x = b THEN s ELSE free[x])
  BY <1>1 DEF CapacityTypeOK
<1>4. \A x \in Bays : Used'[x] = Used[x] /\ free'[x] <= size'[x]
  <2>1. \A x \in Bays : Used'[x] = size'[x] - free'[x]
    BY DEF Used
  <2>2. free[b] = 0
    BY <1>0, <1>2
  <2> QED
    BY <1>0, <1>2, <1>3, <2>1, <2>2
<1>5. SumOf(Used', Bays) = SumOf(Used, Bays)
  <2>1. PICK f, h : f = Used /\ h = Used'
    OBVIOUS
  <2> QED
    BY <1>0, <1>4, <2>1, SumSame
<1>6. InPool \subseteq InPool' /\ Cardinality(InPool') >= ProfileCopies(layout)
  <2>1. PICK P : P = InPool'
    OBVIOUS
  <2>2. P \subseteq Bays /\ InPool \subseteq P
    BY <1>2, <1>3, <2>1 DEF InPool
  <2>3. Cardinality(InPool) <= Cardinality(P) /\ Cardinality(InPool) \in Nat /\ Cardinality(P) \in Nat
    BY <1>0, <2>2, FS_Subset, FS_CardinalityType
  <2>4. PICK c \in {1, 2, 3} : c = ProfileCopies(layout)
    BY CopiesAre
  <2>5. Cardinality(InPool) >= c
    BY <2>4 DEF PlacedOK
  <2>6. Cardinality(P) >= c
    BY <2>3, <2>5
  <2> QED
    BY <2>1, <2>2, <2>4, <2>6
<1>7. ~uneven' => \A x \in InPool' : Used'[x] = filled'
  <2>1. \A x \in InPool' : x \in Bays
    BY DEF InPool
  <2>2. CASE filled = 0
    <3>1. \A x \in Bays : Used[x] = 0
      BY <1>0, <2>2
    <3> QED
      BY <1>2, <1>4, <2>1, <2>2, <3>1
  <2>3. CASE filled > 0
    BY <1>2, <2>3
  <2> QED
    BY <1>0, <2>2, <2>3
<1> QED
  BY <1>0, <1>2, <1>4, <1>5, <1>6, <1>7 DEF PlacedOK
LEMMA BalancePlaces ==
  ASSUME CapacityTypeOK, PlacedOK, BalanceAll
  PROVE  PlacedOK'
<1>1. free' = size /\ filled' = 0 /\ UNCHANGED <<layout, size>>
  BY DEF BalanceAll
<1>2. Cardinality(InPool') >= ProfileCopies(layout') /\ InPool' \subseteq Bays
  BY <1>1 DEF PlacedOK, InPool
<1>3. \A b \in Bays : Used'[b] = 0 /\ free'[b] <= size'[b] /\ Used'[b] <= filled'
  <2>1. \A b \in Bays : size[b] \in Nat /\ Used'[b] = size[b] - size[b]
    BY <1>1 DEF CapacityTypeOK, Used
  <2> QED
    BY <1>1, <2>1
<1>4. SumOf(Used', Bays) = 0
  <2>1. PICK f : f = Used'
    OBVIOUS
  <2> QED
    BY <1>3, <2>1, NothingAdds
<1>5. ProfileCopies(layout') * filled' = 0
  BY <1>1, CopiesAre
<1> QED
  BY <1>1, <1>2, <1>3, <1>4, <1>5 DEF PlacedOK
LEMMA PlacedStep ==
  ASSUME CapacityTypeOK, PlacedOK, [CapacityNext]_capacityVars
  PROVE  PlacedOK'
<1>0. CapacityTypeOK'
  BY CapacityStep
<1>1. CASE UNCHANGED capacityVars
  BY <1>1 DEF capacityVars, PlacedOK, InPool, Used, Beside
<1> QED
  BY <1>0, <1>1, AllocatePlaces, AddPlaces, BalancePlaces DEF CapacityNext
LEMMA PlacedStarts == ASSUME CapacityInit PROVE PlacedOK
<1>1. CapacityTypeOK /\ free = size /\ filled = 0 /\ Cardinality(InPool) >= ProfileCopies(layout)
  BY CapacityStarts DEF CapacityInit
<1>2. \A b \in Bays : Used[b] = 0 /\ free[b] <= size[b] /\ Used[b] <= filled
  <2>1. \A b \in Bays : size[b] \in Nat /\ Used[b] = size[b] - size[b]
    BY <1>1 DEF CapacityTypeOK, Used
  <2> QED
    BY <1>1, <2>1
<1>3. SumOf(Used, Bays) = 0
  <2>1. PICK f : f = Used
    OBVIOUS
  <2> QED
    BY <1>2, <2>1, NothingAdds
<1>4. InPool \subseteq Bays /\ ProfileCopies(layout) * filled = 0
  BY <1>1, CopiesAre DEF InPool
<1> QED
  BY <1>1, <1>2, <1>3, <1>4 DEF PlacedOK

\* Where nothing can be placed, no more of the data of each copy would fit either.
LEMMA NoMoreFits ==
  ASSUME CapacityTypeOK, PlacedOK, ~CanAllocate, ~uneven, layout # "raid10", NEW d \in Nat \ {0}
  PROVE  ~Fits(layout, size, filled + d)
<1>0. /\ InPool \subseteq Bays /\ IsFiniteSet(Bays) /\ size \in [Bays -> Nat] /\ filled \in Nat
      /\ \A b \in Bays : /\ size[b] \in Nat /\ free[b] \in Nat /\ Used[b] \in Nat /\ Used[b] = size[b] - free[b]
                         /\ free[b] <= size[b] /\ Used[b] <= filled
  BY PlacedTypes
<1>1. PICK c \in {1, 2, 3} : c = ProfileCopies(layout)
  BY CopiesAre
<1>2. PICK W : W = WithRoom(free)
  OBVIOUS
<1>3. PICK w \in Nat : w = Cardinality(W) /\ W \subseteq InPool /\ W \in SUBSET Bays
  BY <1>0, <1>2, BaysCount DEF WithRoom
<1>4. w < c
  BY <1>1, <1>2, <1>3 DEF CanAllocate, Stripes
<1>5. PICK n \in Nat : n = filled + d
  BY <1>0
<1>6. PICK t : t = Cut(size, n)
  OBVIOUS
<1>7. \A b \in Bays : t[b] = (IF size[b] < n THEN size[b] ELSE n) /\ t[b] \in Nat
  BY <1>0, <1>6, CutIs
<1>8. PICK e : e = [b \in Bays |-> IF b \in W THEN d ELSE 0]
  OBVIOUS
<1>9. \A b \in Bays : e[b] = (IF b \in W THEN d ELSE 0) /\ e[b] \in Nat
  BY <1>8
<1>10. PICK h : h = [b \in Bays |-> Used[b] + e[b]]
  OBVIOUS
<1>11. \A b \in Bays : h[b] = Used[b] + e[b] /\ h[b] \in Nat
  BY <1>0, <1>9, <1>10
<1>12. ASSUME NEW b \in Bays PROVE t[b] <= h[b]
  <2>1. /\ size[b] \in Nat /\ free[b] \in Nat /\ Used[b] \in Nat /\ Used[b] = size[b] - free[b] /\ free[b] <= size[b]
        /\ t[b] <= size[b] /\ t[b] <= n /\ t[b] \in Nat
    BY <1>0, <1>5, <1>7
  <2>2. CASE b \in W
    <3>1. h[b] = Used[b] + d
      BY <1>9, <1>11, <2>2
    <3>2. CASE Used[b] = filled
      BY <1>0, <1>5, <2>1, <3>1, <3>2
    <3>3. CASE Used[b] # filled
      <4>1. Cardinality(Beside(b)) >= c
        BY <1>1, <1>3, <2>2, <3>3 DEF PlacedOK
      <4>2. ASSUME free[b] >= 2 PROVE Beside(b) \subseteq W
        <5>1. ASSUME NEW x \in Beside(b) PROVE x \in InPool /\ free[x] > 0
          BY <1>0, <2>1, <4>2 DEF Beside
        <5> QED
          BY <1>2, <5>1 DEF WithRoom
      <4>3. ASSUME free[b] >= 2 PROVE FALSE
        <5>1. Cardinality(Beside(b)) <= w /\ Cardinality(Beside(b)) \in Nat
          BY <1>3, <4>2, <4>3, BaysCount
        <5> QED
          BY <1>4, <4>1, <5>1
      <4>4. free[b] <= 1
        BY <2>1, <4>3
      <4> QED
        BY <2>1, <3>1, <4>4
    <3> QED
      BY <3>2, <3>3
  <2>3. CASE b \notin W
    <3>1. h[b] = Used[b]
      BY <1>0, <1>9, <1>11, <2>3
    <3>2. free[b] = 0
      <4>1. CASE b \in InPool
        BY <1>2, <2>1, <2>3, <4>1 DEF WithRoom
      <4>2. CASE b \notin InPool
        <5>1. ~(size[b] > 0)
          BY <4>2 DEF InPool
        <5> QED
          BY <2>1, <5>1
      <4> QED
        BY <4>1, <4>2
    <3> QED
      BY <2>1, <3>1, <3>2
  <2> QED
    BY <2>2, <2>3
<1>13. SumOf(t, Bays) <= SumOf(h, Bays) /\ SumOf(t, Bays) \in Nat /\ SumOf(h, Bays) \in Nat
  BY <1>0, <1>7, <1>11, <1>12, SumLess
<1>14. SumOf(h, Bays) = c * filled + w * d
  <2>1. PICK f : f = Used
    OBVIOUS
  <2>2. SumOf(h, Bays) = SumOf(f, Bays) + SumOf(e, Bays)
    BY <1>0, <1>9, <1>11, <2>1, SumPlus
  <2>3. SumOf(e, Bays) = w * d
    BY <1>0, <1>3, <1>9, SumTimes
  <2>4. SumOf(f, Bays) = c * filled
    BY <1>1, <2>1 DEF PlacedOK
  <2> QED
    BY <2>2, <2>3, <2>4
<1>15. c * filled + w * d < c * n
  BY <1>0, <1>3, <1>4, <1>5
<1>16. ~(SumOf(t, Bays) >= c * n)
  <2>1. c * n \in Nat /\ c * filled + w * d \in Nat
    BY <1>0, <1>3, <1>5
  <2> QED
    BY <1>13, <1>14, <1>15, <2>1
<1> QED
  BY <1>0, <1>1, <1>5, <1>6, <1>16, FitsIs

\* The allocator never places more than is shown, and places as much.
LEMMA PlacedSays ==
  ASSUME CapacityTypeOK, PlacedOK
  PROVE  ShownIsPlaced
<1>0. /\ InPool \subseteq Bays /\ IsFiniteSet(Bays) /\ size \in [Bays -> Nat] /\ filled \in Nat /\ DOMAIN size = Bays
      /\ \A b \in Bays : /\ size[b] \in Nat /\ free[b] \in Nat /\ Used[b] \in Nat /\ Used[b] = size[b] - free[b]
                         /\ free[b] <= size[b] /\ Used[b] <= filled
  BY PlacedTypes
<1>1. PICK c \in {1, 2, 3} : c = ProfileCopies(layout)
  BY CopiesAre
<1>2. PICK f, s : f = Used /\ s = size
  OBVIOUS
<1>3. SumOf(f, Bays) = c * filled
  BY <1>1, <1>2 DEF PlacedOK
<1>4. PICK k \in Nat : k = Total(size) /\ k = SumOf(s, Bays) /\ c * filled <= k
  <2>1. \A b \in Bays : f[b] \in Nat /\ s[b] \in Nat /\ f[b] <= s[b]
    BY <1>0, <1>2
  <2>2. SumOf(f, Bays) <= SumOf(s, Bays) /\ SumOf(s, Bays) \in Nat
    BY <1>0, <2>1, SumLess
  <2>3. Total(size) = SumOf(s, Bays)
    BY <1>0, <1>2, TotalIs
  <2> QED
    BY <1>3, <2>2, <2>3
<1>5. CASE layout = "single"
  <2>1. c = 1 /\ UsableCapacity(layout, size) = k
    BY <1>1, <1>4, <1>5 DEF ProfileCopies, UsableCapacity
  <2>2. ASSUME ~CanAllocate PROVE k = filled
    <3>1. WithRoom(free) = {}
      <4>1. Cardinality(WithRoom(free)) \in Nat /\ IsFiniteSet(WithRoom(free))
        BY BaysCount DEF WithRoom
      <4>2. Cardinality(WithRoom(free)) < 1
        BY <1>1, <1>5, <2>1, <2>2 DEF CanAllocate, Stripes
      <4>3. Cardinality(WithRoom(free)) = 0
        BY <4>1, <4>2
      <4> QED
        BY <4>1, <4>3, FS_EmptySet
    <3>2. \A b \in Bays : f[b] = s[b]
      <4>1. ASSUME NEW b \in Bays PROVE free[b] = 0
        <5>1. ~(b \in InPool /\ free[b] > 0)
          BY <3>1 DEF WithRoom
        <5>2. b \in InPool \/ ~(size[b] > 0)
          BY DEF InPool
        <5> QED
          BY <1>0, <5>1, <5>2
      <4> QED
        BY <1>0, <1>2, <4>1
    <3>3. SumOf(f, Bays) = SumOf(s, Bays)
      BY <1>0, <3>2, SumSame
    <3> QED
      BY <1>0, <1>3, <1>4, <2>1, <3>3
  <2> QED
    BY <1>0, <1>4, <2>1, <2>2 DEF ShownIsPlaced
<1>6. CASE layout # "single"
  <2>1. PICK r : r = Bisect(layout, size)
    OBVIOUS
  <2>2. UsableCapacity(layout, size) = r
    <3>1. Cardinality(InPool) >= c /\ Cardinality(InPool) \in Nat
      BY <1>1, BaysCount DEF PlacedOK
    <3> QED
      BY <1>1, <1>6, <2>1, <3>1 DEF UsableCapacity
  <2>3. PICK top \in Nat : top = Top(layout, size) /\ filled <= top
    <3>1. k \div c \in Nat /\ filled <= k \div c
      BY <1>0, <1>4
    <3> QED
      BY <1>1, <1>4, <3>1 DEF Top
  <2>4. Fits(layout, size, 0)
    <3>1. SumOf(Cut(size, 0), Bays) \in Nat
      BY <1>0, CutIs
    <3>2. SumOf(Cut(size, 0), Bays) >= c * 0
      BY <3>1
    <3> QED
      BY <1>0, <1>1, <3>2, FitsIs
  <2>5. r \in 0..top /\ Fits(layout, size, r) /\ (r = top \/ ~Fits(layout, size, r + 1))
    BY <2>1, <2>3, <2>4, BisectReaches DEF Reaches
  <2>6. Fits(layout, size, filled)
    <3>1. PICK t : t = Cut(size, filled)
      OBVIOUS
    <3>2. \A b \in Bays : t[b] = (IF size[b] < filled THEN size[b] ELSE filled) /\ t[b] \in Nat
      BY <1>0, <3>1, CutIs
    <3>3. \A b \in Bays : f[b] \in Nat /\ t[b] \in Nat /\ f[b] <= t[b]
      BY <1>0, <1>2, <3>2
    <3>4. SumOf(f, Bays) <= SumOf(t, Bays)
      BY <1>0, <3>3, SumLess
    <3>5. SumOf(t, Bays) \in Nat
      BY <1>0, <3>2, SumNat
    <3>6. SumOf(t, Bays) >= c * filled
      BY <1>0, <1>3, <3>4, <3>5
    <3> QED
      BY <1>0, <1>1, <3>1, <3>6, FitsIs
  <2>7. filled <= r
    <3>1. SUFFICES ASSUME r < filled PROVE FALSE
      BY <1>0, <2>3, <2>5
    <3>2. PICK j \in Nat : filled = (r + 1) + j /\ r + 1 \in Nat
      <4>1. filled - (r + 1) \in Nat /\ filled = (r + 1) + (filled - (r + 1)) /\ r + 1 \in Nat
        BY <1>0, <2>3, <2>5, <3>1
      <4> QED
        BY <4>1
    <3>3. Fits(layout, size, r + 1)
      BY <1>0, <2>6, <3>2, FitsDown
    <3>4. r = top
      BY <2>5, <3>3
    <3> QED
      BY <1>0, <2>3, <3>1, <3>4
  <2>8. ASSUME ~CanAllocate, ~uneven, layout # "raid10" PROVE filled = r
    <3>1. SUFFICES ASSUME filled < r PROVE FALSE
      BY <1>0, <2>3, <2>5, <2>7
    <3>2. PICK d \in Nat \ {0} : r = filled + d
      <4>1. r - filled \in Nat \ {0} /\ r = filled + (r - filled)
        BY <1>0, <2>3, <2>5, <3>1
      <4> QED
        BY <4>1
    <3> QED
      BY <2>5, <2>8, <3>2, NoMoreFits
  <2> QED
    BY <2>2, <2>7, <2>8 DEF ShownIsPlaced
<1> QED
  BY <1>5, <1>6
-----------------------------------------------------------------------------
(* What is said of disks and of the pool, and how the pool is judged.  For  *)
(* each of what the monitors remember there are the words that fit it.      *)

Heard(t, words) == t \in unheard \/ told[t] \in words
FitsSmart(s) == IF s = "critical" THEN {"error"} ELSE IF s = "warning" THEN {"warning", "error"}
                ELSE IF s = "ok" THEN {"success", "none"} ELSE {"none"}
FitsHeat(s) == IF s = "high" THEN {"warning"} ELSE IF s = "normal" THEN {"success", "none"} ELSE {"none"}
FitsPool(s) == IF s = "none" THEN {"none"} ELSE IF s = "healthy" THEN {"success", "none"} ELSE {PoolWords(s)}
PoolHeard == Heard(<<"pool", 0>>, FitsPool(record))
DiskHeard(d) == Heard(<<"smart", d>>, FitsSmart(smart[d])) /\ Heard(<<"heat", d>>, FitsHeat(heatState[d]))
HeardOK == PoolHeard /\ \A d \in Drives : DiskHeard(d)

LEMMA TopicsAre ==
  /\ <<"pool", 0>> \in Topics /\ \A d \in Drives : <<"smart", d>> \in Topics /\ <<"heat", d>> \in Topics
  /\ \A d, e : /\ <<"smart", d>> # <<"heat", e>> /\ <<"pool", 0>> # <<"smart", d>> /\ <<"pool", 0>> # <<"heat", d>>
               /\ d # e => <<"smart", d>> # <<"smart", e>> /\ <<"heat", d>> # <<"heat", e>>
BY DEF Topics
\* A notification is of its words, unless it is lost; the others are as they were.
LEMMA AnnounceSays ==
  ASSUME NEW say, Announce(say), NEW t \in Topics
  PROVE  /\ t \in DOMAIN say => t \in unheard' \/ told'[t] = say[t]
         /\ t \notin DOMAIN say => told'[t] = told[t] /\ (t \in unheard' <=> t \in unheard)
<1>1. PICK L \in SUBSET DOMAIN say :
        /\ told' = [u \in Topics |-> IF u \in (DOMAIN say) \ L THEN say[u] ELSE told[u]]
        /\ unheard' = (unheard \ DOMAIN say) \cup L
  BY DEF Announce
<1> QED
  BY <1>1
LEMMA HeardSays == HeardOK => ToldIsKnown
<1>2. ASSUME PoolHeard, record # "none"
      PROVE  SaidOf(<<"pool", 0>>, PoolWords(record), record = "healthy")
  BY <1>2 DEF PoolHeard, Heard, FitsPool, SaidOf, PoolWords
<1>3. ASSUME NEW d \in Drives, DiskHeard(d)
      PROVE  /\ smart[d] = "critical" => SaidOf(<<"smart", d>>, "error", FALSE)
             /\ smart[d] = "warning" => SaidOf(<<"smart", d>>, "warning", FALSE) \/ told[<<"smart", d>>] = "error"
             /\ smart[d] = "ok" => SaidOf(<<"smart", d>>, "success", TRUE)
             /\ heatState[d] = "high" => SaidOf(<<"heat", d>>, "warning", FALSE)
             /\ heatState[d] = "normal" => SaidOf(<<"heat", d>>, "success", TRUE)
  BY <1>3 DEF DiskHeard, Heard, FitsSmart, FitsHeat, SaidOf
<1> QED
  BY <1>2, <1>3 DEF HeardOK, ToldIsKnown

LEMMA HeardStays ==
  ASSUME HeardOK, UNCHANGED <<record, smart, heatState, told, unheard>>
  PROVE  HeardOK'
BY DEF HeardOK, PoolHeard, DiskHeard, Heard
LEMMA AllUnheard == ASSUME unheard' = Topics PROVE HeardOK'
BY TopicsAre DEF HeardOK, PoolHeard, DiskHeard, Heard
\* The words of a change fit what there is now, and none are said where those of before still do.
LEMMA WordsFit ==
  /\ \A prev \in Conditions \cup {"none"}, now \in Conditions :
       IF SmartWords(prev, now) = "nothing" THEN FitsSmart(prev) \subseteq FitsSmart(now)
       ELSE SmartWords(prev, now) \in FitsSmart(now)
  /\ \A prev, now \in {"none", "normal", "high"} :
       prev # now /\ now # "none" =>
         IF HeatWords(prev, now) = "nothing" THEN FitsHeat(prev) \subseteq FitsHeat(now)
         ELSE HeatWords(prev, now) \in FitsHeat(now)
BY DEF SmartWords, HeatWords, FitsSmart, FitsHeat, Conditions
LEMMA CheckDiskHeard ==
  ASSUME HealthTypeOK, HeardOK, NEW d \in Drives, CheckDisk(d)
  PROVE  HeardOK'
<1>0. /\ smart \in [Drives -> Conditions \cup {"none"}] /\ heatState \in [Drives -> {"none", "normal", "high"}]
      /\ drive[d].cond \in Conditions /\ record' = record
  BY DEF HealthTypeOK, Drive, CheckDisk
<1>1. CASE UNCHANGED <<smart, hotCache, heatState, told, healthFaults, unheard>>
  BY <1>0, <1>1, HeardStays
<1>2. CASE ~(HasUnit(d) /\ drive[d].pulse = "asleep")
  <2>1. PICK status : status = SmartStatus(d)
    OBVIOUS
  <2>2. PICK warm : warm = IF smart[d] = "none" \/ ~Readable(d) THEN heatState[d] ELSE NextTempState(heatState[d], drive[d].heat)
    OBVIOUS
  <2>3. PICK words : words = [t \in {<<"smart", d>>, <<"heat", d>>} |->
                          IF t[1] = "smart" THEN SmartWords(smart[d], status)
                          ELSE IF warm = heatState[d] THEN "nothing" ELSE HeatWords(heatState[d], warm)]
    OBVIOUS
  <2>4. PICK say : say = [t \in {u \in DOMAIN words : words[u] # "nothing"} |-> words[t]]
    OBVIOUS
  <2>5. status \in Conditions /\ warm \in {"none", "normal", "high"} /\ (warm # heatState[d] => warm # "none")
    BY <1>0, <2>1, <2>2 DEF SmartStatus, NextTempState, Conditions
  <2>6. smart' = [smart EXCEPT ![d] = status] /\ heatState' = [heatState EXCEPT ![d] = warm] /\ Announce(say)
    BY <1>2, <2>1, <2>2, <2>3, <2>4, Zenon DEF CheckDisk
  <2>7. DOMAIN words = {<<"smart", d>>, <<"heat", d>>}
        /\ words[<<"smart", d>>] = SmartWords(smart[d], status)
        /\ words[<<"heat", d>>] = IF warm = heatState[d] THEN "nothing" ELSE HeatWords(heatState[d], warm)
    BY <2>3
  <2>8. DOMAIN say = {t \in {<<"smart", d>>, <<"heat", d>>} : words[t] # "nothing"} /\ \A t \in DOMAIN say : say[t] = words[t]
    BY <2>4, <2>7
  <2>9. \A t \in Topics : t \notin {<<"smart", d>>, <<"heat", d>>} => told'[t] = told[t] /\ (t \in unheard' <=> t \in unheard)
    BY <2>6, <2>8, AnnounceSays
  <2>10. PoolHeard'
    <3>1. <<"pool", 0>> \in Topics \ {<<"smart", d>>, <<"heat", d>>}
      BY TopicsAre
    <3> QED
      BY <1>0, <2>9, <3>1 DEF HeardOK, PoolHeard, Heard
  <2>11. ASSUME NEW e \in Drives \ {d} PROVE DiskHeard(e)'
    <3>1. <<"smart", e>> \in Topics \ {<<"smart", d>>, <<"heat", d>>} /\ <<"heat", e>> \in Topics \ {<<"smart", d>>, <<"heat", d>>}
      BY TopicsAre
    <3>2. smart'[e] = smart[e] /\ heatState'[e] = heatState[e]
      BY <1>0, <2>6
    <3>3. DiskHeard(e)
      BY DEF HeardOK
    <3> QED
      BY <2>9, <3>1, <3>2, <3>3 DEF DiskHeard, Heard
  <2>12. DiskHeard(d)'
    <3>1. smart'[d] = status /\ heatState'[d] = warm
      BY <1>0, <2>6
    <3>2. <<"smart", d>> \in Topics /\ <<"heat", d>> \in Topics
      BY TopicsAre
    <3>3. DiskHeard(d)
      BY DEF HeardOK
    <3>4. Heard(<<"smart", d>>, FitsSmart(smart[d]))'
      <4>1. PICK w : w = SmartWords(smart[d], status)
        OBVIOUS
      <4>2. IF w = "nothing" THEN FitsSmart(smart[d]) \subseteq FitsSmart(status) ELSE w \in FitsSmart(status)
        BY <1>0, <2>5, <4>1, WordsFit
      <4>3. CASE w = "nothing"
        <5>1. <<"smart", d>> \notin DOMAIN say
          BY <2>7, <2>8, <4>1, <4>3
        <5>2. told'[<<"smart", d>>] = told[<<"smart", d>>] /\ (<<"smart", d>> \in unheard' <=> <<"smart", d>> \in unheard)
          BY <2>6, <3>2, <5>1, AnnounceSays
        <5> QED
          BY <3>1, <3>3, <4>2, <4>3, <5>2 DEF DiskHeard, Heard
      <4>4. CASE w # "nothing"
        <5>1. <<"smart", d>> \in DOMAIN say /\ say[<<"smart", d>>] = w
          BY <2>7, <2>8, <4>1, <4>4
        <5>2. <<"smart", d>> \in unheard' \/ told'[<<"smart", d>>] = w
          BY <2>6, <3>2, <5>1, AnnounceSays
        <5> QED
          BY <3>1, <4>2, <4>4, <5>2 DEF Heard
      <4> QED
        BY <4>3, <4>4
    <3>5. Heard(<<"heat", d>>, FitsHeat(heatState[d]))'
      <4>1. PICK w : w = IF warm = heatState[d] THEN "nothing" ELSE HeatWords(heatState[d], warm)
        OBVIOUS
      <4>2. IF w = "nothing" THEN FitsHeat(heatState[d]) \subseteq FitsHeat(warm) ELSE w \in FitsHeat(warm)
        <5>1. CASE warm = heatState[d]
          BY <4>1, <5>1
        <5>2. CASE warm # heatState[d]
          BY <1>0, <2>5, <4>1, <5>2, WordsFit
        <5> QED
          BY <5>1, <5>2
      <4>3. CASE w = "nothing"
        <5>1. <<"heat", d>> \notin DOMAIN say
          BY <2>7, <2>8, <4>1, <4>3
        <5>2. told'[<<"heat", d>>] = told[<<"heat", d>>] /\ (<<"heat", d>> \in unheard' <=> <<"heat", d>> \in unheard)
          BY <2>6, <3>2, <5>1, AnnounceSays
        <5> QED
          BY <3>1, <3>3, <4>2, <4>3, <5>2 DEF DiskHeard, Heard
      <4>4. CASE w # "nothing"
        <5>1. <<"heat", d>> \in DOMAIN say /\ say[<<"heat", d>>] = w
          BY <2>7, <2>8, <4>1, <4>4
        <5>2. <<"heat", d>> \in unheard' \/ told'[<<"heat", d>>] = w
          BY <2>6, <3>2, <5>1, AnnounceSays
        <5> QED
          BY <3>1, <4>2, <4>4, <5>2 DEF Heard
      <4> QED
        BY <4>3, <4>4
    <3> QED
      BY <3>4, <3>5 DEF DiskHeard
  <2> QED
    BY <2>10, <2>11, <2>12 DEF HeardOK
<1> QED
  BY <1>1, <1>2 DEF CheckDisk

LEMMA CheckPoolHeard ==
  ASSUME HealthTypeOK, HeardOK, CheckPoolHealth
  PROVE  HeardOK'
<1>0. /\ UNCHANGED <<smart, heatState>> /\ record' = ComputePoolHealth /\ record \in Statuses
      /\ ComputePoolHealth \in Statuses \ {"none"}
  BY DEF CheckPoolHealth, OfDisks, HealthTypeOK, ComputePoolHealth, Statuses
<1>1. PICK now : now = ComputePoolHealth
  OBVIOUS
<1>2. CASE ShouldNotifyHealth(record, now)
  <2>1. PICK say : say = [t \in {<<"pool", 0>>} |-> PoolWords(now)]
    OBVIOUS
  <2>2. Announce(say)
    BY <1>1, <1>2, <2>1 DEF CheckPoolHealth
  <2>3. DOMAIN say = {<<"pool", 0>>} /\ say[<<"pool", 0>>] = PoolWords(now)
    BY <2>1
  <2>4. PoolHeard'
    <3>1. <<"pool", 0>> \in unheard' \/ told'[<<"pool", 0>>] = PoolWords(now)
      BY <2>2, <2>3, AnnounceSays, TopicsAre
    <3>2. PoolWords(now) \in FitsPool(now)
      BY <1>0, <1>1 DEF PoolWords, FitsPool, Statuses
    <3> QED
      BY <1>0, <1>1, <3>1, <3>2 DEF PoolHeard, Heard
  <2>5. ASSUME NEW d \in Drives PROVE DiskHeard(d)'
    <3>1. <<"smart", d>> \in Topics \ {<<"pool", 0>>} /\ <<"heat", d>> \in Topics \ {<<"pool", 0>>}
      BY TopicsAre
    <3>2. \A t \in Topics \ {<<"pool", 0>>} : told'[t] = told[t] /\ (t \in unheard' <=> t \in unheard)
      BY <2>2, <2>3, AnnounceSays
    <3>3. DiskHeard(d)
      BY DEF HeardOK
    <3> QED
      BY <1>0, <3>1, <3>2, <3>3 DEF DiskHeard, Heard
  <2> QED
    BY <2>4, <2>5 DEF HeardOK
<1>3. CASE ~ShouldNotifyHealth(record, now)
  <2>1. UNCHANGED <<told, healthFaults, unheard>>
    BY <1>1, <1>3 DEF CheckPoolHealth
  <2>2. FitsPool(record) \subseteq FitsPool(now)
    BY <1>3 DEF ShouldNotifyHealth, FitsPool
  <2>3. PoolHeard'
    BY <1>0, <1>1, <2>1, <2>2 DEF HeardOK, PoolHeard, Heard
  <2> QED
    BY <1>0, <2>1, <2>3 DEF HeardOK, DiskHeard, Heard
<1> QED
  BY <1>2, <1>3

LEMMA EndPassHeard ==
  ASSUME HealthTypeOK, HeardOK, EndPass
  PROVE  HeardOK'
<1>0. /\ UNCHANGED <<heatState, record, told>> /\ smart' = [d \in Drives |-> IF d \in present THEN smart[d] ELSE "none"]
      /\ unheard' = unheard \cup ({"smart"} \X {d \in Drives \ present : smart[d] # "none"})
  BY DEF EndPass
<1>1. \A t : t \in unheard => t \in unheard'
  BY <1>0
<1>2. ASSUME NEW d \in Drives PROVE DiskHeard(d)'
  <2>1. DiskHeard(d)
    BY DEF HeardOK
  <2>2. CASE smart'[d] = smart[d]
    BY <1>0, <1>1, <2>1, <2>2 DEF DiskHeard, Heard
  <2>3. CASE d \notin present /\ smart[d] # "none"
    <3>1. <<"smart", d>> \in unheard'
      BY <1>0, <2>3
    <3> QED
      BY <1>0, <1>1, <2>1, <3>1 DEF DiskHeard, Heard
  <2> QED
    BY <1>0, <2>2, <2>3
<1> QED
  BY <1>0, <1>1, <1>2 DEF HeardOK, PoolHeard, Heard

LEMMA HeardStep ==
  ASSUME HealthTypeOK, HeardOK, [HealthNext]_healthVars
  PROVE  HeardOK'
<1>1. CASE UNCHANGED healthVars
  BY <1>1, HeardStays DEF healthVars
<1>2. CASE NotifClear \/ RestartMonitors
  <2>1. unheard' = Topics
    BY <1>2, Zenon DEF NotifClear, RestartMonitors
  <2> QED
    BY <2>1, AllUnheard
<1>3. CASE StartPass
  BY <1>3, HeardStays DEF StartPass
<1>4. CASE MountChanges \/ ObserverFinds
  <2>1. UNCHANGED <<record, OfDisks, told, unheard>>
    BY <1>4, Zenon DEF MountChanges, ObserverFinds, HealthEvent
  <2> QED
    BY <2>1, HeardStays DEF OfDisks
<1>5. ASSUME NEW d \in Drives, Pull(d) \/ Insert(d) \/ DriveChanges(d) PROVE HeardOK'
  <2>1. UNCHANGED <<record, OfDisks, told, unheard>>
    BY <1>5, Zenon DEF Pull, Insert, DriveChanges, HealthEvent
  <2> QED
    BY <2>1, HeardStays DEF OfDisks
<1> QED
  BY <1>1, <1>2, <1>3, <1>4, <1>5, CheckDiskHeard, CheckPoolHeard, EndPassHeard DEF HealthNext
LEMMA HeardStarts == ASSUME HealthInit PROVE HeardOK
<1>1. /\ record = "none" /\ told = [t \in Topics |-> "none"] /\ smart = [d \in Drives |-> "none"]
      /\ heatState = [d \in Drives |-> "none"]
  BY DEF HealthInit
<1> QED
  BY <1>1, TopicsAre DEF HeardOK, PoolHeard, DiskHeard, Heard, FitsPool, FitsSmart, FitsHeat

\* Another disk under the name of one in a mounted pool is not of that pool: the kernel keeps
\* the name as long as the pool is mounted.
NamesOK == mount.on => \A d \in Drives : HasUnit(d) /\ drive[d].unit # d => d \notin mount.names
LEMMA NamesStep ==
  ASSUME HealthTypeOK, NamesOK, [HealthNext]_healthVars
  PROVE  NamesOK'
<1>0. drive \in [Drives -> Drive] /\ mount \in MountTypes /\ \A d \in Drives : drive[d] \in Drive
  BY DEF HealthTypeOK, MountTypes
<1>1. CASE UNCHANGED <<drive, mount>>
  BY <1>1 DEF NamesOK, HasUnit
<1>2. CASE MountChanges
  <2>1. drive' = drive
    BY <1>2, Zenon DEF MountChanges
  <2>2. CASE mount'.on => mount.on /\ mount'.names = mount.names
    BY <2>1, <2>2 DEF NamesOK, HasUnit
  <2>3. CASE mount' = [mount EXCEPT !.on = TRUE, !.names = {d \in Drives : drive[d].unit = d}]
    <3>1. PICK N \in SUBSET Drives : N = {d \in Drives : drive[d].unit = d}
      OBVIOUS
    <3>2. mount' = [mount EXCEPT !.on = TRUE, !.names = N]
      BY <2>3, <3>1
    <3>3. mount'.names = N
      BY <1>0, <3>2 DEF MountTypes
    <3> QED
      BY <2>1, <3>1, <3>3 DEF NamesOK, HasUnit
  <2>4. ASSUME NEW d \in Drives,
               mount' = [mount EXCEPT !.io = @ \cup {d}] \/ mount' = [mount EXCEPT !.csum = @ \cup {d}, !.clean = FALSE]
        PROVE  mount'.on => mount.on /\ mount'.names = mount.names
    BY <1>0, <2>4 DEF MountTypes
  <2>5. CASE \/ mount' = [mount EXCEPT !.clean = TRUE] \/ mount' = [mount EXCEPT !.ro = TRUE]
             \/ mount' = [mount EXCEPT !.on = FALSE, !.ro = FALSE]
    <3>1. mount'.on => mount.on /\ mount'.names = mount.names
      BY <1>0, <2>5 DEF MountTypes
    <3> QED
      BY <2>2, <3>1
  <2> QED
    BY <1>2, <2>2, <2>3, <2>4, <2>5, Zenon DEF MountChanges
<1>3. ASSUME NEW d \in Drives, Pull(d) PROVE NamesOK'
  <2>1. PICK r \in Drive : r = Absentee
    BY AbsenteeIs
  <2>2. mount' = mount /\ drive' = [drive EXCEPT ![d] = r] /\ r.unit = 0
    BY <1>3, <2>1 DEF Pull, Absentee
  <2>3. \A e \in Drives : drive'[e].unit \in {0, drive[e].unit}
    BY <1>0, <2>2
  <2> QED
    BY <2>2, <2>3 DEF NamesOK, HasUnit
<1>4. ASSUME NEW d \in Drives, Insert(d) PROVE NamesOK'
  <2>1. PICK u \in {d, 99}, c \in Conditions :
          drive' = [drive EXCEPT ![d] = [unit |-> u, cond |-> c, heat |-> 0, pulse |-> "awake"]]
    BY <1>4, Zenon DEF Insert
  <2>a. PICK r : r = [unit |-> u, cond |-> c, heat |-> 0, pulse |-> "awake"]
    OBVIOUS
  <2>2. mount' = mount /\ drive' = [drive EXCEPT ![d] = r] /\ (mount.on => d \notin mount.names)
    BY <1>4, <2>1, <2>a DEF Insert
  <2>3. \A e \in Drives \ {d} : drive'[e] = drive[e]
    BY <1>0, <2>2
  <2> QED
    BY <2>2, <2>3 DEF NamesOK, HasUnit
<1>5. ASSUME NEW d \in Drives, DriveChanges(d) PROVE NamesOK'
  <2>1. PICK r : r = drive[d]
    OBVIOUS
  <2>2. r \in Drive
    BY <1>0, <2>1
  <2>3. /\ \A h : [r EXCEPT !.heat = h].unit = r.unit /\ \A p : [r EXCEPT !.pulse = p].unit = r.unit
        /\ \A c : [r EXCEPT !.cond = c].unit = r.unit
    BY <2>2 DEF Drive
  <2>4. PICK n : n.unit = r.unit /\ drive' = [drive EXCEPT ![d] = n]
    <3> DEFINE Likewise == \E m : m.unit = r.unit /\ drive' = [drive EXCEPT ![d] = m]
    <3>1. ASSUME NEW h, drive' = [drive EXCEPT ![d].heat = h] PROVE Likewise
      <4>1. drive' = [drive EXCEPT ![d] = [r EXCEPT !.heat = h]]
        BY <2>1, <3>1
      <4> QED
        BY <2>3, <4>1
    <3>2. ASSUME NEW p, drive' = [drive EXCEPT ![d].pulse = p] PROVE Likewise
      <4>1. drive' = [drive EXCEPT ![d] = [r EXCEPT !.pulse = p]]
        BY <2>1, <3>2
      <4> QED
        BY <2>3, <4>1
    <3>3. ASSUME NEW c, drive' = [drive EXCEPT ![d].cond = c] PROVE Likewise
      <4>1. drive' = [drive EXCEPT ![d] = [r EXCEPT !.cond = c]]
        BY <2>1, <3>3
      <4> QED
        BY <2>3, <4>1
    <3> HIDE DEF Likewise
    <3>4. Likewise
      BY <1>5, <3>1, <3>2, <3>3, Zenon DEF DriveChanges
    <3> QED
      BY <3>4 DEF Likewise
  <2>5. mount' = mount /\ \A e \in Drives : drive'[e].unit = drive[e].unit
    BY <1>0, <1>5, <2>1, <2>4 DEF DriveChanges
  <2> QED
    BY <2>5 DEF NamesOK, HasUnit
<1>6. CASE RestartMonitors
  <2>1. ASSUME NEW d \in Drives, NEW u \in {0, 99},
               mount' = [mount EXCEPT !.names = {e \in Drives : drive'[e].unit = e},
                                      !.on = \E e \in Drives : drive'[e].unit = e, !.ro = FALSE]
        PROVE  NamesOK'
    <3>1. PICK b \in BOOLEAN : b = (\E e \in Drives : drive'[e].unit = e)
      BY Zenon
    <3>2. PICK N \in SUBSET Drives : N = {e \in Drives : drive'[e].unit = e}
      OBVIOUS
    <3>3. mount' = [mount EXCEPT !.names = N, !.on = b, !.ro = FALSE]
      BY <2>1, <3>1, <3>2
    <3>4. mount'.names = N
      BY <1>0, <3>3 DEF MountTypes
    <3> QED
      BY <3>2, <3>4 DEF NamesOK, HasUnit
  <2> QED
    BY <1>1, <1>6, <2>1, Zenon DEF RestartMonitors
<1>7. ASSUME NotifClear \/ StartPass \/ EndPass \/ CheckPoolHealth \/ ObserverFinds \/ (\E d \in Drives : CheckDisk(d))
             \/ UNCHANGED healthVars
      PROVE  UNCHANGED <<drive, mount>>
  BY <1>7, Zenon DEF NotifClear, StartPass, EndPass, CheckPoolHealth, ObserverFinds, CheckDisk, healthVars
<1> QED
  BY <1>1, <1>2, <1>3, <1>4, <1>5, <1>6, <1>7, Zenon DEF HealthNext
LEMMA NamesStart == ASSUME HealthInit PROVE NamesOK
<1>1. \A d \in Drives : drive[d].unit = d
  BY DEF HealthInit
<1> QED
  BY <1>1 DEF NamesOK

LEMMA DrivesCount ==
  ASSUME NEW A, NEW B, A \subseteq B, B \subseteq Drives
  PROVE  Cardinality(A) \in Nat /\ Cardinality(B) \in Nat /\ Cardinality(A) <= Cardinality(B)
<1>1. IsFiniteSet(B)
  BY HealthAssumption, FS_Subset
<1> QED
  BY <1>1, FS_Subset, FS_CardinalityType
Lost == {d \in Drives : "disk_missing" \in Diagnostics(d)}
LEMMA LostIs ==
  /\ Lost = {d \in Drives : Missing(d)} /\ IsFiniteSet(Lost) /\ Cardinality(Lost) \in Nat
  /\ Cardinality(Lost) = 0 <=> Lost = {}
<1>1. \A d \in Drives : "disk_missing" \in Diagnostics(d) <=> Missing(d)
  BY DEF Diagnostics
<1>2. IsFiniteSet(Lost)
  BY HealthAssumption, FS_Subset DEF Lost
<1> QED
  BY <1>1, <1>2, FS_CardinalityType, FS_EmptySet DEF Lost
\* What the diagnostics of a disk weigh.
LEMMA HealthIs ==
  /\ mount.on /\ mount.ro => ComputePoolHealth = "critical"
  /\ Cardinality(Lost) > CanLose => ComputePoolHealth = "critical"
  /\ Lost # {} => Rank(ComputePoolHealth) >= 3
  /\ (\E d \in Drives : "smart_critical" \in Diagnostics(d)) => Rank(ComputePoolHealth) >= 3
<1> DEFINE critical == \E d \in Drives : "smart_critical" \in Diagnostics(d)
<1>1. Cardinality(Lost) \in Nat /\ (Cardinality(Lost) > 0 <=> Lost # {})
  BY LostIs
<1>2. /\ (mount.on /\ mount.ro) \/ Cardinality(Lost) > CanLose => ComputePoolHealth = "critical"
      /\ Cardinality(Lost) > 0 \/ critical => ComputePoolHealth \in {"critical", "degraded"}
  BY DEF ComputePoolHealth, Lost
<1>3. Rank("critical") >= 3 /\ Rank("degraded") >= 3
  BY DEF Rank
<1> QED
  BY <1>1, <1>2, <1>3
LEMMA NamedIsJudged ==
  ASSUME HealthTypeOK, NamesOK, DeviceStats # {} \/ DrivesGone = {}
  PROVE  NeverUnderstated
<1> SUFFICES ASSUME mount.on PROVE NeverUnderstated
  BY DEF NeverUnderstated
<1>1. \A d \in DrivesGone : Missing(d)
  BY DEF DrivesGone, Missing, NamesOK, HasUnit, DeviceStats
<1>2. DrivesGone \subseteq Lost /\ Lost \subseteq Drives
  BY <1>1, LostIs DEF DrivesGone, Lost
<1>3. Cardinality(DrivesGone) \in Nat /\ Cardinality(Lost) \in Nat /\ Cardinality(DrivesGone) <= Cardinality(Lost)
  BY <1>2, DrivesCount
<1>4. CanLose \in {0, 1} /\ Bears \in Nat /\ CanLose <= Bears
  <2>1. mirror \in {"single", "raid1", "raid1c3", "raid10"}
    BY HealthAssumption DEF HealthTypeOK
  <2>2. CASE mirror = "single"
    BY <2>2 DEF CanLose, Bears
  <2>3. CASE mirror = "raid1c3"
    BY <2>3 DEF CanLose, Bears
  <2>4. CASE mirror \in {"raid1", "raid10"}
    BY <2>4 DEF CanLose, Bears
  <2> QED
    BY <2>1, <2>2, <2>3, <2>4
<1>5. (Cardinality(DrivesGone) > Bears \/ mount.ro) => ComputePoolHealth = "critical"
  <2>1. Cardinality(DrivesGone) > Bears => Cardinality(Lost) > CanLose
    BY <1>3, <1>4
  <2> QED
    BY <2>1, HealthIs
<1>6. DrivesGone # {} => Rank(ComputePoolHealth) >= 3
  BY <1>2, HealthIs
<1>7. Rank(ShownHealth) >= Rank(Implied)
  <2>1. PICK i, c : i = Implied /\ c = ComputePoolHealth
    OBVIOUS
  <2>2. Rank("none") = 0 /\ Rank(i) \in Nat /\ Rank(c) \in Nat
    BY DEF Rank
  <2> QED
    BY <2>1, <2>2 DEF ShownHealth
<1>8. \A d \in DrivesGone : DeviceState(d) \in {"missing", "swapped"} /\ "disk_missing" \in Diagnostics(d)
  BY <1>1 DEF DeviceState, DrivesGone, Diagnostics
<1> QED
  BY <1>5, <1>6, <1>7, <1>8 DEF NeverUnderstated

-----------------------------------------------------------------------------
(* Once the disks were read and then the pool.                              *)

Units == {d \in Drives : HasUnit(d)}
IsRight(d) == Readable(d) => smart[d] = SmartStatus(d) /\ (d \in hotCache <=> drive[d].heat = 3)
\* The statistics of btrfs name every disk or none, and a pool of copies has two of them.
AllNamed == (Nvme = {} \/ Nvme = Drives) /\ (mirror # "single" => Cardinality(Drives) > 1)
PassOK ==
  /\ settled >= 1 /\ present # {} => present = Units
  /\ settled = 1 => present # {} /\ \A d \in present \ visiting : IsRight(d)
  /\ settled >= 2 => \A d \in Drives : IsRight(d)
  /\ AllNamed => SettledIsTrue
LEMMA RightIsJudged ==
  ASSUME HealthTypeOK, \A d \in Drives : IsRight(d)
  PROVE  /\ (\E d \in Drives : Readable(d) /\ drive[d].cond = "critical" /\ d \in mount.names)
              => Rank(ComputePoolHealth) >= 3
         /\ AllNamed /\ (\A d \in Drives : drive[d].unit = d /\ Readable(d) /\ SmartStatus(d) = "ok")
            /\ mount.names = Drives /\ ~mount.ro /\ mount.io = {} /\ mount.csum = {} => ComputePoolHealth = "healthy"
<1>1. ASSUME NEW d \in Drives, Readable(d), drive[d].cond = "critical" PROVE Rank(ComputePoolHealth) >= 3
  <2>1. smart[d] = "critical"
    BY <1>1 DEF IsRight, SmartStatus
  <2>2. "disk_missing" \in Diagnostics(d) \/ "smart_critical" \in Diagnostics(d)
    BY <2>1 DEF Diagnostics
  <2>3. d \in Lost \/ \E e \in Drives : "smart_critical" \in Diagnostics(e)
    BY <2>2 DEF Lost
  <2> QED
    BY <2>3, HealthIs
<1>2. ASSUME AllNamed, \A d \in Drives : drive[d].unit = d /\ Readable(d) /\ SmartStatus(d) = "ok",
             mount.names = Drives, ~mount.ro, mount.io = {}, mount.csum = {}
      PROVE  ComputePoolHealth = "healthy"
  <2>1. ASSUME NEW d \in Drives PROVE Diagnostics(d) = {}
    <3>1. ~Missing(d)
      BY <1>2 DEF Missing, Readable, DeviceStats, AllNamed
    <3>2. ~IoErrors(d)
      BY <1>2 DEF IoErrors
    <3>3. smart[d] = "ok" /\ d \notin hotCache
      <4>1. smart[d] = "ok" /\ (d \in hotCache <=> drive[d].heat = 3)
        BY <1>2 DEF IsRight
      <4>2. drive[d].heat # 3
        BY <1>2 DEF SmartStatus
      <4> QED
        BY <4>1, <4>2
    <3> QED
      BY <3>1, <3>2, <3>3 DEF Diagnostics
  <2>2. Lost = {}
    BY <2>1 DEF Lost
  <2>3. Cardinality(Lost) = 0 /\ (mirror # "single" => Cardinality(Drives) > 1)
    BY <1>2, <2>2, LostIs DEF AllNamed
  <2>4. CanLose \in {0, 1} /\ Cardinality(Drives) \in Nat
    BY HealthAssumption, FS_CardinalityType DEF CanLose
  <2>a. CanLose > 0 => mirror # "single"
    BY DEF CanLose
  <2>5. ~(CanLose > 0 /\ Cardinality(Drives) <= CanLose)
    BY <2>3, <2>4, <2>a
  <2>6. ~(Cardinality(Lost) > CanLose) /\ ~(Cardinality(Lost) > 0)
    BY <2>3, <2>4
  <2>7. \A c : ~\E d \in Drives : c \in Diagnostics(d)
    BY <2>1
  <2> QED
    BY <1>2, <2>5, <2>6, <2>7 DEF ComputePoolHealth, Lost
<1> QED
  BY <1>1, <1>2

\* A mounted pool has a member the kernel names.
NamedOK == mount.on => mount.names # {} \/ Drives = {}
LEMMA NamedStep ==
  ASSUME HealthTypeOK, NamedOK, [HealthNext]_healthVars
  PROVE  NamedOK'
<1>0. mount \in MountTypes
  BY DEF HealthTypeOK, MountTypes
<1>1. CASE UNCHANGED mount
  BY <1>1 DEF NamedOK
<1>2. CASE MountChanges
  <2>1. CASE mount'.on => mount.on /\ mount'.names = mount.names
    BY <2>1 DEF NamedOK
  <2>2. CASE (\E d \in Drives : drive[d].unit = d)
             /\ mount' = [mount EXCEPT !.on = TRUE, !.names = {d \in Drives : drive[d].unit = d}]
    <3>1. PICK N \in SUBSET Drives : N = {d \in Drives : drive[d].unit = d}
      OBVIOUS
    <3>2. mount' = [mount EXCEPT !.on = TRUE, !.names = N] /\ N # {}
      BY <2>2, <3>1
    <3>3. mount'.names = N
      BY <1>0, <3>2 DEF MountTypes
    <3> QED
      BY <3>2, <3>3 DEF NamedOK
  <2>3. ASSUME NEW d \in Drives,
               mount' = [mount EXCEPT !.io = @ \cup {d}] \/ mount' = [mount EXCEPT !.csum = @ \cup {d}, !.clean = FALSE]
        PROVE  mount'.on => mount.on /\ mount'.names = mount.names
    BY <1>0, <2>3 DEF MountTypes
  <2>4. CASE \/ mount' = [mount EXCEPT !.clean = TRUE] \/ mount' = [mount EXCEPT !.ro = TRUE]
             \/ mount' = [mount EXCEPT !.on = FALSE, !.ro = FALSE]
    <3>1. mount'.on => mount.on /\ mount'.names = mount.names
      BY <1>0, <2>4 DEF MountTypes
    <3> QED
      BY <2>1, <3>1
  <2> QED
    BY <1>2, <2>1, <2>2, <2>3, <2>4, Zenon DEF MountChanges
<1>3. CASE RestartMonitors
  <2>1. ASSUME NEW d \in Drives, NEW u \in {0, 99},
               mount' = [mount EXCEPT !.names = {e \in Drives : drive'[e].unit = e},
                                      !.on = \E e \in Drives : drive'[e].unit = e, !.ro = FALSE]
        PROVE  NamedOK'
    <3>1. PICK b \in BOOLEAN : b = (\E e \in Drives : drive'[e].unit = e)
      BY Zenon
    <3>2. PICK N \in SUBSET Drives : N = {e \in Drives : drive'[e].unit = e}
      OBVIOUS
    <3>3. mount' = [mount EXCEPT !.names = N, !.on = b, !.ro = FALSE] /\ (b => N # {})
      BY <2>1, <3>1, <3>2
    <3>4. mount'.names = N /\ mount'.on = b
      BY <1>0, <3>3 DEF MountTypes
    <3> QED
      BY <3>3, <3>4 DEF NamedOK
  <2> QED
    BY <1>1, <1>3, <2>1, Zenon DEF RestartMonitors
<1>4. ASSUME \/ NotifClear \/ StartPass \/ EndPass \/ CheckPoolHealth \/ ObserverFinds \/ UNCHANGED healthVars
             \/ \E d \in Drives : CheckDisk(d) \/ Pull(d) \/ Insert(d) \/ DriveChanges(d)
      PROVE  UNCHANGED mount
  BY <1>4, Zenon DEF NotifClear, StartPass, EndPass, CheckPoolHealth, ObserverFinds, CheckDisk, Pull, Insert,
                     DriveChanges, healthVars
<1> QED
  BY <1>1, <1>2, <1>3, <1>4, Zenon DEF HealthNext
LEMMA NamedStarts == ASSUME HealthInit PROVE NamedOK
<1>1. mount.names = Drives
  BY DEF HealthInit
<1> QED
  BY <1>1 DEF NamedOK

LEMMA PassStays ==
  ASSUME HealthTypeOK, PassOK, UNCHANGED <<drive, mount, mirror, smart, hotCache, visiting, present, record, settled>>
  PROVE  PassOK'
<1>1. Units' = Units /\ \A d \in Drives : IsRight(d)' <=> IsRight(d)
  BY DEF Units, HasUnit, IsRight, Readable, SmartStatus
<1>2. (AllNamed' <=> AllNamed) /\ (SettledIsTrue' <=> SettledIsTrue)
  BY DEF AllNamed, SettledIsTrue, Readable, HasUnit, SmartStatus
<1>3. settled = 1 => \A d \in present \ visiting : IsRight(d)'
  BY <1>1 DEF PassOK, HealthTypeOK
<1> QED
  BY <1>1, <1>2, <1>3 DEF PassOK
\* What happens to disks and pools starts it all over.
LEMMA PassRestarts ==
  ASSUME settled' = 0
  PROVE  PassOK'
BY DEF PassOK, SettledIsTrue
LEMMA StartPassGoes ==
  ASSUME HealthTypeOK, PassOK, StartPass
  PROVE  PassOK'
<1>0. /\ UNCHANGED <<drive, mount, mirror, smart, hotCache, record>> /\ present' = Units /\ visiting' = present'
      /\ settled' = (IF settled = 0 THEN 1 ELSE settled) /\ settled \in 0..3 /\ Units # {} /\ present = {}
  BY DEF StartPass, Units, HealthTypeOK, Idle
<1>1. settled # 1
  BY <1>0 DEF PassOK
<1>2. Units' = Units /\ \A d \in Drives : IsRight(d)' <=> IsRight(d)
  BY <1>0 DEF Units, HasUnit, IsRight, Readable, SmartStatus
<1>3. settled' >= 2 => \A d \in Drives : IsRight(d)'
  BY <1>0, <1>2 DEF PassOK
<1>4. settled' = 1 => present' # {} /\ \A d \in present' \ visiting' : IsRight(d)'
  BY <1>0
<1>5. AllNamed => SettledIsTrue'
  <2>1. settled' = 3 => settled = 3
    BY <1>0
  <2> QED
    BY <1>0, <2>1 DEF PassOK, SettledIsTrue, Readable, HasUnit, SmartStatus
<1> QED
  BY <1>0, <1>2, <1>3, <1>4, <1>5 DEF PassOK, AllNamed
LEMMA CheckDiskPasses ==
  ASSUME HealthTypeOK, PassOK, NEW d \in Drives, CheckDisk(d)
  PROVE  PassOK'
<1>0. /\ UNCHANGED <<drive, mount, mirror, present, record, settled>> /\ visiting' = visiting \ {d}
      /\ present \subseteq Drives /\ visiting \subseteq present /\ smart \in [Drives -> Conditions \cup {"none"}]
  BY DEF CheckDisk, HealthTypeOK
<1>1. Units' = Units /\ \A e \in Drives : (Readable(e)' <=> Readable(e)) /\ SmartStatus(e)' = SmartStatus(e)
  BY <1>0 DEF Units, HasUnit, Readable, SmartStatus
<1>2. \A e \in Drives \ {d} : IsRight(e) => IsRight(e)'
  <2>1. CASE UNCHANGED <<smart, hotCache>>
    BY <1>0, <1>1, <2>1 DEF IsRight
  <2>2. CASE /\ smart' = [smart EXCEPT ![d] = SmartStatus(d)]
             /\ hotCache' = IF Readable(d) /\ drive[d].heat = 3 THEN hotCache \cup {d} ELSE hotCache \ {d}
    <3>1. \A e \in Drives \ {d} : smart'[e] = smart[e] /\ (e \in hotCache' <=> e \in hotCache)
      BY <1>0, <2>2
    <3> QED
      BY <1>0, <1>1, <3>1 DEF IsRight
  <2> QED
    BY <2>1, <2>2 DEF CheckDisk
<1>3. IsRight(d)'
  <2>1. CASE HasUnit(d) /\ drive[d].pulse = "asleep"
    BY <1>1, <2>1 DEF IsRight, Readable
  <2>2. CASE ~(HasUnit(d) /\ drive[d].pulse = "asleep")
    <3>1. /\ smart' = [smart EXCEPT ![d] = SmartStatus(d)]
          /\ hotCache' = IF Readable(d) /\ drive[d].heat = 3 THEN hotCache \cup {d} ELSE hotCache \ {d}
      BY <2>2 DEF CheckDisk
    <3>2. smart'[d] = SmartStatus(d) /\ (Readable(d) => (d \in hotCache' <=> drive[d].heat = 3))
      BY <1>0, <3>1
    <3> QED
      BY <1>0, <1>1, <3>2 DEF IsRight
  <2> QED
    BY <2>1, <2>2
<1>4. settled' >= 2 => \A e \in Drives : IsRight(e)'
  BY <1>0, <1>2, <1>3 DEF PassOK
<1>5. settled' = 1 => present' # {} /\ \A e \in present' \ visiting' : IsRight(e)'
  BY <1>0, <1>2, <1>3 DEF PassOK
<1>6. AllNamed => SettledIsTrue'
  BY <1>0, <1>1 DEF PassOK, SettledIsTrue
<1> QED
  BY <1>0, <1>1, <1>4, <1>5, <1>6 DEF PassOK, AllNamed
LEMMA EndPassGoes ==
  ASSUME HealthTypeOK, PassOK, EndPass
  PROVE  PassOK'
<1>0. /\ UNCHANGED <<drive, mount, mirror, record>> /\ present' = {} /\ visiting = {} /\ present # {}
      /\ present \subseteq Drives /\ settled \in 0..3 /\ settled' = IF settled = 1 THEN 2 ELSE settled
      /\ smart' = [d \in Drives |-> IF d \in present THEN smart[d] ELSE "none"] /\ hotCache' = hotCache \cap present
  BY DEF EndPass, HealthTypeOK
<1>1. Units' = Units /\ \A e \in Drives : (Readable(e)' <=> Readable(e)) /\ SmartStatus(e)' = SmartStatus(e)
  BY <1>0 DEF Units, HasUnit, Readable, SmartStatus
<1>2. ASSUME settled >= 1, NEW d \in Drives PROVE IsRight(d)'
  <2>1. present = Units
    BY <1>0, <1>2 DEF PassOK
  <2>2. CASE d \notin present
    BY <1>1, <2>1, <2>2 DEF IsRight, Readable, Units
  <2>3. CASE d \in present
    <3>1. settled = 1 \/ settled >= 2
      BY <1>0, <1>2
    <3>2. IsRight(d)
      BY <1>0, <2>3, <3>1 DEF PassOK
    <3>3. smart'[d] = smart[d] /\ (d \in hotCache' <=> d \in hotCache)
      BY <1>0, <2>3
    <3> QED
      BY <1>0, <1>1, <3>2, <3>3 DEF IsRight
  <2> QED
    BY <2>2, <2>3
<1>3. settled' >= 2 => \A d \in Drives : IsRight(d)'
  BY <1>0, <1>2
<1>4. settled' # 1
  BY <1>0
<1>5. AllNamed => SettledIsTrue'
  <2>1. settled' = 3 => settled = 3
    BY <1>0
  <2> QED
    BY <1>0, <1>1, <2>1 DEF PassOK, SettledIsTrue
<1> QED
  BY <1>0, <1>3, <1>4, <1>5 DEF PassOK, AllNamed
LEMMA CheckPoolPasses ==
  ASSUME HealthTypeOK, PassOK, CheckPoolHealth
  PROVE  PassOK'
<1>0. /\ UNCHANGED <<drive, mount, mirror, smart, hotCache, visiting, present>> /\ record' = ComputePoolHealth
      /\ settled \in 0..3 /\ settled' = (IF settled = 2 THEN 3 ELSE settled) /\ present \subseteq Drives
  BY DEF CheckPoolHealth, OfDisks, HealthTypeOK
<1>1. Units' = Units /\ \A d \in Drives : IsRight(d)' <=> IsRight(d)
  BY <1>0 DEF Units, HasUnit, IsRight, Readable, SmartStatus
<1>2. settled' >= 2 => settled >= 2
  BY <1>0
<1>3. settled' = 1 => settled = 1
  BY <1>0
<1>4. settled' >= 1 => settled >= 1
  BY <1>0
<1>5. ASSUME AllNamed, settled' = 3
      PROVE  SettledIsTrue'
  <2>1. \A d \in Drives : IsRight(d)
    BY <1>0, <1>5 DEF PassOK
  <2>2. /\ (\E d \in Drives : Readable(d) /\ drive[d].cond = "critical" /\ d \in mount.names) => Rank(record') >= 3
        /\ (\A d \in Drives : drive[d].unit = d /\ Readable(d) /\ SmartStatus(d) = "ok")
           /\ mount.names = Drives /\ ~mount.ro /\ mount.io = {} /\ mount.csum = {} => record' = "healthy"
    BY <1>0, <1>5, <2>1, RightIsJudged
  <2> QED
    BY <1>0, <2>2 DEF SettledIsTrue, Readable, HasUnit, SmartStatus
<1>6. AllNamed => SettledIsTrue'
  BY <1>5 DEF SettledIsTrue
<1> QED
  BY <1>0, <1>1, <1>2, <1>3, <1>4, <1>6 DEF PassOK, AllNamed
LEMMA PassStep ==
  ASSUME HealthTypeOK, PassOK, [HealthNext]_healthVars
  PROVE  PassOK'
<1>1. CASE UNCHANGED healthVars \/ NotifClear
  BY <1>1, PassStays DEF healthVars, NotifClear, OfDisks
<1>2. CASE MountChanges \/ ObserverFinds \/ RestartMonitors \/ \E d \in Drives : Pull(d) \/ Insert(d) \/ DriveChanges(d)
  <2>1. settled' = 0
    BY <1>2, Zenon DEF MountChanges, ObserverFinds, RestartMonitors, Pull, Insert, DriveChanges, HealthEvent
  <2> QED
    BY <2>1, PassRestarts
<1> QED
  BY <1>1, <1>2, StartPassGoes, CheckDiskPasses, EndPassGoes, CheckPoolPasses DEF HealthNext
LEMMA PassStarts == ASSUME HealthInit PROVE PassOK
<1>1. settled = 0
  BY DEF HealthInit
<1> QED
  BY <1>1 DEF PassOK, SettledIsTrue
-----------------------------------------------------------------------------
(* The snapshots.  An hour without one is a mishap, and so is a day; what   *)
(* is deleted is of hours and days whose time is over, or has a later one   *)
(* of its day beside it.                                                    *)

HoursMissed == {h \in 1..(logNow - 1) : h >= Before(1) /\ \A s \in snapshots : s.at # h}
DaysMissed == {d \in 0..(((logNow - 1) \div LogDay) - 1) :
                 d * LogDay + 1 >= Before(LogKept) /\ \A s \in snapshots : DayOf(s) # d}
SnapsOK ==
  /\ \A s \in snapshots : s.at \in 1..logNow /\ s.gen \in Nat
  /\ \A s, t \in snapshots : (s.at < t.at => s.gen < t.gen) /\ (s.at = t.at => s = t)
SpreadOK ==
  /\ SnapsOK /\ logMishaps \in Nat
  /\ Cardinality(HoursMissed) <= logMishaps /\ Cardinality(DaysMissed) <= logMishaps

LEMMA DayBegins == ASSUME NEW n \in Nat, NEW L \in Nat \ {0} PROVE (n \div L) * L <= n /\ n \div L \in Nat
OBVIOUS
LEMMA DayEnds == ASSUME NEW n \in Nat, NEW L \in Nat \ {0} PROVE n < (n \div L) * L + L
OBVIOUS
LEMMA NextDay == ASSUME NEW n \in Nat, NEW L \in Nat \ {0} PROVE (n + 1) \div L <= (n \div L) + 1
<1>1. PICK q, r : q = n \div L /\ r = (n + 1) \div L
  OBVIOUS
<1>2. q \in Nat /\ r \in Nat /\ n < q * L + L /\ r * L <= n + 1
  BY <1>1, DayBegins, DayEnds
<1>3. CASE r >= q + 2
  <2>1. PICK k \in Nat : r = q + 2 + k
    BY <1>2, <1>3
  <2>2. r * L = q * L + 2 * L + k * L
    BY <1>2, <2>1
  <2>3. k * L \in Nat /\ q * L \in Nat
    BY <1>2, <2>1
  <2> QED
    BY <1>2, <2>2, <2>3
<1> QED
  BY <1>1, <1>2, <1>3
LEMMA SpreadCounts ==
  ASSUME logNow \in Nat \ {0}
  PROVE  /\ IsFiniteSet(HoursMissed) /\ Cardinality(HoursMissed) \in Nat
         /\ IsFiniteSet(DaysMissed) /\ Cardinality(DaysMissed) \in Nat
<1>1. LogDay \in Nat \ {0}
  BY NetworkLogAssumption
<1>2. (logNow - 1) \div LogDay \in Nat
  BY <1>1, DayBegins
<1>3. IsFiniteSet(1..(logNow - 1)) /\ IsFiniteSet(0..(((logNow - 1) \div LogDay) - 1))
  BY <1>2, FS_Interval
<1>4. HoursMissed \subseteq 1..(logNow - 1) /\ DaysMissed \subseteq 0..(((logNow - 1) \div LogDay) - 1)
  BY DEF HoursMissed, DaysMissed
<1> QED
  BY <1>3, <1>4, FS_Subset, FS_CardinalityType
\* One more is missed at most for one more mishap.
LEMMA OneMore ==
  ASSUME NEW A, IsFiniteSet(A), NEW B, NEW x, NEW n \in Nat, Cardinality(A) <= n
  PROVE  /\ B \subseteq A => Cardinality(B) <= n
         /\ B \subseteq (A \cup {x}) => Cardinality(B) <= n + 1
<1>1. Cardinality(A) \in Nat /\ IsFiniteSet(A \cup {x}) /\ Cardinality(A \cup {x}) \in Nat
      /\ Cardinality(A \cup {x}) <= Cardinality(A) + 1
  <2>1. Cardinality(A) \in Nat
    BY FS_CardinalityType
  <2>2. /\ IsFiniteSet(A \cup {x})
        /\ Cardinality(A \cup {x}) = IF x \in A THEN Cardinality(A) ELSE Cardinality(A) + 1
    BY FS_AddElement
  <2> QED
    BY <2>1, <2>2
<1>2. \A C : C \subseteq A => Cardinality(C) <= Cardinality(A) /\ Cardinality(C) \in Nat
  BY FS_Subset, FS_CardinalityType
<1>3. \A C : C \subseteq (A \cup {x}) => Cardinality(C) <= Cardinality(A \cup {x}) /\ Cardinality(C) \in Nat
  BY <1>1, FS_Subset, FS_CardinalityType
<1> QED
  BY <1>1, <1>2, <1>3
LEMMA BeforeIs ==
  ASSUME NEW n \in Nat, logNow \in Nat
  PROVE  /\ Before(n) \in Nat
         /\ UNCHANGED logNow => Before(n)' = Before(n)
         /\ logNow' = logNow + 1 => Before(n)' >= Before(n) /\ Before(n)' \in Nat
<1>1. PICK k : k = n * LogDay
  OBVIOUS
<1>2. k \in Nat
  BY <1>1, NetworkLogAssumption
<1>3. /\ Before(n) = IF logNow > k THEN logNow - k ELSE 0
      /\ Before(n)' = IF logNow' > k THEN logNow' - k ELSE 0
  BY <1>1 DEF Before
<1> QED
  BY <1>2, <1>3
\* The last of some snapshots.
LEMMA LastSnap ==
  ASSUME logNow \in Nat, SnapsOK, NEW S, S \subseteq snapshots, S # {}
  PROVE  \E s \in S : \A t \in S : t.at <= s.at
<1> DEFINE age == [s \in S |-> logNow - s.at]
<1>1. \A s \in S : age[s] \in Nat /\ age[s] = logNow - s.at /\ s.at \in Nat
  BY DEF SnapsOK
<1> HIDE DEF age
<1>2. PICK s \in S : \A t \in S : age[s] <= age[t]
  BY <1>1, LeastIs
<1> QED
  BY <1>1, <1>2

LEMMA SpreadStays ==
  ASSUME LogInv, SpreadOK, UNCHANGED <<snapshots, logNow>>, logMishaps' \in Nat, logMishaps <= logMishaps'
  PROVE  SpreadOK'
<1>1. SnapsOK'
  BY DEF SpreadOK, SnapsOK
<1>2. HoursMissed' = HoursMissed /\ DaysMissed' = DaysMissed
  BY DEF HoursMissed, DaysMissed, Before, DayOf
<1>3. Cardinality(HoursMissed) \in Nat /\ Cardinality(DaysMissed) \in Nat
  BY SpreadCounts DEF LogInv, LogClock
<1> QED
  BY <1>1, <1>2, <1>3 DEF SpreadOK
LEMMA ObserverSpreads ==
  ASSUME LogInv, SpreadOK, ObserverRuns
  PROVE  SpreadOK'
<1>0. /\ logNow \in 1..LastTick /\ LastTick \in Nat /\ logNow \in Nat \ {0} /\ SnapsOK /\ UNCHANGED <<logNow, logMishaps>>
      /\ \A s \in snapshots : s.at # logNow
  BY NetworkLogAssumption DEF LogInv, LogClock, SpreadOK, ObserverRuns, Observed, logBounds
<1>1. PICK g : g = NextObserved
  OBVIOUS
<1>2. PICK n : n = [at |-> logNow, gen |-> g]
  OBVIOUS
<1>3. snapshots' = snapshots \cup {n} /\ n.at = logNow /\ n.gen = g
  BY <1>1, <1>2 DEF ObserverRuns
<1>4. g \in Nat /\ \A s \in snapshots : s.gen < g
  <2>1. CASE snapshots = {}
    BY <1>1, <2>1 DEF NextObserved
  <2>2. CASE snapshots # {}
    <3>1. PICK s \in snapshots : \A t \in snapshots : t.at <= s.at
      BY <1>0, <2>2, LastSnap
    <3>2. \A t \in snapshots : t.gen <= s.gen /\ t.gen \in Nat
      BY <1>0, <3>1 DEF SnapsOK
    <3>3. s.gen \in Generations /\ \A x \in Generations : s.gen >= x
      BY <3>2 DEF Generations
    <3>4. PICK m : m = Max(Generations)
      OBVIOUS
    <3>5. m \in Generations /\ \A x \in Generations : m >= x
      BY <3>3, <3>4 DEF Max
    <3>6. g = m + 1
      BY <1>1, <2>2, <3>4 DEF NextObserved
    <3> QED
      BY <3>2, <3>5, <3>6 DEF Generations
  <2> QED
    BY <2>1, <2>2
<1>5. SnapsOK'
  <2>1. \A s \in snapshots : s.at < logNow /\ s.at \in Nat
    BY <1>0 DEF SnapsOK
  <2>2. \A s \in snapshots' : s.at \in 1..logNow /\ s.gen \in Nat
    BY <1>0, <1>3, <1>4 DEF SnapsOK
  <2>3. \A s, t \in snapshots' : (s.at < t.at => s.gen < t.gen) /\ (s.at = t.at => s = t)
    <3> TAKE s, t \in snapshots'
    <3>1. CASE s \in snapshots /\ t \in snapshots
      BY <1>0, <3>1 DEF SnapsOK
    <3>2. CASE s \in snapshots /\ t = n
      BY <1>3, <1>4, <2>1, <3>2
    <3>3. CASE s = n /\ t \in snapshots
      BY <1>0, <1>3, <1>4, <2>1, <3>3
    <3>4. CASE s = n /\ t = n
      BY <1>0, <1>3, <3>4
    <3> QED
      BY <1>3, <3>1, <3>2, <3>3, <3>4
  <2> QED
    BY <1>0, <2>2, <2>3 DEF SnapsOK
<1>6. HoursMissed' \subseteq HoursMissed /\ DaysMissed' \subseteq DaysMissed
  BY <1>0, <1>3 DEF HoursMissed, DaysMissed, Before, DayOf
<1> QED
  BY <1>0, <1>5, <1>6, SpreadCounts, OneMore DEF SpreadOK
LEMMA PruneSpreads ==
  ASSUME LogInv, SpreadOK, PruneSnapshots
  PROVE  SpreadOK'
<1>0. /\ logNow \in 1..LastTick /\ LastTick \in Nat /\ logNow \in Nat \ {0} /\ SnapsOK /\ UNCHANGED logNow /\ logMishaps \in Nat
      /\ LogDay \in Nat \ {0} /\ LogKept \in Nat
  BY NetworkLogAssumption DEF LogInv, LogClock, SpreadOK, PruneSnapshots
<1>1. CASE UNCHANGED snapshots
  <2>1. logMishaps' = logMishaps \/ logMishaps' = logMishaps + 1
    BY DEF PruneSnapshots, LogFault
  <2> QED
    BY <1>0, <1>1, <2>1, SpreadStays
<1>2. CASE snapshots' = Keep /\ UNCHANGED logMishaps
  <2>1. snapshots' \subseteq snapshots
    BY <1>2 DEF Keep
  <2>2. SnapsOK'
    BY <1>0, <2>1 DEF SnapsOK
  <2>3. Before(1)' = Before(1) /\ Before(LogKept)' = Before(LogKept) /\ Before(LogKept) \in Nat
    BY <1>0, BeforeIs
  <2>4. HoursMissed' \subseteq HoursMissed
    <3>1. \A s \in snapshots : s.at >= Before(1) => s \in snapshots'
      BY <1>2 DEF Keep
    <3> QED
      BY <1>0, <2>3, <3>1 DEF HoursMissed
  <2>5. ASSUME NEW d \in Nat, d * LogDay + 1 >= Before(LogKept), NEW s \in snapshots, DayOf(s) = d
        PROVE  \E t \in snapshots' : DayOf(t) = d
    <3>1. PICK S : S = {t \in snapshots : DayOf(t) = d}
      OBVIOUS
    <3>2. PICK t \in S : \A u \in S : u.at <= t.at
      <4>1. S \subseteq snapshots /\ S # {} /\ logNow \in Nat
        BY <1>0, <2>5, <3>1
      <4> QED
        BY <1>0, <4>1, LastSnap
    <3>3. PICK n \in Nat : n = t.at - 1
      BY <1>0, <3>1, <3>2 DEF SnapsOK
    <3>4. t \in snapshots /\ t.at \in Nat /\ n \div LogDay = d
      BY <1>0, <3>1, <3>2, <3>3 DEF SnapsOK, DayOf
    <3>5. d * LogDay <= n
      BY <1>0, <3>3, <3>4, DayBegins
    <3>6. t.at >= Before(LogKept)
      <4>1. PICK p : p = d * LogDay
        OBVIOUS
      <4>2. p \in Nat
        BY <1>0, <4>1
      <4> QED
        BY <2>3, <2>5, <3>3, <3>4, <3>5, <4>1, <4>2
    <3>7. \A u \in snapshots : DayOf(t) = DayOf(u) => u.at <= t.at
      BY <3>1, <3>2
    <3>8. t \in Keep
      BY <3>4, <3>6, <3>7 DEF Keep
    <3> QED
      BY <1>2, <3>1, <3>2, <3>8
  <2>6. DaysMissed' \subseteq DaysMissed
    <3> SUFFICES ASSUME NEW d \in DaysMissed' PROVE d \in DaysMissed
      OBVIOUS
    <3>1. (logNow - 1) \div LogDay \in Nat
      BY <1>0, DayBegins
    <3>2. /\ d \in 0..(((logNow - 1) \div LogDay) - 1) /\ d * LogDay + 1 >= Before(LogKept)
          /\ \A s \in snapshots' : DayOf(s)' # d
      BY <1>0, <2>3 DEF DaysMissed
    <3>3. d \in Nat /\ \A s \in snapshots' : DayOf(s) # d
      BY <3>1, <3>2 DEF DayOf
    <3>4. \A s \in snapshots : DayOf(s) # d
      BY <2>5, <3>2, <3>3
    <3> QED
      BY <3>2, <3>4 DEF DaysMissed
  <2> QED
    BY <1>0, <1>2, <2>2, <2>4, <2>6, SpreadCounts, OneMore DEF SpreadOK
<1> QED
  BY <1>1, <1>2 DEF PruneSnapshots
LEMMA TickSpreads ==
  ASSUME LogInv, SpreadOK, LogTick
  PROVE  SpreadOK'
<1>0. /\ logNow \in 1..LastTick /\ LastTick \in Nat /\ logNow \in Nat \ {0} /\ SnapsOK /\ logNow' = logNow + 1
      /\ UNCHANGED snapshots /\ logMishaps \in Nat /\ LogDay \in Nat \ {0} /\ LogKept \in Nat
      /\ IF Observed THEN logMishaps' = logMishaps ELSE logMishaps' = logMishaps + 1
  BY NetworkLogAssumption DEF LogInv, LogClock, SpreadOK, LogTick, LogFault
<1>1. SnapsOK'
  BY <1>0 DEF SnapsOK
<1>2. /\ Before(1)' >= Before(1) /\ Before(1) \in Nat /\ Before(1)' \in Nat
      /\ Before(LogKept)' >= Before(LogKept) /\ Before(LogKept) \in Nat /\ Before(LogKept)' \in Nat
  BY <1>0, BeforeIs
<1>3. PICK x : x = (logNow - 1) \div LogDay
  OBVIOUS
<1>4. x \in Nat /\ logNow \div LogDay \in Nat /\ logNow \div LogDay <= x + 1
  <2>1. PICK n \in Nat : n = logNow - 1
    BY <1>0
  <2>2. logNow = n + 1
    BY <1>0, <2>1
  <2> QED
    BY <1>0, <1>3, <2>1, <2>2, DayBegins, NextDay
<1>5. HoursMissed' \subseteq (HoursMissed \cup {logNow}) /\ (Observed => logNow \notin HoursMissed')
  <2>1. HoursMissed' = {h \in 1..logNow : h >= Before(1)' /\ \A s \in snapshots : s.at # h}
    <3>1. logNow' - 1 = logNow
      BY <1>0
    <3> QED
      BY <1>0, <3>1 DEF HoursMissed
  <2>2. \A h \in 1..logNow : h >= Before(1)' => h >= Before(1)
    BY <1>0, <1>2
  <2>3. \A h \in 1..logNow : h \in 1..(logNow - 1) \/ h = logNow
    BY <1>0
  <2> QED
    BY <2>1, <2>2, <2>3 DEF HoursMissed, Observed
<1>6. DaysMissed' \subseteq (DaysMissed \cup {x}) /\ (Observed => x \notin DaysMissed')
  <2>1. DaysMissed' = {d \in 0..((logNow \div LogDay) - 1) : d * LogDay + 1 >= Before(LogKept)'
                                                             /\ \A s \in snapshots : DayOf(s) # d}
    <3>1. logNow' - 1 = logNow
      BY <1>0
    <3> QED
      BY <1>0, <3>1 DEF DaysMissed, DayOf
  <2>2. \A d \in 0..((logNow \div LogDay) - 1) : d \in 0..(x - 1) \/ d = x
    BY <1>4
  <2>3. \A d \in 0..((logNow \div LogDay) - 1) : d * LogDay + 1 >= Before(LogKept)' => d * LogDay + 1 >= Before(LogKept)
    <3> TAKE d \in 0..((logNow \div LogDay) - 1)
    <3>1. PICK p : p = d * LogDay
      OBVIOUS
    <3>2. p \in Nat
      BY <1>0, <1>4, <3>1
    <3> QED
      BY <1>2, <3>1, <3>2
  <2>4. Observed => \E s \in snapshots : DayOf(s) = x
    BY <1>3 DEF Observed, DayOf
  <2> QED
    BY <1>3, <2>1, <2>2, <2>3, <2>4 DEF DaysMissed
<1>7. /\ IsFiniteSet(HoursMissed) /\ Cardinality(HoursMissed) <= logMishaps
      /\ IsFiniteSet(DaysMissed) /\ Cardinality(DaysMissed) <= logMishaps
  BY <1>0, SpreadCounts DEF SpreadOK
<1>8. CASE Observed
  <2>1. HoursMissed' \subseteq HoursMissed /\ DaysMissed' \subseteq DaysMissed
    BY <1>5, <1>6, <1>8
  <2> QED
    BY <1>0, <1>1, <1>7, <1>8, <2>1, OneMore DEF SpreadOK
<1>9. CASE ~Observed
  <2>1. logMishaps' = logMishaps + 1
    BY <1>0, <1>9
  <2>2. Cardinality(HoursMissed') <= logMishaps + 1
    BY <1>0, <1>5, <1>7, OneMore
  <2>3. Cardinality(DaysMissed') <= logMishaps + 1
    BY <1>0, <1>6, <1>7, OneMore
  <2> QED
    BY <1>0, <1>1, <2>1, <2>2, <2>3 DEF SpreadOK
<1> QED
  BY <1>8, <1>9
LEMMA SpreadStep ==
  ASSUME LogInv, SpreadOK, [NetworkLogNext]_networkLogVars
  PROVE  SpreadOK'
<1>1. CASE ObserverRuns \/ PruneSnapshots \/ LogTick
  BY <1>1, ObserverSpreads, PruneSpreads, TickSpreads
<1>2. ASSUME \/ UNCHANGED <<snapshots, logNow, logMishaps>>
             \/ UNCHANGED <<snapshots, logNow>> /\ logMishaps' = logMishaps + 1
      PROVE  SpreadOK'
  <2>1. logMishaps \in Nat
    BY DEF SpreadOK
  <2> QED
    BY <1>2, <2>1, SpreadStays
<1>3. ASSUME NEW e \in Callers, EmitLooks(e) \/ EmitWrites(e) PROVE SpreadOK'
  <2>1. CASE EmitLooks(e)
    BY <1>2, <2>1 DEF EmitLooks, logBounds
  <2>2. CASE EmitWrites(e)
    BY <1>2, <2>2, Zenon DEF EmitWrites, LogFault
  <2> QED
    BY <1>3, <2>1, <2>2
<1>4. CASE RouterReconcile \/ RefreshCapabilities \/ AuthFailed \/ CreateOperation \/ CloseOperation \/ RetentionBegins
           \/ RetentionTells
  BY <1>2, <1>4, Zenon DEF RouterReconcile, RefreshCapabilities, AuthFailed, CreateOperation, CloseOperation, RetentionBegins,
     RetentionTells, logBounds
<1>5. CASE PruneOperations \/ PruneEvents \/ RouterChanges \/ LogCrash \/ UNCHANGED networkLogVars
  BY <1>2, <1>5, Zenon DEF PruneOperations, PruneEvents, RouterChanges, LogCrash, networkLogVars, logBounds, LogFault
<1> QED
  BY <1>1, <1>3, <1>4, <1>5 DEF NetworkLogNext
LEMMA SpreadStarts == ASSUME NetworkLogInit PROVE SpreadOK
<1>1. logNow = 1 /\ snapshots = {} /\ logMishaps = 0
  BY DEF NetworkLogInit
<1>2. 0 \div LogDay = 0
  BY NetworkLogAssumption
<1>3. HoursMissed = {} /\ DaysMissed = {}
  BY <1>1, <1>2 DEF HoursMissed, DaysMissed
<1> QED
  BY <1>1, <1>3, FS_EmptySet DEF SpreadOK, SnapsOK
LEMMA SpreadSays == SpreadOK => SnapshotsSpread
BY DEF SpreadOK, SnapsOK, SnapshotsSpread, HoursMissed, DaysMissed

\* How often the events of some rows occurred.
Occ(S) == MapThenSumSet(LAMBDA r : r.occ, S)
OccTo(g, D) == g = [s \in D |-> IF s = {} THEN 0 ELSE AnyOf(s).occ + g[s \ {AnyOf(s)}]]
OccOver(S) == CHOOSE g : OccTo(g, SUBSET S)
LEMMA OccFolds == ASSUME NEW S PROVE Occ(S) = OccOver(S)[S]
BY DEF Occ, MapThenSumSet, MapThenFoldSet, AnyOf, OccOver, OccTo
LEMMA OccIs ==
  ASSUME NEW S, IsFiniteSet(S), NEW f, \A r \in S : f[r] = r.occ
  PROVE  Occ(S) = SumOf(f, S)
<1>1. ASSUME NEW g PROVE OccTo(g, SUBSET S) <=> SumsTo(g, f, SUBSET S)
  <2>1. \A s \in SUBSET S : (IF s = {} THEN 0 ELSE AnyOf(s).occ + g[s \ {AnyOf(s)}])
                             = (IF s = {} THEN 0 ELSE f[AnyOf(s)] + g[s \ {AnyOf(s)}])
    BY AnyIs
  <2>2. [s \in SUBSET S |-> IF s = {} THEN 0 ELSE AnyOf(s).occ + g[s \ {AnyOf(s)}]]
        = [s \in SUBSET S |-> IF s = {} THEN 0 ELSE f[AnyOf(s)] + g[s \ {AnyOf(s)}]]
    BY <2>1
  <2> QED
    BY <2>2, Zenon DEF OccTo, SumsTo
<1>2. PICK h : OccTo(h, SUBSET S)
  BY <1>1, SumExists
<1>3. PICK g : g = OccOver(S)
  OBVIOUS
<1>4. OccTo(g, SUBSET S)
  BY <1>2, <1>3 DEF OccOver
<1>5. SumOf(f, S) = g[S]
  BY <1>1, <1>4, SumIs
<1> QED
  BY <1>3, <1>5, OccFolds
LEMMA OccParts ==
  ASSUME NEW S, IsFiniteSet(S), \A r \in S : r.occ \in Nat, NEW gone \in SUBSET S
  PROVE  Occ(S \ gone) + Occ(gone) = Occ(S) /\ Occ(S \ gone) \in Nat /\ Occ(gone) \in Nat /\ Occ(S) \in Nat
<1>1. PICK f : f = [r \in S |-> r.occ]
  OBVIOUS
<1>2. PICK rest : rest = S \ gone
  OBVIOUS
<1>3. IsFiniteSet(rest) /\ IsFiniteSet(gone) /\ rest \subseteq S /\ gone \subseteq S
  BY <1>2, FS_Subset
<1>4. Occ(S) = SumOf(f, S) /\ Occ(rest) = SumOf(f, rest) /\ Occ(gone) = SumOf(f, gone)
  BY <1>1, <1>3, OccIs
<1>5. SumOf(f, rest) + SumOf(f, gone) = SumOf(f, S)
  BY <1>1, <1>2, SumParts
<1>6. SumOf(f, S) \in Nat /\ SumOf(f, rest) \in Nat /\ SumOf(f, gone) \in Nat
  BY <1>1, <1>3, SumNat
<1> QED
  BY <1>2, <1>4, <1>5, <1>6
LEMMA OccAdds ==
  ASSUME NEW S, IsFiniteSet(S), \A r \in S : r.occ \in Nat, NEW y, y.occ \in Nat, y \notin S
  PROVE  Occ(S \cup {y}) = y.occ + Occ(S) /\ Occ(S) \in Nat
<1>1. PICK T : T = S \cup {y}
  OBVIOUS
<1>2. PICK f : f = [r \in T |-> r.occ]
  OBVIOUS
<1>3. IsFiniteSet(T) /\ y \in T /\ S \subseteq T
  BY <1>1, FS_AddElement
<1>4. Occ(S) = SumOf(f, S) /\ Occ(T) = SumOf(f, T)
  BY <1>2, <1>3, OccIs
<1>5. SumOf(f, T) = f[y] + SumOf(f, S) /\ SumOf(f, S) \in Nat
  BY <1>1, <1>2, SumAdds
<1> QED
  BY <1>1, <1>2, <1>3, <1>4, <1>5
LEMMA OccOne ==
  ASSUME NEW S, IsFiniteSet(S), \A r \in S : r.occ \in Nat, NEW y \in S
  PROVE  Occ(S) = y.occ + Occ(S \ {y})
<1>1. PICK T : T = S \ {y}
  OBVIOUS
<1>2. IsFiniteSet(T) /\ y \notin T /\ S = T \cup {y} /\ y.occ \in Nat /\ \A r \in T : r.occ \in Nat
  BY <1>1, FS_Subset
<1>3. Occ(T \cup {y}) = y.occ + Occ(T)
  BY <1>2, OccAdds
<1> QED
  BY <1>1, <1>2, <1>3
LEMMA OccNone == Occ({}) = 0
<1>1. PICK S : S = {}
  OBVIOUS
<1>2. PICK f : f = [r \in S |-> r.occ]
  BY Zenon
<1>3. IsFiniteSet(S) /\ \A r \in S : f[r] = r.occ
  BY <1>1, FS_EmptySet
<1>4. Occ(S) = SumOf(f, S) /\ SumOf(f, S) = 0
  BY <1>1, <1>3, OccIs, SumStep
<1> QED
  BY <1>1, <1>4
-----------------------------------------------------------------------------
(* What is written of the network.  A caller that has looked for the last   *)
(* row of its event holds that row until a transaction of another changes   *)
(* the table; events of the router come one at a time.                      *)

SameEvent(k, n) == {r \in logRows : r.kind = k /\ r.last + LogWindow >= n}
LastOf(k, n) == {r \in SameEvent(k, n) : \A s \in SameEvent(k, n) : s.last <= r.last}
LookedOK(calls) == \A e \in Callers :
  /\ calls[e].at # "idle" => calls[e].now + 1 >= logNow
  /\ calls[e].at = "write" /\ ~calls[e].moved => calls[e].row = LastOf(calls[e].kind, calls[e].now)
RowsGrow == \A r \in logRows : r.first <= r.last + 1
RouterRows == {r \in logRows : r.kind \in RouterKinds}
TellingOK(calls, down) ==
  /\ \A e \in Callers : calls[e].at # "idle" => (calls[e].kind \in RouterKinds <=> e = "router")
  /\ calls["router"].at # "idle" =>
       /\ calls["router"].kind = "router_unavailable" <=> down
       /\ \A r \in RouterRows : r.last <= calls["router"].now
WrittenOK == LookedOK(emits) /\ RowsGrow /\ RowsApart /\ TellingOK(emits, toldDown) /\ RouterTold

\* Of rows there are, one is the last.
LEMMA LatestIs ==
  ASSUME logNow \in Nat, RowsOK, NEW S, S \subseteq logRows, S # {}
  PROVE  \E r \in S : \A s \in S : s.last <= r.last
<1>0. \A r \in S : r.last \in Nat /\ r.last <= logNow
  BY DEF RowsOK, LogRow
<1>1. PICK age : age = [r \in S |-> logNow - r.last]
  OBVIOUS
<1>2. \A r \in S : age[r] = logNow - r.last /\ age[r] \in Nat
  BY <1>0, <1>1
<1>3. PICK r \in S : \A s \in S : age[r] <= age[s]
  BY <1>2, LeastIs
<1>4. \A s \in S : logNow - r.last <= logNow - s.last
  BY <1>2, <1>3
<1> QED
  BY <1>0, <1>4

\* A transaction that was committed outdates those that have looked.
LEMMA OthersLooked ==
  ASSUME EmitsOK(emits), NEW x, NEW e \in Callers, NEW o, o = OthersWritten(x)[e]
  PROVE  /\ o.at # "idle" => o.at = emits[e].at /\ o.kind = emits[e].kind /\ o.now = emits[e].now /\ e # x
         /\ o.at = "write" => o.moved
         /\ o.at = "idle" => emits[e].at = "idle" \/ e = x
<1>1. PICK s : s = emits[e]
  OBVIOUS
<1>2. s \in EmitState
  BY <1>1 DEF EmitsOK
<1>3. PICK m : m = [s EXCEPT !.moved = TRUE]
  OBVIOUS
<1>4. m.at = s.at /\ m.kind = s.kind /\ m.now = s.now /\ m.moved = TRUE
  BY <1>2, <1>3 DEF EmitState
<1>5. CASE e = x
  BY <1>5, IdleEmitIs DEF OthersWritten
<1>6. CASE e # x /\ s.at = "write"
  <2>1. o = m
    BY <1>1, <1>3, <1>6 DEF OthersWritten
  <2> QED
    BY <1>1, <1>4, <1>6, <2>1
<1>7. CASE e # x /\ s.at # "write"
  <2>1. o = s
    BY <1>1, <1>7 DEF OthersWritten
  <2> QED
    BY <1>1, <1>7, <2>1
<1> QED
  BY <1>5, <1>6, <1>7
LEMMA OthersLookedOK ==
  ASSUME EmitsOK(emits), LookedOK(emits), NEW x
  PROVE  LookedOK(OthersWritten(x))
<1> SUFFICES ASSUME NEW e \in Callers
    PROVE  /\ OthersWritten(x)[e].at # "idle" => OthersWritten(x)[e].now + 1 >= logNow
           /\ OthersWritten(x)[e].at = "write" => OthersWritten(x)[e].moved
  BY DEF LookedOK
<1>1. PICK o : o = OthersWritten(x)[e]
  OBVIOUS
<1> QED
  BY <1>1, OthersLooked DEF LookedOK
LEMMA OthersTelling ==
  ASSUME EmitsOK(emits), TellingOK(emits, toldDown), NEW x
  PROVE  TellingOK(OthersWritten(x), toldDown)
<1>1. \A e \in Callers : OthersWritten(x)[e].at # "idle" =>
        /\ OthersWritten(x)[e].kind = emits[e].kind /\ OthersWritten(x)[e].now = emits[e].now
        /\ emits[e].at # "idle"
  <2> TAKE e \in Callers
  <2>1. PICK o : o = OthersWritten(x)[e]
    OBVIOUS
  <2> QED
    BY <2>1, OthersLooked
<1>2. "router" \in Callers
  BY DEF Callers
<1> QED
  BY <1>1, <1>2, Zenon DEF TellingOK

\* What is told of the router stays true while nothing of it is written or erased.
LEMMA ToldStays ==
  ASSUME RouterTold, ~routerLost' => ~routerLost,
         ~routerLost' /\ emits'["router"].at = "idle" =>
            emits["router"].at = "idle" /\ UNCHANGED toldDown /\ RouterRows' = RouterRows
  PROVE  RouterTold'
<1> SUFFICES ASSUME ~routerLost', emits'["router"].at = "idle", NEW r \in RouterRows',
                    \A s \in RouterRows' \ {r} : s.last < r.last
    PROVE  r.kind = "router_unavailable" <=> toldDown'
  BY DEF RouterTold, RouterRows
<1>1. r \in RouterRows /\ (\A s \in RouterRows \ {r} : s.last < r.last) /\ toldDown' = toldDown
  OBVIOUS
<1>2. r.kind = "router_unavailable" <=> toldDown
  BY <1>1 DEF RouterTold, RouterRows
<1> QED
  BY <1>1, <1>2
\* What a call of Emit leaves: the event looks for its row, or is dropped.
LEMMA EmitAsks ==
  ASSUME LogInv, NEW calls, EmitsOK(calls), LookedOK(calls), TellingOK(calls, toldDown),
         calls["router"].at = "idle" => emits["router"].at = "idle",
         emits["router"].at = "idle" => calls["router"].at = "idle",
         NEW e \in Callers, NEW k \in LogKinds, NEW op \in {0, 1}, EmitFrom(calls, e, k, op),
         UNCHANGED <<logNow, logRows>>, k \in RouterKinds <=> e = "router",
         IF e = "router" THEN k = "router_unavailable" <=> toldDown' ELSE UNCHANGED toldDown
  PROVE  /\ LookedOK(emits)' /\ TellingOK(emits, toldDown)'
         /\ ~routerLost' => ~routerLost
         /\ ~routerLost' /\ emits'["router"].at = "idle" => emits["router"].at = "idle" /\ UNCHANGED toldDown
<1>0. logNow \in Nat /\ RowsOK /\ "router" \in Callers
  BY DEF LogInv, LogClock, Callers
<1>1. PICK c : c = CategoryOf(k)
  OBVIOUS
<1>2. CASE ~Allowed(c)
  <2>1. emits' = calls /\ routerLost' = (routerLost \/ k \in RouterKinds) /\ emits[e].at = "idle"
    BY <1>1, <1>2, Zenon DEF EmitFrom
  <2>2. LookedOK(emits)'
    BY <2>1 DEF LookedOK, LastOf, SameEvent
  <2>3. RouterRows' = RouterRows
    BY DEF RouterRows
  <2>4. CASE e = "router"
    <3>1. emits'["router"].at = "idle" /\ routerLost'
      BY <2>1, <2>4
    <3>2. \A x \in Callers : emits'[x].at # "idle" => (emits'[x].kind \in RouterKinds <=> x = "router")
      BY <2>1 DEF TellingOK
    <3> QED
      BY <2>2, <3>1, <3>2, Zenon DEF TellingOK
  <2>5. CASE e # "router"
    <3>1. toldDown' = toldDown
      BY <2>5
    <3>2. TellingOK(emits, toldDown)'
      BY <2>1, <2>3, <3>1, Zenon DEF TellingOK
    <3> QED
      BY <2>1, <2>2, <2>5, <3>1, <3>2
  <2> QED
    BY <2>4, <2>5
<1>3. CASE Allowed(c)
  <2>1. PICK s : s = [IdleEmit EXCEPT !.at = "look", !.kind = k, !.op = op, !.now = logNow]
    OBVIOUS
  <2>2. s.at = "look" /\ s.now = logNow /\ s.kind = k
    BY <2>1 DEF IdleEmit
  <2>3. emits' = [calls EXCEPT ![e] = s] /\ UNCHANGED routerLost
    BY <1>1, <1>3, <2>1 DEF EmitFrom
  <2>4. emits'[e] = s /\ \A x \in Callers \ {e} : emits'[x] = calls[x]
    BY <2>3 DEF EmitsOK
  <2>5. LookedOK(emits)'
    <3>1. ASSUME NEW x \in Callers
          PROVE  /\ emits'[x].at # "idle" => emits'[x].now + 1 >= logNow
                 /\ emits'[x].at = "write" /\ ~emits'[x].moved => emits'[x].row = LastOf(emits'[x].kind, emits'[x].now)
      <4>1. CASE x = e
        BY <1>0, <2>2, <2>4, <4>1
      <4>2. CASE x # e
        BY <2>4, <4>2 DEF LookedOK
      <4> QED
        BY <4>1, <4>2
    <3>2. \A kk, n : LastOf(kk, n)' = LastOf(kk, n)
      BY DEF LastOf, SameEvent
    <3> QED
      BY <3>1, <3>2 DEF LookedOK
  <2>6. \A x \in Callers : emits'[x].at # "idle" => (emits'[x].kind \in RouterKinds <=> x = "router")
    BY <2>2, <2>4 DEF TellingOK
  <2>7. \A r \in RouterRows : r.last <= logNow
    BY <1>0 DEF RouterRows, RowsOK
  <2>8. RouterRows' = RouterRows
    BY DEF RouterRows
  <2>9. CASE e = "router"
    <3>1. emits'["router"] = s
      BY <2>4, <2>9
    <3>2. TellingOK(emits, toldDown)'
      BY <2>2, <2>6, <2>7, <2>8, <2>9, <3>1 DEF TellingOK
    <3> QED
      BY <2>2, <2>3, <2>5, <3>1, <3>2
  <2>10. CASE e # "router"
    <3>1. emits'["router"] = calls["router"] /\ toldDown' = toldDown
      BY <1>0, <2>4, <2>10
    <3>2. TellingOK(emits, toldDown)'
      BY <2>6, <2>8, <3>1 DEF TellingOK
    <3> QED
      BY <2>3, <2>5, <2>10, <3>1, <3>2
  <2> QED
    BY <2>9, <2>10
<1> QED
  BY <1>2, <1>3

LEMMA RowsStill ==
  ASSUME RowsGrow, RowsApart, logRows' \subseteq logRows
  PROVE  RowsGrow' /\ RowsApart'
BY DEF RowsGrow, RowsApart
LEMMA LookedStill ==
  ASSUME LookedOK(emits), UNCHANGED <<emits, logNow, logRows>>
  PROVE  LookedOK(emits)'
BY DEF LookedOK, LastOf, SameEvent

LEMMA EmitLooksWrites ==
  ASSUME LogInv, WrittenOK, NEW e \in Callers, EmitLooks(e)
  PROVE  WrittenOK'
<1>0. /\ LookedOK(emits) /\ RowsGrow /\ RowsApart /\ TellingOK(emits, toldDown) /\ RouterTold
      /\ UNCHANGED <<logNow, logRows, toldDown, routerLost>> /\ EmitsOK(emits) /\ "router" \in Callers
  BY DEF WrittenOK, EmitLooks, LogInv, Callers
<1>1. PICK R : R = LastOf(emits[e].kind, emits[e].now)
  OBVIOUS
<1>2. PICK s : s = emits[e]
  OBVIOUS
<1>3. s \in EmitState /\ s.at = "look"
  BY <1>0, <1>2 DEF EmitsOK, EmitLooks
<1>4. PICK n : n = [s EXCEPT !.at = "write", !.row = R]
  OBVIOUS
<1>5. n.now = s.now /\ n.kind = s.kind /\ n.at = "write" /\ n.row = R
  BY <1>3, <1>4 DEF EmitState
<1>6. emits' = [emits EXCEPT ![e] = n]
  BY <1>0, <1>1, <1>2, <1>4 DEF EmitLooks, EmitsOK, LastOf, SameEvent
<1>7. emits'[e] = n /\ \A x \in Callers \ {e} : emits'[x] = emits[x]
  BY <1>0, <1>6 DEF EmitsOK
<1>8. \A kk, m : LastOf(kk, m)' = LastOf(kk, m)
  BY <1>0 DEF LastOf, SameEvent
<1>9. LookedOK(emits)'
  <2> SUFFICES ASSUME NEW x \in Callers
      PROVE  /\ emits'[x].at # "idle" => emits'[x].now + 1 >= logNow'
             /\ emits'[x].at = "write" /\ ~emits'[x].moved => emits'[x].row = LastOf(emits'[x].kind, emits'[x].now)
    BY <1>8 DEF LookedOK
  <2>1. CASE x = e
    BY <1>0, <1>1, <1>2, <1>3, <1>5, <1>7, <2>1 DEF LookedOK
  <2>2. CASE x # e
    BY <1>0, <1>7, <2>2 DEF LookedOK
  <2> QED
    BY <2>1, <2>2
<1>10. \A x \in Callers : /\ emits'[x].at = "idle" <=> emits[x].at = "idle"
                          /\ emits'[x].kind = emits[x].kind /\ emits'[x].now = emits[x].now
  BY <1>2, <1>3, <1>5, <1>7
<1>11. RouterRows' = RouterRows
  BY <1>0 DEF RouterRows
<1>12. TellingOK(emits, toldDown)'
  BY <1>0, <1>10, <1>11, Zenon DEF TellingOK
<1>13. RouterTold'
  BY <1>0, <1>10, <1>11, ToldStays
<1> QED
  BY <1>0, <1>9, <1>12, <1>13, RowsStill DEF WrittenOK
\* A transaction that commits: it counts on the last row of its event within the window, as it
\* found it, or there was none.
Counted(r, n) == [r EXCEPT !.occ = @ + 1, !.last = n]
LEMMA CountedIs ==
  ASSUME NEW r \in LogRow, NEW n
  PROVE  Counted(r, n).last = n /\ Counted(r, n).first = r.first /\ Counted(r, n).kind = r.kind
BY DEF Counted, LogRow
LEMMA RowOf ==
  ASSUME LogInv, NEW r \in logRows
  PROVE  r \in LogRow /\ r.first \in Nat /\ r.last \in Nat /\ r.first <= logNow /\ r.last <= logNow /\ logNow \in Nat
BY DEF LogInv, LogClock, RowsOK, LogRow
LEMMA NoneIsLast ==
  ASSUME LogInv, NEW k, NEW n \in Nat, LastOf(k, n) = {}, NEW r \in logRows, r.kind = k
  PROVE  r.last + LogWindow < n
<1> SUFFICES ASSUME ~(r.last + LogWindow < n) PROVE FALSE
  OBVIOUS
<1>1. LogWindow \in Nat
  BY NetworkLogAssumption
<1>2. r.last + LogWindow >= n
  BY <1>1, RowOf
<1>3. r \in SameEvent(k, n)
  BY <1>2 DEF SameEvent
<1>4. PICK m \in SameEvent(k, n) : \A s \in SameEvent(k, n) : s.last <= m.last
  <2>1. SameEvent(k, n) \subseteq logRows /\ SameEvent(k, n) # {} /\ logNow \in Nat /\ RowsOK
    BY <1>3 DEF SameEvent, LogInv, LogClock
  <2> QED
    BY <2>1, LatestIs
<1>5. m \in LastOf(k, n)
  BY <1>4 DEF LastOf
<1> QED
  BY <1>5
\* Two of the last rows, or one of them and any other of the event, keep apart when they move.
LEMMA ApartStays ==
  ASSUME LogInv, RowsGrow, RowsApart, NEW k, NEW n \in Nat, n <= logNow, logNow <= n + 1,
         NEW r \in LastOf(k, n), NEW s \in logRows, s.kind = k, s # r
  PROVE  /\ s \in LastOf(k, n) => s.first > n + LogWindow \/ r.first > n + LogWindow
         /\ s \notin LastOf(k, n) => r.first > s.last + LogWindow
<1>0. LogWindow \in Nat
  BY NetworkLogAssumption
<1>1. r \in logRows /\ r.kind = k /\ r.last + LogWindow >= n /\ \A t \in SameEvent(k, n) : t.last <= r.last
  BY DEF LastOf, SameEvent
<1>2. /\ r.first \in Nat /\ r.last \in Nat /\ s.first \in Nat /\ s.last \in Nat /\ r.last <= logNow /\ s.last <= logNow
      /\ r.first <= r.last + 1 /\ s.first <= s.last + 1 /\ logNow \in Nat
  BY <1>1, RowOf DEF RowsGrow
<1>3. s.first > r.last + LogWindow \/ r.first > s.last + LogWindow
  BY <1>1 DEF RowsApart
<1>4. s \in SameEvent(k, n) <=> s.last + LogWindow >= n
  BY DEF SameEvent
<1>5. s \in SameEvent(k, n) => s.last <= r.last
  BY <1>1
<1>6. s \in LastOf(k, n) => s.last = r.last
  <2>1. s \in LastOf(k, n) => r.last <= s.last /\ s \in SameEvent(k, n)
    BY <1>1 DEF LastOf, SameEvent
  <2> QED
    BY <1>2, <1>5, <2>1
<1>7. s \in SameEvent(k, n) /\ s.last = r.last => s \in LastOf(k, n)
  BY <1>1 DEF LastOf
<1>8. CASE s \in LastOf(k, n)
  BY <1>0, <1>1, <1>2, <1>3, <1>6, <1>8
<1>9. CASE s \notin LastOf(k, n)
  <2>1. CASE s \in SameEvent(k, n)
    <3>1. s.last < r.last
      BY <1>2, <1>5, <1>7, <1>9, <2>1
    <3> QED
      BY <1>0, <1>1, <1>2, <1>3, <1>9, <3>1
  <2>2. CASE s \notin SameEvent(k, n)
    <3>1. s.last + LogWindow < n
      BY <1>0, <1>2, <1>4, <2>2
    <3> QED
      BY <1>0, <1>1, <1>2, <1>3, <1>9, <3>1
  <2> QED
    BY <2>1, <2>2
<1> QED
  BY <1>8, <1>9

LEMMA InsertKeepsApart ==
  ASSUME LogInv, RowsGrow, RowsApart, NEW q, q.first \in Nat, q.last = q.first, LastOf(q.kind, q.first) = {},
         logRows' = logRows \cup {q}
  PROVE  RowsGrow' /\ RowsApart'
<1>1. \A r \in logRows : r.kind = q.kind => q.first > r.last + LogWindow
  <2>1. \A r \in logRows : r.last \in Nat /\ LogWindow \in Nat
    BY RowOf, NetworkLogAssumption
  <2> QED
    BY <2>1, NoneIsLast
<1>2. RowsGrow'
  BY DEF RowsGrow
<1>3. RowsApart'
  BY <1>1 DEF RowsApart
<1> QED
  BY <1>2, <1>3
LEMMA UpdateKeepsApart ==
  ASSUME LogInv, RowsGrow, RowsApart, NEW k, NEW n \in Nat, n <= logNow, logNow <= n + 1,
         NEW found, found = LastOf(k, n),
         logRows' = (logRows \ found) \cup {Counted(r, n) : r \in found}
  PROVE  RowsGrow' /\ RowsApart'
<1>0. found \subseteq logRows /\ \A r \in found : r.kind = k
  BY DEF LastOf, SameEvent
<1>1. \A r \in found : /\ Counted(r, n).last = n /\ Counted(r, n).first = r.first /\ Counted(r, n).kind = k
                       /\ r.first \in Nat /\ r.first <= logNow
  <2> TAKE r \in found
  <2>1. r \in logRows /\ r \in LogRow /\ r.kind = k
    BY <1>0, RowOf
  <2> QED
    BY <2>1, CountedIs, RowOf
<1>2. RowsGrow'
  <2>1. \A r \in found : Counted(r, n).first <= Counted(r, n).last + 1
    <3>1. logNow \in Nat
      BY DEF LogInv, LogClock
    <3> QED
      BY <1>1, <3>1
  <2> QED
    BY <2>1 DEF RowsGrow
<1>3. ASSUME NEW r \in found, NEW s \in logRows \ found, s.kind = k
      PROVE  Counted(r, n).first > s.last + LogWindow
  BY <1>0, <1>1, <1>3, ApartStays
<1>4. ASSUME NEW r \in found, NEW s \in found, Counted(r, n) # Counted(s, n)
      PROVE  Counted(s, n).first > Counted(r, n).last + LogWindow \/ Counted(r, n).first > Counted(s, n).last + LogWindow
  <2>1. r # s /\ s \in logRows /\ s.kind = k
    BY <1>0, <1>4
  <2> QED
    BY <1>1, <2>1, ApartStays
<1>5. RowsApart'
  <2> SUFFICES ASSUME NEW a \in logRows', NEW b \in logRows', a.kind = b.kind, a # b
      PROVE  b.first > a.last + LogWindow \/ a.first > b.last + LogWindow
    BY DEF RowsApart
  <2>1. CASE a \in logRows \ found /\ b \in logRows \ found
    BY <2>1 DEF RowsApart
  <2>2. ASSUME NEW r \in found, a = Counted(r, n), b \in logRows \ found PROVE a.first > b.last + LogWindow
    BY <1>1, <1>3, <2>2
  <2>3. ASSUME NEW r \in found, b = Counted(r, n), a \in logRows \ found PROVE b.first > a.last + LogWindow
    BY <1>1, <1>3, <2>3
  <2>4. ASSUME NEW r \in found, NEW s \in found, a = Counted(r, n), b = Counted(s, n)
        PROVE  b.first > a.last + LogWindow \/ a.first > b.last + LogWindow
    BY <1>4, <2>4
  <2>5. (a \in logRows \ found \/ \E r \in found : a = Counted(r, n))
        /\ (b \in logRows \ found \/ \E r \in found : b = Counted(r, n))
    OBVIOUS
  <2> QED
    BY <2>1, <2>2, <2>3, <2>4, <2>5
<1> QED
  BY <1>2, <1>5

\* The router's own event is the last of the router's rows once it is written; that of another
\* is none of them.
LEMMA RouterIsLast ==
  ASSUME NEW Q, Q # {}, Q \subseteq logRows', NEW k, NEW n \in Nat,
         \A q \in Q : q.kind = k /\ q.last = n, k \in RouterKinds,
         \A r \in logRows' : r.last \in Nat /\ (r.kind \in RouterKinds /\ r \notin Q => r.last <= n),
         k = "router_unavailable" <=> toldDown'
  PROVE  RouterTold'
<1> SUFFICES ASSUME NEW r \in logRows', r.kind \in RouterKinds,
                    \A s \in logRows' : s.kind \in RouterKinds /\ s # r => s.last < r.last
    PROVE  r \in Q
  BY DEF RouterTold
<1>1. PICK q \in Q : TRUE
  OBVIOUS
<1>2. r \notin Q => q.last < r.last /\ r.last <= n /\ q.last = n
  BY <1>1
<1>3. r \notin Q => n < r.last /\ r.last <= n
  BY <1>2
<1> QED
  BY <1>3

-----------------------------------------------------------------------------
(* The ledger.  No more than two callers emit one kind of event, so that of *)
(* two of them one is not older than the rows there are, and a row whose    *)
(* last event is older than its first is older than whoever is left.        *)

KindsBy(e) == CASE e = "router" -> RouterKinds
                [] e = "user" -> {"capabilities_refreshed"}
                [] e = "retention" -> {"retention_pass"}
                [] OTHER -> {"auth_failed"}
Asks(e, k) == emits[e].at # "idle" /\ emits[e].kind = k
KindsOK == \A e \in Callers : emits[e].at # "idle" => emits[e].kind \in KindsBy(e)
AheadOK ==
  \A s \in logRows : \A e \in Callers : Asks(e, s.kind) =>
    /\ s.first > s.last => s.first <= emits[e].now
    /\ \A x \in Callers \ {e} : Asks(x, s.kind) => s.first <= emits[e].now \/ s.first <= emits[x].now
RowsOfKind(k, rows) == {r \in rows : r.kind = k}
LedgerIs == IsFiniteSet(logRows) /\ ledger = [k \in LogKinds |-> Occ(RowsOfKind(k, logRows))]
BooksOK == KindsOK /\ AheadOK /\ LedgerIs

LEMMA BooksSay == BooksOK => LedgerAgrees
<1>1. \A k : Occurrences(k, logRows) = Occ(RowsOfKind(k, logRows))
  BY DEF Occurrences, Occ, RowsOfKind
<1> QED
  BY <1>1 DEF BooksOK, LedgerIs, LedgerAgrees
LEMMA AskedTwice ==
  ASSUME KindsOK, NEW k, NEW a \in Callers, NEW b \in Callers \ {a}, NEW c \in Callers \ {a, b}, Asks(a, k), Asks(b, k)
  PROVE  ~Asks(c, k)
BY DEF KindsOK, KindsBy, Asks, Callers, RouterKinds
\* Who goes on keeps its kind and its time; who begins has the time it is.
LEMMA CallersGoOn ==
  ASSUME KindsOK, AheadOK, LogInv, logRows' \subseteq logRows,
         \A e \in Callers : emits'[e].at # "idle" =>
           \/ emits[e].at # "idle" /\ emits'[e].kind = emits[e].kind /\ emits'[e].now = emits[e].now
           \/ emits'[e].kind \in KindsBy(e) /\ emits'[e].now = logNow
  PROVE  KindsOK' /\ AheadOK'
<1>1. KindsOK'
  BY DEF KindsOK, KindsBy
<1>2. ASSUME NEW s \in logRows', NEW e \in Callers, Asks(e, s.kind)'
      PROVE  \/ Asks(e, s.kind) /\ emits'[e].now = emits[e].now
             \/ s.first <= emits'[e].now
  BY <1>2, RowOf DEF Asks
<1>3. AheadOK'
  BY <1>2 DEF AheadOK
<1> QED
  BY <1>1, <1>3
LEMMA AskedOf ==
  ASSUME NEW calls, NEW e \in Callers, NEW k, NEW op, EmitFrom(calls, e, k, op), EmitsOK(calls)
  PROVE  \A x \in Callers : \/ emits'[x] = calls[x]
                            \/ x = e /\ emits'[x].kind = k /\ emits'[x].now = logNow
<1>1. PICK c : c = CategoryOf(k)
  OBVIOUS
<1>2. PICK s : s = [IdleEmit EXCEPT !.at = "look", !.kind = k, !.op = op, !.now = logNow]
  OBVIOUS
<1>3. s.now = logNow /\ s.kind = k
  BY <1>2 DEF IdleEmit
<1>4. emits' = [calls EXCEPT ![e] = s] \/ emits' = calls
  BY <1>1, <1>2 DEF EmitFrom
<1> QED
  BY <1>3, <1>4 DEF EmitsOK
LEMMA LedgerStays == ASSUME LedgerIs, UNCHANGED <<logRows, ledger>> PROVE LedgerIs'
BY DEF LedgerIs, RowsOfKind
\* What is erased is taken from the ledger.
LEMMA LedgerErases ==
  ASSUME LedgerIs, RowsOK, NEW gone, gone \subseteq logRows, EventsErased(gone)
  PROVE  LedgerIs' /\ logRows' \subseteq logRows
<1>1. logRows' = logRows \ gone /\ ledger' = [k \in LogKinds |-> ledger[k] - Occurrences(k, gone)]
  BY DEF EventsErased
<1>2. IsFiniteSet(logRows')
  BY <1>1, FS_Subset DEF LedgerIs
<1>3. ASSUME NEW k \in LogKinds PROVE ledger[k] - Occurrences(k, gone) = Occ(RowsOfKind(k, logRows'))
  <2>1. PICK A, B : A = RowsOfKind(k, logRows) /\ B = RowsOfKind(k, gone)
    OBVIOUS
  <2>2. IsFiniteSet(A) /\ (\A r \in A : r.occ \in Nat) /\ B \in SUBSET A
    BY <2>1, FS_Subset DEF LedgerIs, RowsOfKind, RowsOK, LogRow
  <2>3. RowsOfKind(k, logRows') = A \ B
    BY <1>1, <2>1 DEF RowsOfKind
  <2>4. Occ(A \ B) + Occ(B) = Occ(A) /\ Occ(B) \in Nat /\ Occ(A \ B) \in Nat
    BY <2>2, OccParts
  <2>5. ledger[k] = Occ(A) /\ Occurrences(k, gone) = Occ(B)
    BY <2>1 DEF LedgerIs, Occurrences, Occ, RowsOfKind
  <2>6. PICK a, b, c : a = Occ(A \ B) /\ b = Occ(B) /\ c = Occ(A)
    OBVIOUS
  <2>7. c - b = a
    BY <2>4, <2>6
  <2> QED
    BY <2>3, <2>5, <2>6, <2>7
<1> QED
  BY <1>1, <1>2, <1>3 DEF LedgerIs
\* A transaction that commits counts once: on the one row that is last of its event, or on a new one.
LEMMA OneIsLast ==
  ASSUME LogInv, RowsApart, AheadOK, NEW e \in Callers, emits[e].at # "idle", emits[e].now \in Nat,
         NEW r \in LastOf(emits[e].kind, emits[e].now)
  PROVE  /\ r.first <= r.last + LogWindow
         /\ LastOf(emits[e].kind, emits[e].now) = {r}
         /\ Counted(r, emits[e].now) \notin logRows
<1> DEFINE k == emits[e].kind
           n == emits[e].now
<1>0. LogWindow \in Nat
  BY NetworkLogAssumption
<1>1. ASSUME NEW s \in logRows, s.kind = k, s.first > s.last PROVE s.first <= n
  BY <1>1 DEF AheadOK, Asks
<1>2. ASSUME NEW s \in LastOf(k, n)
      PROVE  /\ s \in logRows /\ s.kind = k /\ s.first \in Nat /\ s.last \in Nat /\ s.first <= s.last + LogWindow
             /\ s \in LogRow /\ s.last + LogWindow >= n /\ (\A t \in LastOf(k, n) : t.last <= s.last)
  <2>1. s \in logRows /\ s.kind = k /\ s.last + LogWindow >= n
    BY <1>2 DEF LastOf, SameEvent
  <2>2. s.first \in Nat /\ s.last \in Nat /\ s \in LogRow
    BY <2>1, RowOf
  <2>3. \A t \in LastOf(k, n) : t.last <= s.last
    BY <1>2 DEF LastOf, SameEvent
  <2>4. s.first > s.last => s.first <= n
    BY <1>1, <2>1
  <2>5. s.first <= s.last + LogWindow
    <3>1. PICK a, b, m : a = s.first /\ b = s.last /\ m = n
      OBVIOUS
    <3> QED
      BY <1>0, <2>1, <2>2, <2>4, <3>1
  <2> QED
    BY <2>1, <2>2, <2>3, <2>5
<1> HIDE DEF k, n
<1>3. ASSUME NEW s \in LastOf(k, n), s # r PROVE FALSE
  <2>1. s.first > r.last + LogWindow \/ r.first > s.last + LogWindow
    BY <1>2, <1>3 DEF k, n, RowsApart
  <2>2. r \in LastOf(k, n)
    BY DEF k, n
  <2>3. r.last = s.last
    BY <1>2, <1>3, <2>2
  <2> QED
    BY <1>0, <1>2, <1>3, <2>1, <2>2, <2>3
<1>4. r \in LastOf(k, n)
  BY DEF k, n
<1>5. ASSUME Counted(r, n) \in logRows PROVE FALSE
  <2>1. PICK q : q = Counted(r, n)
    OBVIOUS
  <2>2. q.last = n /\ q.first = r.first /\ q.kind = k /\ r.occ \in Nat /\ q.occ = r.occ + 1
    <3>1. r \in LogRow /\ r.kind = k
      BY <1>2, <1>4
    <3>2. q.occ = r.occ + 1
      BY <2>1, <3>1 DEF Counted, LogRow
    <3>3. r.occ \in Nat
      BY <3>1 DEF LogRow
    <3> QED
      BY <2>1, <3>1, <3>2, <3>3, CountedIs
  <2>3. q \in logRows /\ r \in logRows /\ q # r
    BY <1>2, <1>4, <1>5, <2>1, <2>2
  <2>4. q.first > r.last + LogWindow \/ r.first > q.last + LogWindow
    BY <1>2, <1>4, <2>2, <2>3 DEF RowsApart
  <2>5. n \in Nat /\ r.first \in Nat /\ r.last \in Nat /\ r.first <= r.last + LogWindow
    BY <1>2, <1>4 DEF n
  <2>6. r.first > n + LogWindow
    BY <1>0, <2>2, <2>4, <2>5
  <2>7. q.first > q.last
    BY <1>0, <2>2, <2>5, <2>6
  <2>8. r.first <= n
    BY <1>1, <2>2, <2>3, <2>7
  <2> QED
    BY <1>0, <2>5, <2>6, <2>8
<1> QED
  BY <1>2, <1>3, <1>4, <1>5 DEF k, n
\* The ledger when one row takes the place of another, or is new.
LEMMA LedgerCounts ==
  ASSUME LogInv, LedgerIs, NEW gone, gone \subseteq logRows, NEW q, q \notin logRows,
         q.occ \in Nat, q.kind \in LogKinds, \A r \in gone : r.kind = q.kind, gone = {} \/ \E r \in gone : gone = {r},
         q.occ = (IF gone = {} THEN 1 ELSE (CHOOSE r \in gone : TRUE).occ + 1),
         logRows' = (logRows \ gone) \cup {q}, ledger' = [ledger EXCEPT ![q.kind] = @ + 1]
  PROVE  LedgerIs'
<1>1. IsFiniteSet(logRows \ gone) /\ IsFiniteSet(logRows')
  BY FS_Subset, FS_AddElement DEF LedgerIs
<1>2. ledger' = [k \in LogKinds |-> IF k = q.kind THEN ledger[k] + 1 ELSE ledger[k]]
  BY DEF LedgerIs
<1>3. ASSUME NEW k \in LogKinds, k # q.kind PROVE ledger[k] = Occ(RowsOfKind(k, logRows'))
  <2>1. RowsOfKind(k, logRows') = RowsOfKind(k, logRows)
    BY <1>3 DEF RowsOfKind
  <2> QED
    BY <2>1 DEF LedgerIs
<1>4. ledger[q.kind] + 1 = Occ(RowsOfKind(q.kind, logRows'))
  <2>1. PICK A : A = RowsOfKind(q.kind, logRows)
    OBVIOUS
  <2>2. IsFiniteSet(A) /\ (\A r \in A : r.occ \in Nat) /\ gone \subseteq A /\ q \notin A
    BY <2>1, FS_Subset DEF LedgerIs, RowsOfKind, LogInv, RowsOK, LogRow
  <2>3. RowsOfKind(q.kind, logRows') = (A \ gone) \cup {q} /\ ledger[q.kind] = Occ(A)
    BY <2>1 DEF RowsOfKind, LedgerIs
  <2>4. IsFiniteSet(A \ gone) /\ (\A r \in A \ gone : r.occ \in Nat) /\ q \notin A \ gone
    BY <2>2, FS_Subset
  <2>5. Occ((A \ gone) \cup {q}) = q.occ + Occ(A \ gone) /\ Occ(A \ gone) \in Nat
    BY <2>4, OccAdds
  <2>6. Occ(A) + 1 = q.occ + Occ(A \ gone)
    <3>1. CASE gone = {}
      <4>1. A \ gone = A /\ q.occ = 1
        BY <3>1
      <4>2. PICK a \in Nat : a = Occ(A)
        BY <2>5, <4>1
      <4>3. Occ(A \ gone) = a
        BY <4>1, <4>2
      <4> QED
        BY <4>1, <4>2, <4>3
    <3>2. CASE gone # {}
      <4>1. PICK r \in gone : gone = {r}
        BY <3>2
      <4>2. (CHOOSE x \in gone : TRUE) = r
        BY <4>1
      <4>3. q.occ = r.occ + 1
        BY <3>2, <4>2
      <4>4. r \in A /\ r.occ \in Nat
        BY <2>2, <4>1
      <4>5. Occ(A) = r.occ + Occ(A \ {r})
        BY <2>2, <4>4, OccOne
      <4>6. PICK b : b = Occ(A \ gone)
        OBVIOUS
      <4> QED
        BY <2>5, <4>1, <4>3, <4>4, <4>5, <4>6
    <3> QED
      BY <3>1, <3>2
  <2> QED
    BY <2>3, <2>5, <2>6
<1>5. \A k \in LogKinds : (IF k = q.kind THEN ledger[k] + 1 ELSE ledger[k]) = Occ(RowsOfKind(k, logRows'))
  BY <1>3, <1>4
<1>6. ledger' = [k \in LogKinds |-> Occ(RowsOfKind(k, logRows'))]
  BY <1>2, <1>5, Zenon
<1> QED
  BY <1>1, <1>6 DEF LedgerIs
LEMMA EmitWritesWrites ==
  ASSUME LogInv, WrittenOK, NEW e \in Callers, EmitWrites(e)
  PROVE  WrittenOK'
<1>0. /\ LookedOK(emits) /\ RowsGrow /\ RowsApart /\ TellingOK(emits, toldDown) /\ RouterTold
      /\ RowsOK /\ EmitsOK(emits) /\ "router" \in Callers /\ logNow \in Nat
  BY DEF WrittenOK, LogInv, LogClock, Callers
<1>1. UNCHANGED <<logNow, toldDown>> /\ emits[e].at = "write"
  BY Zenon DEF EmitWrites
<1>2. PICK s : s = emits[e]
  OBVIOUS
<1>3. /\ s \in EmitState /\ s.at = "write" /\ s.kind \in LogKinds /\ s.now \in Nat /\ s.now <= logNow
      /\ logNow <= s.now + 1 /\ (s.kind \in RouterKinds <=> e = "router")
      /\ ~s.moved => s.row = LastOf(s.kind, s.now)
  <2>1. s \in EmitState /\ s.at = "write" /\ s.kind \in LogKinds /\ s.now <= logNow
    BY <1>0, <1>1, <1>2 DEF EmitsOK
  <2>2. s.now \in Nat
    BY <2>1 DEF EmitState
  <2>3. s.now + 1 >= logNow /\ (~s.moved => s.row = LastOf(s.kind, s.now))
    BY <1>0, <1>1, <1>2 DEF LookedOK
  <2>4. s.kind \in RouterKinds <=> e = "router"
    BY <1>0, <1>1, <1>2 DEF TellingOK
  <2> QED
    BY <1>0, <2>1, <2>2, <2>3, <2>4
<1> DEFINE q == [kind |-> s.kind, op |-> s.op, first |-> s.now, last |-> s.now, occ |-> 1]
           Fails == /\ emits' = [emits EXCEPT ![e] = IdleEmit] /\ UNCHANGED logRows
                    /\ routerLost' = (routerLost \/ s.kind \in RouterKinds)
           Commits == /\ ~s.moved /\ emits' = OthersWritten(e)
                      /\ routerLost' = (routerLost /\ s.kind \notin RouterKinds)
                      /\ logRows' = IF s.row = {} THEN logRows \cup {q}
                                    ELSE (logRows \ s.row) \cup {Counted(r, s.now) : r \in s.row \cap logRows}
<1>d. Commits \/ Fails
  BY <1>2, Zenon DEF EmitWrites, Outdated, Counted
<1>4. CASE Fails
  <2>f. /\ emits' = [emits EXCEPT ![e] = IdleEmit] /\ UNCHANGED logRows
        /\ routerLost' = (routerLost \/ s.kind \in RouterKinds)
    BY <1>4
  <2>1. /\ emits'[e] = IdleEmit /\ IdleEmit.at = "idle" /\ \A x \in Callers \ {e} : emits'[x] = emits[x]
    BY <1>0, <2>f, IdleEmitIs DEF EmitsOK
  <2>2. LookedOK(emits)'
    BY <1>0, <1>1, <2>f, <2>1 DEF LookedOK, LastOf, SameEvent
  <2>3. RouterRows' = RouterRows
    BY <2>f DEF RouterRows
  <2>4. TellingOK(emits, toldDown)'
    <3>1. \A x \in Callers : emits'[x].at # "idle" => emits'[x] = emits[x]
      BY <2>1
    <3> QED
      BY <1>0, <1>1, <2>3, <3>1 DEF TellingOK
  <2>5. RouterTold'
    <3>1. ~routerLost' => ~routerLost /\ e # "router"
      BY <1>2, <1>3, <2>f
    <3>2. e # "router" => emits'["router"] = emits["router"]
      BY <1>0, <2>1
    <3> QED
      BY <1>0, <1>1, <2>3, <3>1, <3>2, ToldStays
  <2> QED
    BY <1>0, <2>f, <2>2, <2>4, <2>5, RowsStill DEF WrittenOK
<1>5. CASE Commits
  <2>0. /\ ~s.moved /\ emits' = OthersWritten(e) /\ (~routerLost' => s.kind \in RouterKinds \/ ~routerLost)
        /\ routerLost' = (routerLost /\ s.kind \notin RouterKinds)
    BY <1>5
  <2>1. LookedOK(emits)'
    <3>1. LookedOK(OthersWritten(e))
      BY <1>0, OthersLookedOK
    <3>2. \A x \in Callers : OthersWritten(e)[x].at = "write" => OthersWritten(e)[x].moved
      <4> TAKE x \in Callers
      <4>1. PICK o : o = OthersWritten(e)[x]
        OBVIOUS
      <4> QED
        BY <1>0, <4>1, OthersLooked
    <3> QED
      BY <1>1, <2>0, <3>1, <3>2 DEF LookedOK
  <2>2. \A x \in Callers : emits'[x].at = "idle" <=> emits[x].at = "idle" \/ x = e
    <3> TAKE x \in Callers
    <3>1. PICK o : o = OthersWritten(e)[x]
      OBVIOUS
    <3>2. o = emits'[x]
      BY <2>0, <3>1
    <3>3. x = e => o.at = "idle"
      BY <3>1, IdleEmitIs DEF OthersWritten
    <3>4. (o.at # "idle" => o.at = emits[x].at) /\ (o.at = "idle" => emits[x].at = "idle" \/ x = e)
      BY <1>0, <3>1, OthersLooked
    <3> QED
      BY <3>2, <3>3, <3>4
  <2>3. TellingOK(OthersWritten(e), toldDown)
    BY <1>0, OthersTelling
  <2>4. PICK found : found = LastOf(s.kind, s.now)
    OBVIOUS
  <2>5. found = s.row /\ found \subseteq logRows /\ \A r \in found : r.kind = s.kind /\ r \in LogRow
    BY <1>0, <1>3, <2>0, <2>4 DEF LastOf, SameEvent, RowsOK
  <2>6. PICK Q : Q = IF found = {} THEN {q} ELSE {Counted(r, s.now) : r \in found}
    OBVIOUS
  <2>7. logRows' = (logRows \ found) \cup Q
    <3>1. s.row \cap logRows = found
      BY <2>5
    <3> QED
      BY <1>5, <2>5, <2>6, <3>1
  <2>8. \A p \in Q : p.kind = s.kind /\ p.last = s.now
    BY <2>5, <2>6, CountedIs
  <2>9. Q # {}
    BY <2>6
  <2>10. RowsGrow' /\ RowsApart'
    <3>1. CASE found = {}
      <4>1. PICK p : p = q
        OBVIOUS
      <4>2. p.first = s.now /\ p.last = s.now /\ p.kind = s.kind /\ logRows' = logRows \cup {p}
        BY <2>6, <2>7, <3>1, <4>1
      <4> QED
        BY <1>0, <1>3, <2>4, <3>1, <4>2, InsertKeepsApart
    <3>2. CASE found # {}
      <4>1. logRows' = (logRows \ found) \cup {Counted(r, s.now) : r \in found}
        BY <2>6, <2>7, <3>2
      <4> QED
        BY <1>0, <1>3, <2>4, <4>1, UpdateKeepsApart
    <3> QED
      BY <3>1, <3>2
  <2>11. CASE e = "router"
    <3>1. emits'["router"].at = "idle" /\ s.kind \in RouterKinds
      BY <1>0, <1>3, <2>2, <2>11
    <3>2. \A x \in Callers : emits'[x].at # "idle" => (emits'[x].kind \in RouterKinds <=> x = "router")
      BY <2>0, <2>3 DEF TellingOK
    <3>3. TellingOK(emits, toldDown)'
      BY <3>1, <3>2, Zenon DEF TellingOK
    <3>4. RouterTold'
      <4>1. s.kind = "router_unavailable" <=> toldDown'
        BY <1>0, <1>1, <1>2, <2>11 DEF TellingOK
      <4>2. \A r \in logRows' : r \in Q \/ r \in logRows
        BY <2>7
      <4>3. \A r \in logRows : r.last \in Nat /\ (r.kind \in RouterKinds => r.last <= s.now)
        BY <1>0, <1>1, <1>2, <2>11, RowOf DEF TellingOK, RouterRows
      <4>4. \A r \in logRows' : r.last \in Nat /\ (r.kind \in RouterKinds /\ r \notin Q => r.last <= s.now)
        BY <1>3, <2>8, <4>2, <4>3
      <4>5. Q \subseteq logRows'
        BY <2>7
      <4> QED
        BY <1>3, <2>8, <2>9, <3>1, <4>1, <4>4, <4>5, RouterIsLast
    <3> QED
      BY <2>1, <2>10, <3>3, <3>4 DEF WrittenOK
  <2>12. CASE e # "router"
    <3>1. s.kind \notin RouterKinds
      BY <1>3, <2>12
    <3>2. RouterRows' = RouterRows
      BY <2>5, <2>7, <2>8, <3>1 DEF RouterRows
    <3>3. TellingOK(emits, toldDown)'
      BY <1>1, <2>0, <2>3, <3>2, Zenon DEF TellingOK
    <3>4. emits'["router"].at = "idle" => emits["router"].at = "idle"
      BY <1>0, <2>2, <2>12
    <3>5. RouterTold'
      BY <1>0, <1>1, <2>0, <3>1, <3>2, <3>4, ToldStays
    <3> QED
      BY <2>1, <2>10, <3>3, <3>5 DEF WrittenOK
  <2> QED
    BY <2>11, <2>12
<1> QED
  BY <1>d, <1>4, <1>5

\* Who emits, what the daily pass deletes, and the rest.
LEMMA EmittersWrite ==
  ASSUME LogInv, WrittenOK, RouterReconcile \/ RefreshCapabilities \/ AuthFailed \/ CreateOperation \/ CloseOperation
                            \/ RetentionTells
  PROVE  WrittenOK'
<1>0. /\ LookedOK(emits) /\ RowsGrow /\ RowsApart /\ TellingOK(emits, toldDown) /\ RouterTold
      /\ RowsOK /\ EmitsOK(emits) /\ logNow \in Nat
      /\ Callers = {"router", "user", "ddns", "forced", "retention"} /\ RouterKinds = {"router_unavailable", "router_recovered"}
      /\ LogKinds = RouterKinds \cup {"capabilities_refreshed", "auth_failed", "retention_pass"}
  BY DEF WrittenOK, LogInv, LogClock, Callers, RouterKinds, LogKinds
<1>1. UNCHANGED <<logNow, logRows>>
  BY DEF RouterReconcile, RefreshCapabilities, AuthFailed, CreateOperation, CloseOperation, RetentionTells
<1>2. RowsGrow' /\ RowsApart' /\ RouterRows' = RouterRows
  BY <1>0, <1>1, RowsStill DEF RouterRows
<1>3. ASSUME LookedOK(emits)', TellingOK(emits, toldDown)', ~routerLost' => ~routerLost,
             ~routerLost' /\ emits'["router"].at = "idle" => emits["router"].at = "idle" /\ UNCHANGED toldDown
      PROVE  WrittenOK'
  BY <1>0, <1>2, <1>3, ToldStays DEF WrittenOK
<1>4. ASSUME NEW e \in Callers, NEW k \in LogKinds, EmitFrom(emits, e, k, 0), k \in RouterKinds <=> e = "router",
             IF e = "router" THEN k = "router_unavailable" <=> toldDown' ELSE UNCHANGED toldDown
      PROVE  WrittenOK'
  <2>1. 0 \in {0, 1}
    OBVIOUS
  <2> QED
    BY <1>0, <1>1, <1>3, <1>4, <2>1, EmitAsks
<1>5. LookedOK(OthersWritten("none")) /\ TellingOK(OthersWritten("none"), toldDown) /\ EmitsOK(OthersWritten("none"))
  BY <1>0, OthersLookedOK, OthersTelling, OthersWrittenIs
<1>6. OthersWritten("none")["router"].at = "idle" <=> emits["router"].at = "idle"
  <2>1. PICK o : o = OthersWritten("none")["router"]
    OBVIOUS
  <2>2. "router" \in Callers /\ "router" # "none"
    BY <1>0
  <2> QED
    BY <1>0, <2>1, <2>2, OthersLooked
<1>7. CASE RouterReconcile
  <2>1. PICK k \in RouterKinds : k = IF routerUp THEN "router_recovered" ELSE "router_unavailable"
    BY <1>0
  <2>2. EmitFrom(emits, "router", k, 0) /\ (k = "router_unavailable" <=> toldDown')
    BY <1>7, <2>1 DEF RouterReconcile, Emit
  <2>3. "router" \in Callers /\ k \in LogKinds
    BY <1>0
  <2> QED
    BY <1>4, <2>2, <2>3
<1>8. CASE RefreshCapabilities
  <2>1. /\ EmitFrom(emits, "user", "capabilities_refreshed", 0) /\ UNCHANGED toldDown
        /\ "user" \in Callers /\ "capabilities_refreshed" \in LogKinds \ RouterKinds
    BY <1>0, <1>8 DEF RefreshCapabilities, Emit
  <2> QED
    BY <1>4, <2>1
<1>9. CASE AuthFailed
  <2>1. /\ EmitFrom(emits, "ddns", "auth_failed", 0) /\ UNCHANGED toldDown
        /\ "ddns" \in Callers /\ "auth_failed" \in LogKinds \ RouterKinds
    BY <1>0, <1>9 DEF AuthFailed, Emit
  <2> QED
    BY <1>4, <2>1
<1>10. CASE CreateOperation
  <2>1. emits' = OthersWritten("none") /\ UNCHANGED <<toldDown, routerLost>>
    BY <1>10 DEF CreateOperation
  <2>2. LookedOK(emits)'
    BY <1>1, <1>5, <2>1 DEF LookedOK, LastOf, SameEvent
  <2>3. TellingOK(emits, toldDown)'
    BY <1>2, <1>5, <2>1, Zenon DEF TellingOK
  <2> QED
    BY <1>3, <1>6, <2>1, <2>2, <2>3
<1>11. CASE CloseOperation
  <2>1. /\ EmitFrom(OthersWritten("none"), "forced", "auth_failed", 1) /\ UNCHANGED toldDown
        /\ "forced" \in Callers /\ "auth_failed" \in LogKinds \ RouterKinds /\ 1 \in {0, 1} /\ "forced" # "router"
    BY <1>0, <1>11 DEF CloseOperation
  <2>2. PICK calls : calls = OthersWritten("none")
    OBVIOUS
  <2>3. /\ EmitsOK(calls) /\ LookedOK(calls) /\ TellingOK(calls, toldDown) /\ EmitFrom(calls, "forced", "auth_failed", 1)
        /\ calls["router"].at = "idle" <=> emits["router"].at = "idle"
    BY <1>5, <1>6, <2>1, <2>2
  <2> QED
    BY <1>1, <1>3, <2>1, <2>3, EmitAsks
<1>12. CASE RetentionTells
  <2>1. CASE UNCHANGED <<emits, buckets, routerLost>>
    <3>1. UNCHANGED toldDown
      BY <1>12 DEF RetentionTells
    <3>2. LookedOK(emits)'
      BY <1>0, <1>1, <2>1, LookedStill
    <3>3. TellingOK(emits, toldDown)'
      BY <1>0, <1>2, <2>1, <3>1, Zenon DEF TellingOK
    <3> QED
      BY <1>3, <2>1, <3>1, <3>2, <3>3
  <2>2. CASE EmitFrom(emits, "retention", "retention_pass", 0)
    <3>1. UNCHANGED toldDown /\ "retention" \in Callers /\ "retention_pass" \in LogKinds \ RouterKinds
      BY <1>0, <1>12 DEF RetentionTells
    <3> QED
      BY <1>4, <2>2, <3>1
  <2> QED
    BY <1>12, <2>1, <2>2 DEF RetentionTells, Emit
<1> QED
  BY <1>7, <1>8, <1>9, <1>10, <1>11, <1>12

\* What is erased is outdated for whoever has looked at it, and if it was of the router, it is known.
LEMMA DailyWrites ==
  ASSUME LogInv, WrittenOK, ObserverRuns \/ RetentionBegins \/ PruneSnapshots \/ PruneOperations \/ PruneEvents
  PROVE  WrittenOK'
<1>0. /\ LookedOK(emits) /\ RowsGrow /\ RowsApart /\ TellingOK(emits, toldDown) /\ RouterTold /\ EmitsOK(emits)
      /\ "router" \in Callers
  BY DEF WrittenOK, LogInv, Callers
<1>1. UNCHANGED <<logNow, toldDown>>
  BY DEF ObserverRuns, RetentionBegins, PruneSnapshots, PruneOperations, PruneEvents
<1>2. logRows' \subseteq logRows /\ (~routerLost' => ~routerLost /\ RouterRows' = RouterRows)
  <2>1. CASE UNCHANGED <<logRows, routerLost>>
    BY <2>1 DEF RouterRows
  <2>2. ASSUME NEW gone, EventsErased(gone)
        PROVE  logRows' \subseteq logRows /\ (~routerLost' => ~routerLost /\ RouterRows' = RouterRows)
    BY <2>2 DEF EventsErased, RouterRows
  <2> QED
    BY <2>1, <2>2 DEF ObserverRuns, RetentionBegins, PruneSnapshots, PruneOperations, PruneEvents
<1>3. \/ emits' = OthersWritten("none")
      \/ UNCHANGED <<emits, logRows>>
  <2>1. CASE ObserverRuns \/ RetentionBegins \/ PruneSnapshots \/ PruneEvents
    BY <2>1 DEF ObserverRuns, RetentionBegins, PruneSnapshots, PruneEvents
  <2>2. CASE PruneOperations
    <3>1. PICK old \in BOOLEAN : old <=> (forced > 1 /\ forced - 2 < Before(OperationDays))
      OBVIOUS
    <3>2. /\ \/ forced' = (IF old THEN 0 ELSE forced) /\ EventsErased(IF old THEN {r \in logRows : r.op = 1} ELSE {})
             \/ UNCHANGED <<forced, logRows>>
          /\ emits' = IF forced' # forced THEN OthersWritten("none") ELSE emits
      BY <2>2, <3>1 DEF PruneOperations
    <3>3. old => forced # 0
      <4>1. forced \in Nat
        BY NetworkLogAssumption DEF LogInv, LogClock
      <4>2. old => forced > 1
        BY <3>1
      <4> QED
        BY <4>1, <4>2
    <3>4. EventsErased({}) => UNCHANGED logRows
      BY DEF EventsErased
    <3> QED
      BY <3>2, <3>3, <3>4
  <2> QED
    BY <2>1, <2>2
<1>4. \A r \in RouterRows' : r \in RouterRows
  BY <1>2 DEF RouterRows
<1>5. LookedOK(emits)' /\ TellingOK(emits, toldDown)' /\ (emits'["router"].at = "idle" <=> emits["router"].at = "idle")
  <2>1. CASE emits' = OthersWritten("none")
    <3>1. LookedOK(OthersWritten("none")) /\ TellingOK(OthersWritten("none"), toldDown)
      BY <1>0, OthersLookedOK, OthersTelling
    <3>2. \A e \in Callers : OthersWritten("none")[e].at = "write" => OthersWritten("none")[e].moved
      <4> TAKE e \in Callers
      <4>1. PICK o : o = OthersWritten("none")[e]
        OBVIOUS
      <4> QED
        BY <1>0, <4>1, OthersLooked
    <3>3. OthersWritten("none")["router"].at = "idle" <=> emits["router"].at = "idle"
      <4>1. PICK o : o = OthersWritten("none")["router"]
        OBVIOUS
      <4> QED
        BY <1>0, <4>1, OthersLooked
    <3>4. LookedOK(emits)'
      BY <1>1, <2>1, <3>1, <3>2 DEF LookedOK
    <3>5. TellingOK(emits, toldDown)'
      BY <1>1, <1>4, <2>1, <3>1, Zenon DEF TellingOK
    <3> QED
      BY <2>1, <3>3, <3>4, <3>5
  <2>2. CASE UNCHANGED <<emits, logRows>>
    <3>1. LookedOK(emits)'
      BY <1>0, <1>1, <2>2, LookedStill
    <3>2. TellingOK(emits, toldDown)'
      BY <1>0, <1>1, <1>4, <2>2, Zenon DEF TellingOK
    <3> QED
      BY <2>2, <3>1, <3>2
  <2> QED
    BY <1>3, <2>1, <2>2
<1>6. RouterTold'
  BY <1>0, <1>1, <1>2, <1>5, ToldStays
<1> QED
  BY <1>0, <1>2, <1>5, <1>6, RowsStill DEF WrittenOK

LEMMA LogRestWrites ==
  ASSUME LogInv, WrittenOK, LogTick \/ RouterChanges \/ LogCrash \/ UNCHANGED networkLogVars
  PROVE  WrittenOK'
<1>0. /\ LookedOK(emits) /\ RowsGrow /\ RowsApart /\ TellingOK(emits, toldDown) /\ RouterTold /\ EmitsOK(emits)
      /\ logNow \in Nat /\ "router" \in Callers
  BY DEF WrittenOK, LogInv, LogClock, Callers
<1>1. UNCHANGED logRows
  BY DEF LogTick, RouterChanges, LogCrash, networkLogVars
<1>2. RowsGrow' /\ RowsApart' /\ RouterRows' = RouterRows /\ \A k, n : LastOf(k, n)' = LastOf(k, n)
  BY <1>0, <1>1, RowsStill DEF RouterRows, LastOf, SameEvent
<1>3. CASE LogCrash
  <2>1. /\ emits' = [e \in Callers |-> IdleEmit] /\ toldDown' = FALSE
        /\ routerLost' = (routerLost \/ toldDown \/ emits["router"].at # "idle") /\ IdleEmit.at = "idle"
    BY <1>3, IdleEmitIs DEF LogCrash
  <2>2. LookedOK(emits)' /\ TellingOK(emits, toldDown)'
    BY <1>0, <2>1 DEF LookedOK, TellingOK
  <2>3. toldDown \in BOOLEAN
    BY DEF LogInv, LogClock
  <2>4. ~routerLost' => ~routerLost /\ emits["router"].at = "idle" /\ UNCHANGED toldDown
    BY <2>1, <2>3
  <2>5. RouterTold'
    BY <1>0, <1>2, <2>4, ToldStays
  <2> QED
    BY <1>2, <2>2, <2>5 DEF WrittenOK
<1>4. CASE LogTick \/ RouterChanges \/ UNCHANGED networkLogVars
  <2>1. UNCHANGED <<emits, toldDown, routerLost>>
    BY <1>4 DEF LogTick, RouterChanges, networkLogVars
  <2>2. \A e \in Callers : emits[e].at # "idle" => emits[e].now + 1 >= logNow'
    <3>1. CASE LogTick
      BY <1>0, <3>1 DEF LogTick
    <3>2. CASE RouterChanges \/ UNCHANGED networkLogVars
      BY <1>0, <3>2 DEF RouterChanges, networkLogVars, LookedOK
    <3> QED
      BY <1>4, <3>1, <3>2
  <2>3. LookedOK(emits)'
    BY <1>0, <1>2, <2>1, <2>2 DEF LookedOK
  <2>4. TellingOK(emits, toldDown)'
    BY <1>0, <1>2, <2>1, Zenon DEF TellingOK
  <2>5. RouterTold'
    BY <1>0, <1>2, <2>1, ToldStays
  <2> QED
    BY <1>2, <2>3, <2>4, <2>5 DEF WrittenOK
<1> QED
  BY <1>3, <1>4

LEMMA WrittenStarts == ASSUME NetworkLogInit PROVE WrittenOK
<1>1. logRows = {} /\ emits = [e \in Callers |-> IdleEmit] /\ IdleEmit.at = "idle" /\ "router" \in Callers
  BY IdleEmitIs DEF NetworkLogInit, Callers
<1> QED
  BY <1>1 DEF WrittenOK, LookedOK, RowsGrow, RowsApart, TellingOK, RouterTold
LEMMA WrittenStep == ASSUME LogInv, WrittenOK, [NetworkLogNext]_networkLogVars PROVE WrittenOK'
BY EmitLooksWrites, EmitWritesWrites, EmittersWrite, DailyWrites, LogRestWrites DEF NetworkLogNext
LEMMA EmitWritesBooks ==
  ASSUME LogInv, WrittenOK, BooksOK, NEW e \in Callers, EmitWrites(e)
  PROVE  BooksOK'
<1>0. /\ LookedOK(emits) /\ RowsApart /\ KindsOK /\ AheadOK /\ LedgerIs /\ RowsOK /\ EmitsOK(emits)
      /\ emits[e].at = "write"
  BY Zenon DEF WrittenOK, BooksOK, LogInv, EmitWrites
<1>1. PICK s : s = emits[e]
  OBVIOUS
<1>2. s \in EmitState /\ s.at = "write" /\ s.kind \in LogKinds /\ s.now \in Nat /\ (~s.moved => s.row = LastOf(s.kind, s.now))
  <2>1. s \in EmitState /\ s.at = "write" /\ s.kind \in LogKinds
    BY <1>0, <1>1 DEF EmitsOK
  <2>2. s.now \in Nat
    BY <2>1 DEF EmitState
  <2>3. ~s.moved => s.row = LastOf(s.kind, s.now)
    BY <1>0, <1>1 DEF LookedOK
  <2> QED
    BY <2>1, <2>2, <2>3
<1> DEFINE new == [kind |-> s.kind, op |-> s.op, first |-> s.now, last |-> s.now, occ |-> 1]
           Fails == emits' = [emits EXCEPT ![e] = IdleEmit] /\ UNCHANGED <<logRows, ledger>>
           Commits == /\ ~s.moved /\ emits' = OthersWritten(e) /\ ledger' = [ledger EXCEPT ![s.kind] = @ + 1]
                      /\ logRows' = IF s.row = {} THEN logRows \cup {new}
                                    ELSE (logRows \ s.row) \cup {Counted(r, s.now) : r \in s.row \cap logRows}
<1>d. Commits \/ Fails
  BY <1>1, Zenon DEF EmitWrites, Outdated, Counted
<1>3. CASE Fails
  <2>1. emits' = [emits EXCEPT ![e] = IdleEmit] /\ UNCHANGED <<logRows, ledger>>
    BY <1>3
  <2>2. emits'[e].at = "idle" /\ \A x \in Callers \ {e} : emits'[x] = emits[x]
    BY <1>0, <2>1, IdleEmitIs DEF EmitsOK
  <2>3. \A x \in Callers : emits'[x].at # "idle" => emits'[x] = emits[x]
    BY <2>2
  <2> QED
    BY <1>0, <2>1, <2>3, CallersGoOn, LedgerStays DEF BooksOK
<1>4. CASE Commits
  <2>1. /\ s.row = LastOf(s.kind, s.now) /\ emits' = OthersWritten(e) /\ ledger' = [ledger EXCEPT ![s.kind] = @ + 1]
        /\ logRows' = IF s.row = {} THEN logRows \cup {new}
                      ELSE (logRows \ s.row) \cup {Counted(r, s.now) : r \in s.row \cap logRows}
    BY <1>2, <1>4
  <2>2. ASSUME NEW x \in Callers, emits'[x].at # "idle"
        PROVE  x # e /\ emits[x].at # "idle" /\ emits'[x].kind = emits[x].kind /\ emits'[x].now = emits[x].now
    <3>1. PICK o : o = OthersWritten(e)[x]
      OBVIOUS
    <3>2. o = emits'[x]
      BY <2>1, <3>1
    <3>3. o.at # "idle" => o.at = emits[x].at /\ o.kind = emits[x].kind /\ o.now = emits[x].now /\ x # e
      BY <1>0, <3>1, OthersLooked
    <3> QED
      BY <2>2, <3>2, <3>3
  <2>3. KindsOK'
    BY <1>0, <2>2 DEF KindsOK
  <2>4. \A x \in Callers : \A k : Asks(x, k)' => x # e /\ Asks(x, k) /\ emits'[x].now = emits[x].now
    BY <2>2 DEF Asks
  <2>5. Asks(e, s.kind)
    BY <1>1, <1>2 DEF Asks
  <2>6. ASSUME NEW q, logRows' \subseteq logRows \cup {q}, q.kind = s.kind,
               \A x \in Callers \ {e} : Asks(x, s.kind) =>
                 /\ q.first > q.last => q.first <= emits[x].now
                 /\ \A y \in Callers \ {e, x} : Asks(y, s.kind) => q.first <= emits[x].now \/ q.first <= emits[y].now
        PROVE  AheadOK'
    <3> SUFFICES ASSUME NEW p \in logRows', NEW x \in Callers, Asks(x, p.kind)'
        PROVE  /\ p.first > p.last => p.first <= emits'[x].now
               /\ \A y \in Callers \ {x} : Asks(y, p.kind)' => p.first <= emits'[x].now \/ p.first <= emits'[y].now
      BY DEF AheadOK
    <3>1. CASE p \in logRows
      BY <1>0, <2>4, <3>1 DEF AheadOK
    <3>2. CASE p = q
      BY <2>4, <2>6, <3>2
    <3> QED
      BY <2>6, <3>1, <3>2
  <2>7. CASE s.row = {}
    <3>1. PICK q : q = new
      OBVIOUS
    <3>2. q.kind = s.kind /\ q.first = s.now /\ q.last = s.now /\ q.occ = 1 /\ logRows' = logRows \cup {q}
      BY <2>1, <2>7, <3>1
    <3>3. q \notin logRows
      <4>1. SUFFICES ASSUME q \in logRows PROVE FALSE
        OBVIOUS
      <4>2. q.last + LogWindow < s.now
        BY <1>2, <2>1, <2>7, <3>2, <4>1, NoneIsLast
      <4> QED
        BY <1>2, <3>2, <4>2, NetworkLogAssumption
    <3>4. LedgerIs'
      <4>1. PICK gone : gone = {}
        OBVIOUS
      <4>2. logRows' = (logRows \ gone) \cup {q} /\ q.occ \in Nat /\ gone \subseteq logRows
        BY <3>2, <4>1
      <4>3. ledger' = [ledger EXCEPT ![q.kind] = @ + 1] /\ q.kind \in LogKinds
        BY <1>2, <2>1, <3>2
      <4>4. q.occ = (IF gone = {} THEN 1 ELSE (CHOOSE r \in gone : TRUE).occ + 1)
        BY <3>2, <4>1
      <4> QED
        BY <1>0, <3>3, <4>1, <4>2, <4>3, <4>4, LedgerCounts
    <3>5. AheadOK'
      <4>1. ~(q.first > q.last)
        BY <1>2, <3>2
      <4>2. \A x \in Callers \ {e} : \A y \in Callers \ {e, x} : ~(Asks(x, s.kind) /\ Asks(y, s.kind))
        BY <1>0, <2>5, AskedTwice
      <4> QED
        BY <2>6, <3>2, <4>1, <4>2
    <3> QED
      BY <2>3, <3>4, <3>5 DEF BooksOK
  <2>8. CASE s.row # {}
    <3>1. PICK r \in LastOf(s.kind, s.now) : TRUE
      BY <2>1, <2>8
    <3>2. s.row = {r} /\ r.first <= r.last + LogWindow /\ Counted(r, s.now) \notin logRows
      BY <1>0, <1>1, <1>2, <2>1, <3>1, OneIsLast
    <3>3. r \in logRows /\ r \in LogRow /\ r.kind = s.kind
      BY <1>0, <3>1 DEF LastOf, SameEvent, RowsOK
    <3>4. PICK q : q = Counted(r, s.now)
      OBVIOUS
    <3>5. q.kind = s.kind /\ q.first = r.first /\ q.last = s.now /\ q.occ = r.occ + 1 /\ q.occ \in Nat
      <4>1. q.occ = r.occ + 1
        BY <3>3, <3>4 DEF Counted, LogRow
      <4>2. r.occ + 1 \in Nat
        BY <3>3 DEF LogRow
      <4> QED
        BY <3>3, <3>4, <4>1, <4>2, CountedIs
    <3>6. logRows' = (logRows \ {r}) \cup {q}
      BY <2>1, <2>8, <3>2, <3>3, <3>4
    <3>7. LedgerIs'
      <4>1. PICK gone : gone = {r}
        OBVIOUS
      <4>2. logRows' = (logRows \ gone) \cup {q} /\ q.occ \in Nat /\ gone \subseteq logRows /\ q \notin logRows
        BY <3>2, <3>3, <3>4, <3>5, <3>6, <4>1
      <4>3. ledger' = [ledger EXCEPT ![q.kind] = @ + 1] /\ q.kind \in LogKinds
        BY <1>2, <2>1, <3>5
      <4>4. q.occ = (IF gone = {} THEN 1 ELSE (CHOOSE x \in gone : TRUE).occ + 1)
        <5>1. (CHOOSE x \in gone : TRUE) = r /\ gone # {}
          BY <4>1
        <5> QED
          BY <3>5, <5>1
      <4>5. (\A x \in gone : x.kind = q.kind) /\ \E x \in gone : gone = {x}
        BY <3>3, <3>5, <4>1
      <4> QED
        BY <1>0, <4>2, <4>3, <4>4, <4>5, LedgerCounts
    <3>8. AheadOK'
      <4>1. ASSUME NEW x \in Callers \ {e}, Asks(x, s.kind)
            PROVE  r.first <= s.now \/ r.first <= emits[x].now
        BY <1>0, <1>1, <2>5, <3>3, <4>1 DEF AheadOK
      <4>2. r.first \in Nat
        BY <3>3 DEF LogRow
      <4>3. \A x \in Callers \ {e} : Asks(x, s.kind) => (q.first > q.last => q.first <= emits[x].now)
        BY <1>2, <3>5, <4>1, <4>2
      <4>4. \A x \in Callers \ {e} : Asks(x, s.kind) =>
              \A y \in Callers \ {e, x} : Asks(y, s.kind) => q.first <= emits[x].now \/ q.first <= emits[y].now
        BY <1>0, <3>3, <3>5 DEF AheadOK
      <4> QED
        BY <2>6, <3>5, <3>6, <4>3, <4>4
    <3> QED
      BY <2>3, <3>7, <3>8 DEF BooksOK
  <2> QED
    BY <2>7, <2>8
<1> QED
  BY <1>d, <1>3, <1>4

LEMMA EmittersBook ==
  ASSUME LogInv, BooksOK, RouterReconcile \/ RefreshCapabilities \/ AuthFailed \/ CreateOperation \/ CloseOperation
                          \/ RetentionTells
  PROVE  BooksOK'
<1>0. /\ KindsOK /\ AheadOK /\ LedgerIs /\ EmitsOK(emits) /\ logNow \in Nat
      /\ {"router", "user", "ddns", "forced", "retention"} \subseteq Callers
  BY DEF BooksOK, LogInv, LogClock, Callers
<1>1. UNCHANGED <<logRows, ledger>>
  BY DEF RouterReconcile, RefreshCapabilities, AuthFailed, CreateOperation, CloseOperation, RetentionTells
<1>2. LedgerIs'
  BY <1>0, <1>1, LedgerStays
<1>3. ASSUME NEW calls, EmitsOK(calls), NEW e \in Callers, NEW k \in KindsBy(e), NEW op, EmitFrom(calls, e, k, op),
             \A x \in Callers : calls[x].at # "idle" =>
               emits[x].at # "idle" /\ calls[x].kind = emits[x].kind /\ calls[x].now = emits[x].now
      PROVE  BooksOK'
  <2>1. \A x \in Callers : \/ emits'[x] = calls[x]
                           \/ x = e /\ emits'[x].kind = k /\ emits'[x].now = logNow
    BY <1>3, AskedOf
  <2>2. KindsOK' /\ AheadOK'
    BY <1>0, <1>1, <1>3, <2>1, CallersGoOn
  <2> QED
    BY <1>2, <2>2 DEF BooksOK
<1>4. ASSUME NEW x \in Callers, OthersWritten("none")[x].at # "idle"
      PROVE  /\ emits[x].at # "idle" /\ OthersWritten("none")[x].kind = emits[x].kind
             /\ OthersWritten("none")[x].now = emits[x].now
  <2>1. PICK o : o = OthersWritten("none")[x]
    OBVIOUS
  <2> QED
    BY <1>0, <1>4, <2>1, OthersLooked
<1>5. CASE RouterReconcile
  <2>1. PICK k \in RouterKinds : k = IF routerUp THEN "router_recovered" ELSE "router_unavailable"
    BY DEF RouterKinds
  <2>2. EmitFrom(emits, "router", k, 0) /\ k \in KindsBy("router")
    BY <1>5, <2>1 DEF RouterReconcile, Emit, KindsBy
  <2> QED
    BY <1>0, <1>3, <2>2
<1>6. CASE RefreshCapabilities
  <2>1. EmitFrom(emits, "user", "capabilities_refreshed", 0) /\ "capabilities_refreshed" \in KindsBy("user")
    BY <1>6 DEF RefreshCapabilities, Emit, KindsBy
  <2> QED
    BY <1>0, <1>3, <2>1
<1>7. CASE AuthFailed
  <2>1. EmitFrom(emits, "ddns", "auth_failed", 0) /\ "auth_failed" \in KindsBy("ddns")
    BY <1>7 DEF AuthFailed, Emit, KindsBy
  <2> QED
    BY <1>0, <1>3, <2>1
<1>8. CASE CreateOperation
  <2>1. emits' = OthersWritten("none")
    BY <1>8 DEF CreateOperation
  <2>2. KindsOK' /\ AheadOK'
    BY <1>0, <1>1, <1>4, <2>1, CallersGoOn
  <2> QED
    BY <1>2, <2>2 DEF BooksOK
<1>9. CASE CloseOperation
  <2>1. EmitFrom(OthersWritten("none"), "forced", "auth_failed", 1) /\ "auth_failed" \in KindsBy("forced")
    BY <1>9 DEF CloseOperation, KindsBy
  <2>2. EmitsOK(OthersWritten("none"))
    BY <1>0, OthersWrittenIs
  <2>3. PICK calls : calls = OthersWritten("none")
    OBVIOUS
  <2> QED
    BY <1>0, <1>3, <1>4, <2>1, <2>2, <2>3
<1>10. CASE RetentionTells
  <2>1. CASE EmitFrom(emits, "retention", "retention_pass", 0)
    <3>1. "retention_pass" \in KindsBy("retention")
      BY DEF KindsBy
    <3> QED
      BY <1>0, <1>3, <2>1, <3>1
  <2>2. CASE UNCHANGED emits
    <3>1. KindsOK' /\ AheadOK'
      BY <1>0, <1>1, <2>2, CallersGoOn
    <3> QED
      BY <1>2, <3>1 DEF BooksOK
  <2> QED
    BY <1>10, <2>1, <2>2 DEF RetentionTells, Emit
<1> QED
  BY <1>5, <1>6, <1>7, <1>8, <1>9, <1>10

LEMMA RestBooks ==
  ASSUME LogInv, BooksOK, (\E e \in Callers : EmitLooks(e)) \/ ObserverRuns \/ RetentionBegins \/ PruneSnapshots
           \/ PruneOperations \/ PruneEvents \/ LogTick \/ RouterChanges \/ LogCrash \/ UNCHANGED networkLogVars
  PROVE  BooksOK'
<1>0. KindsOK /\ AheadOK /\ LedgerIs /\ EmitsOK(emits) /\ RowsOK
  BY DEF BooksOK, LogInv
<1>1. LedgerIs' /\ logRows' \subseteq logRows
  <2>1. CASE UNCHANGED <<logRows, ledger>>
    BY <1>0, <2>1, LedgerStays
  <2>2. CASE PruneEvents
    <3>1. PICK gone : gone = {r \in logRows : r.first < Before(DaysKept(r.kind))}
      OBVIOUS
    <3>2. EventsErased(gone) \/ UNCHANGED <<logRows, ledger>>
      BY <2>2, <3>1 DEF PruneEvents
    <3> QED
      BY <1>0, <2>1, <3>1, <3>2, LedgerErases
  <2>3. CASE PruneOperations
    <3>1. PICK gone : gone = IF forced > 1 /\ forced - 2 < Before(OperationDays) THEN {r \in logRows : r.op = 1} ELSE {}
      OBVIOUS
    <3>2. EventsErased(gone) \/ UNCHANGED <<logRows, ledger>>
      BY <2>3, <3>1 DEF PruneOperations
    <3>3. gone \subseteq logRows
      BY <3>1
    <3> QED
      BY <1>0, <2>1, <3>2, <3>3, LedgerErases
  <2>4. PruneEvents \/ PruneOperations \/ UNCHANGED <<logRows, ledger>>
    BY DEF EmitLooks, ObserverRuns, RetentionBegins, PruneSnapshots, LogTick, RouterChanges, LogCrash, networkLogVars
  <2> QED
    BY <2>1, <2>2, <2>3, <2>4
<1>2. ASSUME NEW x \in Callers, emits'[x].at # "idle"
      PROVE  emits[x].at # "idle" /\ emits'[x].kind = emits[x].kind /\ emits'[x].now = emits[x].now
  <2>1. CASE emits' = emits
    BY <1>2, <2>1
  <2>2. CASE emits' = OthersWritten("none")
    <3>1. PICK o : o = OthersWritten("none")[x]
      OBVIOUS
    <3> QED
      BY <1>0, <1>2, <2>2, <3>1, OthersLooked
  <2>3. CASE LogCrash
    BY <1>2, <2>3, IdleEmitIs DEF LogCrash
  <2>4. ASSUME NEW e \in Callers, EmitLooks(e)
        PROVE  emits[x].at # "idle" /\ emits'[x].kind = emits[x].kind /\ emits'[x].now = emits[x].now
    <3>1. PICK s : s = emits[e]
      OBVIOUS
    <3>2. s \in EmitState /\ s.at = "look"
      BY <1>0, <2>4, <3>1, Zenon DEF EmitsOK, EmitLooks
    <3>3. PICK R, n : n = [s EXCEPT !.at = "write", !.row = R] /\ emits' = [emits EXCEPT ![e] = n]
      BY <1>0, <2>4, <3>1, Zenon DEF EmitLooks, EmitsOK
    <3>4. n.kind = s.kind /\ n.now = s.now
      BY <3>2, <3>3 DEF EmitState
    <3>5. x = e => emits'[x] = n
      BY <1>0, <3>3 DEF EmitsOK
    <3>6. x # e => emits'[x] = emits[x]
      BY <1>0, <3>3 DEF EmitsOK
    <3> QED
      BY <1>2, <3>1, <3>2, <3>4, <3>5, <3>6
  <2>5. CASE ObserverRuns \/ RetentionBegins \/ PruneSnapshots \/ PruneOperations \/ PruneEvents \/ LogTick \/ RouterChanges
    <3>1. emits' = emits \/ emits' = OthersWritten("none")
      BY <2>5 DEF ObserverRuns, RetentionBegins, PruneSnapshots, PruneOperations, PruneEvents, LogTick, RouterChanges
    <3> QED
      BY <2>1, <2>2, <3>1
  <2>6. CASE UNCHANGED networkLogVars
    BY <2>1, <2>6 DEF networkLogVars
  <2> QED
    BY <2>3, <2>4, <2>5, <2>6
<1>3. KindsOK' /\ AheadOK'
  BY <1>0, <1>1, <1>2, CallersGoOn
<1> QED
  BY <1>1, <1>3 DEF BooksOK

LEMMA BooksStep == ASSUME LogInv, WrittenOK, BooksOK, [NetworkLogNext]_networkLogVars PROVE BooksOK'
BY EmitWritesBooks, EmittersBook, RestBooks DEF NetworkLogNext
LEMMA BooksStart == ASSUME NetworkLogInit PROVE BooksOK
<1>1. logRows = {} /\ ledger = [k \in LogKinds |-> 0] /\ emits = [e \in Callers |-> IdleEmit] /\ IdleEmit.at = "idle"
  BY IdleEmitIs DEF NetworkLogInit
<1>2. \A k : RowsOfKind(k, logRows) = {}
  BY <1>1 DEF RowsOfKind
<1>3. LedgerIs
  BY <1>1, <1>2, OccNone, FS_EmptySet DEF LedgerIs
<1> QED
  BY <1>1, <1>3 DEF BooksOK, KindsOK, AheadOK, Asks

-----------------------------------------------------------------------------
(* What is said and judged of disks, written of the network and shown of    *)
(* the room, whatever part moves.                                           *)

SaidInv ==
  /\ PoolsInv /\ HeardOK /\ NamesOK /\ NamedOK /\ PassOK
  /\ WrittenOK /\ BooksOK /\ SpreadOK /\ PlacedOK
LEMMA SaidBegins == ASSUME PoolsStart PROVE SaidInv
<1>1. PoolsInv /\ HealthInit /\ NetworkLogInit /\ CapacityInit
  BY PoolsBegin DEF PoolsStart
<1>2. HeardOK /\ NamesOK /\ NamedOK /\ PassOK
  BY <1>1, HeardStarts, NamesStart, NamedStarts, PassStarts
<1>3. WrittenOK /\ BooksOK /\ SpreadOK /\ PlacedOK
  BY <1>1, WrittenStarts, BooksStart, SpreadStarts, PlacedStarts
<1> QED
  BY <1>1, <1>2, <1>3 DEF SaidInv
LEMMA SaidStep == ASSUME SaidInv, [PoolsNext]_poolsVars PROVE SaidInv'
<1>0. PoolsInv /\ HealthTypeOK /\ LogInv /\ CapacityTypeOK
  BY DEF SaidInv, PoolsInv
<1>1. [HealthNext]_healthVars /\ [NetworkLogNext]_networkLogVars /\ [CapacityNext]_capacityVars
  BY DEF PoolsNext, poolsVars
<1>2. HeardOK' /\ NamesOK' /\ NamedOK' /\ PassOK'
  BY <1>0, <1>1, HeardStep, NamesStep, NamedStep, PassStep DEF SaidInv
<1>3. WrittenOK' /\ BooksOK' /\ SpreadOK'
  BY <1>0, <1>1, WrittenStep, BooksStep, SpreadStep DEF SaidInv
<1>4. PlacedOK'
  BY <1>0, <1>1, PlacedStep DEF SaidInv
<1> QED
  BY <1>0, <1>2, <1>3, <1>4, PoolsStep DEF SaidInv
LEMMA SaidStays == PoolsSpec => []SaidInv
<1>1. PoolsStart => SaidInv
  BY SaidBegins
<1>2. SaidInv /\ [PoolsNext]_poolsVars => SaidInv'
  BY SaidStep
<1> QED
  BY <1>1, <1>2, PTL DEF PoolsSpec
LEMMA LogSays == ASSUME SaidInv PROVE NetworkLogConsistent
BY BooksSay, SpreadSays DEF SaidInv, WrittenOK, NetworkLogConsistent
LEMMA RoomSays == ASSUME SaidInv PROVE CapacityConsistent
<1>1. InPool # {}
  <2>1. PICK c \in {1, 2, 3} : c = ProfileCopies(layout)
    BY CopiesAre
  <2>2. Cardinality(InPool) >= c
    BY <2>1 DEF SaidInv, PlacedOK
  <2> QED
    BY <2>2, FS_EmptySet
<1> QED
  BY <1>1, MarginIs, PlacedSays DEF SaidInv, PoolsInv, CapacityConsistent

\* The last notification of a disk, of its heat and of the pool is of what the monitors
\* remember, whatever is lost, cleared or forgotten (hardware_smart.go,
\* storage_health_monitor.go, notifications.go).
THEOREM WhatIsToldIsKnown == PoolsSpec => [](part = "health" => ToldIsKnown)
<1>1. SaidInv => ToldIsKnown
  BY HeardSays DEF SaidInv
<1> QED
  BY <1>1, SaidStays, PTL
\* A mounted pool of which btrfs names a member, after the digits are cut off, is never shown
\* better than its disks are (storage_health.go, ComputePoolHealth).
THEOREM NamedPoolsAreJudged == PoolsSpec => [](part = "health" /\ DeviceStats # {} => NeverUnderstated)
<1>1. SaidInv => (DeviceStats # {} => NeverUnderstated)
  BY NamedIsJudged DEF SaidInv, PoolsInv
<1> QED
  BY <1>1, SaidStays, PTL
\* After a pass over the disks and a look at the pool, its state is that of its disks, where
\* btrfs names all of them or none and a mirror has more than one
\* (storage_health_monitor.go, checkPoolHealthTransition).
THEOREM SettledIsJudged == PoolsSpec => [](part = "health" /\ AllNamed => SettledIsTrue)
<1>1. SaidInv => (AllNamed => SettledIsTrue)
  BY DEF SaidInv, PassOK
<1> QED
  BY <1>1, SaidStays, PTL
\* Rows of one event are further apart than the window, what callers were told was written is
\* what the table counts, the last row of the router is what was last found of it, and the
\* snapshots that are left are spread over hours and days, but for the mishaps
\* (network_events.go, Emit; network_router_reconciler.go).
THEOREM NetworkIsWritten == PoolsSpec => [](part = "netlog" => NetworkLogConsistent)
<1>1. SaidInv => NetworkLogConsistent
  BY LogSays
<1> QED
  BY <1>1, SaidStays, PTL
\* The data placed never exceeds the capacity shown, a pool that grew together is full when it
\* reaches it, and a pool in which nothing can be placed is announced
\* (storage_pool_enrich.go, computeUsableCapacity; storage_health_monitor.go,
\* checkPoolUnallocated).
THEOREM RoomIsShown == PoolsSpec => [](part = "capacity" => CapacityConsistent)
<1>1. SaidInv => CapacityConsistent
  BY RoomSays
<1> QED
  BY <1>1, SaidStays, PTL
\* All of it together, for pools of disks none of whose names ends in a number and, where
\* there are copies, of more than one disk: what is said of disks, room and network is what
\* they are.
THEOREM ReadingsHold ==
  ASSUME Nvme = {}, Mirrors \subseteq {"single"} \/ Cardinality(Drives) > 1
  PROVE  PoolsSpec => []ReadingsConsistent
<1>1. ASSUME SaidInv PROVE HealthConsistent
  <2>1. HealthTypeOK /\ HeardOK /\ NamesOK /\ NamedOK /\ PassOK
    BY <1>1 DEF SaidInv, PoolsInv
  <2>2. AllNamed
    BY <2>1 DEF AllNamed, HealthTypeOK
  <2>3. NeverUnderstated
    <3>1. CASE ~mount.on
      BY <3>1 DEF NeverUnderstated
    <3>2. CASE mount.on
      <4>1. DeviceStats # {} \/ DrivesGone = {}
        BY <2>1, <3>2 DEF NamedOK, DeviceStats, DrivesGone
      <4> QED
        BY <2>1, <4>1, NamedIsJudged
    <3> QED
      BY <3>1, <3>2
  <2> QED
    BY <2>1, <2>2, <2>3, HeardSays DEF PassOK, HealthConsistent
<1>2. SaidInv => ReadingsConsistent
  BY <1>1, LogSays, RoomSays DEF ReadingsConsistent
<1> QED
  BY <1>2, SaidStays, PTL
=============================================================================
