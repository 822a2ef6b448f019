# Verification of the NimOS daemon

NimOS is a NAS system: a Go daemon (`src/daemon`) manages BTRFS pools, shares, Docker apps,
network exposure and users, and keeps its desired state in SQLite; a Svelte interface talks to
it over HTTP. This directory holds TLA+ models of the daemon, what TLC checks of them on small
instances, and what TLAPS proves of them for every instance.

| Modules | What they model |
|---|---|
| `StorageOps`, `LayoutLock` | layout operations of a pool, their journal, recovery, reconcilers, the kernel; and the abstract lock that the journal implements |
| `PoolLifecycle` | create, import, export, destroy, wipe, rename, mounts, the boot |
| `Health`, `Capacity`, `NetworkLog` | what is said of disks and pools, of their room, and of the network |
| `AppLifecycle`, `Scrub`, `ConfigBackup`, `BackupJobs` (`HostBounds`) | what the host does by itself: apps, scrubs, the copy of the configuration, backup jobs |
| `Ddns`, `Exposure` (`NetworkBounds`) | dynamic DNS with its circuit breaker; exposed apps, Caddy, the firewall |
| `Pairing` | two NAS that pair: tokens, WireGuard, remote mounts |
| `Shield`, `Reputation`, `IntelFeed` | blocks and what earns them; the feed of listed addresses |
| `Shares`, `Files`, `Links`, `Accounts` | shared folders, what is in them, what is handed out of them, who is let in |
| `Services`, `AppUids`, `Maintenance`, `AppUpdates` | services and Docker's guard, identities of apps, timed tasks, newer versions |
| `MCStorageOps`, `MCPools`, `MCPoolLifecycle`, `MCHost`, `MCAppLifecycle`, `MCBackupJobs`, `MCNetwork`, `MCDaemon` | instances for TLC, with the `*.cfg` |
| `*_proofs` | theorems, checked by TLAPS |
| `PROJECT.json` | components, runs, mutants, source map, findings, hazards, theorems |

To repeat the work, in this directory: `tlc -config safety.cfg MCStorageOps.tla` (and likewise
for the other configurations; `PROJECT.json` says which module goes with which), and
`tlapm StorageOps_proofs.tla` (and the other seven; `MCDaemon_proofs`, `Folders_proofs` and
`Access_proofs` take some twenty minutes each, `Machinery_proofs` and `MCPools_proofs` ten, the
others a few).

## 1. Inventory

### Storage

| Component | State | Operations | Interacts through |
|---|---|---|---|
| Layout operations (`storage_service_device.go`, `storage_service_profile.go`) | rows of `storage_operations`; one goroutine per operation | validate and journal under `storageMu`, then btrfs in the background, then a transaction that writes membership or profile and closes the operation | SQLite, btrfs, the in-memory mutex |
| Journal and recovery (`storage_repo_ops.go`, `storage_recovery.go`) | `in_progress` rows at boot; watchers | close orphans, adopt operations whose kernel work goes on, watch them | btrfs status read through the mount point |
| Observer, device reconciler (`storage_observer.go`, `storage_reconciler.go`, `storage_scanner.go`) | last snapshot of disks and filesystems | observe; add the devices btrfs shows to `storage_pool_devices` | the snapshot; SQLite without `storageMu` |
| Profile self-heal (`storage_layout_reconcile.go`, `storage_pool_enrich.go`) | detached goroutines, each with a profile to write | any read of a pool that shows another profile | SQLite without `storageMu` |
| Mounts (`storage_fstab_sync.go`, `storage_pool_rename.go`, `storage_mount_reconcile.go`) | fstab, mount points, read-only or not | rename, mount at boot, degraded mount | the mount point other goroutines captured |
| Pool lifecycle (`storage_service_pool.go`, `storage_btrfs_import.go`, `storage_wipe.go`, ...) | pools, filesystems, disks | create, import, export, destroy, wipe | `storageMu`, SQLite, disks |
| Scrub (`storage_btrfs_features.go`) | scrub operations (INV-2), watchers | start, watch, adopt at boot | SQLite, btrfs |
| SMART, pool health, capacity (`hardware_smart.go`, `storage_health*.go`, `storage_pool_enrich.go`) | histories in memory, notifications | periodic reading, comparison with the last one | the kernel's counters; the rows of notifications |

**What is hard.** The mutex is released before the goroutine starts, so mutual exclusion of
operations on a pool rests on one partial unique index (INV-1) and on everybody closing what
they open. btrfs work lives in the kernel and outlives the daemon; a reboot suspends or resumes
it. The boot has to guess from `balance status` and `replace status`, read through a mount
point that may have moved or not be mounted. Reconcilers write without the mutex, from
snapshots of arbitrary age. `UpdateOperationStatus` overwrites any status. Create and destroy
have no pool for INV-1 to lock. Monitors remember what they said last and speak of changes only.

**What makes it correct.** One open layout operation per pool; whoever may write an outcome
holds its lock and is alone; an outcome, once written, stays; an open operation always has
somebody to close it, and is closed; a goroutine commits what the kernel shows; SQLite ends
with the members and the profile the kernel has. No data is erased that nobody asked to erase;
a row speaks of a filesystem that exists. A failure that lasts is announced and stays shown.

### The rest of the daemon

| Component | State and operations | Hard part, and what makes it correct |
|---|---|---|
| Apps (`docker_*.go`, `apps*.go`, `db_operations.go`) | rows, files, containers, a journal of updates; handlers, a reconciler, a sweep | nobody takes a lock; rows and containers are brought together again, updates end |
| App identities (`app_uids.go`) and versions (`docker_updates*.go`, `db_app_images.go`) | uids, owners of files; digests of images | a user deleted too soon; a version offered that is no newer |
| Circuit breaker (`breaker.go`) and DDNS (`network_ddns_*.go`) | state, failures; entries with their secret, passes, forced updates | overlapping calls, late answers; row and secret together, convergence |
| Exposure (`network_exposure_*.go`) | apps with an optimistic lock, Caddy, ufw | edits during a pass; rules on record, no lost update |
| Network log (`network_events.go`, `network_retention*.go`) | events, snapshots, operations, retention | deduplication beside deletion; no event twice, none lost in silence |
| Config backup (`config_dirty.go`) | a one-place channel, a debounce | changes during a backup; every change is copied |
| Backup jobs (`backup_executor.go`, `backup_snapshots.go`) | jobs, snapshots, what arrived | increments on snapshots that are gone; retention beside runs |
| Pairing (`backup_pairing.go`, `wireguard.go`) | devices, tunnels, mounts on two machines | half a pairing; tokens accepted, one address each |
| Accounts, sessions, second factor (`auth*.go`) | rows, Linux and Samba mirrors, codes, limits | requests that overlap; one password, codes once, bounded tries |
| Shield (`shield*.go`) and intelligence (`intel_*.go`) | blocks in memory, SQLite and nftables; streaks, scores; versions of a feed | three places without a lock; what drops has a block, what is judged is of now |
| Shared folders (`share*.go`, `network_smb.go`, `managed_folders_*.go`) | rows, subvolumes, groups, smb.conf | steps that fail halfway; the four agree |
| Files (`files*.go`), links (`tempshares_*.go`) | inodes, chunks, the bin; limits, tokens | names that change hands; nothing lost, limits kept |
| Services (`services.go`, `docker_dataroot_guard.go`), maintenance (`maintenance*.go`) | intents, statuses, barriers; schedules, history | a pool going away under Docker; a task skipped |
| VMs, hardware readings, process start, web interface, torrentd, scripts | outside, or wiring | not modelled |

`PROJECT.json` lists each with its files, its modules and its status.

## 2. The models and the code

### StorageOps

State, in four groups: SQLite (`status`, `data`, `member`, `profile`), which survives every
failure; the daemon's memory (`req`, `driver`, `stale`, `heal`, `snap`, `boot`), which none
does; the kernel and the disks (`kmem`, `kprof`, `kjob`, `kdone`, `mnt`, `dead`); and the count
of failures. `driver[o]` is the program counter of the goroutine or watcher of operation `o`:

    spawned -> (repairing ->) waiting | waitingRepair -> finished -> (closed)
    spawned | waiting | finished -> failing -> (closed);  repairing | waitingRepair -> reverting
    watchBalance -> (closed) | failing;  watchReplace -> confirmed -> (closed) | failing

| Code | Actions |
|---|---|
| `AddDevice`, `RemoveDevice`, `ReplaceDevice`, `ConvertProfile` up to the journal, under `storageMu` | `BeginRequest`, `JournalRequest`, `RejectRequest` |
| their goroutines: remount of a degraded pool, wipe, the btrfs command, revert | `GoRemount`, `GoWipe`, `GoAdd`, `GoStart`, `GoRefused`, `GoRevert` |
| closing transaction, `markOperationFailed` and its retry | `GoCommit`, `GoCommitFails`, `MarkOperationFailed`, `MarkOperationFailedLost` |
| `RecoverPendingOperations`, `resolveOrphanLayoutOp` | `RecoverOperation`, `RecoverOperationLost` |
| `watchReadoptedBalance` | `WatchBalanceEnds`, `WatchBalanceGivesUp` |
| `watchReadoptedReplace` | `WatchReplaceResumes`, `WatchReplaceConfirms`, `WatchReplaceGivesUp`, then `GoCommit` |
| observer, `reconcilePoolMembership` | `Observe`, `ReconcileMember` |
| `reconcilePoolProfileWithReality` and its goroutine | `ReadProfile` (and every other reader, through `Healed`), `HealProfile` |
| `RenamePool`, `reconcileMountState` | `RenamePool`, `ReconcileMount` |
| btrfs, disks, an administrator with a shell (external) | `KernelFinish`, `KernelAbort`, `ManualBalance`, `DeviceDies` |
| the end of the process, of the machine | `DaemonCrash`, `Reboot` |

Abstractions, each a superset of what the code does unless it says otherwise:

- A request is a record of resolved devices and profile; names, sizes, usage, options and the
  preflight (with its force flag) only decide whether the request goes on. The preflight's
  refusals are left out: `BeginRequest` accepts whatever the other conditions accept.
- The wipe of a replaced disk and the scrub after a replace change none of this state.
- Deadlines of 24 and 48 hours, and btrfs answers nobody expected, are "gives up at any time".
- The boot resolves its operations in any order. Reading btrfs status and writing the verdict
  is one step: between them only the kernel could move. Layout requests, reads and reconcilers
  start when the boot is done (`boot = {}`), as `boot.go` orders them.
- A removal may or may not show as a balance (`BalanceReadings`): kernels differ.
- `snap` is the reconciler's view: it is as old as one pleases, which also covers the `Stale`
  flag and the fingerprint shortcut of the observer.
- A rename is one step; its own steps, its failing transaction and its label are PoolLifecycle's.
- `kdone` stays until the next replace starts; a disk that dies stays dead.
- Every SQLite transaction is one step. With `Flaky` it may fail; so may a btrfs reading.
- Snapshots of the goroutines' captured variables are `data[o]` (immutable) and `stale` (whether
  the captured mount point still shows the pool).

### The other modules

The conventions are the same everywhere. A goroutine or a request in flight is a record with a
`pc` and what it read so far; one step is what the code does between two points where another
may come in (a statement of SQLite, a command, a lock taken and released). Commands and writes
that may fail have a second outcome, counted by a bound. Time is an event that may happen, or a
small clock where the order of bounds matters. A history variable says what no variable of the
code remembers and a property needs: what the user last asked, that two requests overlapped.

| Module | State of the code | Procedures, step by step |
|---|---|---|
| `PoolLifecycle` | rows of pools, primary pool, journal of create and destroy, signatures and labels of disks, stacked mounts, fstab, the observer's snapshot; `held` is the procedure that has `storageMu` | `CreatePool` and `DestroyPool` with their journal, the legacy routes by name, export, import with its early read of the snapshot, wipe with its preflight, rename (which takes no mutex), the mount reconciler, the boot with its evidence rules |
| `AppLifecycle` | `docker_apps`, stack files, containers, `nimos_operations` | install, run, uninstall, access lock, update and rebuild as asynchronous operations, registry routes, port allocator, `DockerAppReconciler`, the ghost sweep |
| `Scrub` | scrub operations, watchers, `btrfs scrub status` | start, watch, boot's adoption, the scrub that ends a replace |
| `ConfigBackup` | committed changes, the channel of one place, the loop | mark, debounce, backstop, `VACUUM INTO`, copy |
| `BackupJobs` | `backup_jobs`, snapshots, what arrived, `backupRunningJobs` | scheduler, manual run, snapshot, incremental send, outcome, retention, edit, deletion, crash |
| `Ddns` | `network_ddns`, its secret, the journal, the breaker | the pass and forced updates (`processOne` call by call), create with rollback, delete, crash |
| `Exposure` | exposed apps, configuration, `fw_managed_ports`, Caddy, ufw | the handlers with `desired_generation`, the pass: ports, routes, TLS, rules |
| `Pairing` | `backup_devices`, WireGuard state, `remote_mounts`, exports, of each NAS | `pairWithRemote` against the handlers of the other side, change of address, unpairing, mounts, boot |
| `Shield` | `shieldBlocklist`, `shield_blocks`, offences, whitelist, the nftables set, two switches | block, unblock, expiry, escalation, cleanup, resync, switches, restart; each goroutine statement by statement |
| `Reputation` | `shield_reputation`, `shieldEvents`, the windows, `shield_config` | `shieldEventLoop`: score, crossing of the threshold, rules, streak, decision; logins, forgetting, policy, whitelist, restart |
| `IntelFeed` | `intelActive`, `intel_feed`, `current_version` | refresh (file by file, floor, verification, activation, cache, prune), load from cache, rollback |
| `Shares` | rows, permissions, subvolume, group, members, `smb.conf`, managed folder | create, adopt, edit, delete, users added and deleted, `applySMBConfiguration` with test, backup and rollback, managed folders, the start's reconciliation |
| `Files` | names, inodes, chunks, recycle bin and its index | chunked upload and assembly, delete, restore, empty, paste (copy, cut), rename |
| `Links` | `temp_shares`, `tempShareSlots`, `download_tokens` | visits with their slot, reconfiguration, revocation, expiry, one-time tokens |
| `Accounts` | `users`, the Linux user, Samba's password, sessions, `rateLimits`, the second factor | creation, password change with rollback, login in its two forms, factor's setup and switches, backup codes, deletion |
| `Health`, `Capacity` | SMART history, temperatures, pool history, notifications; sizes and free chunks | the monitors' passes, disks that come, go and fail, remounts; capacity by bisection, the margin, beside the allocator of btrfs (external) |
| `Services` | `service_instances`, systemd units, the barrier, the intent | start, stop, the observer's pass, orphans, the guard, export or destruction of the pool, restart |
| `AppUids` | `app_uids`, system users, owners of files | deployment, release, uninstall, the daily task that deletes users |
| `Maintenance` | `maintenance_config`, `maintenance_history`, the ticker | the loop, due tasks, manual runs, edits, restarts |
| `AppUpdates` | digests here, in the registry and on record | deployment, the goroutine that fills them, checks, update, uninstall |
| `NetworkLog` | `network_events`, `network_observed`, operations, rate buckets | `Emit` (read, write, lost races), observer's snapshots, the daily retention |

**Parts.** `MCHost`, `MCNetwork`, `MCPools` and `MCDaemon` put several modules that share no
state in one instance. A behaviour moves one of them (`part`), and the others stay where they
start, so that states add up. Modules that do share state are one module: breaker and DDNS entry
in `Ddns`, grants and smb.conf in `Shares`. A property of a group is the conjunction of those of
its parts, each guarded by `part = "x"`; the part that does not move is in an initial state, of
which the guarded property says nothing. The variables that stay are named first in each
disjunct of the next-state relation only because TLC evaluates it faster.

## 3. The runs

| Run | Instance | Shows |
|---|---|---|
| `safety` | one pool of two disks and a spare, raid1, two operations of any type, one failure, one dead disk, failing writes and readings, renames and balances by hand; about 455 000 states | `TypeOK`, `OneLayoutOpPerPool`, `DriverHoldsLock`, `CompletionIsReal`, `TerminalIsFinal`, `ImplementsLock` |
| `liveness` | the same without dead disks and failing writes; about 75 000 states | `OpenIsAttended`, `ImplementsFairLock`, `SQLiteCatchesUp` |
| `lifecycle` | two disks, two names, three filesystems, two operations, one crash, two mount layers, three requests, failing writes and mounts; beside it two drives, four bays of four sizes, and a log of five ticks; about 1 120 000 states | `PoolsTypesOK`, `PoolsConsistent`, `RowsAreReal`, `DataIsSpared`, `ReadingsConsistent` |
| `host` | two apps, two workers, an update, two requests, one failure; two scrubs; two changes; one backup job, three requests, two faults; about 95 000 states | `HostTypesOK`, `OrphansReimported`, `GhostsSwept`, `UpdatesEnd`, `ScrubEnds`, `WatchedOutcomeIsReal`, `ChangeIsBackedUp`, `LastHasArrived`, `RunningIsResolved` |
| `network` | one entry, a forced update beside the scheduler, a threshold of two, two faults; one app, two browsers, two routes, two choices of ports, one fault; about 500 000 states | `NetworkTypesOK`, `OpenOperationAttended`, `RowAndSecretTogether`, `FailuresAreConsecutive`, `ResultsStayWithTheirRow`, `EntryConverges`, `OpenedPortsAreTracked`, `NoLostUpdate`, `FirewallSpares`, `ExposureConverges` |
| `requests` | the twelve parts of `MCDaemon`; about 1 470 000 states | `DaemonTypesOK`, `PeersConsistent`, `BlocksConsistent`, `FoldersConsistent`, `ContentsConsistent`, `AccessConsistent`, `MachineryConsistent` |
| `evidence`, `onepool`, `renamed`, `suspended`, `wiped`, `increments` | smaller | six statements of the repository that the code does not keep, below |

**Bounds and why they are enough.** In `safety`, `Ops` bounds the journal, `MaxCrashes` the
failures, `MaxDead` the dead disks. Two operations are the fewest that compete, that follow one
another across a boot, and that leave the effect of one for the other to meet; one failure is
enough for adoption, and for an operation closed while its kernel job goes on. Three disks cover
a full raid1 with a spare. A second pool matters only where a disk moves between pools, hence
`onepool`; the safety properties were also checked once on two pools, of two disks and of one,
with a spare, a failure, a dead disk, renames and balances by hand (3.7 million states, too long
to keep as a run). Elsewhere the same reasoning holds part by part: two requests are what it
takes to overlap, a third to find what the two left (`MaxFileAsked`, `MaxShareAsked`,
`MaxAccountAsked`, `MaxUidAsked` are 3); one fault is what a request may meet, since a second one
meets a state that the first could have left; `CacheKept = 3` and four versions prune the cache once,
`UidMax = 2` and `ChannelSize = 1` reach their limit. Numbers of the code that only order things
are replaced by smaller ones (attempts before a lock: 1 instead of 5; entries of a window: 1
instead of 3 to 10; the policy's thresholds: the smallest that `sanitizeShieldConfig` lets pass).
The proofs remove the bounds for what they cover.

Groups: `PeersConsistent` is of `Pairing`; `BlocksConsistent` of `Shield`, `Reputation` and
`IntelFeed`; `FoldersConsistent` of `Shares`; `ContentsConsistent` of `Files`; `AccessConsistent`
of `Links` and `Accounts`; `MachineryConsistent` of `Services`, `AppUids`, `Maintenance` and
`AppUpdates`; `ReadingsConsistent` of `Health`, `Capacity` and `NetworkLog`. Their parts are
commented one by one in those modules. Many of them have an exception, in the form of a history
variable (`crossed`, `undone`, `torn`, `strays`...): what the code does not promise when two
requests overlap or a fault comes between two steps. Section 5 lists what those exceptions mean.

`CHECK_DEADLOCK FALSE`: once the requests, faults and operations of the bounds are spent and
the reconcilers have nothing to do, the bounded system stops, as an idle daemon does. `safety` and
`lifecycle` use symmetry of identities (no liveness is checked there); the others use none.

**Fairness**, all of it weak:

- `liveness`: goroutines, watchers, the boot's loop and a handler inside its critical section
  are Go code that runs until it returns; the observer, the reconciler and the readers of pools
  are driven by tickers; the kernel ends what it runs. A suspended job, a rename, a crash, a dying
  disk, a request and an administrator owe nothing. `SQLiteCatchesUp` (the members and the profile
  of SQLite become the kernel's) needs the observer, the reconciler and the readers.
- `host`: the steps of a worker, the passes of the reconciler and of the sweep, the ageing the sweep
  waits for; the watcher of a scrub and the kernel's scrub; the loop of `config_dirty.go`; the
  goroutine of a job, the scheduler's start of it, and its ticker.
- `network`: the pass of DDNS, the end of its interval and of the breaker's cooldown, each call
  of `processOne`; the pass of the exposure reconciler.

Every property of a passing run has a mutant of the code that it catches; they are the operators
marked MUTATION or Mutant in the modules.

### What the code does otherwise than it says

- `evidence`: "NUNCA marcar completed sin evidencia clara" (`storage_recovery.go:18`), but the
  watcher of an adopted balance takes its absence for success.
- `onepool`: "Un device pertenece a 0 o 1 pool" (`storage_schema.sql:134`), but
  `reconcilePoolMembership` can put a device that moved back where it was.
- `renamed`: an adopted operation keeps the lock "hasta que el balance termine"
  (`storage_recovery.go:510`), but a rename moves the mount point its watcher polls.
- `suspended`: a replace suspended by a reboot is adopted (`storage_recovery.go:479`), but a
  degraded pool is not mounted yet when recovery asks.
- `wiped`: "Los pools managed siempre están protegidos" (`storage_wipe.go:425`), but the
  preflight knows pools from the observer's snapshot only, and there may be none, or an old one.
- `increments`: "incremental if previous snapshot exists" (`backup_executor.go:190`), but the code
  asks whether the row remembers one, and another job's retention may have deleted it.

## 4. The proofs

Assumptions: only the named `ASSUME`s of the modules, which say that bounds are numbers and that
absent values are none of the present ones, and that give a constant of the code the range that
the code gives it (a threshold is at least 1, the cache keeps two versions or more). TLC
evaluates them in the runs. Pools, devices, keys, clients, jobs, requests, faults and crashes are
arbitrary, infinite sets included unless an assumption says otherwise.

| Module | Theorems | Property |
|---|---|---|
| `StorageOps_proofs` | `TypeCorrect`, `OneLayoutOp`, `DriversHoldLocks`, `OpenOpsAttended`, `OutcomesAreFinal`, `JournalImplementsLock`, `GoroutinesCompleteWhatIsSo` | `TypeOK`, `OneLayoutOpPerPool`, `DriverHoldsLock`, `OpenIsAttended`, `TerminalIsFinal`, `ImplementsLock`, `CompletionIsReal` |
| | `LockExcludes` | `MutualExclusion` of the abstract lock |
| `MCPools_proofs` | `PoolsHaveTheirTypes`, `PoolsAreConsistent`, `DisksAreSpared`, `RowsTellTheTruth` | `PoolLifecycle`'s `TypeOK`, `PoolsConsistent`, `DataIsSpared`, `RowsAreReal` |
| | `PoolsTypes` | `PoolsTypesOK`: `PoolLifecycle`, `Health`, `Capacity`, `NetworkLog` |
| | `WhatIsToldIsKnown`, `NamedPoolsAreJudged`, `SettledIsJudged` | `ToldIsKnown`, `NeverUnderstated`, `SettledIsTrue` of `Health`, the last two under the conditions they need |
| | `NetworkIsWritten`, `RoomIsShown` | `NetworkLogConsistent`, `CapacityConsistent` |
| | `ReadingsHold` | `ReadingsConsistent`, under two conditions on the constants |
| `HostJobs_proofs` | `ScrubTypes`, `WatchersTellTheTruth`, `JobTypes`, `BasesHaveArrived` | `ScrubTypeOK`, `WatchedOutcomeIsReal`, `JobsTypeOK`, `LastHasArrived` |
| | `HostTypes` | `HostTypesOK`: those, `AppLifecycle` and `ConfigBackup` |
| `Network_proofs` | `DdnsTypes`, `OperationsAttended`, `RowsHaveSecrets`, `BreakerCounts`, `ResultsKeepTheirRow` | `DdnsTypeOK`, `OpenOperationAttended`, `RowAndSecretTogether`, `FailuresAreConsecutive`, `ResultsStayWithTheirRow` |
| | `ExposureTypes`, `RulesAreTracked`, `NobodyLosesUpdates`, `FirewallOfTheUser` | `ExposureTypeOK`, `OpenedPortsAreTracked`, `NoLostUpdate`, `FirewallSpares` |
| | `NetworkTypes` | `NetworkTypesOK` |
| `MCDaemon_proofs` | `PeersAgree`, `BlocksAgree` | `PeersConsistent`, `BlocksConsistent` |
| `Folders_proofs` | `FoldersAgree`, `ContentsAgree` | `FoldersConsistent`, `ContentsConsistent` |
| `Machinery_proofs` | `MachineryAgrees` | `MachineryConsistent` |
| `Access_proofs` | `AccessAgrees` | `AccessConsistent` |
| | `DaemonTypes` | `DaemonTypesOK`: the twelve parts of `MCDaemon` |

So each safety property that a passing run checks is a theorem. One has conditions: `ReadingsHold` is
of disks none of whose names ends in a number (`Nvme = {}`) and, where there are copies, of more than one
disk. Both are the code's: `parseBtrfsDeviceStats` cuts the digits off `nvme0n1`, so that another disk in the place of a
member goes unnoticed where btrfs names no other, and a disk that is there looks missing beside one that is named; and
`ComputePoolHealth` calls a mirror of one disk degraded, however well it is. `NamedPoolsAreJudged` and
`SettledIsJudged` say what is left without them: a pool of which btrfs still names a member is never
understated, and a look at a pool whose disks are all named, or none, is right. The run `lifecycle` has such constants.

TLC checked the largest of the inductive invariants (`IInv` of StorageOps, `AccountInv`, `RepInv`) on an
instance before they were proved.

**StorageOps.** `IInv` has layers, each resting on the ones before:

1. `TypeInv`: types; a journalled request has the devices its type needs (`RequestsOK`); a job
   of the daemon works on the pool of its operation (`JobsOK`). `TypeOK` alone is not inductive:
   the closing transaction would store `None` as a member, a finished conversion as a profile.
   And a goroutine's operation must have a request, which is the next layer.
2. `LockInv`: INV-1, `DriverHoldsLock`, the boot lists only open operations, `OpenIsAttended`.
   `JournalStep` says that the journal changes in five ways only, so that the layer is proved
   once per way and not once per action; the refinement of `LayoutLock` and `TerminalIsFinal`
   follow from the same lemma.
3. `MountsOK`: the kernel works only on what is mounted read-write, and only a degraded pool is
   left unmounted. It is what makes a forced wipe harmless to a finished operation.
4. `FinishedOK`: between the return of btrfs and the commit, the kernel shows what was asked for
   and runs no job of the daemon on the pool. A step of another goroutine is on another pool
   (INV-1); a kernel job on this pool is a balance started by hand; a disk claimed by force
   leaves only unmounted pools, which are degraded.

**PoolLifecycle.** `HolderOK` says what the procedure that has `storageMu` may rely on at each of its
steps (a create past mkfs has its filesystem on every disk it was given, past the mount it has it
mounted), `BootOK` what the boot has in hand, `DestroyersAgree` that a destroy works on the row it
read. The attempt to prove it found two flaws of an earlier model: a pool may be renamed to the name
it has, which remounts it, and a rename takes no mutex, so that it may unmount what a create has
just mounted at its old path. Both are in the model now; the second is `CreatedIsReal`'s exception.

**Scrub, BackupJobs.** A watched operation is no younger than the finishes that are counted
(`WatchInv`), hence a scrub that is over when the watcher looks finished after the operation was created.
What a run is about to record as base was received whole (`SentInv`).

**Ddns, Exposure.** The invariant is cut into what the administrator's requests keep (`RowsInv`),
what each execution of `processOne` keeps (`ProcessInv`: an operation is open exactly as long as
its goroutine has it) and the breaker's count. In Exposure, `RowsInv` says that what a browser saw was once
the row, and has not changed while the generation is the same (`SawIt`, `EditsIt`); `WallInv` that
the record the pass read is still that of the database, that whatever it will delete was on
record, and that a rule of NimOS was once wanted.

**Pairing.** Tokens are ids of rows, and ids are never used again: `HandsOK` says of each step of
a pairing which rows, on which side, have what it carries, unless they were deleted since, which is
on record (`revoked`). `TunnelsOK` and `MountsOK` are the same for peers and mounts.

**Shield.** The invariant is about keys of which no two procedures were at work at once (`crossed`
names the others): one goroutine holds such a key at most (`KeyOK`), memory, row and kernel agree up
to what its next steps are going to do, by its program counter (`JobOK`), and while the escalation is off, or
the shield, the table is gone or somebody is about to take it down (`WallOK`). The last part failed to be
inductive: `POST /api/shield/firewall` arms the escalation while the shield is off, and the kernel then
drops addresses with the shield switched off, against `shield_http.go:340`. TLC confirmed it; the history
`armedOff` is the exception.

**Reputation.** A streak is not bounded by the failures since the last login that succeeded, because failures
wait in the channel and in the hand of the loop. `StreakInv`: the streak and the failures still to be counted are no
more than those that happened, unless some were on their way when the login cleared the streak (`late`);
the lemmas `FailuresGrow` and `FailuresShrink` say what a queue's cardinality does. `ScoreInv`: what
the loop read of the score, less what it is about to take, is no lower than what is owed for.

**IntelFeed.** `FeedsOK` and `FetchOK` say that what is active, cached or being downloaded is a whole
version, and how far it may be behind. An attempt with a weaker exception failed and showed that the version in
force may be pruned from the cache after two failed writes of `current_version`: the exception counts faults.

**Links.** `LimitHolds` compares the downloads under way with the limit of the row the *last* one read, and is
not inductive: when that one ends, another is the witness. `SlotsInv` states it of every group of
downloads: each has a member whose limit is not below the size of the group. `PassInv` and `LinkAlone` do the one-time token and the revocation. The proof showed that `MaxLinkEdits`
has to be at least 1.

**Accounts.** `AccountInv` is a conjunction: numbers never used before exist (`NumbersInv`); a request that was
not overlapped is alone with the user (`Alone`); between its steps a change of password leaves
user and Samba apart in one way only, that of its program counter (`CredentialInv`); attempts refused stay
below the limit plus the requests already past the lock (`TriesInv`); a factor is switched on with a
secret that was shown (`FactorInv`); codes are spent once (`CodesInv`).

**Files.** `FilesInv` says what each upload and each request has open at each of its steps (`HoldsOpen`) and that a file
has one name (`OneName`). On these rest three parts, each of which holds until an overlap, a failed write or
a crash puts its own exception on record: an upload that is alone finds its own chunks and writes to a file nobody
else writes to (`WholeInv`); a request on the bin that is alone knows what the index should list (`BinInv`); and one on names
knows where the contents are, at each step of the move (`LostInv`).

**Shares.** `ShareInv` gives each number one owner (`NumbersOnce`) and says, of what one place has and another has
not, which request is still to see to it: of a permission and the group (`GrantsHold`), of the managed folder's
row and subvolume (`FolderInv`), of its rights and the ACL (`RightsInv`). The proof found what the run, with two desks, could not show: while a
deletion of a folder has removed the subvolume, another request may be between its own subvolume and its row, and a
third is needed to meet both. `DeleteFolderSubvol` now has it on record.

**Services, AppUids, Maintenance, AppUpdates.** `ServiceInv` carries what a guard (`GuardInv`) or a pass in which nothing moved
(`JudgeInv`) found, from the step that looked to the one that ends. `UidInv`: a uid below the next one is one app's at
every place that names it (`GivenInv`); the user is there as long as files, row or a deployment past its making
count on him (`KeptInv`, `DeployInv`); what the task that deletes users read is true, or what changed since is noticed
(`HygieneInv`). `ChoreInv`: what is owed is still to be judged in this pass; what an edit read is what its task is. `UpdInv`
follows a digest from the containers to the row: it is the tag until a writer has read it, then what the writer
holds, then the row (`LocalInv`). That proof found that an uninstall which wipes the images moves their tags under a
writer of rows, which was on nobody's record, and that a tag a writer had already read was excused without need: `TagMoves` says both.

**Types.** The types of a part follow from its invariant, or from it and one more: a block is
known by a number that was given (`NumbersGiven`, of `Shield`); windows, attack and policy are within what
`sanitizeShieldConfig` lets pass (`StanceTypes`, of `Reputation`); nobody has a session without a password, since the one that
a login found right is that of a row (`PasswordsInv`, of `Accounts`); an app's worker that may roll a file back or close an
operation has one (`AppInv`, of `AppLifecycle`); rows of the log are no later than its clock (`LogInv`, of `NetworkLog`).

**Health.** For each of what the monitors remember there are words that fit it, and the last notification is one
of those, or its topic is on record as unheard (`HeardOK`); it is inductive where `ToldIsKnown` is not, because it also
says what was told of a disk of which nothing is remembered. `NamesOK`: as long as a pool is mounted no other
disk goes by the name of one in it. `PassOK` follows a pass over the disks: those it has read are right, from the
first step to the look at the pool.

**NetworkLog.** A caller that has looked holds the last row of its event until another transaction outdates it
(`LookedOK`), so that what it writes neither repeats a row within the window nor counts twice (`RowsApart`). A row can start
after its last event, when the slower of two callers writes first: `AheadOK` says before whom, and needs that no more than
two callers emit one event (`KindsOK`). The ledger is then a sum over the rows (`LedgerIs`). `SpreadOK`: an hour
without a snapshot, and a day, is a mishap; what the daily pass deletes has a later one of its day beside it, or is of a day that
is not kept.

**Capacity.** `PlacedOK` counts pieces: the disks hold as many as the chunks have copies, none has
more than there are chunks, and a disk that was passed over has as many others beside it that had no less room. So where nothing can be
placed, fewer disks than copies have room, and each of these has a piece of every chunk, or room for one more only (`NoMoreFits`); and the bisection
finds the one number that fits and whose successor does not (`BisectReaches`), which is therefore what was placed. With raid10, whose stripes come in pairs, no more than that
is placed, and maybe less.

`Bisect` is a recursive function, and sums over sets of disks and rows are folds. What they compute is proved without an
induction theorem, by a least counterexample: among the sets of a finite set, or the widths of an interval, for which
no function satisfies the recursion there would be a smallest (`LeastSet`, `LeastNat`, from the library's
`WFMin`), and that one has one. `SumExists`, `SumsAgree` and `FindsExists` do it once each; from them come `SumStep`,
`SumParts`, `SumPlus` and the other laws of sums. For this `Capacity` has the functions of the community module `Functions`
visible, and its bisection is a function of pairs.

**Only model-checked**, and why:

- liveness (`ImplementsFairLock`, `SQLiteCatchesUp`, `EntryConverges`, `ExposureConverges`, `UpdatesEnd`,
  `ScrubEnds`, `ChangeIsBackedUp`, `RunningIsResolved`, `OrphansReimported`, `GhostsSwept`): fairness and
  `ENABLED` are outside TLAPS's reach;
- the six violations, which are single behaviours.

## 5. Not modelled, and what the models met

**Not modelled**: the web interface, torrentd, the install scripts, virtual machines, hardware readings other
than SMART, the parsing of requests and of the output of commands, cryptography, proxying of apps, discovery
of devices, certificates, the calendars of schedules (a job is due or it is not), the trie of prefixes of
the feed, the patterns that recognise a payload, statistics and reports. Left out of modelled parts: secrets and
`rcon`; two changes of the shield's policy that cross; quotas and read-only grants of shares; folders, archives
and searches of files; preferences of accounts; the creation of backup jobs; router mappings (no
code fills that table); `SCAN-002`, which counts under a key that nobody adds to and never fires.

`CompletionIsReal` speaks of goroutines only. A watcher of a replace can persist a swap that never ran (an
earlier replace left "finished" behind and a forced one named a disk that was a member already); it
takes three operations and two failures.

**What the exceptions stand for.** Beside the six findings, the properties of the groups hold up to overlaps and faults
that the code does not handle. A reader of the code should know them:

- *Storage.* A pool renamed to its own name is remounted; a rename takes no mutex. Capacity is over-estimated
  for raid10 on unequal disks; raid1c3 is shown as a mirror.
- *Health.* `getDiskSmart` presets "ok" (`hardware_smart.go:80`), so a critical disk that stops answering is announced
  as recovered; a disk that goes from critical to warning is not announced; digits are stripped from the
  name of an NVMe disk, whose pool errors are then not seen; histories are keyed by name and lost at a restart.
- *Network log.* `Emit` reads, then writes in a deferred transaction: any commit in between makes it fail at once and
  the event is lost, against `network_events.go:203`; after a restart with the router down nobody says it
  recovered; the errors of an operation go with it at 30 days though errors are kept 90.
- *Apps.* Containers are listed before rows (`docker_reconciler.go:109`). `releaseAppUID` is called when a container is deleted,
  never when a stack is, and only stacks have uids: their users stay. A failed check of versions
  forgets a known update; after an update whose digest was asked before a newer release, the older one is offered until
  the answer expires; a digest that cannot be read at installation offers the image that runs.
- *Maintenance.* A daily task whose minute is lost, or that was run by hand the same day, waits for the next day; edits that overlap lose fields.
- *Services.* A stop is forgotten when the listing of instances or of pools fails in a pass (`services.go:645`); the start of system services
  always fails; the guard reads the barrier before an export raises it and may start Docker after the unmount.
- *Pairing.* Each side numbers the other from a counter of its own; a pairing writes back the tunnel's state that it read
  before the exchange (`wireguard.go:351`); mounts are named after the host and collide; deleting a device leaves its mounts and exports.
- *Shield.* An unblock beside a block leaves a drop in the kernel without an entry; a crash between the switch and the
  teardown leaves the table; a new table forgets additions under way.
- *Reputation.* A login that succeeds is written at once, failures go through the channel: a failure from before it may be counted after, and
  the loop's write may put the old streak back (`shield_reputation.go:132`); a forgotten key may get its old score
  back; a restart between the score and the block leaves a low score unanswered until it recovers; failures
  queued while the engine was off are all recent when it is switched on.
- *Feed.* The floor against old versions is read before the download: two refreshes that cross may put an older version back. A
  return to an earlier version is undone by the next refresh.
- *Shares.* `getSharePath` reads `shares.json`, which the migration renames: four commands of the socket always fail. Two renderings of
  `smb.conf` at once leave the older; deleting a share leaves the subvolume of its managed folder; a crash leaves
  a folder "deleting" for ever.
- *Files.* Two uploads of one name share their chunks; an upload that fails over an existing file loses it; a cut may be pasted twice;
  the index of the bin is empty while it is written.
- *Links, accounts.* Two requests may read a one-time token before one deletes it; reconfigurations write back each other's fields; two changes of
  password at once leave NimOS and Samba apart, and so does a rollback that fails; deleting a user ignores the answer of
  the system; one backup code may open two sessions at once; two first administrators may be created.

Behaviour seen while reading, of modules above, and left out of `PROJECT.json`'s hazards because others of the same kind are
there: `storage_pool_rename.go:73`, `storage_recovery.go:100`, `:206`, `:501`, `:657`, `storage_btrfs_features.go:575`,
`storage_service_pool.go:242`, `storage_repo_ops.go:221`, `storage_service_device.go:239`,
`port_bindings.go:180`, `docker_access_mode.go:240`, `docker_updates_http.go:335`,
`network_reconciler.go:267`, `network_events.go:203`, `config_dirty.go:66`, `intel_feed.go:217`,
`app_uids.go:565`, `maintenance_scheduler.go:41`, `maintenance_http.go:137`.

**Next.** The parts listed above as not modelled, the preflight and the capacity plans of `storage_http_v2.go` first.
