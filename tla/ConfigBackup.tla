---------------------------- MODULE ConfigBackup ----------------------------
(***************************************************************************)
(* The backup of the configuration: writers commit to SQLite and signal a   *)
(* channel of capacity one; a single loop waits for a signal, lets a burst  *)
(* pass, and copies the database to a pool.                                 *)
(***************************************************************************)
EXTENDS HostBounds

CONSTANT MaxChanges     \* bound: commits in a behaviour
ASSUME ChangesAssumption == MaxChanges \in Nat

VARIABLES
  version,     \* how many changes are committed
  marking,     \* the writers that committed and have not signalled yet
  configDirty, \* whether the channel holds its signal
  flusher,     \* "off", "settle", "idle", "debounce" or "backup"
  snapshot,    \* the version that the backup under way copies, Nil before VACUUM INTO
  saved,       \* the version of the copy on the pool
  abandoned    \* history: the newest version of a backup that failed

configVars == <<version, marking, configDirty, flusher, snapshot, saved, abandoned>>

-----------------------------------------------------------------------------
\* dirtyIfOK: the write of a share, a user, a permission, a pool...
CommitConfig == /\ flusher # "off" /\ version < MaxChanges
                /\ version' = version + 1 /\ marking' = marking + 1
                /\ UNCHANGED <<configDirty, flusher, snapshot, saved, abandoned, hostBounds>>

\* Mutant: a channel without capacity, which only a loop that listens receives.
MarkIfHeard == /\ marking > 0 /\ marking' = marking - 1
               /\ configDirty' = (flusher \in {"idle", "debounce"})
               /\ UNCHANGED <<version, flusher, snapshot, saved, abandoned, hostBounds>>

\* A signal that waits already stands for this one.
MarkConfigDirty == /\ marking > 0 /\ marking' = marking - 1 /\ configDirty' = TRUE
                   /\ UNCHANGED <<version, flusher, snapshot, saved, abandoned, hostBounds>>

\* The first signal opens the window, another one opens it again.
Signal == /\ flusher \in {"idle", "debounce"} /\ configDirty
          /\ configDirty' = FALSE /\ flusher' = "debounce"
          /\ UNCHANGED <<version, marking, snapshot, saved, abandoned, hostBounds>>
\* The window closes, or the first backup after the boot is due.
BeginBackup == /\ flusher \in {"settle", "debounce"} /\ flusher' = "backup"
               /\ UNCHANGED <<version, marking, configDirty, snapshot, saved, abandoned, hostBounds>>
Backstop == /\ flusher = "idle" /\ flusher' = "backup"
            /\ UNCHANGED <<version, marking, configDirty, snapshot, saved, abandoned, hostBounds>>

\* VACUUM INTO a temporary file, and a rename: a crash in between leaves the old copy.
VacuumInto == /\ flusher = "backup" /\ snapshot = Nil /\ snapshot' = version
              /\ UNCHANGED <<version, marking, configDirty, flusher, saved, abandoned, hostBounds>>
RenameCopy == /\ flusher = "backup" /\ snapshot # Nil
              /\ saved' = snapshot /\ snapshot' = Nil /\ flusher' = "idle"
              /\ UNCHANGED <<version, marking, configDirty, abandoned, hostBounds>>
\* No pool, or an error that is logged: the change waits for the next backup.
BackupFails == /\ flusher = "backup" /\ HostFault
               /\ abandoned' = version /\ snapshot' = Nil /\ flusher' = "idle"
               /\ UNCHANGED <<version, marking, configDirty, saved, hostAsked>>

\* The signal and the writers go with the process; what is committed stays.
ConfigCrash == /\ flusher # "off" /\ HostFault
               /\ marking' = 0 /\ configDirty' = FALSE /\ snapshot' = Nil /\ flusher' = "off"
               /\ UNCHANGED <<version, saved, abandoned, hostAsked>>
ConfigBoot == /\ flusher = "off" /\ flusher' = "settle"
              /\ UNCHANGED <<version, marking, configDirty, snapshot, saved, abandoned, hostBounds>>

-----------------------------------------------------------------------------
ConfigInit == /\ version = 0 /\ marking = 0 /\ configDirty = FALSE /\ flusher = "off"
              /\ snapshot = Nil /\ saved = 0 /\ abandoned = 0
Flush == Signal \/ BeginBackup \/ VacuumInto \/ RenameCopy \/ BackupFails \/ ConfigBoot
ConfigNext == CommitConfig \/ MarkConfigDirty \/ Flush \/ Backstop \/ ConfigCrash
ConfigSpec == HostInit /\ ConfigInit /\ [][ConfigNext]_<<configVars, hostBounds>>

\* The loop's timers and the writers go on.  The backstop, a ticker of 30 min, is
\* not counted on; the window closes because changes are finite.
ConfigFairness == WF_<<configVars, hostBounds>>(Flush \/ MarkConfigDirty)

-----------------------------------------------------------------------------
\* Every variable has its type, and no copy is newer than the database.
ConfigTypeOK ==
  /\ version \in Nat /\ marking \in 0..version /\ configDirty \in BOOLEAN
  /\ flusher \in {"off", "settle", "idle", "debounce", "backup"}
  /\ snapshot \in (0..version) \cup {Nil} /\ {saved, abandoned} \subseteq 0..version

\* "un backup los cubre" (config_dirty.go:24): a committed change is in a copy in the
\* end, without the backstop, unless a backup that would have had it failed:
\* however signals coalesce, wherever the loop is when they come, and though a
\* crash loses the signal.
ChangeIsBackedUp == \A v \in 1..MaxChanges :
  (version >= v) ~> (saved >= v \/ abandoned >= v)
==============================================================================
