------------------------------- MODULE Health -------------------------------
(***************************************************************************)
(* The health of disks and of a pool, and what the user is told of it: the  *)
(* SMART monitor, the monitor of pools, the state a list of pools shows,    *)
(* and the notifications.  The monitors remember, in memory, what they saw  *)
(* last, and speak when it changes; disks come and go by their names.       *)
(***************************************************************************)
EXTENDS Naturals, FiniteSets
CONSTANTS
  Drives,             \* names of disks, each with a member of the pool at first
  Nvme,               \* those of them whose name ends in a number, nvme0n1
  Mirrors,            \* profiles a pool may have
  MaxHealthEvents,    \* things that happen to disks and pools
  MaxHealthFaults     \* notifications that are not written

ASSUME HealthAssumption ==
  Drives \subseteq Nat \ {0} /\ Nvme \subseteq Drives /\ Mirrors \subseteq {"single", "raid1", "raid1c3", "raid10"}
  /\ IsFiniteSet(Drives) /\ MaxHealthEvents \in Nat /\ MaxHealthFaults \in Nat

VARIABLES
  drive,              \* what has each name: which unit, how it is, how hot, whether it answers
  mirror,             \* the profile of the pool
  mount,              \* the pool: mounted, read-only, names the kernel has in it, errors it counts
  reality,            \* the divergence the observer found
  smart, hotCache, heatState, \* smartHistory, the temperature in smartDetailsCache, tempHistory
  visiting, present,  \* the pass of the SMART monitor: disks it has yet to read, and saw
  record,             \* poolHealthHistory
  told,               \* the last notification of each kind
  healthEvents, healthFaults,
  unheard,            \* history: kinds of which a notification was lost, cleared or not due
  settled             \* history: since the last event a pass began, 1, ended, 2, and the pool
                      \* was looked at, 3

healthVars == <<drive, mirror, mount, reality, smart, hotCache, heatState, visiting, present, record,
                told, healthEvents, healthFaults, unheard, settled>>

Absentee == [unit |-> 0, cond |-> "ok", heat |-> 0, pulse |-> "mute"]
Conditions == {"ok", "warning", "critical"}
Drive == [unit : Drives \cup {0, 99}, cond : Conditions, heat : 0..3, pulse : {"awake", "asleep", "mute"}]
HasUnit(d) == drive[d].unit # 0
Idle == visiting = {} /\ present = {}
Topics == {<<"pool", 0>>} \cup ({"smart", "heat"} \X Drives)
OfDisks == <<visiting, present, smart, hotCache, heatState>>

HealthInit ==
  /\ drive = [d \in Drives |-> [unit |-> d, cond |-> "ok", heat |-> 0, pulse |-> "awake"]]
  /\ mirror \in Mirrors
  /\ mount \in [on : BOOLEAN, ro : {FALSE}, names : {Drives}, io : {{}}, csum : {{}}, clean : {FALSE}]
  /\ reality = "none" /\ smart = [d \in Drives |-> "none"] /\ hotCache = {}
  /\ heatState = [d \in Drives |-> "none"] /\ visiting = {} /\ present = {} /\ record = "none"
  /\ told = [t \in Topics |-> "none"] /\ healthEvents = 0 /\ healthFaults = 0 /\ unheard = {}
  /\ settled = 0

-----------------------------------------------------------------------------
(* addNotification: an insert whose error nobody looks at.  say is a        *)
(* function from the kinds there is something to say of to the words.       *)

Announce(say) ==
  \E lost \in SUBSET DOMAIN say :
    /\ lost # {} => healthFaults < MaxHealthFaults
    /\ healthFaults' = IF lost = {} THEN healthFaults ELSE healthFaults + 1
    /\ told' = [t \in Topics |-> IF t \in (DOMAIN say) \ lost THEN say[t] ELSE told[t]]
    /\ unheard' = (unheard \ DOMAIN say) \cup lost
\* The user clears the list.
NotifClear ==
  /\ healthEvents < MaxHealthEvents /\ healthEvents' = healthEvents + 1
  /\ told # [t \in Topics |-> "none"]
  /\ told' = [t \in Topics |-> "none"] /\ unheard' = Topics
  /\ UNCHANGED <<drive, mirror, mount, reality, OfDisks, record, healthFaults, settled>>

-----------------------------------------------------------------------------
(* The SMART monitor (hardware_smart.go).                                  *)

\* lsblk lists the disks; the pass reads them one after the other.
StartPass ==
  /\ Idle /\ \E d \in Drives : HasUnit(d)
  /\ present' = {d \in Drives : HasUnit(d)} /\ visiting' = present'
  /\ settled' = IF settled = 0 THEN 1 ELSE settled
  /\ UNCHANGED <<drive, mirror, mount, reality, smart, hotCache, heatState, record, told,
                 healthEvents, healthFaults, unheard>>
\* getDiskSmart: a disk that does not answer keeps the status the result was made with, so
\* that it is ok, and the branch for one that has none (:363) is never taken; a hot one is
\* at least a warning.
Readable(d) == HasUnit(d) /\ drive[d].pulse = "awake"
SmartStatus(d) ==
  IF ~Readable(d) THEN "ok"
  ELSE IF drive[d].cond = "ok" /\ drive[d].heat = 3 THEN "warning" ELSE drive[d].cond
\* nextTempState, with 50 and 55 degrees between the levels of heat.
NextTempState(prev, heat) ==
  IF heat >= 2 THEN "high" ELSE IF heat = 0 \/ prev = "none" THEN "normal" ELSE prev
SmartWords(prev, now) ==
  IF now = "critical" /\ prev # "critical" THEN "error"
  ELSE IF now = "warning" /\ prev \in {"none", "ok"} THEN "warning"
  ELSE IF now = "ok" /\ prev \notin {"none", "ok"} THEN "success" ELSE "nothing"
HeatWords(prev, now) ==
  IF now = "high" /\ prev # "high" THEN "warning"
  ELSE IF now = "normal" /\ prev = "high" THEN "success" ELSE "nothing"
\* A sleeping disk is left as it was; the first reading of a disk says nothing of its heat.
CheckDisk(d) ==
  /\ d \in visiting /\ (\A e \in visiting : d <= e) /\ visiting' = visiting \ {d}
  /\ IF HasUnit(d) /\ drive[d].pulse = "asleep"
     THEN UNCHANGED <<smart, hotCache, heatState, told, healthFaults, unheard>>
     ELSE LET status == SmartStatus(d)
              warm == IF smart[d] = "none" \/ ~Readable(d) THEN heatState[d]
                      ELSE NextTempState(heatState[d], drive[d].heat)
              words == [t \in {<<"smart", d>>, <<"heat", d>>} |->
                          IF t[1] = "smart" THEN SmartWords(smart[d], status)
                          ELSE IF warm = heatState[d] THEN "nothing" ELSE HeatWords(heatState[d], warm)]
          IN  /\ smart' = [smart EXCEPT ![d] = status] /\ heatState' = [heatState EXCEPT ![d] = warm]
              /\ hotCache' = IF Readable(d) /\ drive[d].heat = 3 THEN hotCache \cup {d} ELSE hotCache \ {d}
              /\ Announce([t \in {u \in DOMAIN words : words[u] # "nothing"} |-> words[t]])
  /\ UNCHANGED <<drive, mirror, mount, reality, present, record, healthEvents, settled>>
\* Disks that were not listed are forgotten, but for their temperature.
EndPass ==
  /\ visiting = {} /\ present # {} /\ present' = {}
  /\ smart' = [d \in Drives |-> IF d \in present THEN smart[d] ELSE "none"]
  /\ hotCache' = hotCache \cap present
  /\ unheard' = unheard \cup ({"smart"} \X {d \in Drives \ present : smart[d] # "none"})
  /\ settled' = IF settled = 1 THEN 2 ELSE settled
  /\ UNCHANGED <<drive, mirror, mount, reality, heatState, visiting, record, told, healthEvents,
                 healthFaults>>

-----------------------------------------------------------------------------
(* CollectDiagnostics and ComputePoolHealth (storage_health.go).           *)

\* btrfsVdevTypeForProfile makes raid1c3 a mirror, which can lose one.
CanLose == IF mirror = "single" THEN 0 ELSE 1
\* parseBtrfsDeviceStats cuts the digits off a device's name, those of nvme0n1 too.
DeviceStats == mount.names \ Nvme
\* A member is missing when its path is, or when btrfs answers and does not name it.
Missing(d) == ~HasUnit(d) \/ (mount.on /\ DeviceStats # {} /\ d \notin DeviceStats)
\* Checksum errors count unless the last scrub found nothing it could not repair.
IoErrors(d) == mount.on /\ (d \in mount.io \/ (d \in mount.csum /\ ~mount.clean))
Diagnostics(d) ==
  IF Missing(d) THEN {"disk_missing"}
  ELSE {c \in {"io_errors", "smart_critical", "smart_warning", "temp_high"} :
          \/ c = "io_errors" /\ IoErrors(d)
          \/ c = "smart_critical" /\ smart[d] = "critical"
          \/ c = "smart_warning" /\ smart[d] = "warning"
          \/ c = "temp_high" /\ d \in hotCache}
ComputePoolHealth ==
  LET lost == Cardinality({d \in Drives : "disk_missing" \in Diagnostics(d)})
      Has(c) == \E d \in Drives : c \in Diagnostics(d)
  IN  IF \/ mount.on /\ mount.ro
         \/ lost > CanLose
         \/ lost = CanLose /\ Has("smart_critical") THEN "critical"
      ELSE IF lost > 0 \/ Has("smart_critical") \/ (CanLose > 0 /\ Cardinality(Drives) <= CanLose)
      THEN "degraded"
      ELSE IF Has("io_errors") THEN "unstable"
      ELSE IF Has("smart_warning") \/ Has("temp_high") THEN "at_risk" ELSE "healthy"
Rank(s) ==
  CASE s = "critical" -> 4 [] s = "degraded" -> 3 [] s = "unstable" -> 2 [] s = "at_risk" -> 1
    [] s = "missing" -> 5 [] OTHER -> 0
\* reconcileHealthWithDivergences: what the observer found can only make the state worse.
Implied == CASE reality = "not_detected" -> "missing" [] reality = "critical" -> "critical"
             [] reality = "warning" -> "degraded" [] reality = "info" -> "at_risk" [] OTHER -> "none"
\* resolveDeviceState, with the serial as identity: what the disk is goes before what is
\* remembered under its name.
DeviceState(d) ==
  IF ~HasUnit(d) THEN "missing" ELSE IF drive[d].unit # d THEN "swapped"
  ELSE IF smart[d] = "none" THEN "unknown" ELSE smart[d]
ShownHealth ==
  IF Implied # "none" /\ Rank(Implied) > Rank(ComputePoolHealth) THEN Implied ELSE ComputePoolHealth

-----------------------------------------------------------------------------
(* The monitor of pools (storage_health_monitor.go).                       *)

PoolWords(status) ==
  CASE status \in {"critical", "degraded"} -> "error" [] status \in {"unstable", "at_risk"} -> "warning"
    [] OTHER -> "success"
\* Only a change of what was known is worth a word.
NotifyChanges(prev, current) == prev # "none" /\ current # prev
ShouldNotifyHealth(prev, current) ==
  IF prev = "none" THEN current # "healthy" ELSE current # prev
CheckPoolHealth ==
  /\ mount.on /\ record' = ComputePoolHealth
  /\ IF ShouldNotifyHealth(record, ComputePoolHealth)
     THEN Announce([t \in {<<"pool", 0>>} |-> PoolWords(ComputePoolHealth)])
     ELSE UNCHANGED <<told, healthFaults, unheard>>
  /\ settled' = IF settled = 2 THEN 3 ELSE settled
  /\ UNCHANGED <<drive, mirror, mount, reality, OfDisks, healthEvents>>

-----------------------------------------------------------------------------
(* What happens to disks and pools.                                        *)

HealthEvent ==
  /\ healthEvents < MaxHealthEvents /\ healthEvents' = healthEvents + 1 /\ settled' = 0
  /\ UNCHANGED <<mirror, OfDisks, told, record, healthFaults, unheard>>
Pull(d) ==
  /\ HasUnit(d) /\ drive' = [drive EXCEPT ![d] = Absentee] /\ HealthEvent /\ UNCHANGED <<mount, reality>>
\* The kernel gives a name it still holds for a mounted pool to no other disk, nor back.
Insert(d) ==
  /\ ~HasUnit(d) /\ (mount.on => d \notin mount.names)
  /\ \E u \in {d, 99}, c \in Conditions :
       drive' = [drive EXCEPT ![d] = [unit |-> u, cond |-> c, heat |-> 0, pulse |-> "awake"]]
  /\ HealthEvent /\ UNCHANGED <<mount, reality>>
DriveChanges(d) ==
  /\ HasUnit(d)
  /\ \/ \E h \in 0..3 : drive' = [drive EXCEPT ![d].heat = h]
     \/ \E p \in {"awake", "asleep", "mute"} : drive' = [drive EXCEPT ![d].pulse = p]
     \/ \E c \in Conditions : drive' = [drive EXCEPT ![d].cond = c]
  /\ drive' # drive /\ HealthEvent /\ UNCHANGED <<mount, reality>>
MountChanges ==
  /\ \/ \E d \in Drives : mount' = [mount EXCEPT !.io = @ \cup {d}]
     \/ \E d \in Drives : mount' = [mount EXCEPT !.csum = @ \cup {d}, !.clean = FALSE]
     \/ mount' = [mount EXCEPT !.clean = TRUE]
     \/ mount' = [mount EXCEPT !.ro = TRUE]
     \/ mount' = [mount EXCEPT !.on = FALSE, !.ro = FALSE]
     \/ ~mount.on /\ (\E d \in Drives : drive[d].unit = d)
        /\ mount' = [mount EXCEPT !.on = TRUE, !.names = {d \in Drives : drive[d].unit = d}]
  /\ mount' # mount /\ (mount.on \/ mount'.on) /\ HealthEvent /\ UNCHANGED <<drive, reality>>
ObserverFinds ==
  /\ reality' \in {"none", "info", "warning", "critical", "not_detected"} \ {reality}
  /\ HealthEvent /\ UNCHANGED <<drive, mount>>
\* What the monitors remember is lost; SQLite keeps the notifications.  With the machine off
\* a disk may have been taken out or another put in, and the pool is mounted anew.
RestartMonitors ==
  /\ healthEvents < MaxHealthEvents /\ healthEvents' = healthEvents + 1 /\ settled' = 0
  /\ smart' = [d \in Drives |-> "none"] /\ heatState' = [d \in Drives |-> "none"]
  /\ hotCache' = {} /\ visiting' = {} /\ present' = {} /\ record' = "none" /\ unheard' = Topics
  /\ \/ UNCHANGED <<drive, mount>>
     \/ \E d \in Drives, u \in {0, 99} :
          /\ drive' = [drive EXCEPT ![d] = IF u = 0 THEN Absentee
                                      ELSE [unit |-> u, cond |-> "ok", heat |-> 0, pulse |-> "awake"]]
          /\ mount' = [mount EXCEPT !.names = {e \in Drives : drive'[e].unit = e},
                                   !.on = \E e \in Drives : drive'[e].unit = e, !.ro = FALSE]
  /\ UNCHANGED <<mirror, reality, told, healthFaults>>

HealthNext ==
  \/ NotifClear \/ StartPass \/ EndPass \/ CheckPoolHealth \/ MountChanges \/ ObserverFinds
  \/ RestartMonitors
  \/ \E d \in Drives : CheckDisk(d) \/ Pull(d) \/ Insert(d) \/ DriveChanges(d)
HealthSpec == HealthInit /\ [][HealthNext]_healthVars

-----------------------------------------------------------------------------
Statuses == {"none", "healthy", "at_risk", "unstable", "degraded", "critical"}
HealthTypeOK ==
  /\ drive \in [Drives -> Drive] /\ mirror \in Mirrors
  /\ mount \in [on : BOOLEAN, ro : BOOLEAN, names : SUBSET Drives, io : SUBSET Drives,
                csum : SUBSET Drives, clean : BOOLEAN]
  /\ smart \in [Drives -> Conditions \cup {"none"}] /\ heatState \in [Drives -> {"none", "normal", "high"}]
  /\ hotCache \subseteq Drives /\ visiting \subseteq present /\ present \subseteq Drives
  /\ record \in Statuses /\ told \in [Topics -> {"none", "success", "warning", "error"}]
  /\ unheard \subseteq Topics /\ settled \in 0..3

\* A mounted pool is never shown better than its disks are (ComputePoolHealth): without
\* redundancy left for what is gone it is critical, with any member gone or read-only it is
\* no less than degraded; and never better than the observer says.
DrivesGone == {d \in Drives : drive[d].unit # d}
Bears == CASE mirror = "single" -> 0 [] mirror = "raid1c3" -> 2 [] OTHER -> 1
NeverUnderstated ==
  mount.on =>
    /\ (Cardinality(DrivesGone) > Bears \/ mount.ro) => ComputePoolHealth = "critical"
    /\ DrivesGone # {} => Rank(ComputePoolHealth) >= 3
    /\ Rank(ShownHealth) >= Rank(Implied)
    /\ \A d \in DrivesGone : DeviceState(d) \in {"missing", "swapped"} /\ "disk_missing" \in Diagnostics(d)
\* The last that was said of a disk, of its heat and of the pool is what the monitor holds of
\* it, unless that notification was lost, cleared, or what it spoke of was forgotten.
SaidOf(t, words, quiet) == t \in unheard \/ told[t] = words \/ (quiet /\ told[t] = "none")
ToldIsKnown ==
  /\ record # "none" => SaidOf(<<"pool", 0>>, PoolWords(record), record = "healthy")
  /\ \A d \in Drives :
       /\ smart[d] = "critical" => SaidOf(<<"smart", d>>, "error", FALSE)
       /\ smart[d] = "warning" => SaidOf(<<"smart", d>>, "warning", FALSE) \/ told[<<"smart", d>>] = "error"
       /\ smart[d] = "ok" => SaidOf(<<"smart", d>>, "success", TRUE)
       /\ heatState[d] = "high" => SaidOf(<<"heat", d>>, "warning", FALSE)
       /\ heatState[d] = "normal" => SaidOf(<<"heat", d>>, "success", TRUE)
\* Once the disks were read, and then the pool, a trouble that SMART shows in an awake disk
\* is in the state of the pool, and a pool without any is healthy.
SettledIsTrue ==
  settled = 3 =>
    /\ (\E d \in Drives : Readable(d) /\ drive[d].cond = "critical" /\ d \in mount.names)
         => Rank(record) >= 3
    /\ (/\ \A d \in Drives : drive[d].unit = d /\ Readable(d) /\ SmartStatus(d) = "ok"
        /\ mount.names = Drives /\ ~mount.ro /\ mount.io = {} /\ mount.csum = {}) => record = "healthy"
HealthConsistent == NeverUnderstated /\ ToldIsKnown /\ SettledIsTrue
=============================================================================
