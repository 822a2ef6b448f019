----------------------------- MODULE NetworkLog -----------------------------
(***************************************************************************)
(* What the network module writes down: events, deduplicated and limited by *)
(* category, the snapshots of the observer, operations, and the daily pass  *)
(* that deletes the old ones.  A tick stands for a minute to the events and *)
(* for an hour to the snapshots; only the order of the bounds matters.      *)
(***************************************************************************)
EXTENDS Naturals, FiniteSets, FiniteSetsExt
CONSTANTS
  LogWindow,          \* DedupeWindow, in ticks
  LogLimit,           \* RateLimitPerCategory
  LogDay,             \* ticks of a day
  LogKept,            \* days that keep a snapshot; an hour does for one day
  LastTick,           \* how long a behaviour lasts
  MaxLogAsked,        \* requests of users and forced updates
  MaxLogMishaps       \* transactions that fail, crashes, hours without a snapshot

ASSUME NetworkLogAssumption ==
  /\ {LogWindow, LogKept, MaxLogAsked, MaxLogMishaps} \subseteq Nat
  /\ {LogLimit, LogDay, LastTick} \subseteq Nat \ {0}

VARIABLES
  logNow,
  logRows,            \* network_events
  buckets,            \* of each category: how many events, and since when
  emits,              \* calls of Emit under way, one of each caller
  routerUp, toldDown, \* the router; lastUnavailableEmit
  forced,             \* the operation of a forced update: 0 none, 1 in progress, else 2 + when it ended
  snapshots,          \* network_observed
  retention,          \* the daily pass
  logAsked, logMishaps,
  ledger,             \* history: events said to be written, less those deleted, of each kind
  routerLost          \* history: what was last said of the router is not the last row of it

logBounds == <<logAsked, logMishaps>>
networkLogVars == <<logNow, logRows, buckets, emits, routerUp, toldDown, forced, snapshots, retention, logBounds,
                    ledger, routerLost>>

Callers == {"router", "user", "ddns", "forced", "retention"}
RouterKinds == {"router_unavailable", "router_recovered"}
LogKinds == RouterKinds \cup {"capabilities_refreshed", "auth_failed", "retention_pass"}
CategoryOf(k) == IF k = "auth_failed" THEN "ddns" ELSE "observer"
\* Days a row is kept: an error outlives a closed operation, a warning outlives the rest.
DaysKept(k) == CASE k = "auth_failed" -> 3 [] k = "router_unavailable" -> 2 [] OTHER -> 1
OperationDays == 1
IdleEmit == [at |-> "idle", kind |-> "none", op |-> 0, now |-> 0, row |-> {}, moved |-> FALSE]
NoBucket == [count |-> 0, since |-> 0]
IdleRetention == [at |-> "idle", now |-> 0, deleted |-> FALSE]

NetworkLogInit ==
  /\ logNow = 1 /\ logRows = {} /\ buckets = [c \in {"ddns", "observer"} |-> NoBucket]
  /\ emits = [e \in Callers |-> IdleEmit] /\ routerUp = TRUE /\ toldDown = FALSE
  /\ forced = 0 /\ snapshots = {} /\ retention = IdleRetention /\ logAsked = 0 /\ logMishaps = 0
  /\ ledger = [k \in LogKinds |-> 0] /\ routerLost = FALSE

-----------------------------------------------------------------------------
(* Emit.                                                                   *)

LogAsk == logAsked < MaxLogAsked /\ logAsked' = logAsked + 1
LogFault == logMishaps < MaxLogMishaps /\ logMishaps' = logMishaps + 1
Occurrences(k, rows) == MapThenSumSet(LAMBDA r : r.occ, {r \in rows : r.kind = k})
Before(days) == IF logNow > days * LogDay THEN logNow - days * LogDay ELSE 0

\* A bucket that is old is replaced by one with this event in it.
Renewed(c) == buckets[c].since = 0 \/ logNow > buckets[c].since + 1
Allowed(c) == Renewed(c) \/ buckets[c].count < LogLimit
\* An event beyond the limit of its category is dropped, whatever its level.
EmitFrom(calls, e, k, op) ==
  LET c == CategoryOf(k)
  IN /\ emits[e].at = "idle"
     /\ IF Allowed(c)
        THEN /\ emits' = [calls EXCEPT ![e] = [IdleEmit EXCEPT !.at = "look", !.kind = k, !.op = op, !.now = logNow]]
             /\ buckets' = [buckets EXCEPT ![c] = IF Renewed(c) THEN [count |-> 1, since |-> logNow]
                                                  ELSE [@ EXCEPT !.count = buckets[c].count + 1]]
             /\ UNCHANGED routerLost
        ELSE emits' = calls /\ UNCHANGED buckets /\ routerLost' = (routerLost \/ k \in RouterKinds)
Emit(e, k, op) == EmitFrom(emits, e, k, op)
\* The transaction reads the last row of the same event within the window.
EmitLooks(e) ==
  /\ emits[e].at = "look"
  /\ LET same == {r \in logRows : r.kind = emits[e].kind /\ r.last + LogWindow >= emits[e].now}
     IN emits' = [emits EXCEPT ![e].at = "write",
                               ![e].row = {r \in same : \A s \in same : s.last <= r.last}]
  /\ UNCHANGED <<logNow, logRows, buckets, routerUp, toldDown, forced, snapshots, retention, logBounds, ledger,
                 routerLost>>
\* A mutant of Outdated.
NeverOutdated(e) == FALSE
\* SQLite does not let a transaction write that has read what another one changed since.
Outdated(e) == emits[e].moved
OthersWritten(e) == [x \in Callers |-> IF x = e THEN IdleEmit
                                       ELSE IF emits[x].at = "write" THEN [emits[x] EXCEPT !.moved = TRUE] ELSE emits[x]]
EmitWrites(e) ==
  LET k == emits[e].kind
      found == emits[e].row
      committed == ~Outdated(e) /\ (found = {} => emits[e].op = 0 \/ forced # 0)
  IN /\ emits[e].at = "write"
     /\ \/ /\ committed
           /\ logRows' = IF found = {}
                         THEN logRows \cup {[kind |-> k, op |-> emits[e].op, first |-> emits[e].now,
                                             last |-> emits[e].now, occ |-> 1]}
                         ELSE (logRows \ found) \cup {[r EXCEPT !.occ = @ + 1, !.last = emits[e].now] : r \in found \cap logRows}
           /\ ledger' = [ledger EXCEPT ![k] = @ + 1] /\ emits' = OthersWritten(e)
           /\ routerLost' = (routerLost /\ k \notin RouterKinds) /\ UNCHANGED logMishaps
        \/ /\ LogFault \/ (~committed /\ UNCHANGED logMishaps)
           /\ emits' = [emits EXCEPT ![e] = IdleEmit]
           /\ routerLost' = (routerLost \/ k \in RouterKinds) /\ UNCHANGED <<logRows, ledger>>
     /\ UNCHANGED <<logNow, buckets, routerUp, toldDown, forced, snapshots, retention, logAsked>>

-----------------------------------------------------------------------------
(* Who emits.                                                              *)

\* The state of the router is told when it changes; the flag is set before the event is written.
RouterReconcile ==
  /\ routerUp = toldDown /\ toldDown' = ~routerUp
  /\ Emit("router", IF routerUp THEN "router_recovered" ELSE "router_unavailable", 0)
  /\ UNCHANGED <<logNow, logRows, routerUp, forced, snapshots, retention, logBounds, ledger>>
RefreshCapabilities ==
  /\ LogAsk /\ Emit("user", "capabilities_refreshed", 0)
  /\ UNCHANGED <<logNow, logRows, routerUp, toldDown, forced, snapshots, retention, logMishaps, ledger>>
\* A pass of the DDNS reconciler that fails by itself, and one that was forced.
AuthFailed ==
  /\ LogAsk /\ Emit("ddns", "auth_failed", 0)
  /\ UNCHANGED <<logNow, logRows, routerUp, toldDown, forced, snapshots, retention, logMishaps, ledger>>
CreateOperation ==
  /\ forced = 0 /\ forced' = 1 /\ emits' = OthersWritten("none")
  /\ UNCHANGED <<logNow, logRows, buckets, routerUp, toldDown, snapshots, retention, logBounds, ledger, routerLost>>
CloseOperation ==
  /\ forced = 1 /\ forced' = 2 + logNow /\ EmitFrom(OthersWritten("none"), "forced", "auth_failed", 1)
  /\ UNCHANGED <<logNow, logRows, routerUp, toldDown, snapshots, retention, logBounds, ledger>>

-----------------------------------------------------------------------------
(* The observer and the daily pass.                                        *)

Generations == {s.gen : s \in snapshots}
NextObserved == IF snapshots = {} THEN 1 ELSE Max(Generations) + 1
Observed == \E s \in snapshots : s.at = logNow
ObserverRuns ==
  /\ ~Observed /\ retention.at = "idle"
  /\ snapshots' = snapshots \cup {[at |-> logNow, gen |-> NextObserved]} /\ emits' = OthersWritten("none")
  /\ UNCHANGED <<logNow, logRows, buckets, routerUp, toldDown, forced, retention, logBounds, ledger, routerLost>>

RetentionBegins ==
  /\ retention.at = "idle" /\ retention.now # logNow /\ (logNow % LogDay) = 0
  /\ retention' = [at |-> "snapshots", now |-> logNow, deleted |-> FALSE]
  /\ UNCHANGED <<logNow, logRows, buckets, emits, routerUp, toldDown, forced, snapshots, logBounds, ledger, routerLost>>
RetentionGoesOn(from, to, some) ==
  retention.at = from /\ retention' = [retention EXCEPT !.at = to, !.deleted = @ \/ some]
DayOf(s) == (s.at - 1) \div LogDay
\* The last one of all, of each hour of the last day, and of each of the last days.
Keep ==
  {s \in snapshots :
     \/ \A t \in snapshots : t.at <= s.at
     \/ s.at >= Before(1)
     \/ s.at >= Before(LogKept) /\ \A t \in snapshots : DayOf(t) = DayOf(s) => t.at <= s.at}
PruneSnapshots ==
  /\ \/ snapshots' = Keep /\ UNCHANGED logMishaps
     \/ LogFault /\ UNCHANGED snapshots
  /\ RetentionGoesOn("snapshots", "operations", snapshots' # snapshots)
  /\ emits' = IF snapshots' # snapshots THEN OthersWritten("none") ELSE emits
  /\ UNCHANGED <<logNow, logRows, buckets, routerUp, toldDown, forced, logAsked, ledger, routerLost>>
\* What deleting rows takes from the ledger, and from what is known of the router.
EventsErased(gone) ==
  /\ logRows' = logRows \ gone
  /\ ledger' = [k \in LogKinds |-> ledger[k] - Occurrences(k, gone)]
  /\ routerLost' = (routerLost \/ \E r \in gone : r.kind \in RouterKinds)
\* The events of an operation go with it.
PruneOperations ==
  LET old == forced > 1 /\ forced - 2 < Before(OperationDays)
  IN /\ \/ /\ forced' = IF old THEN 0 ELSE forced
           /\ EventsErased(IF old THEN {r \in logRows : r.op = 1} ELSE {}) /\ UNCHANGED logMishaps
        \/ LogFault /\ UNCHANGED <<forced, logRows, ledger, routerLost>>
     /\ RetentionGoesOn("operations", "events", forced' # forced)
     /\ emits' = IF forced' # forced THEN OthersWritten("none") ELSE emits
     /\ UNCHANGED <<logNow, buckets, routerUp, toldDown, snapshots, logAsked>>
PruneEvents ==
  /\ \/ EventsErased({r \in logRows : r.first < Before(DaysKept(r.kind))}) /\ UNCHANGED logMishaps
     \/ LogFault /\ UNCHANGED <<logRows, ledger, routerLost>>
  /\ RetentionGoesOn("events", "tell", logRows' # logRows)
  /\ emits' = IF logRows' # logRows THEN OthersWritten("none") ELSE emits
  /\ UNCHANGED <<logNow, buckets, routerUp, toldDown, forced, snapshots, logAsked>>
RetentionTells ==
  /\ RetentionGoesOn("tell", "idle", FALSE)
  /\ IF retention.deleted THEN Emit("retention", "retention_pass", 0) ELSE UNCHANGED <<emits, buckets, routerLost>>
  /\ UNCHANGED <<logNow, logRows, routerUp, toldDown, forced, snapshots, logBounds, ledger>>

-----------------------------------------------------------------------------
(* What happens by itself.                                                 *)

\* An event takes less than a tick, a pass less than an hour, and the observer misses one only
\* when something fails.
LogTick ==
  /\ logNow < LastTick /\ logNow' = logNow + 1 /\ retention.at = "idle"
  /\ \A e \in Callers : emits[e].at # "idle" => emits[e].now = logNow
  /\ IF Observed THEN UNCHANGED logMishaps ELSE LogFault
  /\ UNCHANGED <<logRows, buckets, emits, routerUp, toldDown, forced, snapshots, retention, logAsked, ledger, routerLost>>
RouterChanges ==
  /\ LogAsk /\ routerUp' = ~routerUp
  /\ UNCHANGED <<logNow, logRows, buckets, emits, toldDown, forced, snapshots, retention, logMishaps, ledger, routerLost>>
LogCrash ==
  /\ LogFault /\ emits' = [e \in Callers |-> IdleEmit] /\ retention' = [retention EXCEPT !.at = "idle"]
  /\ buckets' = [c \in {"ddns", "observer"} |-> NoBucket] /\ toldDown' = FALSE
  /\ routerLost' = (routerLost \/ toldDown \/ emits["router"].at # "idle")
  /\ UNCHANGED <<logNow, logRows, routerUp, forced, snapshots, logAsked, ledger>>

NetworkLogNext ==
  \/ \E e \in Callers : EmitLooks(e) \/ EmitWrites(e)
  \/ RouterReconcile \/ RefreshCapabilities \/ AuthFailed \/ CreateOperation \/ CloseOperation
  \/ ObserverRuns \/ RetentionBegins \/ PruneSnapshots \/ PruneOperations \/ PruneEvents \/ RetentionTells
  \/ LogTick \/ RouterChanges \/ LogCrash

NetworkLogSpec == NetworkLogInit /\ [][NetworkLogNext]_networkLogVars

-----------------------------------------------------------------------------
(* What holds.                                                             *)

\* Every variable has its type.
NetworkLogTypeOK ==
  /\ logNow \in 1..LastTick /\ toldDown \in BOOLEAN /\ forced \in 0..(LastTick + 2)
  /\ \A r \in logRows : r.kind \in LogKinds /\ r.first <= logNow /\ r.last <= logNow /\ r.occ > 0
  /\ \A c \in {"ddns", "observer"} : buckets[c].count <= LogLimit

\* Rows of one event are further apart than the window, whoever emits it and however they cross:
\* an event that repeats counts on its row and does not fill the table.
RowsApart ==
  \A r, s \in logRows : r.kind = s.kind /\ r # s => s.first > r.last + LogWindow \/ r.first > s.last + LogWindow
\* What was said to be written is there, and counted once, but for what the daily pass deletes.
LedgerAgrees ==
  \A k \in LogKinds : ledger[k] = Occurrences(k, logRows)
\* The last thing written of the router is the last that was found out, unless that event was
\* refused, failed or deleted, or the daemon was restarted with the router down.
RouterTold ==
  LET told == {r \in logRows : r.kind \in RouterKinds}
  IN ~routerLost /\ emits["router"].at = "idle" =>
       \A r \in told : (\A s \in told \ {r} : s.last < r.last) => (r.kind = "router_unavailable" <=> toldDown)
\* However often the old ones are deleted, a later snapshot has a later generation, every hour of the
\* last day is there, and so is every day that is kept, from the first snapshot on but for the hours missed.
SnapshotsSpread ==
  /\ \A s, t \in snapshots : s.at < t.at => s.gen < t.gen
  /\ Cardinality({h \in 1..(logNow - 1) : h >= Before(1) /\ \A s \in snapshots : s.at # h}) <= logMishaps
  /\ Cardinality({d \in 0..(((logNow - 1) \div LogDay) - 1) :
                    d * LogDay + 1 >= Before(LogKept) /\ \A s \in snapshots : DayOf(s) # d}) <= logMishaps
NetworkLogConsistent == RowsApart /\ LedgerAgrees /\ RouterTold /\ SnapshotsSpread
=============================================================================
