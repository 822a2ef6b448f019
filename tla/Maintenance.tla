----------------------------- MODULE Maintenance -----------------------------
(***************************************************************************)
(* The maintenance tasks: one loop wakes each minute and runs, one after    *)
(* another, the tasks whose schedule says so; the user runs them by hand    *)
(* and edits their schedules meanwhile; the daemon may start again.         *)
(***************************************************************************)
EXTENDS Naturals, FiniteSets
CONSTANTS
  Chores,             \* the tasks; they run in the order of their numbers
  DefaultKind,        \* DefaultSchedule of each task
  Minutes,            \* minutes of a day
  LastMinute,         \* where the clock of the model stops
  Editors,            \* requests that edit schedules at one time
  MaxChoreAsked,      \* edits and runs by hand
  MaxChoreMishaps     \* queries that fail, and starts of the daemon

ASSUME MaintenanceAssumption ==
  /\ Chores \subseteq Nat \ {0} /\ Minutes \in Nat \ {0}
  /\ DefaultKind \in [Chores -> {"interval", "daily", "weekly", "at_boot"}]
  /\ {LastMinute, MaxChoreAsked, MaxChoreMishaps} \subseteq Nat

VARIABLES
  clock,              \* minutes since the midnight before the first start
  plans,              \* maintenance_config: the row of each task
  lastRun,            \* maintenance_history: the end of the last recorded run, Never without one
  loop,               \* maintenanceTickLoop and the pass it is in
  tick,               \* the channel of the ticker, of one place
  edits,              \* PUTs in flight: what they read and what they change
  choreAsked, choreMishaps,
  owed,               \* history: tasks whose minute was delivered, and that must start in its pass
  wish,               \* history: what the user asked each task to be, field by field
  blurred             \* history: tasks whose edits overlapped or failed

choreBounds == <<choreAsked, choreMishaps>>
maintenanceVars == <<clock, plans, lastRun, loop, tick, edits, choreBounds, owed, wish, blurred>>

Never == LastMinute + 1
NoTick == LastMinute + 1
Kinds == {"interval", "daily", "weekly", "at_boot"}
Interval == 2               \* intervalMinutes
Today(t) == t \div Minutes
\* The default schedule is at minute 1, and on the first day of a week of two.
AtMinute == 1 % Minutes
Seed(c) == [enabled |-> TRUE, kind |-> DefaultKind[c], minute |-> AtMinute]
NoEdit == [of |-> 0, base |-> 0, change |-> [enabled |-> TRUE]]
Asleep == [at |-> "asleep", now |-> 0, boot |-> TRUE, todo |-> {}, since |-> 0]

\* The daemon starts early in the day or right before the minute of a daily task.
MaintenanceInit ==
  /\ clock = 0 /\ plans = [c \in Chores |-> Seed(c)] /\ lastRun = [c \in Chores |-> Never]
  /\ loop = Asleep /\ tick = NoTick /\ edits = [e \in Editors |-> NoEdit]
  /\ choreAsked = 0 /\ choreMishaps = 0 /\ owed = {} /\ wish = plans /\ blurred = {}

-----------------------------------------------------------------------------
(* What the steps share.                                                   *)

ChoreFault == choreMishaps < MaxChoreMishaps /\ choreMishaps' = choreMishaps + 1
ChoreAsk == choreAsked < MaxChoreAsked /\ choreAsked' = choreAsked + 1
First(todo) == CHOOSE c \in todo : \A d \in todo : c <= d
SameDay(last, now) == last # Never /\ Today(last) = Today(now)
\* A mutant: the schedule is compared with the clock and not with the tick.
DueByClock(plan, last, now, boot) ==
  \/ plan.kind = "at_boot" /\ boot
  \/ plan.kind = "interval" /\ (last = Never \/ clock >= last + Interval)
  \/ plan.kind = "daily" /\ clock % Minutes = plan.minute /\ ~SameDay(last, clock)
\* taskIsDue: daily and weekly tasks only in their very minute, and not twice a day.
TaskIsDue(plan, last, now, boot) ==
  \/ plan.kind = "at_boot" /\ boot
  \/ plan.kind = "interval" /\ (last = Never \/ now >= last + Interval)
  \/ /\ plan.kind = "daily" \/ (plan.kind = "weekly" /\ Today(now) % 2 = 0)
     /\ now % Minutes = plan.minute /\ ~SameDay(last, now)

-----------------------------------------------------------------------------
(* maintenanceTickLoop, runDueTasks and RunTask.                           *)

\* The minute goes by; a tick that finds the channel full is dropped.
ClockTicks ==
  /\ clock < LastMinute /\ clock' = clock + 1
  /\ tick' = IF loop.at = "asleep" \/ loop.boot THEN NoTick ELSE IF tick = NoTick THEN clock' ELSE tick
  /\ UNCHANGED <<plans, lastRun, loop, edits, choreBounds, owed, wish, blurred>>
\* Ninety seconds after the start, before the ticker exists.
FirstPass ==
  /\ loop.at = "asleep" /\ clock > loop.since
  /\ loop' = [loop EXCEPT !.at = "pass", !.now = clock, !.todo = Chores]
  /\ UNCHANGED <<clock, plans, lastRun, tick, edits, choreBounds, owed, wish, blurred>>
\* What this pass must start: a daily task whose minute this is and that has no run of today.
Expected(now) ==
  {c \in Chores : plans[c].enabled /\ plans[c].kind = "daily" /\ plans[c].minute = now % Minutes
                  /\ ~SameDay(lastRun[c], now)}
TakeTick ==
  /\ loop.at = "idle" /\ tick # NoTick
  /\ loop' = [loop EXCEPT !.at = "pass", !.now = tick, !.todo = Chores]
  /\ tick' = NoTick /\ owed' = Expected(tick)
  /\ UNCHANGED <<clock, plans, lastRun, edits, choreBounds, wish, blurred>>
\* dbMaintenanceGetConfig answers an enabled task without a schedule when it cannot read.
Unread == [enabled |-> TRUE, kind |-> "none", minute |-> 0]
\* A last run that cannot be read is none.
JudgeTask ==
  LET c == First(loop.todo) IN
  /\ loop.at = "pass" /\ loop.todo # {}
  /\ \E plan \in {plans[c], Unread}, last \in {lastRun[c], Never} :
       LET due == plan.enabled /\ TaskIsDue(plan, last, loop.now, loop.boot) IN
       /\ IF plan = plans[c] /\ last = lastRun[c] THEN UNCHANGED choreMishaps ELSE ChoreFault
       /\ loop' = IF due THEN [loop EXCEPT !.at = "run"] ELSE [loop EXCEPT !.todo = @ \ {c}]
       /\ owed' = IF due \/ plan # plans[c] THEN owed \ {c} ELSE owed
  /\ UNCHANGED <<clock, plans, lastRun, tick, edits, choreAsked, wish, blurred>>
\* However a run ends (done, skipped, failed, a panic that is recovered), it is recorded when it
\* ends, and the record may fail.
Recorded(c) ==
  \/ lastRun' = [lastRun EXCEPT ![c] = clock] /\ UNCHANGED choreMishaps
  \/ ChoreFault /\ UNCHANGED lastRun
RunEnds ==
  /\ loop.at = "run" /\ Recorded(First(loop.todo))
  /\ loop' = [loop EXCEPT !.at = "pass", !.todo = @ \ {First(loop.todo)}]
  /\ UNCHANGED <<clock, plans, tick, edits, choreAsked, owed, wish, blurred>>
PassEnds ==
  /\ loop.at = "pass" /\ loop.todo = {} /\ loop' = [loop EXCEPT !.at = "idle", !.boot = FALSE]
  /\ UNCHANGED <<clock, plans, lastRun, tick, edits, choreBounds, owed, wish, blurred>>

-----------------------------------------------------------------------------
(* Requests (maintenance_http.go).                                         *)

\* RunTask does not ask whether the task is enabled, nor whether it runs already: what the loop
\* and the requests see of a run by hand is the record of its end.
RunByHand(c) ==
  /\ ChoreAsk /\ Recorded(c) /\ owed' = owed \ {c}
  /\ UNCHANGED <<clock, plans, loop, tick, edits, wish, blurred>>
\* PUT: the row is read, the fields of the body are put over it, and all of it is written.
EditReads(e, c, change) ==
  /\ edits[e] = NoEdit /\ (\A d \in Editors : d < e => edits[d] # NoEdit) /\ ChoreAsk
  /\ edits' = [edits EXCEPT ![e] = [of |-> c, base |-> plans[c], change |-> change]]
  /\ blurred' = IF \E d \in Editors : edits[d].of = c THEN blurred \cup {c} ELSE blurred
  /\ UNCHANGED <<clock, plans, lastRun, loop, tick, choreMishaps, owed, wish>>
Over(change, row) == [f \in DOMAIN row |-> IF f \in DOMAIN change THEN change[f] ELSE row[f]]
EditWrites(e) ==
  LET c == edits[e].of IN
  /\ c # 0 /\ edits' = [edits EXCEPT ![e] = NoEdit]
  /\ \/ /\ plans' = [plans EXCEPT ![c] = Over(edits[e].change, edits[e].base)] /\ UNCHANGED choreMishaps
        /\ wish' = [wish EXCEPT ![c] = Over(edits[e].change, @)]
     \/ ChoreFault /\ UNCHANGED <<plans, wish>>
  /\ owed' = owed \ {c}
  /\ UNCHANGED <<clock, lastRun, loop, tick, choreAsked, blurred>>

\* The daemon starts again: the loop sleeps, what ran is not recorded, schedules are kept.
StartAgain ==
  /\ ChoreFault /\ loop' = [Asleep EXCEPT !.since = clock] /\ tick' = NoTick
  /\ edits' = [e \in Editors |-> NoEdit] /\ owed' = {}
  /\ UNCHANGED <<clock, plans, lastRun, choreAsked, wish, blurred>>

Changes == [enabled : {FALSE}] \cup [minute : {0}]
MaintenanceNext ==
  \/ ClockTicks \/ FirstPass \/ TakeTick \/ JudgeTask \/ RunEnds \/ PassEnds \/ StartAgain
  \/ \E c \in Chores : RunByHand(c)
  \/ \E e \in Editors : EditWrites(e) \/ \E c \in Chores, change \in Changes : EditReads(e, c, change)

MaintenanceSpec == MaintenanceInit /\ [][MaintenanceNext]_maintenanceVars

-----------------------------------------------------------------------------
(* What holds.                                                             *)

\* Every variable has its type.
MaintenanceTypeOK ==
  /\ clock \in 0..LastMinute /\ tick \in 0..(LastMinute + 1) /\ loop.todo \subseteq Chores
  /\ \A c \in Chores : plans[c] \in [enabled : BOOLEAN, kind : Kinds, minute : 0..(Minutes - 1)]
  /\ \A c \in Chores : lastRun[c] \in 0..clock \cup {Never}
  /\ loop.at \in {"asleep", "pass", "run", "idle"} /\ owed \cup blurred \subseteq Chores

\* A daily task whose minute reached the loop is started in that pass, however long the tasks
\* before it take, unless it ran, or was edited, meanwhile.
DailyStarted == loop.at = "idle" => owed = {}
\* The row of a task has, field by field, what was asked last, unless edits of it overlapped.
EditsKept == \A c \in Chores \ blurred : plans[c] = wish[c]
MaintenanceConsistent == DailyStarted /\ EditsKept
=============================================================================
