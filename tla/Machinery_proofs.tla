-------------------------- MODULE Machinery_proofs --------------------------
(***************************************************************************)
(* Theorems about what runs in the machine: the services of the pools, the  *)
(* identities of the apps, the maintenance tasks and the updates of the     *)
(* apps, for any number of requests, failures and crashes.                  *)
(***************************************************************************)
EXTENDS MCDaemon, TLAPS
-----------------------------------------------------------------------------
(* Services.  A history that is reset whenever anything moves makes most    *)
(* steps trivial: what has to be carried is what a guard or a pass found    *)
(* since, from the step that looked to the one that ends.                   *)

SweepSteps == {"idle", "again", "pools", "drop", "copy", "judge", "look", "secure", "barrier", "allowed",
               "ready", "refuse", "boot"}
PassSteps == {"again", "pools", "drop", "copy", "judge"}
GuardSteps == {"secure", "barrier", "allowed", "ready", "refuse"}
ServiceRow == [status : ServiceStatuses, desired : {"running", "stopped"}]
ServiceAsk == [at : {"stop", "halt", "start", "mounted", "run"}, of : Instances, again : BOOLEAN]
StatusCopies == UNION {[S -> ServiceStatuses] : S \in SUBSET Instances}
Sweeps == [at : SweepSteps, known : SUBSET Instances, copy : StatusCopies]
RemovalSteps == {"idle", "quiesce", "docker", "verify", "torrent", "unmount", "rows", "services", "end", "release"}
Removals == [at : RemovalSteps, was : SUBSET Units]
ServiceTypes ==
  /\ registry \in [Instances -> {Unregistered} \cup ServiceRow]
  /\ up \subseteq Units /\ poolListed \in BOOLEAN /\ poolMounted \in BOOLEAN /\ barrier \in BOOLEAN
  /\ sweep \in Sweeps /\ sweep.known \subseteq DOMAIN sweep.copy
  /\ asks \in [Askers -> {NoAsk} \cup ServiceAsk] /\ removal \in Removals
  /\ wanted \in [Instances -> {"running", "stopped"}]
  /\ forgotten \subseteq Instances /\ guarded \in {"no", "looked", "done"} /\ calm \in {"no", "begun", "told"}

\* A row that went takes with it what the user wanted of it.
IntentInv == \A i \in Instances \ forgotten : wanted[i] = "stopped" => registry[i].desired = "stopped"
\* Docker is not run against the user.
WantedUp == "docker" \in Registered \ forgotten => wanted["docker"] = "running"
\* What the guard found holds at every step that is left to it.
GuardInv ==
  /\ guarded = "looked" => sweep.at \in GuardSteps
  /\ guarded = "looked" /\ sweep.at # "secure" => poolMounted
  /\ guarded = "looked" /\ sweep.at = "ready" => WantedUp
  /\ guarded = "done" /\ "docker" \in up => poolMounted /\ WantedUp
\* A pass that nothing disturbed has judged whom it no longer knows, and its copy is still true.
JudgeInv ==
  /\ calm = "begun" => sweep.at \in PassSteps
  /\ calm = "told" => sweep.at \notin PassSteps
  /\ calm = "begun" /\ sweep.at \in {"copy", "judge"} /\ ~poolListed => Registered \cap OnPool = {}
  /\ calm = "begun" /\ sweep.at = "judge" =>
       \A i \in Registered : registry[i].status = IF i \in sweep.known THEN sweep.copy[i] ELSE Judgement(i)
ServiceInv == ServiceTypes /\ IntentInv /\ GuardInv /\ JudgeInv /\ BarrierLifted /\ StatusTold

LEMMA ServiceStarts ==
  ASSUME ServiceInit
  PROVE  ServiceInv
<1>1. [i \in {} |-> "unknown"] \in StatusCopies
  BY DEF StatusCopies
<1>2. IdlePass \in Sweeps /\ IdlePass.at = "idle" /\ IdlePass.known = {}
  BY <1>1 DEF IdlePass, Sweeps, SweepSteps
<1>3. NoRemoval \in Removals /\ NoRemoval.at = "idle"
  BY DEF NoRemoval, Removals, RemovalSteps
<1>4. ServiceTypes
  BY <1>2, <1>3 DEF ServiceInit, ServiceTypes
<1>5. IntentInv
  BY DEF ServiceInit, IntentInv
<1>6. GuardInv /\ JudgeInv /\ StatusTold
  BY DEF ServiceInit, GuardInv, JudgeInv, StatusTold
<1>7. BarrierLifted
  BY <1>3 DEF ServiceInit, BarrierLifted
<1> QED
  BY <1>4, <1>5, <1>6, <1>7 DEF ServiceInv

\* Marking changes the status of one row.
LEMMA MarkedIs ==
  ASSUME NEW reg \in [Instances -> {Unregistered} \cup ServiceRow], NEW i \in Instances, NEW s \in ServiceStatuses
  PROVE  /\ Marked(reg, i, s) \in [Instances -> {Unregistered} \cup ServiceRow]
         /\ \A j \in Instances : /\ Marked(reg, i, s)[j] = Unregistered <=> reg[j] = Unregistered
                                 /\ Marked(reg, i, s)[j].desired = reg[j].desired
                                 /\ j # i => Marked(reg, i, s)[j] = reg[j]
         /\ reg[i] # Unregistered => Marked(reg, i, s)[i].status = s
<1>1. CASE reg[i] = Unregistered
  BY <1>1 DEF Marked
<1>2. CASE reg[i] # Unregistered
  <2>1. reg[i] \in ServiceRow
    BY <1>2
  <2>2. Marked(reg, i, s) = [reg EXCEPT ![i] = [status |-> s, desired |-> reg[i].desired]]
    <3>1. [reg[i] EXCEPT !.status = s] = [status |-> s, desired |-> reg[i].desired]
      BY <2>1 DEF ServiceRow
    <3> QED
      BY <1>2, <3>1 DEF Marked
  <2>3. [status |-> s, desired |-> reg[i].desired] \in ServiceRow
    BY <2>1 DEF ServiceRow
  <2>4. [status |-> s, desired |-> reg[i].desired] # Unregistered
    BY DEF Unregistered, ServiceStatuses
  <2> QED
    BY <1>2, <2>2, <2>3, <2>4
<1> QED
  BY <1>1, <1>2

\* Statuses may change, rows neither come nor go, and nobody changes an intent.
RowsStand ==
  /\ \A i \in Instances : /\ registry'[i] = Unregistered <=> registry[i] = Unregistered
                          /\ registry'[i].desired = registry[i].desired
  /\ UNCHANGED <<wanted, forgotten>>
LEMMA RowsStandKeep ==
  ASSUME RowsStand
  PROVE  /\ IntentInv => IntentInv'
         /\ WantedUp' <=> WantedUp
         /\ Registered' = Registered
BY DEF RowsStand, IntentInv, WantedUp, Registered
LEMMA MarkingStands ==
  ASSUME ServiceTypes, NEW i \in Instances, NEW s \in ServiceStatuses,
         registry' = registry \/ registry' = Marked(registry, i, s), UNCHANGED <<wanted, forgotten>>
  PROVE  RowsStand /\ registry' \in [Instances -> {Unregistered} \cup ServiceRow]
<1>1. registry \in [Instances -> {Unregistered} \cup ServiceRow]
  BY DEF ServiceTypes
<1> QED
  BY <1>1, MarkedIs DEF RowsStand
\* Nothing a pass told, nothing a guard found.
LEMMA MovedKeeps ==
  ASSUME Moved
  PROVE  GuardInv' /\ JudgeInv' /\ StatusTold'
BY DEF Moved, GuardInv, JudgeInv, StatusTold
LEMMA GuardStands ==
  ASSUME GuardInv, RowsStand, UNCHANGED <<up, poolMounted, guarded, sweep>>
  PROVE  GuardInv'
BY RowsStandKeep DEF GuardInv
LEMMA JudgeStands ==
  ASSUME JudgeInv, StatusTold, UNCHANGED <<registry, up, poolListed, poolMounted, calm, sweep>>
  PROVE  JudgeInv' /\ StatusTold'
BY DEF JudgeInv, StatusTold, Registered, Judgement
\* A command of the removal moves something, or nothing at all.
LEMMA DockerMovedKeeps ==
  ASSUME ServiceInv, DockerMoved, UNCHANGED <<registry, poolListed, sweep, wanted, forgotten>>
  PROVE  IntentInv' /\ GuardInv' /\ JudgeInv' /\ StatusTold'
<1>1. RowsStand /\ IntentInv'
  BY RowsStandKeep DEF RowsStand, ServiceInv
<1>2. CASE Moved
  BY <1>1, <1>2, MovedKeeps
<1>3. CASE UNCHANGED <<up, poolMounted, guarded, calm>>
  BY <1>1, <1>3, GuardStands, JudgeStands DEF ServiceInv
<1> QED
  BY <1>1, <1>2, <1>3 DEF DockerMoved
LEMMA BarrierStands ==
  ASSUME BarrierLifted, UNCHANGED <<barrier, removal>>
  PROVE  BarrierLifted'
BY DEF BarrierLifted
LEMMA SystemctlTypes ==
  ASSUME ServiceTypes, NEW units \in SUBSET Units, NEW start \in BOOLEAN, NEW works \in BOOLEAN,
         Systemctl(units, start, works)
  PROVE  up' \subseteq Units
BY DEF Systemctl, ServiceTypes

\* The request goes on, or is answered.
LEMMA AskTypes ==
  ASSUME ServiceTypes, NEW a \in Askers, asks[a].at # "idle"
  PROVE  /\ asks[a] \in ServiceAsk /\ asks[a].of \in Instances
         /\ Answer(a) => asks' \in [Askers -> {NoAsk} \cup ServiceAsk]
         /\ \A at \in {"halt", "start", "mounted", "run"} :
              Turn(a, at) => asks' \in [Askers -> {NoAsk} \cup ServiceAsk]
<1>1. asks \in [Askers -> {NoAsk} \cup ServiceAsk] /\ asks[a] \in ServiceAsk
  BY DEF ServiceTypes, NoAsk
<1>2. asks[a].of \in Instances
  BY <1>1 DEF ServiceAsk
<1>3. Answer(a) => asks' \in [Askers -> {NoAsk} \cup ServiceAsk]
  BY <1>1 DEF Answer
<1>4. ASSUME NEW at \in {"halt", "start", "mounted", "run"}, Turn(a, at)
      PROVE  asks' \in [Askers -> {NoAsk} \cup ServiceAsk]
  <2> DEFINE next == [asks[a] EXCEPT !.at = at]
  <2>1. next \in ServiceAsk
    BY <1>1 DEF ServiceAsk
  <2>2. asks' = [asks EXCEPT ![a] = next]
    BY <1>4 DEF Turn
  <2> HIDE DEF next
  <2> QED
    BY <1>1, <2>1, <2>2
<1> QED
  BY <1>1, <1>2, <1>3, <1>4

LEMMA RequestKeeps ==
  ASSUME ServiceInv, NEW a \in Askers, NEW i \in Instances, NEW at \in {"stop", "start"}, NEW again \in BOOLEAN,
         Request(a, i, at, again)
  PROVE  ServiceInv'
<1> USE DEF ServiceInv
<1>1. /\ UNCHANGED <<registry, up, poolListed, poolMounted, barrier, removal, sweep, wanted, forgotten, guarded>>
      /\ calm' = "no"
  BY DEF Request, world
<1>2. asks' \in [Askers -> {NoAsk} \cup ServiceAsk]
  <2>1. asks' = [asks EXCEPT ![a] = [at |-> at, of |-> i, again |-> again]]
    BY DEF Request
  <2>2. [at |-> at, of |-> i, again |-> again] \in ServiceAsk
    BY DEF ServiceAsk
  <2> QED
    BY <2>1, <2>2 DEF ServiceTypes
<1>3. ServiceTypes'
  BY <1>1, <1>2 DEF ServiceTypes
<1>4. RowsStand
  BY <1>1 DEF RowsStand
<1>5. IntentInv' /\ GuardInv'
  BY <1>1, <1>4, RowsStandKeep, GuardStands
<1>6. JudgeInv' /\ StatusTold'
  BY <1>1 DEF JudgeInv, StatusTold
<1> QED
  BY <1>1, <1>3, <1>5, <1>6, BarrierStands

LEMMA StopIntentKeeps ==
  ASSUME ServiceInv, NEW a \in Askers, StopIntent(a)
  PROVE  ServiceInv'
<1> USE DEF ServiceInv
<1>1. /\ UNCHANGED <<up, poolListed, poolMounted, barrier, removal, sweep>>
      /\ Moved /\ asks[a].at # "idle"
  BY DEF StopIntent, world, Moved
<1>2. asks' \in [Askers -> {NoAsk} \cup ServiceAsk] /\ asks[a].of \in Instances
  BY <1>1, AskTypes DEF StopIntent
<1>3. /\ registry' \in [Instances -> {Unregistered} \cup ServiceRow]
      /\ wanted' \in [Instances -> {"running", "stopped"}] /\ forgotten' \subseteq Instances
      /\ IntentInv'
  <2> DEFINE i == asks[a].of
  <2>1. CASE i \notin Registered
    <3>1. UNCHANGED <<registry, wanted, forgotten>>
      BY <2>1 DEF StopIntent
    <3> QED
      BY <3>1 DEF ServiceTypes, IntentInv
  <2>2. CASE i \in Registered
    <3> DEFINE asked == [registry EXCEPT ![i].desired = "stopped"]
    <3>1. /\ registry' = Marked(asked, i, "stopping")
          /\ wanted' = [wanted EXCEPT ![i] = "stopped"] /\ forgotten' = forgotten \ {i}
      BY <2>2 DEF StopIntent, Intent, Registered
    <3>2. registry \in [Instances -> {Unregistered} \cup ServiceRow] /\ registry[i] \in ServiceRow /\ i \in Instances
      BY <1>2, <2>2 DEF ServiceTypes, Registered
    <3>3. /\ asked \in [Instances -> {Unregistered} \cup ServiceRow]
          /\ \A j \in Instances : j # i => asked[j] = registry[j]
          /\ asked[i].desired = "stopped"
      <4> DEFINE row == [registry[i] EXCEPT !.desired = "stopped"]
      <4>1. row \in ServiceRow /\ row.desired = "stopped"
        BY <3>2 DEF ServiceRow
      <4>2. asked = [registry EXCEPT ![i] = row]
        OBVIOUS
      <4> HIDE DEF row, asked
      <4> QED
        BY <3>2, <4>1, <4>2
    <3> HIDE DEF asked, i
    <3>4. /\ registry' \in [Instances -> {Unregistered} \cup ServiceRow]
          /\ registry'[i].desired = "stopped"
          /\ \A j \in Instances : j # i => registry'[j].desired = registry[j].desired
      BY <3>1, <3>2, <3>3, MarkedIs DEF ServiceStatuses
    <3>5. wanted' \in [Instances -> {"running", "stopped"}] /\ \A j \in Instances : j # i => wanted'[j] = wanted[j]
      BY <3>1, <3>2 DEF ServiceTypes
    <3>6. forgotten' \subseteq Instances
      BY <3>1 DEF ServiceTypes
    <3>7. IntentInv'
      BY <3>1, <3>4, <3>5 DEF IntentInv
    <3> QED
      BY <3>4, <3>5, <3>6, <3>7
  <2> QED
    BY <2>1, <2>2
<1>4. ServiceTypes'
  BY <1>1, <1>2, <1>3 DEF ServiceTypes, Moved
<1> QED
  BY <1>1, <1>3, <1>4, MovedKeeps, BarrierStands

LEMMA StopUnitKeeps ==
  ASSUME ServiceInv, NEW a \in Askers, NEW works \in BOOLEAN, StopUnit(a, works)
  PROVE  ServiceInv'
<1> USE DEF ServiceInv
<1>1. /\ UNCHANGED <<poolListed, poolMounted, barrier, removal, sweep, wanted, forgotten>>
      /\ Moved /\ asks[a].at # "idle"
  BY DEF StopUnit
<1>2. asks' \in [Askers -> {NoAsk} \cup ServiceAsk] /\ asks[a].of \in Instances
  BY <1>1, AskTypes DEF StopUnit
<1>3. RowsStand /\ registry' \in [Instances -> {Unregistered} \cup ServiceRow]
  <2>1. registry' = registry \/ registry' = Marked(registry, asks[a].of, "error")
    BY DEF StopUnit
  <2> QED
    BY <1>1, <1>2, <2>1, MarkingStands DEF ServiceStatuses
<1>4. up' \subseteq Units
  <2>1. Systemctl({asks[a].of}, FALSE, works)
    BY DEF StopUnit
  <2>2. {asks[a].of} \subseteq Units
    BY <1>2, ServicesAssumption DEF Units
  <2> QED
    BY <2>1, <2>2, SystemctlTypes
<1>5. ServiceTypes'
  BY <1>1, <1>2, <1>3, <1>4 DEF ServiceTypes, Moved, RowsStand
<1> QED
  BY <1>1, <1>3, <1>5, RowsStandKeep, MovedKeeps, BarrierStands

LEMMA StartIntentKeeps ==
  ASSUME ServiceInv, NEW a \in Askers, StartIntent(a)
  PROVE  ServiceInv'
<1> USE DEF ServiceInv
<1>1. /\ UNCHANGED <<up, poolListed, poolMounted, barrier, removal, sweep, guarded>>
      /\ calm' = "no" /\ asks[a].at # "idle"
  BY DEF StartIntent, world
<1>2. asks' \in [Askers -> {NoAsk} \cup ServiceAsk] /\ asks[a].of \in Instances
  BY <1>1, AskTypes DEF StartIntent
<1>3. /\ registry' \in [Instances -> {Unregistered} \cup ServiceRow]
      /\ wanted' \in [Instances -> {"running", "stopped"}] /\ forgotten' \subseteq Instances
      /\ IntentInv' /\ (WantedUp => WantedUp')
  <2> DEFINE i == asks[a].of
  <2>1. CASE i \notin Registered
    <3>1. UNCHANGED <<registry, wanted, forgotten>>
      BY <2>1 DEF StartIntent
    <3> QED
      BY <3>1 DEF ServiceTypes, IntentInv, WantedUp, Registered
  <2>2. CASE i \in Registered
    <3> DEFINE asked == [registry EXCEPT ![i].desired = "running"]
    <3>1. /\ registry' = asked
          /\ wanted' = [wanted EXCEPT ![i] = "running"] /\ forgotten' = forgotten \ {i}
      BY <2>2 DEF StartIntent, Intent, Registered
    <3>2. registry \in [Instances -> {Unregistered} \cup ServiceRow] /\ registry[i] \in ServiceRow /\ i \in Instances
      BY <1>2, <2>2 DEF ServiceTypes, Registered
    <3>3. /\ asked \in [Instances -> {Unregistered} \cup ServiceRow]
          /\ \A j \in Instances : j # i => asked[j] = registry[j]
      <4> DEFINE row == [registry[i] EXCEPT !.desired = "running"]
      <4>1. row \in ServiceRow
        BY <3>2 DEF ServiceRow
      <4>2. asked = [registry EXCEPT ![i] = row]
        OBVIOUS
      <4> HIDE DEF row, asked
      <4> QED
        BY <3>2, <4>1, <4>2
    <3> HIDE DEF asked, i
    <3>4. /\ wanted' \in [Instances -> {"running", "stopped"}] /\ wanted'[i] = "running"
          /\ \A j \in Instances : j # i => wanted'[j] = wanted[j]
      BY <3>1, <3>2 DEF ServiceTypes
    <3>5. forgotten' \subseteq Instances
      BY <3>1 DEF ServiceTypes
    <3>6. IntentInv'
      BY <3>1, <3>3, <3>4 DEF IntentInv
    <3>7. WantedUp => WantedUp'
      BY <3>1, <3>3, <3>4 DEF WantedUp, Registered
    <3> QED
      BY <3>1, <3>3, <3>4, <3>5, <3>6, <3>7
  <2> QED
    BY <2>1, <2>2
<1>4. ServiceTypes'
  BY <1>1, <1>2, <1>3 DEF ServiceTypes
<1>5. GuardInv'
  BY <1>1, <1>3 DEF GuardInv
<1>6. JudgeInv' /\ StatusTold'
  BY <1>1 DEF JudgeInv, StatusTold
<1> QED
  BY <1>1, <1>3, <1>4, <1>5, <1>6, BarrierStands

LEMMA StartMountedKeeps ==
  ASSUME ServiceInv, NEW a \in Askers, StartMounted(a)
  PROVE  ServiceInv'
<1> USE DEF ServiceInv
<1>1. /\ UNCHANGED <<up, poolListed, poolMounted, barrier, removal, sweep, wanted, forgotten, guarded>>
      /\ calm' = "no" /\ asks[a].at # "idle"
  BY DEF StartMounted, world
<1>2. asks' \in [Askers -> {NoAsk} \cup ServiceAsk] /\ asks[a].of \in Instances
  BY <1>1, AskTypes DEF StartMounted
<1>3. RowsStand /\ registry' \in [Instances -> {Unregistered} \cup ServiceRow]
  <2>1. registry' = Marked(registry, asks[a].of, "starting") \/ registry' = Marked(registry, asks[a].of, "error")
    BY DEF StartMounted
  <2> QED
    BY <1>1, <1>2, <2>1, MarkingStands DEF ServiceStatuses
<1>4. ServiceTypes'
  BY <1>1, <1>2, <1>3 DEF ServiceTypes
<1>5. JudgeInv' /\ StatusTold'
  BY <1>1 DEF JudgeInv, StatusTold
<1> QED
  BY <1>1, <1>3, <1>4, <1>5, RowsStandKeep, GuardStands, BarrierStands

LEMMA StartUnitKeeps ==
  ASSUME ServiceInv, NEW a \in Askers, NEW works \in BOOLEAN, StartUnit(a, works)
  PROVE  ServiceInv'
<1> USE DEF ServiceInv
<1>1. /\ UNCHANGED <<poolListed, poolMounted, barrier, removal, sweep, wanted, forgotten>>
      /\ Moved /\ asks[a].at # "idle"
  BY DEF StartUnit
<1>2. asks' \in [Askers -> {NoAsk} \cup ServiceAsk] /\ asks[a].of \in Instances
  BY <1>1, AskTypes DEF StartUnit
<1>3. RowsStand /\ registry' \in [Instances -> {Unregistered} \cup ServiceRow]
  <2>1. registry' = registry \/ registry' = Marked(registry, asks[a].of, "error")
    BY DEF StartUnit
  <2> QED
    BY <1>1, <1>2, <2>1, MarkingStands DEF ServiceStatuses
<1>4. up' \subseteq Units
  <2>1. Systemctl({asks[a].of}, TRUE, works)
    BY DEF StartUnit
  <2>2. {asks[a].of} \subseteq Units
    BY <1>2, ServicesAssumption DEF Units
  <2> QED
    BY <2>1, <2>2, SystemctlTypes
<1>5. ServiceTypes'
  BY <1>1, <1>2, <1>3, <1>4 DEF ServiceTypes, Moved, RowsStand
<1> QED
  BY <1>1, <1>3, <1>5, RowsStandKeep, MovedKeeps, BarrierStands

\* Where the pass is; what it knows and what it copied stay.
LEMMA SweepSteppedTypes ==
  ASSUME ServiceTypes, NEW at \in SweepSteps, Step(at)
  PROVE  /\ sweep' \in Sweeps /\ sweep'.known \subseteq DOMAIN sweep'.copy
         /\ sweep'.at = at /\ sweep'.known = sweep.known /\ sweep'.copy = sweep.copy
<1>1. sweep \in Sweeps /\ sweep.known \subseteq DOMAIN sweep.copy
  BY DEF ServiceTypes
<1> QED
  BY <1>1 DEF Step, Sweeps
LEMMA IdleSweeps ==
  ASSUME NEW at \in SweepSteps
  PROVE  /\ [IdlePass EXCEPT !.at = at] \in Sweeps /\ [IdlePass EXCEPT !.at = at].known = {}
         /\ [IdlePass EXCEPT !.at = at].at = at
         /\ IdlePass \in Sweeps /\ IdlePass.known = {} /\ IdlePass.at = "idle"
<1>1. [i \in {} |-> "unknown"] \in StatusCopies
  BY DEF StatusCopies
<1>2. IdlePass \in Sweeps /\ IdlePass.known = {} /\ IdlePass.at = "idle"
  BY <1>1 DEF IdlePass, Sweeps, SweepSteps
<1> QED
  BY <1>2 DEF Sweeps
\* Outside of a pass, or when the sweep goes on from it.
LEMMA JudgeMoves ==
  ASSUME JudgeInv, StatusTold, sweep.at \notin PassSteps, sweep'.at \notin PassSteps,
         UNCHANGED <<registry, up, poolListed, poolMounted, calm>>
  PROVE  JudgeInv' /\ StatusTold'
BY DEF JudgeInv, StatusTold, Registered, Judgement, PassSteps
LEMMA PassMoves ==
  ASSUME JudgeInv, sweep.at \in PassSteps, UNCHANGED calm, sweep'.at \in PassSteps
  PROVE  /\ StatusTold' /\ calm # "told"
         /\ calm = "begun" => sweep'.at \in PassSteps
BY DEF JudgeInv, StatusTold

LEMMA PassRegisterKeeps ==
  ASSUME ServiceInv, NEW from, NEW at, \/ from = "idle" /\ at = "again"
                                       \/ from = "again" /\ at = "pools", PassRegister(from, at)
  PROVE  ServiceInv'
<1> USE DEF ServiceInv
<1>1. /\ UNCHANGED <<up, poolListed, poolMounted, barrier, removal, asks, wanted, guarded>>
      /\ sweep.at = from /\ Step(at) /\ at \in SweepSteps
      /\ calm' = IF from = "idle" THEN "begun" ELSE calm
  BY DEF PassRegister, world, SweepSteps
<1>2. PICK known \in {Registered, {}} :
        LET new == Detected \ known IN
        /\ registry' = [i \in Instances |-> IF i \notin new THEN registry[i]
                                            ELSE [status |-> "unknown", desired |-> "running"]]
        /\ forgotten' = forgotten \cup (Registered \cap new)
  BY DEF PassRegister
<1> DEFINE new == Detected \ known
<1>3. /\ \A i \in Instances : i \notin new => registry'[i] = registry[i]
      /\ \A i \in Instances : i \in new => registry'[i] = [status |-> "unknown", desired |-> "running"]
      /\ \A i \in Instances : i \in new /\ registry[i] # Unregistered => i \in forgotten'
      /\ forgotten \subseteq forgotten' /\ forgotten' \subseteq Instances
  BY <1>2 DEF Registered, ServiceTypes
<1>4. registry' \in [Instances -> {Unregistered} \cup ServiceRow]
  <2>1. [status |-> "unknown", desired |-> "running"] \in ServiceRow
    BY DEF ServiceRow, ServiceStatuses
  <2>2. registry \in [Instances -> {Unregistered} \cup ServiceRow]
    BY DEF ServiceTypes
  <2> QED
    BY <1>2, <2>1, <2>2
<1>5. sweep' \in Sweeps /\ sweep'.known \subseteq DOMAIN sweep'.copy /\ sweep'.at = at
  BY <1>1, SweepSteppedTypes
<1>6. ServiceTypes'
  BY <1>1, <1>3, <1>4, <1>5 DEF ServiceTypes
<1> HIDE DEF new
<1>7. IntentInv'
  BY <1>1, <1>3 DEF IntentInv, Unregistered
<1>8. WantedUp => WantedUp'
  BY <1>1, <1>3 DEF WantedUp, Registered, IntentInv, Unregistered, ServiceTypes
<1>9. GuardInv'
  BY <1>1, <1>5, <1>8 DEF GuardInv, GuardSteps
<1>10. JudgeInv' /\ StatusTold'
  BY <1>1, <1>5 DEF JudgeInv, StatusTold, PassSteps
<1> QED
  BY <1>1, <1>6, <1>7, <1>9, <1>10, BarrierStands

LEMMA PassForgetKeeps ==
  ASSUME ServiceInv, PassForget
  PROVE  ServiceInv'
<1> USE DEF ServiceInv
<1>1. /\ UNCHANGED <<registry, up, poolListed, poolMounted, barrier, removal, asks, wanted, forgotten, guarded, calm>>
      /\ sweep.at = "pools"
  BY DEF PassForget, world, histories
<1>2. \/ Step("copy") /\ poolListed
      \/ Step("drop")
  BY DEF PassForget, Step
<1>3. /\ sweep' \in Sweeps /\ sweep'.known \subseteq DOMAIN sweep'.copy /\ sweep'.at \in {"copy", "drop"}
      /\ sweep'.at = "copy" => poolListed
  BY <1>2, SweepSteppedTypes DEF SweepSteps
<1>4. ServiceTypes'
  BY <1>1, <1>3 DEF ServiceTypes
<1>5. RowsStand
  BY <1>1 DEF RowsStand
<1>6. IntentInv' /\ (WantedUp' <=> WantedUp)
  BY <1>5, RowsStandKeep
<1>7. GuardInv'
  BY <1>1, <1>3, <1>6 DEF GuardInv, GuardSteps
<1>8. JudgeInv' /\ StatusTold'
  BY <1>1, <1>3 DEF JudgeInv, StatusTold, PassSteps
<1> QED
  BY <1>1, <1>4, <1>6, <1>7, <1>8, BarrierStands

\* The services of the pool are forgotten, by a pass or by the removal.
LEMMA DropKeeps ==
  ASSUME ServiceInv, registry' = [i \in Instances |-> IF i \in OnPool THEN Unregistered ELSE registry[i]],
         forgotten' = forgotten \cup (Registered \cap OnPool), UNCHANGED wanted
  PROVE  /\ registry' \in [Instances -> {Unregistered} \cup ServiceRow] /\ forgotten' \subseteq Instances
         /\ IntentInv' /\ WantedUp' /\ Registered' \cap OnPool = {}
<1> USE DEF ServiceInv
<1>1. /\ \A i \in Instances : i \in OnPool => registry'[i] = Unregistered
      /\ \A i \in Instances : i \notin OnPool => registry'[i] = registry[i]
  OBVIOUS
<1>2. registry' \in [Instances -> {Unregistered} \cup ServiceRow] /\ forgotten' \subseteq Instances
  BY DEF ServiceTypes, Registered
<1>3. IntentInv'
  BY <1>1 DEF IntentInv, Registered, Unregistered
<1>4. Registered' \cap OnPool = {}
  BY <1>1 DEF Registered
<1>5. WantedUp'
  BY <1>4 DEF WantedUp, OnPool
<1> QED
  BY <1>2, <1>3, <1>4, <1>5

LEMMA PassDropKeeps ==
  ASSUME ServiceInv, PassDrop
  PROVE  ServiceInv'
<1> USE DEF ServiceInv
<1>1. /\ UNCHANGED <<up, poolListed, poolMounted, barrier, removal, asks, wanted, guarded, calm>>
      /\ sweep.at = "drop" /\ Step("copy")
  BY DEF PassDrop, world
<1>2. /\ registry' \in [Instances -> {Unregistered} \cup ServiceRow] /\ forgotten' \subseteq Instances
      /\ IntentInv' /\ WantedUp' /\ Registered' \cap OnPool = {}
  BY <1>1, DropKeeps DEF PassDrop
<1>3. sweep' \in Sweeps /\ sweep'.known \subseteq DOMAIN sweep'.copy /\ sweep'.at = "copy"
  BY <1>1, SweepSteppedTypes DEF SweepSteps
<1>4. ServiceTypes'
  BY <1>1, <1>2, <1>3 DEF ServiceTypes
<1>5. GuardInv'
  BY <1>1, <1>2, <1>3 DEF GuardInv, GuardSteps
<1>6. JudgeInv' /\ StatusTold'
  BY <1>1, <1>2, <1>3 DEF JudgeInv, StatusTold, PassSteps
<1> QED
  BY <1>1, <1>2, <1>4, <1>5, <1>6, BarrierStands

LEMMA PassCopyKeeps ==
  ASSUME ServiceInv, PassCopy
  PROVE  ServiceInv'
<1> USE DEF ServiceInv
<1> DEFINE copied == [i \in Registered |-> registry[i].status]
<1>1. /\ UNCHANGED <<registry, up, poolListed, poolMounted, barrier, removal, asks, wanted, forgotten, guarded, calm>>
      /\ sweep.at = "copy" /\ sweep' = [at |-> "judge", known |-> Registered, copy |-> copied]
  BY DEF PassCopy, world, histories
<1>2. copied \in StatusCopies
  <2>1. \A i \in Registered : registry[i].status \in ServiceStatuses
    BY DEF Registered, ServiceTypes, ServiceRow
  <2>2. Registered \in SUBSET Instances
    BY DEF Registered
  <2>3. copied \in [Registered -> ServiceStatuses]
    BY <2>1
  <2> QED
    BY <2>2, <2>3 DEF StatusCopies
<1>3. /\ sweep' \in Sweeps /\ sweep'.known \subseteq DOMAIN sweep'.copy /\ sweep'.at = "judge"
      /\ sweep'.known = Registered /\ \A i \in Registered : sweep'.copy[i] = registry[i].status
  <2>1. DOMAIN copied = Registered /\ \A i \in Registered : copied[i] = registry[i].status
    OBVIOUS
  <2> HIDE DEF copied
  <2> QED
    BY <1>1, <1>2, <2>1 DEF Sweeps, SweepSteps, Registered
<1> HIDE DEF copied
<1>4. ServiceTypes'
  BY <1>1, <1>3 DEF ServiceTypes
<1>5. RowsStand
  BY <1>1 DEF RowsStand
<1>6. IntentInv' /\ (WantedUp' <=> WantedUp) /\ Registered' = Registered
  BY <1>5, RowsStandKeep
<1>7. GuardInv'
  BY <1>1, <1>3, <1>6 DEF GuardInv, GuardSteps
<1>8. JudgeInv' /\ StatusTold'
  BY <1>1, <1>3, <1>6 DEF JudgeInv, StatusTold, PassSteps
<1> QED
  BY <1>1, <1>4, <1>6, <1>7, <1>8, BarrierStands

LEMMA PassJudgeKeeps ==
  ASSUME ServiceInv, NEW i \in Instances, PassJudge(i)
  PROVE  ServiceInv'
<1> USE DEF ServiceInv
<1>1. /\ UNCHANGED <<up, poolListed, poolMounted, barrier, removal, asks, wanted, forgotten, guarded, calm>>
      /\ sweep.at = "judge" /\ i \in sweep.known /\ sweep' = [sweep EXCEPT !.known = @ \ {i}]
      /\ registry' = IF sweep.copy[i] = Judgement(i) THEN registry ELSE Marked(registry, i, Judgement(i))
  BY DEF PassJudge, world, histories
<1>2. /\ sweep' \in Sweeps /\ sweep'.known \subseteq DOMAIN sweep'.copy /\ sweep'.at = "judge"
      /\ sweep'.known = sweep.known \ {i} /\ sweep'.copy = sweep.copy
  BY <1>1 DEF ServiceTypes, Sweeps
<1>3. Judgement(i) \in ServiceStatuses
  BY DEF Judgement, ServiceStatuses
<1>4. RowsStand /\ registry' \in [Instances -> {Unregistered} \cup ServiceRow]
  BY <1>1, <1>3, MarkingStands
<1>5. ServiceTypes'
  BY <1>1, <1>2, <1>4 DEF ServiceTypes
<1>6. IntentInv' /\ (WantedUp' <=> WantedUp) /\ Registered' = Registered
  BY <1>4, RowsStandKeep
<1>7. GuardInv'
  BY <1>1, <1>2, <1>6 DEF GuardInv, GuardSteps
<1>8. calm # "told"
  BY <1>1 DEF JudgeInv, PassSteps
<1>9. ASSUME calm = "begun", NEW j \in Registered
      PROVE  registry'[j].status = IF j \in sweep'.known THEN sweep'.copy[j] ELSE Judgement(j)
  <2>1. /\ registry[j].status = IF j \in sweep.known THEN sweep.copy[j] ELSE Judgement(j)
        /\ j \in Instances /\ registry[j] # Unregistered
    BY <1>1, <1>9 DEF JudgeInv, Registered
  <2>2. CASE j # i
    <3>1. registry'[j] = registry[j]
      BY <1>1, <1>3, <2>1, <2>2, MarkedIs DEF ServiceTypes
    <3> QED
      BY <1>2, <2>1, <2>2, <3>1
  <2>3. CASE j = i
    <3>1. registry'[i].status = Judgement(i)
      BY <1>1, <1>3, <2>1, <2>3, MarkedIs DEF ServiceTypes
    <3> QED
      BY <1>2, <2>3, <3>1
  <2> QED
    BY <2>2, <2>3
<1>10. JudgeInv'
  <2>1. \A j \in Instances : Judgement(j)' = Judgement(j)
    BY <1>1 DEF Judgement
  <2>2. Registered \subseteq Instances
    BY DEF Registered
  <2> QED
    BY <1>1, <1>2, <1>6, <1>8, <1>9, <2>1, <2>2 DEF JudgeInv
<1>11. StatusTold'
  BY <1>1, <1>8 DEF StatusTold
<1> QED
  BY <1>1, <1>5, <1>6, <1>7, <1>10, <1>11, BarrierStands

LEMMA PassJudgedKeeps ==
  ASSUME ServiceInv, PassJudged
  PROVE  ServiceInv'
<1> USE DEF ServiceInv
<1>1. /\ UNCHANGED <<registry, up, poolListed, poolMounted, barrier, removal, asks, wanted, forgotten, guarded>>
      /\ sweep.at = "judge" /\ sweep.known = {} /\ sweep' = [IdlePass EXCEPT !.at = "look"]
      /\ calm' = IF calm = "begun" THEN "told" ELSE calm
  BY DEF PassJudged, world
<1>2. sweep' \in Sweeps /\ sweep'.known \subseteq DOMAIN sweep'.copy /\ sweep'.at = "look"
  BY <1>1, IdleSweeps DEF SweepSteps
<1>3. ServiceTypes'
  BY <1>1, <1>2 DEF ServiceTypes
<1>4. RowsStand
  BY <1>1 DEF RowsStand
<1>5. IntentInv' /\ (WantedUp' <=> WantedUp) /\ Registered' = Registered
  BY <1>4, RowsStandKeep
<1>6. GuardInv'
  BY <1>1, <1>2, <1>5 DEF GuardInv, GuardSteps
<1>7. calm # "told"
  BY <1>1 DEF JudgeInv, PassSteps
<1>8. JudgeInv'
  BY <1>1, <1>2, <1>7 DEF JudgeInv, PassSteps
<1>9. StatusTold'
  BY <1>1, <1>5, <1>7 DEF JudgeInv, StatusTold, Judgement
<1> QED
  BY <1>1, <1>3, <1>5, <1>6, <1>8, <1>9, BarrierStands

\* The guard, from here on: what it did not touch.
GuardTurn == UNCHANGED <<registry, poolListed, poolMounted, barrier, removal, asks, wanted, forgotten>>
LEMMA GuardTurnKeeps ==
  ASSUME ServiceInv, GuardTurn, up' \subseteq Units, sweep' \in Sweeps, sweep'.known \subseteq DOMAIN sweep'.copy,
         guarded' \in {"no", "looked", "done"}, calm' \in {"no", "begun", "told"},
         GuardInv', JudgeInv', StatusTold'
  PROVE  ServiceInv'
<1> USE DEF ServiceInv, GuardTurn
<1>1. ServiceTypes'
  BY DEF ServiceTypes
<1>2. IntentInv' /\ BarrierLifted'
  BY BarrierStands DEF IntentInv
<1> QED
  BY <1>1, <1>2
LEMMA GuardTurnRows ==
  ASSUME GuardTurn
  PROVE  (WantedUp' <=> WantedUp) /\ Registered' = Registered
BY DEF GuardTurn, WantedUp, Registered

LEMMA GuardLookKeeps ==
  ASSUME ServiceInv, GuardLook \/ BootGuard
  PROVE  ServiceInv'
<1> USE DEF ServiceInv
<1>1. GuardTurn /\ UNCHANGED <<up, calm>> /\ sweep.at \in {"look", "boot"}
  BY DEF GuardLook, BootGuard, GuardTurn, world
<1>2. /\ guarded' = guarded \/ (guarded = "no" /\ guarded' = "looked")
      /\ (Step("barrier") /\ poolMounted) \/ Step("secure") \/ (sweep' = IdlePass /\ guarded' = guarded)
  BY DEF GuardLook, BootGuard
<1>3. /\ sweep' \in Sweeps /\ sweep'.known \subseteq DOMAIN sweep'.copy
      /\ \/ sweep'.at = "barrier" /\ poolMounted
         \/ sweep'.at = "secure"
         \/ sweep'.at = "idle" /\ guarded' = guarded
  BY <1>2, SweepSteppedTypes, IdleSweeps DEF SweepSteps
<1>4. guarded # "looked"
  BY <1>1 DEF GuardInv, GuardSteps
<1>5. GuardInv'
  BY <1>1, <1>2, <1>3, <1>4, GuardTurnRows DEF GuardInv, GuardSteps, GuardTurn
<1>6. JudgeInv' /\ StatusTold'
  BY <1>1, <1>3, JudgeMoves DEF PassSteps, GuardTurn
<1>7. guarded' \in {"no", "looked", "done"} /\ calm' \in {"no", "begun", "told"} /\ up' \subseteq Units
  BY <1>1, <1>2 DEF ServiceTypes
<1> QED
  BY <1>1, <1>3, <1>5, <1>6, <1>7, GuardTurnKeeps

LEMMA GuardStopKeeps ==
  ASSUME ServiceInv, NEW from \in {"secure", "refuse"}, NEW works \in BOOLEAN, GuardStop(from, works)
  PROVE  ServiceInv'
<1> USE DEF ServiceInv
<1>1. GuardTurn /\ sweep.at = from /\ sweep' = IdlePass /\ calm' = IF up' = up THEN calm ELSE "no"
  BY DEF GuardStop, GuardTurn
<1>2. guarded' \in {"no", "done"} /\ (guarded' = "done" => "docker" \notin up')
  BY DEF GuardStop, GuardEnd, Systemctl
<1>3. up' \subseteq Units
  BY DEF GuardStop, Systemctl, ServiceTypes
<1>4. sweep' \in Sweeps /\ sweep'.known \subseteq DOMAIN sweep'.copy /\ sweep'.at = "idle"
  BY <1>1, IdleSweeps DEF SweepSteps
<1>5. GuardInv'
  BY <1>2 DEF GuardInv
<1>6. JudgeInv' /\ StatusTold'
  <2>1. CASE up' = up
    BY <1>1, <1>4, <2>1, JudgeMoves DEF PassSteps, GuardTurn
  <2>2. CASE up' # up
    BY <1>1, <2>2 DEF JudgeInv, StatusTold
  <2> QED
    BY <2>1, <2>2
<1>7. calm' \in {"no", "begun", "told"}
  BY <1>1 DEF ServiceTypes
<1> QED
  BY <1>1, <1>2, <1>3, <1>4, <1>5, <1>6, <1>7, GuardTurnKeeps

LEMMA GuardBarrierKeeps ==
  ASSUME ServiceInv, GuardBarrier
  PROVE  ServiceInv'
<1> USE DEF ServiceInv
<1>1. GuardTurn /\ UNCHANGED <<up, calm>> /\ sweep.at = "barrier"
  BY DEF GuardBarrier, GuardTurn, world
<1>2. (sweep' = IdlePass /\ guarded' = "no") \/ (Step("allowed") /\ guarded' = guarded)
  BY DEF GuardBarrier
<1>3. /\ sweep' \in Sweeps /\ sweep'.known \subseteq DOMAIN sweep'.copy
      /\ (sweep'.at = "idle" /\ guarded' = "no") \/ (sweep'.at = "allowed" /\ guarded' = guarded)
  BY <1>2, SweepSteppedTypes, IdleSweeps DEF SweepSteps
<1>4. GuardInv'
  BY <1>1, <1>3, GuardTurnRows DEF GuardInv, GuardSteps, GuardTurn
<1>5. JudgeInv' /\ StatusTold'
  BY <1>1, <1>3, JudgeMoves DEF PassSteps, GuardTurn
<1>6. guarded' \in {"no", "looked", "done"} /\ calm' \in {"no", "begun", "told"} /\ up' \subseteq Units
  BY <1>1, <1>3 DEF ServiceTypes
<1> QED
  BY <1>1, <1>3, <1>4, <1>5, <1>6, GuardTurnKeeps

\* What the guard reads of the row says what the user wants, while the row is the one he spoke to.
LEMMA AllowedIsWanted ==
  ASSUME ServiceInv, AutoStartAllowed
  PROVE  WantedUp
<1>1. ASSUME "docker" \in Registered \ forgotten PROVE wanted["docker"] = "running"
  <2>1. "docker" \in Instances /\ registry["docker"].desired = "running"
    BY <1>1 DEF Registered, AutoStartAllowed
  <2>2. wanted["docker"] # "stopped"
    BY <1>1, <2>1 DEF ServiceInv, IntentInv
  <2> QED
    BY <2>1, <2>2 DEF ServiceInv, ServiceTypes
<1> QED
  BY <1>1 DEF WantedUp

LEMMA GuardAllowedKeeps ==
  ASSUME ServiceInv, GuardAllowed
  PROVE  ServiceInv'
<1> USE DEF ServiceInv
<1>1. GuardTurn /\ UNCHANGED <<up, calm>> /\ sweep.at = "allowed"
  BY DEF GuardAllowed, GuardTurn, world
<1>2. \/ AutoStartAllowed /\ Step("ready") /\ guarded' = guarded
      \/ Step("refuse") /\ guarded' = guarded
      \/ "docker" \notin up /\ sweep' = IdlePass /\ guarded' \in {"no", "done"}
  BY DEF GuardAllowed, GuardEnd
<1>3. /\ sweep' \in Sweeps /\ sweep'.known \subseteq DOMAIN sweep'.copy
      /\ \/ AutoStartAllowed /\ sweep'.at = "ready" /\ guarded' = guarded
         \/ sweep'.at = "refuse" /\ guarded' = guarded
         \/ "docker" \notin up /\ sweep'.at = "idle" /\ guarded' \in {"no", "done"}
  BY <1>2, SweepSteppedTypes, IdleSweeps DEF SweepSteps
<1>4. AutoStartAllowed => WantedUp
  BY AllowedIsWanted
<1>5. GuardInv'
  BY <1>1, <1>3, <1>4, GuardTurnRows DEF GuardInv, GuardSteps, GuardTurn
<1>6. JudgeInv' /\ StatusTold'
  BY <1>1, <1>3, JudgeMoves DEF PassSteps, GuardTurn
<1>7. guarded' \in {"no", "looked", "done"} /\ calm' \in {"no", "begun", "told"} /\ up' \subseteq Units
  BY <1>1, <1>3 DEF ServiceTypes
<1> QED
  BY <1>1, <1>3, <1>5, <1>6, <1>7, GuardTurnKeeps

LEMMA GuardStartKeeps ==
  ASSUME ServiceInv, NEW works \in BOOLEAN, GuardStart(works)
  PROVE  ServiceInv'
<1> USE DEF ServiceInv
<1>1. GuardTurn /\ sweep.at = "ready" /\ sweep' = IdlePass
  BY DEF GuardStart, GuardTurn
<1>2. /\ sweep' \in Sweeps /\ sweep'.known \subseteq DOMAIN sweep'.copy /\ sweep'.at = "idle"
  BY <1>1, IdleSweeps DEF SweepSteps
<1>3. CASE "docker" \in up
  <2>1. UNCHANGED <<up, calm>> /\ guarded' = IF guarded = "looked" THEN "done" ELSE "no"
    BY <1>3 DEF GuardStart, GuardEnd
  <2>2. GuardInv'
    BY <1>1, <2>1, GuardTurnRows DEF GuardInv, GuardTurn
  <2>3. JudgeInv' /\ StatusTold'
    BY <1>1, <1>2, <2>1, JudgeMoves DEF PassSteps, GuardTurn
  <2>4. guarded' \in {"no", "looked", "done"} /\ calm' \in {"no", "begun", "told"} /\ up' \subseteq Units
    BY <2>1 DEF ServiceTypes
  <2> QED
    BY <1>1, <1>2, <2>2, <2>3, <2>4, GuardTurnKeeps
<1>4. CASE "docker" \notin up
  <2>1. Systemctl({"docker"}, TRUE, works) /\ Moved
    BY <1>4 DEF GuardStart
  <2>2. up' \subseteq Units
    BY <2>1 DEF Systemctl, ServiceTypes, Units
  <2>3. guarded' \in {"no", "looked", "done"} /\ calm' \in {"no", "begun", "told"}
    BY <2>1 DEF Moved
  <2> QED
    BY <1>1, <1>2, <2>1, <2>2, <2>3, MovedKeeps, GuardTurnKeeps
<1> QED
  BY <1>3, <1>4

-----------------------------------------------------------------------------
(* The removal of a pool.                                                  *)

LEMMA RemoveTypes ==
  ASSUME ServiceTypes, NEW at \in RemovalSteps, Remove(at)
  PROVE  removal' \in Removals /\ removal'.at = at
BY DEF ServiceTypes, Removals, Remove
LEMMA NoRemovalIs == NoRemoval \in Removals /\ NoRemoval.at = "idle"
BY DEF NoRemoval, Removals, RemovalSteps
\* What a removal does not touch.
RemovalTurn == UNCHANGED <<registry, poolListed, sweep, asks, wanted, forgotten>>
LEMMA RemovalTurnKeeps ==
  ASSUME ServiceInv, RemovalTurn, up' \subseteq Units, poolMounted' \in BOOLEAN, barrier' \in BOOLEAN,
         removal' \in Removals, BarrierLifted',
         DockerMoved \/ UNCHANGED <<up, poolMounted, guarded, calm>>
  PROVE  ServiceInv'
<1> USE DEF ServiceInv, RemovalTurn
<1>1. IntentInv' /\ GuardInv' /\ JudgeInv' /\ StatusTold'
  BY DockerMovedKeeps DEF DockerMoved
<1>2. guarded' \in {"no", "looked", "done"} /\ calm' \in {"no", "begun", "told"}
  BY DEF ServiceTypes, DockerMoved, Moved
<1>3. ServiceTypes'
  BY <1>2 DEF ServiceTypes
<1> QED
  BY <1>1, <1>3

LEMMA RemovalQuietKeeps ==
  ASSUME ServiceInv, RemovalBegins \/ RaiseBarrier \/ VerifyDocker
  PROVE  ServiceInv'
<1> USE DEF ServiceInv
<1>1. RemovalTurn /\ UNCHANGED <<up, poolMounted, guarded, calm>>
  BY DEF RemovalBegins, RaiseBarrier, VerifyDocker, RemovalTurn, world, histories
<1>2. up' \subseteq Units /\ poolMounted' \in BOOLEAN
  BY <1>1 DEF ServiceTypes
<1>3. removal' \in Removals /\ barrier' \in BOOLEAN /\ BarrierLifted'
  <2>1. CASE RemovalBegins
    <3>1. /\ removal.at = "idle" /\ removal' = [at |-> "quiesce", was |-> up \cap {"docker"}] /\ barrier' = barrier
      BY <2>1, NoRemovalIs DEF RemovalBegins
    <3> QED
      BY <3>1 DEF Removals, RemovalSteps, ServiceTypes, BarrierLifted
  <2>2. CASE RaiseBarrier
    <3>1. removal.at = "quiesce" /\ barrier' = TRUE /\ Remove("docker")
      BY <2>2 DEF RaiseBarrier
    <3>2. removal' \in Removals /\ removal'.at = "docker"
      BY <3>1, RemoveTypes DEF RemovalSteps
    <3> QED
      BY <3>1, <3>2 DEF BarrierLifted
  <2>3. CASE VerifyDocker
    <3>1. /\ removal.at = "verify"
          /\ (barrier' = FALSE /\ removal' = NoRemoval) \/ (barrier' = barrier /\ Remove("torrent"))
      BY <2>3 DEF VerifyDocker
    <3>2. Remove("torrent") => removal' \in Removals /\ removal'.at = "torrent"
      BY RemoveTypes DEF RemovalSteps
    <3> QED
      BY <3>1, <3>2, NoRemovalIs DEF BarrierLifted, ServiceTypes
  <2> QED
    BY <2>1, <2>2, <2>3
<1> QED
  BY <1>1, <1>2, <1>3, RemovalTurnKeeps

LEMMA QuiesceKeeps ==
  ASSUME ServiceInv, NEW works \in BOOLEAN, QuiesceDocker(works) \/ QuiesceTorrent(works) \/ Release(works)
  PROVE  ServiceInv'
<1> USE DEF ServiceInv
<1>1. RemovalTurn /\ poolMounted' = poolMounted /\ DockerMoved
  BY DEF QuiesceDocker, QuiesceTorrent, Release, RemovalTurn
<1>2. up' \subseteq Units
  <2>1. {"docker"} \subseteq Units /\ {"torrent"} \subseteq Units /\ removal.was \subseteq Units
    BY DEF ServiceTypes, Removals, Units
  <2>2. CASE QuiesceDocker(works)
    BY <2>1, <2>2, SystemctlTypes DEF QuiesceDocker
  <2>3. CASE QuiesceTorrent(works)
    BY <2>1, <2>3, SystemctlTypes DEF QuiesceTorrent
  <2>4. CASE Release(works)
    <3> DEFINE back == IF removal.at = "end" THEN {}
                       ELSE {u \in removal.was : u = "docker" => AutoStartAllowed /\ poolMounted}
    <3>1. Systemctl(back, TRUE, works) /\ back \subseteq Units
      BY <2>1, <2>4 DEF Release
    <3> HIDE DEF back
    <3> QED
      BY <3>1, SystemctlTypes
  <2> QED
    BY <2>2, <2>3, <2>4
<1>3. removal' \in Removals /\ barrier' \in BOOLEAN /\ BarrierLifted'
  <2>1. CASE QuiesceDocker(works)
    <3>1. /\ removal.at = "docker"
          /\ (barrier' = FALSE /\ removal' = NoRemoval) \/ (barrier' = barrier /\ Remove("verify"))
      BY <2>1 DEF QuiesceDocker
    <3>2. Remove("verify") => removal' \in Removals /\ removal'.at = "verify"
      BY RemoveTypes DEF RemovalSteps
    <3> QED
      BY <3>1, <3>2, NoRemovalIs DEF BarrierLifted, ServiceTypes
  <2>2. CASE QuiesceTorrent(works)
    <3>1. /\ removal.at = "torrent" /\ barrier' = barrier
          /\ \/ removal' = [removal EXCEPT !.at = "unmount", !.was = @ \cup (up \cap {"torrent"})]
             \/ removal' = [removal EXCEPT !.at = "release"]
      BY <2>2 DEF QuiesceTorrent
    <3>2. PICK W : W = removal.was \cup (up \cap {"torrent"})
      OBVIOUS
    <3>4. removal \in Removals /\ W \subseteq Units
      BY <3>2 DEF ServiceTypes, Removals, Units
    <3>5. \/ removal' = [removal EXCEPT !.at = "unmount", !.was = W]
          \/ removal' = [removal EXCEPT !.at = "release"]
      BY <3>1, <3>2
    <3>3. removal' \in Removals /\ removal'.at \in {"unmount", "release"}
      BY <3>4, <3>5 DEF Removals, RemovalSteps
    <3> QED
      BY <3>1, <3>3 DEF BarrierLifted, ServiceTypes
  <2>3. CASE Release(works)
    BY <2>3, NoRemovalIs DEF Release, BarrierLifted
  <2> QED
    BY <2>1, <2>2, <2>3
<1>4. poolMounted' \in BOOLEAN
  BY <1>1 DEF ServiceTypes
<1> QED
  BY <1>1, <1>2, <1>3, <1>4, RemovalTurnKeeps

LEMMA UnmountKeeps ==
  ASSUME ServiceInv, UnmountPool
  PROVE  ServiceInv'
<1> USE DEF ServiceInv
<1>1. RemovalTurn /\ up' = up /\ barrier' = barrier /\ DockerMoved /\ removal.at = "unmount"
  BY DEF UnmountPool, RemovalTurn
<1>2. poolMounted' \in BOOLEAN /\ (Remove("rows") \/ Remove("release"))
  BY DEF UnmountPool, ServiceTypes
<1>3. removal' \in Removals /\ removal'.at \in {"rows", "release"}
  BY <1>2, RemoveTypes DEF RemovalSteps
<1>4. up' \subseteq Units /\ barrier' \in BOOLEAN /\ BarrierLifted'
  BY <1>1, <1>3 DEF ServiceTypes, BarrierLifted
<1> QED
  BY <1>1, <1>2, <1>3, <1>4, RemovalTurnKeeps

LEMMA RemoveRowKeeps ==
  ASSUME ServiceInv, RemoveRow
  PROVE  ServiceInv'
<1> USE DEF ServiceInv
<1>1. /\ UNCHANGED <<registry, up, poolMounted, barrier, sweep, asks, wanted, forgotten, guarded>>
      /\ calm' = "no" /\ removal.at = "rows"
  BY DEF RemoveRow
<1>2. poolListed' \in BOOLEAN /\ (Remove("services") \/ Remove("release"))
  BY DEF RemoveRow, ServiceTypes
<1>3. removal' \in Removals /\ removal'.at \in {"services", "release"}
  BY <1>2, RemoveTypes DEF RemovalSteps
<1>4. ServiceTypes'
  BY <1>1, <1>2, <1>3 DEF ServiceTypes
<1>5. RowsStand
  BY <1>1 DEF RowsStand
<1>6. BarrierLifted' /\ JudgeInv' /\ StatusTold'
  BY <1>1, <1>3 DEF BarrierLifted, JudgeInv, StatusTold
<1> QED
  BY <1>1, <1>4, <1>5, <1>6, RowsStandKeep, GuardStands

LEMMA RemoveServicesKeeps ==
  ASSUME ServiceInv, RemoveServices
  PROVE  ServiceInv'
<1> USE DEF ServiceInv
<1>1. /\ UNCHANGED <<up, poolListed, poolMounted, barrier, sweep, asks, wanted, guarded>>
      /\ calm' = "no" /\ removal.at = "services" /\ Remove("end")
  BY DEF RemoveServices, world
<1>2. /\ registry' \in [Instances -> {Unregistered} \cup ServiceRow] /\ forgotten' \subseteq Instances
      /\ IntentInv' /\ WantedUp'
  BY <1>1, DropKeeps DEF RemoveServices
<1>3. removal' \in Removals /\ removal'.at = "end"
  BY <1>1, RemoveTypes DEF RemovalSteps
<1>4. ServiceTypes'
  BY <1>1, <1>2, <1>3 DEF ServiceTypes
<1>5. GuardInv'
  BY <1>1, <1>2 DEF GuardInv
<1>6. BarrierLifted' /\ JudgeInv' /\ StatusTold'
  BY <1>1, <1>3 DEF BarrierLifted, JudgeInv, StatusTold
<1> QED
  BY <1>2, <1>4, <1>5, <1>6

-----------------------------------------------------------------------------
LEMMA ServiceEventsKeep ==
  ASSUME ServiceInv, \/ \E u \in Units : UnitChanges(u)
                     \/ PoolDrops \/ PoolReturns \/ DaemonRestarts
  PROVE  ServiceInv'
<1> USE DEF ServiceInv
<1>1. UNCHANGED <<registry, wanted, forgotten>> /\ Moved
  BY DEF UnitChanges, PoolDrops, PoolReturns, DaemonRestarts, Event, world
<1>2. IntentInv' /\ GuardInv' /\ JudgeInv' /\ StatusTold'
  BY <1>1, MovedKeeps DEF IntentInv
<1>3. ServiceTypes' /\ BarrierLifted'
  <2>1. ASSUME NEW u \in Units, UnitChanges(u) PROVE ServiceTypes' /\ BarrierLifted'
    <3>1. up' \subseteq Units /\ UNCHANGED <<poolListed, poolMounted, barrier, removal, sweep, asks>>
      BY <2>1 DEF UnitChanges, ServiceTypes
    <3> QED
      BY <1>1, <3>1, BarrierStands DEF ServiceTypes, Moved
  <2>2. CASE PoolDrops \/ PoolReturns
    <3>1. /\ UNCHANGED <<up, barrier, removal, sweep, asks>>
          /\ poolListed' \in BOOLEAN /\ poolMounted' \in BOOLEAN
      BY <2>2 DEF PoolDrops, PoolReturns, ServiceTypes
    <3> QED
      BY <1>1, <3>1, BarrierStands DEF ServiceTypes, Moved
  <2>3. CASE DaemonRestarts
    <3>1. /\ UNCHANGED <<up, poolListed, poolMounted>> /\ barrier' = FALSE /\ removal' = NoRemoval
          /\ asks' = [a \in Askers |-> NoAsk] /\ sweep' = [IdlePass EXCEPT !.at = "boot"]
      BY <2>3 DEF DaemonRestarts, world
    <3>2. sweep' \in Sweeps /\ sweep'.known \subseteq DOMAIN sweep'.copy
      BY <3>1, IdleSweeps DEF SweepSteps
    <3>3. asks' \in [Askers -> {NoAsk} \cup ServiceAsk] /\ removal' \in Removals
      BY <3>1, NoRemovalIs
    <3> QED
      BY <1>1, <3>1, <3>2, <3>3, NoRemovalIs DEF ServiceTypes, Moved, BarrierLifted
  <2> QED
    BY <2>1, <2>2, <2>3
<1> QED
  BY <1>2, <1>3

LEMMA ServiceStep ==
  ASSUME ServiceInv, ServiceNext \/ UNCHANGED serviceVars
  PROVE  ServiceInv'
<1>1. ASSUME NEW a \in Askers, NEW i \in Instances, AskStop(a, i) \/ AskStart(a, i) \/ AskRestart(a, i)
      PROVE  ServiceInv'
  BY <1>1, RequestKeeps DEF AskStop, AskStart, AskRestart
<1>2. ASSUME NEW a \in Askers, StopIntent(a) \/ StartIntent(a) \/ StartMounted(a)
      PROVE  ServiceInv'
  BY <1>2, StopIntentKeeps, StartIntentKeeps, StartMountedKeeps
<1>3. ASSUME NEW a \in Askers, NEW works \in BOOLEAN, StopUnit(a, works) \/ StartUnit(a, works)
      PROVE  ServiceInv'
  BY <1>3, StopUnitKeeps, StartUnitKeeps
<1>4. CASE PassRegister("idle", "again") \/ PassRegister("again", "pools")
  BY <1>4, PassRegisterKeeps
<1>5. CASE PassForget \/ PassDrop \/ PassCopy \/ PassJudged \/ \E i \in Instances : PassJudge(i)
  BY <1>5, PassForgetKeeps, PassDropKeeps, PassCopyKeeps, PassJudgedKeeps, PassJudgeKeeps
<1>6. CASE GuardLook \/ GuardBarrier \/ GuardAllowed \/ BootGuard
  BY <1>6, GuardLookKeeps, GuardBarrierKeeps, GuardAllowedKeeps
<1>7. ASSUME NEW works \in BOOLEAN, GuardStop("secure", works) \/ GuardStop("refuse", works) \/ GuardStart(works)
      PROVE  ServiceInv'
  BY <1>7, GuardStopKeeps, GuardStartKeeps
<1>8. CASE RemovalBegins \/ RaiseBarrier \/ VerifyDocker \/ UnmountPool \/ RemoveRow \/ RemoveServices
  BY <1>8, RemovalQuietKeeps, UnmountKeeps, RemoveRowKeeps, RemoveServicesKeeps
<1>9. ASSUME NEW works \in BOOLEAN, QuiesceDocker(works) \/ QuiesceTorrent(works) \/ Release(works)
      PROVE  ServiceInv'
  BY <1>9, QuiesceKeeps
<1>10. CASE (\E u \in Units : UnitChanges(u)) \/ PoolDrops \/ PoolReturns \/ DaemonRestarts
  BY <1>10, ServiceEventsKeep
<1>11. CASE UNCHANGED serviceVars
  <2>1. UNCHANGED <<registry, up, poolListed, poolMounted, barrier, removal, sweep, asks, wanted, forgotten, guarded, calm>>
    BY <1>11 DEF serviceVars, world, histories
  <2> USE DEF ServiceInv
  <2>2. ServiceTypes'
    BY <2>1 DEF ServiceTypes
  <2>3. RowsStand
    BY <2>1 DEF RowsStand
  <2> QED
    BY <2>1, <2>2, <2>3, RowsStandKeep, GuardStands, JudgeStands, BarrierStands
<1> QED
  BY <1>1, <1>2, <1>3, <1>4, <1>5, <1>6, <1>7, <1>8, <1>9, <1>10, <1>11 DEF ServiceNext

LEMMA ServicesStayConsistent ==
  ASSUME ServiceInv
  PROVE  ServicesConsistent /\ ServiceTypeOK
<1> USE DEF ServiceInv
<1>1. IntentKept
  BY DEF IntentKept, IntentInv, Registered
<1>2. DockerGuarded
  BY DEF DockerGuarded, GuardInv, WantedUp
<1>3. ServiceTypeOK
  <2>1. \A i \in Instances : registry[i] = Unregistered \/ registry[i] \in ServiceRow
    BY DEF ServiceTypes
  <2>2. sweep.known \subseteq Instances /\ DOMAIN sweep.copy \subseteq Instances
    BY DEF ServiceTypes, Sweeps, StatusCopies
  <2>3. \A a \in Askers : asks[a].at \in {"idle", "stop", "halt", "start", "mounted", "run"}
    BY DEF ServiceTypes, ServiceAsk, NoAsk
  <2> QED
    BY <2>1, <2>2, <2>3 DEF ServiceTypes, ServiceTypeOK, ServiceRow
<1> QED
  BY <1>1, <1>2, <1>3 DEF ServicesConsistent

-----------------------------------------------------------------------------
(* AppUids.  What an app has of its uid is one number at four places; its   *)
(* user is there as long as somebody counts on it, who wrote the files, the *)
(* row or a deployment that is past the step that makes it.                 *)

UidRow == [uid : 0..UidMax, released : BOOLEAN]
DeploySteps == {"identity", "assign", "user", "volumes", "up", "final", "register"}
Deployment == [at : DeploySteps, app : UidApps, uid : 0..UidMax, identity : 0..UidMax]
HygieneSteps == {"idle", "active", "released", "look"}
HygienePass == [at : HygieneSteps \cup UidApps, mount : {"docker", "other", "none"}, active : SUBSET UidApps,
                todo : SUBSET UidApps, moved : SUBSET UidApps]
FileOwners == 1..UidMax \cup {ImageUser, DatabaseUser}
UidTypes ==
  /\ uidRows \in [UidApps -> UidRow] /\ nextUid \in 1..(UidMax + 1)
  /\ appUsers \in [UidNames -> 0..UidMax] /\ appFiles \in [UidApps -> SUBSET FileOwners]
  /\ appRows \subseteq UidApps /\ searchPool \in {"docker", "other", "none"} /\ pardoned \subseteq UidApps
  /\ deployments \in [Deployers -> {NoDeployment} \cup Deployment]
  /\ removals \in [UidApps -> {"idle", "wipe", "stackrow", "row", "release"}]
  /\ hygiene \in HygienePass
  /\ uidOwner \in [1..UidMax -> UidApps \cup {"nobody"}]

\* The counter never hands out what somebody has.
GivenInv ==
  /\ \A a \in UidApps : uidRows[a].uid # 0 => uidOwner[uidRows[a].uid] = a /\ uidRows[a].uid < nextUid
  /\ \A a \in UidApps : \A u \in appFiles[a] \cap 1..UidMax : uidRows[a].uid = u
  /\ \A n \in UidNames : /\ appUsers[n] < nextUid
                         /\ appUsers[n] # 0 => UserName(uidOwner[appUsers[n]]) = n
CountsOnUser(a) == uidRows[a].uid \in appFiles[a] \/ a \in appRows
KeptInv == \A a \in UidApps \ pardoned : CountsOnUser(a) => HasUser(a)
DeploymentOK(x) ==
  /\ x.uid # 0 => uidRows[x.app].uid = x.uid
  /\ x.identity # 0 => uidRows[x.app].uid = x.identity
  /\ x.at \in {"user", "volumes"} => x.uid # 0
  /\ x.at \in {"volumes", "up", "final", "register"} /\ x.app \notin pardoned => HasUser(x.app)
DeployInv == \A d \in Deployers : DeploymentOK(deployments[d])
\* Whose user the task is about to delete had no files and was not installed when it looked, and
\* what happened to him since is noticed.
Watched(a) == hygiene.at = "released" \/ a \in hygiene.todo \/ a = hygiene.at
HygieneInv ==
  /\ hygiene.at \notin {"idle", "active"} =>
       \A a \in UidApps : Watched(a) /\ a \in appRows => a \in hygiene.active \cup hygiene.moved
  /\ \A a \in UidApps : hygiene.at = a /\ a \notin hygiene.moved =>
       a \notin hygiene.active /\ (hygiene.mount = "docker" => uidRows[a].uid \notin appFiles[a])
UidInv == UidTypes /\ GivenInv /\ KeptInv /\ DeployInv /\ HygieneInv

LEMMA UidNumbers ==
  /\ UidMax \in Nat /\ 0 \in 0..UidMax /\ \A u \in 1..UidMax : u \in 0..UidMax /\ u # 0
  /\ ImageUser \notin 0..UidMax /\ DatabaseUser \notin 0..UidMax
  /\ \A a \in UidApps : a \notin HygieneSteps
BY AppUidsAssumption DEF ImageUser, DatabaseUser, HygieneSteps
LEMMA UidRowIs ==
  ASSUME UidTypes, NEW a \in UidApps
  PROVE  /\ uidRows[a] \in UidRow /\ uidRows[a].uid \in 0..UidMax /\ UserName(a) \in UidNames
         /\ appFiles[a] \subseteq FileOwners
         /\ uidRows[a].uid = 0 => uidRows[a].uid \notin appFiles[a]
  <1>1. uidRows[a] \in UidRow /\ UserName(a) \in UidNames /\ appFiles[a] \subseteq FileOwners
    BY DEF UidTypes, UidNames
  <1>2. 0 \notin FileOwners
    BY UidNumbers DEF FileOwners, ImageUser, DatabaseUser
  <1> QED
    BY <1>1, <1>2 DEF UidRow

LEMMA UidStarts ==
  ASSUME AppUidInit
  PROVE  UidInv
<1>1. IdleHygiene \in HygienePass /\ IdleHygiene.at = "idle"
  BY DEF IdleHygiene, HygienePass, HygieneSteps
<1>2. NoUid \in UidRow /\ NoUid.uid = 0
  BY UidNumbers DEF NoUid, UidRow
<1>3. UidTypes
  BY <1>1, <1>2, UidNumbers DEF AppUidInit, UidTypes
<1>4. GivenInv
  BY <1>2, UidNumbers DEF AppUidInit, GivenInv
<1>5. KeptInv
  BY <1>2, UidNumbers DEF AppUidInit, KeptInv, CountsOnUser
<1>6. DeployInv
  BY DEF AppUidInit, DeployInv, DeploymentOK, NoDeployment
<1>7. HygieneInv
  BY <1>1, UidNumbers DEF AppUidInit, HygieneInv, HygieneSteps
<1> QED
  BY <1>3, <1>4, <1>5, <1>6, <1>7 DEF UidInv

-----------------------------------------------------------------------------
\* Nobody's uid changes, nobody loses his user, and a pardon ends with a user.
UidsStay == \A a \in UidApps : uidRows[a].uid # 0 => uidRows'[a].uid = uidRows[a].uid
UsersStay == \A a \in UidApps : HasUser(a) => HasUser(a)'
PardonsStay == \A a \in UidApps : a \in pardoned => a \in pardoned' \/ HasUser(a)'
LEMMA UsersStayBy ==
  ASSUME UidsStay, \A n \in UidNames : appUsers[n] # 0 => appUsers'[n] = appUsers[n]
  PROVE  UsersStay
<1> SUFFICES ASSUME NEW a \in UidApps, HasUser(a) PROVE HasUser(a)'
  BY DEF UsersStay
<1>1. PICK n \in UidNames : uidRows[a].uid # 0 /\ appUsers[n] = uidRows[a].uid
  BY DEF HasUser
<1>2. uidRows'[a].uid = uidRows[a].uid /\ appUsers'[n] = appUsers[n]
  BY <1>1 DEF UidsStay
<1> QED
  BY <1>1, <1>2 DEF HasUser
LEMMA DeploymentStays ==
  ASSUME UidsStay, UsersStay, PardonsStay, NEW x \in {NoDeployment} \cup Deployment, UidTypes, DeploymentOK(x)
  PROVE  DeploymentOK(x)'
<1>1. CASE x = NoDeployment
  BY <1>1 DEF NoDeployment, DeploymentOK
<1>2. CASE x \in Deployment
  <2>1. x.app \in UidApps /\ x.uid \in 0..UidMax /\ x.identity \in 0..UidMax
    BY <1>2 DEF Deployment
  <2>2. uidRows[x.app].uid # 0 => uidRows'[x.app].uid = uidRows[x.app].uid
    BY <2>1 DEF UidsStay
  <2>3. x.app \notin pardoned' => x.app \notin pardoned \/ HasUser(x.app)'
    BY <2>1 DEF PardonsStay
  <2>4. HasUser(x.app) => HasUser(x.app)'
    BY <2>1 DEF UsersStay
  <2>5. (x.uid # 0 => uidRows'[x.app].uid = x.uid) /\ (x.identity # 0 => uidRows'[x.app].uid = x.identity)
    BY <2>2 DEF DeploymentOK
  <2> QED
    BY <2>3, <2>4, <2>5 DEF DeploymentOK
<1> QED
  BY <1>1, <1>2
\* One deployment goes on.
LEMMA OneDeploys ==
  ASSUME UidTypes, DeployInv, UidsStay, UsersStay, PardonsStay,
         NEW d \in Deployers, NEW new \in {NoDeployment} \cup Deployment, DeploymentOK(new)',
         deployments' = [deployments EXCEPT ![d] = new]
  PROVE  DeployInv' /\ deployments' \in [Deployers -> {NoDeployment} \cup Deployment]
<1>1. /\ \A e \in Deployers : e # d => deployments'[e] = deployments[e]
      /\ deployments'[d] = new /\ \A e \in Deployers : deployments[e] \in {NoDeployment} \cup Deployment
  BY DEF UidTypes
<1>2. ASSUME NEW e \in Deployers, e # d PROVE DeploymentOK(deployments[e])'
  <2>1. \A x \in {NoDeployment} \cup Deployment : DeploymentOK(x) => DeploymentOK(x)'
    BY DeploymentStays
  <2>2. DeploymentOK(deployments[e])
    BY DEF DeployInv
  <2>3. PICK x \in {NoDeployment} \cup Deployment : x = deployments[e]
    BY <1>1
  <2>4. DeploymentOK(x)'
    BY <2>1, <2>2, <2>3
  <2> QED
    BY <1>1, <1>2, <2>3, <2>4
<1>3. DeploymentOK(deployments[d])'
  BY <1>1 DEF DeploymentOK
<1>4. DeployInv'
  BY <1>2, <1>3 DEF DeployInv
<1> QED
  BY <1>4 DEF UidTypes
LEMMA NoneDeploys ==
  ASSUME UidTypes, DeployInv, UidsStay, UsersStay, PardonsStay, deployments' = deployments
  PROVE  DeployInv'
<1> SUFFICES ASSUME NEW e \in Deployers PROVE DeploymentOK(deployments[e])'
  BY DEF DeployInv
<1>1. \A x \in {NoDeployment} \cup Deployment : DeploymentOK(x) => DeploymentOK(x)'
  BY DeploymentStays
<1>2. PICK x \in {NoDeployment} \cup Deployment : x = deployments[e]
  BY DEF UidTypes
<1>3. DeploymentOK(x)'
  BY <1>1, <1>2 DEF DeployInv
<1> QED
  BY <1>2, <1>3
\* Whoever counts on a user now did so before, or has one.
LEMMA KeptStays ==
  ASSUME KeptInv, UsersStay, PardonsStay,
         \A a \in UidApps : CountsOnUser(a)' => CountsOnUser(a) \/ HasUser(a)' \/ a \in pardoned'
  PROVE  KeptInv'
<1> SUFFICES ASSUME NEW a \in UidApps, a \notin pardoned', CountsOnUser(a)' PROVE HasUser(a)'
  BY DEF KeptInv
<1>1. CASE HasUser(a)'
  BY <1>1
<1>2. CASE CountsOnUser(a) /\ ~HasUser(a)'
  <2>1. a \notin pardoned
    BY <1>2 DEF PardonsStay
  <2>2. HasUser(a)
    BY <1>2, <2>1 DEF KeptInv
  <2> QED
    BY <2>2 DEF UsersStay
<1> QED
  BY <1>1, <1>2
LEMMA HygieneStands ==
  ASSUME UidTypes, HygieneInv, hygiene' = hygiene, appRows' \subseteq appRows,
         \A a \in UidApps : uidRows'[a].uid = uidRows[a].uid /\ appFiles'[a] \subseteq appFiles[a]
  PROVE  HygieneInv'
<1>1. hygiene.at \notin {"idle", "active"} =>
        \A a \in UidApps : Watched(a) /\ a \in appRows' => a \in hygiene.active \cup hygiene.moved
  BY DEF HygieneInv
<1>2. \A a \in UidApps : hygiene.at = a /\ a \notin hygiene.moved =>
        a \notin hygiene.active /\ (hygiene.mount = "docker" => uidRows'[a].uid \notin appFiles'[a])
  BY DEF HygieneInv
<1> QED
  BY <1>1, <1>2 DEF HygieneInv, Watched
\* What happens to an app while the task runs is noticed.
LEMMA HygieneNotices ==
  ASSUME UidTypes, HygieneInv, NEW a \in UidApps, Noticed({a}), appRows' \subseteq appRows \cup {a},
         \A b \in UidApps : b # a => uidRows'[b] = uidRows[b] /\ appFiles'[b] = appFiles[b]
  PROVE  HygieneInv' /\ hygiene' \in HygienePass
<1>1. hygiene \in HygienePass
  BY DEF UidTypes
<1>2. CASE hygiene.at = "idle"
  <2>1. hygiene' = hygiene
    BY <1>2 DEF Noticed
  <2>2. \A b \in UidApps : hygiene.at # b
    BY <1>2, UidNumbers DEF HygieneSteps
  <2> QED
    BY <1>1, <1>2, <2>1, <2>2 DEF HygieneInv
<1>3. CASE hygiene.at # "idle"
  <2>1. /\ hygiene' \in HygienePass /\ hygiene'.at = hygiene.at /\ hygiene'.mount = hygiene.mount
        /\ hygiene'.active = hygiene.active /\ hygiene'.todo = hygiene.todo /\ hygiene'.moved = hygiene.moved \cup {a}
    BY <1>1, <1>3 DEF Noticed, HygienePass
  <2>2. hygiene.at \notin {"idle", "active"} =>
          \A b \in UidApps : Watched(b) /\ b \in appRows' => b \in hygiene.active \cup hygiene'.moved
    BY <2>1 DEF HygieneInv
  <2>3. \A b \in UidApps : hygiene.at = b /\ b \notin hygiene'.moved =>
          b \notin hygiene.active /\ (hygiene.mount = "docker" => uidRows'[b].uid \notin appFiles'[b])
    BY <2>1 DEF HygieneInv
  <2> QED
    BY <2>1, <2>2, <2>3 DEF HygieneInv, Watched
<1> QED
  BY <1>2, <1>3

\* An app that has a uid keeps it, and a new one is given what nobody has.
LEMMA AssignGives ==
  ASSUME UidTypes, GivenInv, NEW a \in UidApps, AssignAppUid(a), UNCHANGED <<appUsers, appFiles>>
  PROVE  /\ uidRows' \in [UidApps -> UidRow] /\ nextUid' \in 1..(UidMax + 1)
         /\ uidOwner' \in [1..UidMax -> UidApps \cup {"nobody"}]
         /\ uidRows'[a].uid \in 1..UidMax /\ (\A b \in UidApps : b # a => uidRows'[b] = uidRows[b])
         /\ UidsStay /\ GivenInv'
<1>1. /\ uidRows \in [UidApps -> UidRow] /\ nextUid \in 1..(UidMax + 1) /\ UidMax \in Nat
      /\ uidOwner \in [1..UidMax -> UidApps \cup {"nobody"}]
      /\ uidRows[a] \in UidRow /\ uidRows[a].uid \in 0..UidMax /\ uidRows[a].released \in BOOLEAN
  BY UidRowIs, UidNumbers DEF UidTypes, UidRow
<1>2. CASE uidRows[a].uid # 0
  <2> DEFINE row == [uidRows[a] EXCEPT !.released = FALSE]
  <2>1. row \in UidRow /\ row.uid = uidRows[a].uid
    BY <1>1 DEF UidRow
  <2>2. uidRows' = [uidRows EXCEPT ![a] = row] /\ UNCHANGED <<nextUid, uidOwner>>
    BY <1>2 DEF AssignAppUid
  <2> HIDE DEF row
  <2>3. uidRows' \in [UidApps -> UidRow] /\ \A b \in UidApps : uidRows'[b].uid = uidRows[b].uid
    BY <1>1, <2>1, <2>2
  <2>4. GivenInv'
    BY <2>2, <2>3 DEF GivenInv
  <2> QED
    BY <1>1, <1>2, <2>2, <2>3, <2>4 DEF UidsStay
<1>3. CASE uidRows[a].uid = 0
  <2> DEFINE row == [uid |-> nextUid, released |-> FALSE]
  <2>1. /\ nextUid <= UidMax /\ uidRows' = [uidRows EXCEPT ![a] = row]
        /\ nextUid' = nextUid + 1 /\ uidOwner' = [uidOwner EXCEPT ![nextUid] = a]
    BY <1>3 DEF AssignAppUid
  <2>2. row \in UidRow /\ row.uid = nextUid /\ nextUid \in 1..UidMax /\ nextUid' \in 1..(UidMax + 1)
    BY <1>1, <2>1 DEF UidRow
  <2> HIDE DEF row
  <2>3. /\ uidRows' \in [UidApps -> UidRow] /\ uidRows'[a].uid = nextUid
        /\ \A b \in UidApps : b # a => uidRows'[b] = uidRows[b]
    BY <1>1, <2>1, <2>2
  <2>4. /\ uidOwner' \in [1..UidMax -> UidApps \cup {"nobody"}] /\ uidOwner'[nextUid] = a
        /\ \A u \in 1..UidMax : u # nextUid => uidOwner'[u] = uidOwner[u]
    BY <1>1, <2>1, <2>2
  <2>5. UidsStay
    BY <1>3, <2>3 DEF UidsStay
  <2>6. ASSUME NEW b \in UidApps, uidRows'[b].uid # 0
        PROVE  uidOwner'[uidRows'[b].uid] = b /\ uidRows'[b].uid < nextUid'
    <3>1. CASE b = a
      BY <1>1, <2>1, <2>3, <2>4, <3>1
    <3>2. CASE b # a
      <4>1. uidRows[b].uid \in 0..UidMax /\ uidRows[b].uid # 0 /\ uidRows'[b].uid = uidRows[b].uid
        BY <2>3, <2>6, <3>2, UidRowIs
      <4>2. uidOwner[uidRows[b].uid] = b /\ uidRows[b].uid < nextUid
        BY <4>1 DEF GivenInv
      <4> QED
        BY <1>1, <2>1, <2>4, <4>1, <4>2
    <3> QED
      BY <3>1, <3>2
  <2>7. ASSUME NEW b \in UidApps, NEW u \in appFiles'[b] \cap 1..UidMax
        PROVE  uidRows'[b].uid = u
    <3>1. uidRows[b].uid = u /\ u # 0
      BY <1>1, <2>7 DEF GivenInv
    <3> QED
      BY <2>5, <3>1 DEF UidsStay
  <2>8. ASSUME NEW n \in UidNames
        PROVE  appUsers'[n] < nextUid' /\ (appUsers'[n] # 0 => UserName(uidOwner'[appUsers'[n]]) = n)
    <3>1. appUsers[n] \in 0..UidMax /\ appUsers[n] < nextUid /\ (appUsers[n] # 0 => UserName(uidOwner[appUsers[n]]) = n)
      BY DEF GivenInv, UidTypes
    <3>2. appUsers[n] < nextUid' /\ (appUsers[n] # 0 => appUsers[n] \in 1..UidMax /\ appUsers[n] # nextUid)
      BY <1>1, <2>1, <3>1
    <3> QED
      BY <2>4, <3>1, <3>2
  <2>9. GivenInv'
    BY <2>6, <2>7, <2>8 DEF GivenInv
  <2> QED
    BY <2>2, <2>3, <2>4, <2>5, <2>9
<1> QED
  BY <1>2, <1>3

\* The uids, the users and the rows stand, the files at most go.
LEMMA IdentitiesStand ==
  ASSUME UidInv, UNCHANGED <<nextUid, appUsers, uidOwner>>, pardoned \subseteq pardoned', appRows' \subseteq appRows,
         \A a \in UidApps : uidRows'[a].uid = uidRows[a].uid /\ appFiles'[a] \subseteq appFiles[a]
  PROVE  UidsStay /\ UsersStay /\ PardonsStay /\ GivenInv' /\ KeptInv'
<1>1. UidsStay /\ PardonsStay
  BY DEF UidsStay, PardonsStay
<1>2. UsersStay
  BY <1>1, UsersStayBy
<1>3. GivenInv'
  BY DEF UidInv, GivenInv
<1>4. \A a \in UidApps : CountsOnUser(a)' => CountsOnUser(a)
  BY DEF CountsOnUser
<1>5. KeptInv'
  BY <1>1, <1>2, <1>4, KeptStays DEF UidInv
<1> QED
  BY <1>1, <1>2, <1>3, <1>5
\* The deployment whose step it is.
LEMMA Deployer ==
  ASSUME UidInv, NEW d \in Deployers, deployments[d].at # "idle"
  PROVE  /\ deployments[d] \in Deployment /\ deployments[d].app \in UidApps /\ DeploymentOK(deployments[d])
         /\ \A to \in DeploySteps : Deploying(d, to) =>
              \E x \in Deployment : /\ deployments' = [deployments EXCEPT ![d] = x] /\ x.at = to
                                    /\ x.app = deployments[d].app /\ x.uid = deployments[d].uid
                                    /\ x.identity = deployments[d].identity
<1>1. deployments \in [Deployers -> {NoDeployment} \cup Deployment] /\ NoDeployment.at = "idle"
  BY DEF UidInv, UidTypes, NoDeployment
<1>2. deployments[d] \in Deployment /\ deployments[d].app \in UidApps
  BY <1>1 DEF Deployment
<1>3. ASSUME NEW to \in DeploySteps, Deploying(d, to)
      PROVE  \E x \in Deployment : /\ deployments' = [deployments EXCEPT ![d] = x] /\ x.at = to
                                   /\ x.app = deployments[d].app /\ x.uid = deployments[d].uid
                                   /\ x.identity = deployments[d].identity
  <2>1. PICK x : x = [deployments[d] EXCEPT !.at = to]
    OBVIOUS
  <2>2. /\ x \in Deployment /\ x.at = to /\ x.app = deployments[d].app /\ x.uid = deployments[d].uid
        /\ x.identity = deployments[d].identity
    BY <1>2, <2>1 DEF Deployment
  <2>3. deployments' = [deployments EXCEPT ![d] = x]
    BY <1>3, <2>1 DEF Deploying
  <2> QED
    BY <2>2, <2>3
<1> QED
  BY <1>2, <1>3 DEF UidInv, DeployInv
\* An app is given its uid.
LEMMA AssignStands ==
  ASSUME UidInv, NEW a \in UidApps, AssignAppUid(a), Noticed({a}), UNCHANGED <<appUsers, appFiles, appRows, pardoned>>
  PROVE  UidsStay /\ UsersStay /\ PardonsStay /\ KeptInv' /\ HygieneInv'
<1>1. /\ UidsStay /\ PardonsStay /\ uidRows'[a].uid \in 1..UidMax
      /\ \A b \in UidApps : b # a => uidRows'[b] = uidRows[b]
  BY AssignGives DEF UidInv, PardonsStay
<1>2. UsersStay
  BY <1>1, UsersStayBy
<1>3. ASSUME NEW b \in UidApps, CountsOnUser(b)' PROVE CountsOnUser(b)
  <2>1. CASE b # a \/ b \in appRows'
    BY <1>1, <1>3, <2>1 DEF CountsOnUser
  <2>2. CASE b = a /\ b \notin appRows'
    <3>1. uidRows'[a].uid \in appFiles[a] \cap 1..UidMax
      BY <1>1, <1>3, <2>2 DEF CountsOnUser
    <3>2. uidRows[a].uid = uidRows'[a].uid
      BY <3>1 DEF UidInv, GivenInv
    <3> QED
      BY <2>2, <3>1, <3>2 DEF CountsOnUser
  <2> QED
    BY <2>1, <2>2
<1>4. KeptInv'
  BY <1>1, <1>2, <1>3, KeptStays DEF UidInv
<1>5. HygieneInv'
  BY <1>1, HygieneNotices DEF UidInv
<1> QED
  BY <1>1, <1>2, <1>4, <1>5

-----------------------------------------------------------------------------
\* The steps of a deployment.
LEMMA DeployKeeps ==
  ASSUME UidInv, NEW d \in Deployers, NEW a \in UidApps, Deploy(d, a)
  PROVE  UidInv'
<1>1. UidsStay /\ UsersStay /\ PardonsStay /\ GivenInv' /\ KeptInv'
  BY IdentitiesStand DEF Deploy, uidDisk
<1>2. PICK x : x = [NoDeployment EXCEPT !.at = "identity", !.app = a]
  OBVIOUS
<1>3. x \in Deployment /\ x.at = "identity" /\ x.uid = 0 /\ x.identity = 0
  BY <1>2, UidNumbers DEF NoDeployment, Deployment, DeploySteps
<1>4. DeploymentOK(x)' /\ deployments' = [deployments EXCEPT ![d] = x]
  BY <1>2, <1>3 DEF Deploy, DeploymentOK
<1>5. DeployInv' /\ deployments' \in [Deployers -> {NoDeployment} \cup Deployment]
  BY <1>1, <1>3, <1>4, OneDeploys DEF UidInv
<1>6. HygieneInv'
  BY HygieneStands DEF UidInv, Deploy, uidDisk
<1>7. UidTypes'
  BY <1>5 DEF UidInv, UidTypes, Deploy, uidDisk
<1> QED
  BY <1>1, <1>5, <1>6, <1>7 DEF UidInv
LEMMA RuntimeIdentityKeeps ==
  ASSUME UidInv, NEW d \in Deployers, RuntimeIdentity(d)
  PROVE  UidInv'
<1>1. /\ deployments[d] \in Deployment /\ deployments[d].app \in UidApps /\ DeploymentOK(deployments[d])
      /\ deployments[d].at = "identity"
  BY Deployer DEF RuntimeIdentity
<1>2. PICK a \in UidApps : a = deployments[d].app
  BY <1>1
<1>3. CASE /\ AssignAppUid(a) /\ Noticed({a})
           /\ deployments' = [deployments EXCEPT ![d].at = "assign", ![d].identity = uidRows'[a].uid]
  <2>1. UNCHANGED <<appUsers, appFiles, searchPool, appRows, removals, pardoned>>
    BY DEF RuntimeIdentity, uidDisk
  <2>2. /\ uidRows' \in [UidApps -> UidRow] /\ nextUid' \in 1..(UidMax + 1) /\ GivenInv'
        /\ uidOwner' \in [1..UidMax -> UidApps \cup {"nobody"}] /\ uidRows'[a].uid \in 1..UidMax
        /\ \A b \in UidApps : b # a => uidRows'[b] = uidRows[b]
    BY <1>3, <2>1, AssignGives DEF UidInv
  <2>3. UidsStay /\ UsersStay /\ PardonsStay /\ KeptInv' /\ HygieneInv'
    BY <1>3, <2>1, AssignStands
  <2>4. hygiene' \in HygienePass
    BY <1>3, <2>1, <2>2, HygieneNotices DEF UidInv
  <2>5. PICK x : x = [deployments[d] EXCEPT !.at = "assign", !.identity = uidRows'[a].uid]
    OBVIOUS
  <2>6. uidRows'[a].uid \in 0..UidMax
    BY <2>2, UidNumbers
  <2>7. x \in Deployment /\ x.at = "assign" /\ x.app = a /\ x.uid = deployments[d].uid /\ x.identity = uidRows'[a].uid
    BY <1>1, <1>2, <2>5, <2>6 DEF Deployment, DeploySteps
  <2>8. deployments' = [deployments EXCEPT ![d] = x]
    BY <1>3, <2>5
  <2>9. DeploymentOK(x)'
    BY <1>1, <1>2, <2>3, <2>7 DEF DeploymentOK, UidsStay
  <2>10. DeployInv' /\ deployments' \in [Deployers -> {NoDeployment} \cup Deployment]
    BY <2>3, <2>7, <2>8, <2>9, OneDeploys DEF UidInv
  <2>11. UidTypes'
    BY <2>1, <2>2, <2>4, <2>10 DEF UidInv, UidTypes
  <2> QED
    BY <2>2, <2>3, <2>10, <2>11 DEF UidInv
<1>4. CASE Deploying(d, "assign") /\ UNCHANGED <<uidRows, nextUid, uidOwner, hygiene>>
  <2>1. UNCHANGED <<uidRows, nextUid, uidOwner, hygiene, appUsers, appFiles, searchPool, appRows, removals, pardoned>>
    BY <1>4 DEF RuntimeIdentity, uidDisk
  <2>2. UidsStay /\ UsersStay /\ PardonsStay /\ GivenInv' /\ KeptInv'
    BY <2>1, IdentitiesStand
  <2>3. PICK x \in Deployment : /\ deployments' = [deployments EXCEPT ![d] = x] /\ x.at = "assign"
                                /\ x.app = deployments[d].app /\ x.uid = deployments[d].uid
                                /\ x.identity = deployments[d].identity
    BY <1>1, <1>4, Deployer DEF DeploySteps
  <2>4. DeploymentOK(x)'
    BY <1>1, <2>1, <2>3 DEF DeploymentOK
  <2>5. DeployInv' /\ deployments' \in [Deployers -> {NoDeployment} \cup Deployment]
    BY <2>2, <2>3, <2>4, OneDeploys DEF UidInv
  <2>6. HygieneInv'
    BY <2>1, HygieneStands DEF UidInv
  <2>7. UidTypes'
    BY <2>1, <2>5 DEF UidInv, UidTypes
  <2> QED
    BY <2>2, <2>5, <2>6, <2>7 DEF UidInv
<1> QED
  BY <1>2, <1>3, <1>4 DEF RuntimeIdentity
LEMMA AssignForVolumesKeeps ==
  ASSUME UidInv, NEW d \in Deployers, AssignForVolumes(d)
  PROVE  UidInv'
<1>1. /\ deployments[d] \in Deployment /\ deployments[d].app \in UidApps /\ DeploymentOK(deployments[d])
      /\ deployments[d].at = "assign"
  BY Deployer DEF AssignForVolumes
<1>2. PICK a \in UidApps : a = deployments[d].app
  BY <1>1
<1>3. CASE /\ AssignAppUid(a) /\ Noticed({a}) /\ UNCHANGED pardoned
           /\ deployments' = [deployments EXCEPT ![d].at = "user", ![d].uid = uidRows'[a].uid]
  <2>1. UNCHANGED <<appUsers, appFiles, searchPool, appRows, removals, pardoned>>
    BY <1>3 DEF AssignForVolumes, uidDisk
  <2>2. /\ uidRows' \in [UidApps -> UidRow] /\ nextUid' \in 1..(UidMax + 1) /\ GivenInv'
        /\ uidOwner' \in [1..UidMax -> UidApps \cup {"nobody"}] /\ uidRows'[a].uid \in 1..UidMax
        /\ \A b \in UidApps : b # a => uidRows'[b] = uidRows[b]
    BY <1>3, <2>1, AssignGives DEF UidInv
  <2>3. UidsStay /\ UsersStay /\ PardonsStay /\ KeptInv' /\ HygieneInv'
    BY <1>3, <2>1, AssignStands
  <2>4. hygiene' \in HygienePass
    BY <1>3, <2>1, <2>2, HygieneNotices DEF UidInv
  <2>5. PICK x : x = [deployments[d] EXCEPT !.at = "user", !.uid = uidRows'[a].uid]
    OBVIOUS
  <2>6. uidRows'[a].uid \in 0..UidMax /\ uidRows'[a].uid # 0
    BY <2>2, UidNumbers
  <2>7. x \in Deployment /\ x.at = "user" /\ x.app = a /\ x.uid = uidRows'[a].uid /\ x.identity = deployments[d].identity
    BY <1>1, <1>2, <2>5, <2>6 DEF Deployment, DeploySteps
  <2>8. deployments' = [deployments EXCEPT ![d] = x]
    BY <1>3, <2>5
  <2>9. DeploymentOK(x)'
    BY <1>1, <1>2, <2>3, <2>6, <2>7 DEF DeploymentOK, UidsStay
  <2>10. DeployInv' /\ deployments' \in [Deployers -> {NoDeployment} \cup Deployment]
    BY <2>3, <2>7, <2>8, <2>9, OneDeploys DEF UidInv
  <2>11. UidTypes'
    BY <2>1, <2>2, <2>4, <2>10 DEF UidInv, UidTypes
  <2> QED
    BY <2>2, <2>3, <2>10, <2>11 DEF UidInv
<1>4. CASE Deploying(d, "up") /\ UNCHANGED <<uidRows, nextUid, uidOwner, hygiene>> /\ pardoned' = pardoned \cup {a}
  <2>1. UNCHANGED <<uidRows, nextUid, uidOwner, hygiene, appUsers, appFiles, searchPool, appRows, removals>>
    BY <1>4 DEF AssignForVolumes, uidDisk
  <2>2. UidsStay /\ UsersStay /\ PardonsStay /\ GivenInv' /\ KeptInv'
    BY <1>4, <2>1, IdentitiesStand
  <2>3. PICK x \in Deployment : /\ deployments' = [deployments EXCEPT ![d] = x] /\ x.at = "up"
                                /\ x.app = deployments[d].app /\ x.uid = deployments[d].uid
                                /\ x.identity = deployments[d].identity
    BY <1>1, <1>4, Deployer DEF DeploySteps
  <2>4. DeploymentOK(x)'
    BY <1>1, <1>2, <1>4, <2>1, <2>3 DEF DeploymentOK
  <2>5. DeployInv' /\ deployments' \in [Deployers -> {NoDeployment} \cup Deployment]
    BY <2>2, <2>3, <2>4, OneDeploys DEF UidInv
  <2>6. HygieneInv'
    BY <2>1, HygieneStands DEF UidInv
  <2>7. UidTypes'
    BY <1>4, <2>1, <2>5 DEF UidInv, UidTypes
  <2> QED
    BY <2>2, <2>5, <2>6, <2>7 DEF UidInv
<1> QED
  BY <1>2, <1>3, <1>4 DEF AssignForVolumes
\* A deployment goes on and touches nothing else.
LEMMA DeployUpKeeps ==
  ASSUME UidInv, NEW d \in Deployers, DeployUp(d)
  PROVE  UidInv'
<1>1. /\ deployments[d] \in Deployment /\ deployments[d].app \in UidApps /\ DeploymentOK(deployments[d])
      /\ deployments[d].at = "up"
  BY Deployer DEF DeployUp
<1>2. UNCHANGED <<uidRows, nextUid, appUsers, appFiles, searchPool, appRows, removals, hygiene, uidOwner, pardoned>>
  BY DEF DeployUp, uidDisk
<1>3. UidsStay /\ UsersStay /\ PardonsStay /\ GivenInv' /\ KeptInv'
  BY <1>2, IdentitiesStand
<1>4. PICK x \in {NoDeployment} \cup Deployment :
        /\ deployments' = [deployments EXCEPT ![d] = x]
        /\ x = NoDeployment \/ (x.at = "final" /\ x.app = deployments[d].app /\ x.uid = deployments[d].uid
                                  /\ x.identity = deployments[d].identity)
  BY <1>1, Deployer DEF DeployUp, Deployed, DeploySteps
<1>5. DeploymentOK(x)'
  <2>1. CASE x = NoDeployment
    BY <2>1 DEF NoDeployment, DeploymentOK
  <2>2. CASE x # NoDeployment
    BY <1>1, <1>2, <1>4, <2>2 DEF DeploymentOK, HasUser
  <2> QED
    BY <2>1, <2>2
<1>6. DeployInv' /\ deployments' \in [Deployers -> {NoDeployment} \cup Deployment]
  BY <1>3, <1>4, <1>5, OneDeploys DEF UidInv
<1>7. HygieneInv'
  BY <1>2, HygieneStands DEF UidInv
<1>8. UidTypes'
  BY <1>2, <1>6 DEF UidInv, UidTypes
<1> QED
  BY <1>3, <1>6, <1>7, <1>8 DEF UidInv
LEMMA EnsureAppSystemUserKeeps ==
  ASSUME UidInv, NEW d \in Deployers, EnsureAppSystemUser(d)
  PROVE  UidInv'
<1>1. /\ deployments[d] \in Deployment /\ deployments[d].app \in UidApps /\ DeploymentOK(deployments[d])
      /\ deployments[d].at = "user"
  BY Deployer DEF EnsureAppSystemUser
<1>2. PICK a \in UidApps : a = deployments[d].app
  BY <1>1
<1>3. PICK u : u = deployments[d].uid
  OBVIOUS
<1>4. u \in 0..UidMax /\ u # 0 /\ uidRows[a].uid = u
  BY <1>1, <1>2, <1>3 DEF DeploymentOK, Deployment
<1>5. UNCHANGED <<uidRows, nextUid, appFiles, searchPool, appRows, removals, hygiene, uidOwner>>
  BY DEF EnsureAppSystemUser, uidDisk
<1>6. PICK x \in Deployment : /\ deployments' = [deployments EXCEPT ![d] = x] /\ x.at = "volumes"
                              /\ x.app = a /\ x.uid = u /\ x.identity = deployments[d].identity
  BY <1>1, <1>2, <1>3, Deployer DEF DeploySteps, EnsureAppSystemUser
<1>7. UidsStay
  BY <1>5 DEF UidsStay
<1>8. /\ UserName(a) \in UidNames
      /\ \/ /\ appUsers[UserName(a)] = 0 /\ appUsers' = [appUsers EXCEPT ![UserName(a)] = u]
            /\ pardoned' = pardoned \ {a}
         \/ (\E n \in UidNames : appUsers[n] = u) /\ UNCHANGED <<appUsers, pardoned>>
         \/ pardoned' = pardoned \cup {a} /\ UNCHANGED appUsers
  BY <1>2, <1>3 DEF EnsureAppSystemUser, UidNames
<1>9. /\ \A n \in UidNames : appUsers[n] # 0 => appUsers'[n] = appUsers[n]
      /\ \A n \in UidNames : appUsers'[n] # appUsers[n] => n = UserName(a) /\ appUsers'[n] = u
      /\ appUsers' \in [UidNames -> 0..UidMax] /\ pardoned' \subseteq UidApps
      /\ a \in pardoned' \/ \E n \in UidNames : appUsers'[n] = u
  BY <1>4, <1>8 DEF UidInv, UidTypes
<1>10. UsersStay
  BY <1>7, <1>9, UsersStayBy
<1>11. HasUser(a)' \/ a \in pardoned'
  BY <1>4, <1>5, <1>9 DEF HasUser
<1>12. PardonsStay
  BY <1>8, <1>11 DEF PardonsStay
<1>13. KeptInv'
  BY <1>5, <1>10, <1>12, KeptStays DEF UidInv, CountsOnUser
<1>14. GivenInv'
  <2>1. ASSUME NEW n \in UidNames
        PROVE  appUsers'[n] < nextUid' /\ (appUsers'[n] # 0 => UserName(uidOwner'[appUsers'[n]]) = n)
    <3>1. CASE appUsers'[n] = appUsers[n]
      BY <1>5, <3>1 DEF UidInv, GivenInv
    <3>2. CASE appUsers'[n] # appUsers[n]
      <4>1. n = UserName(a) /\ appUsers'[n] = u /\ u < nextUid /\ uidOwner[u] = a
        BY <1>4, <1>9, <3>2 DEF UidInv, GivenInv
      <4> QED
        BY <1>5, <4>1
    <3> QED
      BY <3>1, <3>2
  <2> QED
    BY <1>5, <2>1 DEF UidInv, GivenInv
<1>15. DeploymentOK(x)'
  BY <1>1, <1>2, <1>4, <1>5, <1>6, <1>11 DEF DeploymentOK
<1>16. DeployInv' /\ deployments' \in [Deployers -> {NoDeployment} \cup Deployment]
  BY <1>6, <1>7, <1>10, <1>12, <1>15, OneDeploys DEF UidInv
<1>17. HygieneInv'
  BY <1>5, HygieneStands DEF UidInv
<1>18. UidTypes'
  BY <1>5, <1>9, <1>16 DEF UidInv, UidTypes
<1> QED
  BY <1>13, <1>14, <1>16, <1>17, <1>18 DEF UidInv

\* The files of an app become its own, or it is installed, and it has its user or is pardoned.
LEMMA AppGains ==
  ASSUME UidInv, NEW a \in UidApps, HasUser(a) \/ a \in pardoned, Noticed({a}),
         UNCHANGED <<uidRows, nextUid, appUsers, uidOwner, pardoned>>,
         appRows' \subseteq appRows \cup {a}, NEW u \in FileOwners, u \in 1..UidMax => u = uidRows[a].uid,
         appFiles' = [appFiles EXCEPT ![a] = @ \cup {u}] \/ appFiles' = appFiles
  PROVE  /\ UidsStay /\ UsersStay /\ PardonsStay /\ GivenInv' /\ KeptInv' /\ HygieneInv' /\ hygiene' \in HygienePass
         /\ appFiles' \in [UidApps -> SUBSET FileOwners]
<1>1. UidsStay /\ PardonsStay
  BY DEF UidsStay, PardonsStay
<1>2. UsersStay
  BY <1>1, UsersStayBy
<1>3. /\ appFiles' \in [UidApps -> SUBSET FileOwners] /\ appFiles'[a] \subseteq appFiles[a] \cup {u}
      /\ \A b \in UidApps : b # a => appFiles'[b] = appFiles[b]
  BY DEF UidInv, UidTypes
<1>4. HygieneInv' /\ hygiene' \in HygienePass
  BY <1>3, HygieneNotices DEF UidInv
<1>5. HasUser(a)' \/ a \in pardoned'
  BY DEF HasUser
<1>6. \A b \in UidApps : b # a /\ CountsOnUser(b)' => CountsOnUser(b)
  BY <1>3 DEF CountsOnUser
<1>7. KeptInv'
  BY <1>1, <1>2, <1>5, <1>6, KeptStays DEF UidInv
<1>8. \A b \in UidApps : \A v \in appFiles'[b] \cap 1..UidMax : uidRows[b].uid = v
  BY <1>3 DEF UidInv, GivenInv
<1>9. GivenInv'
  BY <1>8 DEF UidInv, GivenInv
<1> QED
  BY <1>1, <1>2, <1>3, <1>4, <1>7, <1>9
LEMMA ApplyVolumesKeeps ==
  ASSUME UidInv, NEW d \in Deployers, ApplyVolumes(d)
  PROVE  UidInv'
<1>1. /\ deployments[d] \in Deployment /\ deployments[d].app \in UidApps /\ DeploymentOK(deployments[d])
      /\ deployments[d].at = "volumes"
  BY Deployer DEF ApplyVolumes
<1>2. PICK a \in UidApps : a = deployments[d].app
  BY <1>1
<1>3. PICK u : u = VolumeOwner(a, deployments[d].uid)
  OBVIOUS
<1>4. deployments[d].uid \in 0..UidMax /\ deployments[d].uid # 0 /\ deployments[d].uid = uidRows[a].uid
  BY <1>1, <1>2 DEF DeploymentOK, Deployment
<1>5. u \in FileOwners /\ (u \in 1..UidMax => u = uidRows[a].uid)
  BY <1>3, <1>4, UidNumbers DEF VolumeOwner, FileOwners, ImageUser, DatabaseUser
<1>6. HasUser(a) \/ a \in pardoned
  BY <1>1, <1>2 DEF DeploymentOK
<1>7. /\ UNCHANGED <<uidRows, nextUid, appUsers, searchPool, appRows, removals, uidOwner, pardoned>>
      /\ Noticed({a}) /\ appFiles' = [appFiles EXCEPT ![a] = @ \cup {u}]
  BY <1>2, <1>3 DEF ApplyVolumes
<1>8. /\ UidsStay /\ UsersStay /\ PardonsStay /\ GivenInv' /\ KeptInv' /\ HygieneInv' /\ hygiene' \in HygienePass
      /\ appFiles' \in [UidApps -> SUBSET FileOwners]
  BY <1>5, <1>6, <1>7, AppGains
<1>9. PICK x \in Deployment : /\ deployments' = [deployments EXCEPT ![d] = x] /\ x.at = "up"
                              /\ x.app = deployments[d].app /\ x.uid = deployments[d].uid
                              /\ x.identity = deployments[d].identity
  BY <1>1, Deployer DEF DeploySteps, ApplyVolumes
<1>10. DeploymentOK(x)'
  BY <1>1, <1>7, <1>9 DEF DeploymentOK, HasUser
<1>11. DeployInv' /\ deployments' \in [Deployers -> {NoDeployment} \cup Deployment]
  BY <1>8, <1>9, <1>10, OneDeploys DEF UidInv
<1>12. UidTypes'
  BY <1>7, <1>8, <1>11 DEF UidInv, UidTypes
<1> QED
  BY <1>8, <1>11, <1>12 DEF UidInv
LEMMA FinalizePermissionsKeeps ==
  ASSUME UidInv, NEW d \in Deployers, FinalizePermissions(d)
  PROVE  UidInv'
<1>1. /\ deployments[d] \in Deployment /\ deployments[d].app \in UidApps /\ DeploymentOK(deployments[d])
      /\ deployments[d].at = "final"
  BY Deployer DEF FinalizePermissions
<1>2. PICK a \in UidApps : a = deployments[d].app
  BY <1>1
<1>3. HasUser(a) \/ a \in pardoned
  BY <1>1, <1>2 DEF DeploymentOK
<1>4. /\ UNCHANGED <<uidRows, nextUid, appUsers, searchPool, appRows, removals, uidOwner, pardoned>> /\ Noticed({a})
      /\ appFiles' = IF uidRows[a].uid = 0 THEN appFiles ELSE [appFiles EXCEPT ![a] = @ \cup {uidRows[a].uid}]
  BY <1>2 DEF FinalizePermissions
<1>5. \E u \in FileOwners : /\ u \in 1..UidMax => u = uidRows[a].uid
                            /\ appFiles' = [appFiles EXCEPT ![a] = @ \cup {u}] \/ appFiles' = appFiles
  <2>1. CASE uidRows[a].uid = 0
    BY <1>4, <2>1, UidNumbers DEF FileOwners, ImageUser
  <2>2. CASE uidRows[a].uid # 0
    <3>1. UidMax \in Nat /\ uidRows[a].uid \in 0..UidMax
      BY UidRowIs, UidNumbers DEF UidInv
    <3>2. uidRows[a].uid \in FileOwners
      BY <2>2, <3>1 DEF FileOwners
    <3> QED
      BY <1>4, <2>2, <3>2
  <2> QED
    BY <2>1, <2>2
<1>6. PICK u \in FileOwners : /\ u \in 1..UidMax => u = uidRows[a].uid
                              /\ appFiles' = [appFiles EXCEPT ![a] = @ \cup {u}] \/ appFiles' = appFiles
  BY <1>5
<1>7. /\ UidsStay /\ UsersStay /\ PardonsStay /\ GivenInv' /\ KeptInv' /\ HygieneInv' /\ hygiene' \in HygienePass
      /\ appFiles' \in [UidApps -> SUBSET FileOwners]
  BY <1>3, <1>4, <1>6, AppGains
<1>8. PICK x \in Deployment : /\ deployments' = [deployments EXCEPT ![d] = x] /\ x.at = "register"
                              /\ x.app = deployments[d].app /\ x.uid = deployments[d].uid
                              /\ x.identity = deployments[d].identity
  BY <1>1, Deployer DEF DeploySteps, FinalizePermissions
<1>9. DeploymentOK(x)'
  BY <1>1, <1>4, <1>8 DEF DeploymentOK, HasUser
<1>10. DeployInv' /\ deployments' \in [Deployers -> {NoDeployment} \cup Deployment]
  BY <1>7, <1>8, <1>9, OneDeploys DEF UidInv
<1>11. UidTypes'
  BY <1>4, <1>7, <1>10 DEF UidInv, UidTypes
<1> QED
  BY <1>7, <1>10, <1>11 DEF UidInv
LEMMA RegisterAppKeeps ==
  ASSUME UidInv, NEW d \in Deployers, RegisterApp(d)
  PROVE  UidInv'
<1>1. /\ deployments[d] \in Deployment /\ deployments[d].app \in UidApps /\ DeploymentOK(deployments[d])
      /\ deployments[d].at = "register"
  BY Deployer DEF RegisterApp
<1>2. PICK a \in UidApps : a = deployments[d].app
  BY <1>1
<1>3. HasUser(a) \/ a \in pardoned
  BY <1>1, <1>2 DEF DeploymentOK
<1>4. /\ UNCHANGED <<uidRows, nextUid, appUsers, appFiles, searchPool, removals, uidOwner, pardoned>>
      /\ Noticed({a}) /\ appRows' = appRows \cup {a} /\ deployments' = [deployments EXCEPT ![d] = NoDeployment]
  BY <1>2 DEF RegisterApp, Deployed, uidDisk
<1>5. ImageUser \in FileOwners /\ ImageUser \notin 1..UidMax
  BY UidNumbers DEF FileOwners
<1>6. /\ UidsStay /\ UsersStay /\ PardonsStay /\ GivenInv' /\ KeptInv' /\ HygieneInv' /\ hygiene' \in HygienePass
      /\ appFiles' \in [UidApps -> SUBSET FileOwners]
  BY <1>3, <1>4, <1>5, AppGains
<1>7. DeploymentOK(NoDeployment)'
  BY DEF DeploymentOK, NoDeployment
<1>8. DeployInv' /\ deployments' \in [Deployers -> {NoDeployment} \cup Deployment]
  BY <1>4, <1>6, <1>7, OneDeploys DEF UidInv
<1>9. UidTypes'
  BY <1>4, <1>6, <1>8 DEF UidInv, UidTypes
<1> QED
  BY <1>6, <1>8, <1>9 DEF UidInv

-----------------------------------------------------------------------------
\* Removals, and what happens by itself: nobody is given anything.
LEMMA RemovalKeeps ==
  ASSUME UidInv, UNCHANGED <<nextUid, appUsers, deployments, hygiene, uidOwner, pardoned>>,
         uidRows' \in [UidApps -> UidRow], \A a \in UidApps : uidRows'[a].uid = uidRows[a].uid,
         appFiles' \in [UidApps -> SUBSET FileOwners], \A a \in UidApps : appFiles'[a] \subseteq appFiles[a],
         appRows' \subseteq appRows, searchPool' \in {"docker", "other", "none"},
         removals' \in [UidApps -> {"idle", "wipe", "stackrow", "row", "release"}]
  PROVE  UidInv'
<1>1. UidsStay /\ UsersStay /\ PardonsStay /\ GivenInv' /\ KeptInv'
  BY IdentitiesStand
<1>2. DeployInv'
  BY <1>1, NoneDeploys DEF UidInv
<1>3. HygieneInv'
  BY HygieneStands DEF UidInv
<1>4. UidTypes'
  BY DEF UidInv, UidTypes
<1> QED
  BY <1>1, <1>2, <1>3, <1>4 DEF UidInv
LEMMA RemovalsKeep ==
  ASSUME UidInv, NEW a \in UidApps, NEW wipe \in BOOLEAN,
         \/ DeleteStack(a, wipe) \/ WipeFiles(a) \/ DeleteContainer(a) \/ ForgetApp(a) \/ FilesDeleted(a)
         \/ SearchPoolChanges
  PROVE  UidInv'
<1> USE DEF UidInv, UidTypes, uidDisk, Removing
<1>1. CASE DeleteStack(a, wipe) \/ DeleteContainer(a) \/ ForgetApp(a) \/ SearchPoolChanges
  BY <1>1, RemovalKeeps DEF DeleteStack, DeleteContainer, ForgetApp, SearchPoolChanges
<1>2. CASE WipeFiles(a) \/ FilesDeleted(a)
  BY <1>2, RemovalKeeps DEF WipeFiles, FilesDeleted
<1> QED
  BY <1>1, <1>2
LEMMA ReleaseUidKeeps ==
  ASSUME UidInv, NEW a \in UidApps, ReleaseUid(a)
  PROVE  UidInv'
<1>1. uidRows \in [UidApps -> UidRow] /\ uidRows[a] \in UidRow
  BY DEF UidInv, UidTypes
<1>2. PICK row : row = [uidRows[a] EXCEPT !.released = TRUE]
  OBVIOUS
<1>3. row \in UidRow /\ row.uid = uidRows[a].uid
  BY <1>1, <1>2 DEF UidRow
<1>4. uidRows' = uidRows \/ uidRows' = [uidRows EXCEPT ![a] = row]
  BY <1>2 DEF ReleaseUid
<1>5. uidRows' \in [UidApps -> UidRow] /\ \A b \in UidApps : uidRows'[b].uid = uidRows[b].uid
  BY <1>1, <1>3, <1>4
<1>6. /\ UNCHANGED <<nextUid, appUsers, appFiles, appRows, searchPool, deployments, hygiene, uidOwner, pardoned>>
      /\ removals' = [removals EXCEPT ![a] = "idle"]
  BY DEF ReleaseUid, Removing, uidDisk
<1> QED
  BY <1>5, <1>6, RemovalKeeps DEF UidInv, UidTypes
LEMMA UidCrashKeeps ==
  ASSUME UidInv, UidCrash
  PROVE  UidInv'
<1>1. UNCHANGED <<uidRows, nextUid, appUsers, appFiles, searchPool, appRows, uidOwner, pardoned>>
  BY DEF UidCrash, uidDisk
<1>2. GivenInv' /\ KeptInv'
  BY <1>1, IdentitiesStand
<1>3. DeployInv'
  BY DEF UidCrash, DeployInv, DeploymentOK, NoDeployment
<1>4. IdleHygiene \in HygienePass /\ IdleHygiene.at = "idle"
  BY DEF IdleHygiene, HygienePass, HygieneSteps
<1>5. HygieneInv'
  BY <1>4, UidNumbers DEF UidCrash, HygieneInv, HygieneSteps
<1>6. UidTypes'
  BY <1>1, <1>4 DEF UidCrash, UidInv, UidTypes
<1> QED
  BY <1>2, <1>3, <1>5, <1>6 DEF UidInv

-----------------------------------------------------------------------------
\* The task.
LEMMA TaskStands ==
  ASSUME UidInv, UNCHANGED <<uidRows, nextUid, appUsers, uidDisk, appRows, deployments, removals, uidOwner, pardoned>>,
         hygiene' \in HygienePass, HygieneInv'
  PROVE  UidInv'
<1>1. UidsStay /\ UsersStay /\ PardonsStay /\ GivenInv' /\ KeptInv'
  BY IdentitiesStand DEF uidDisk
<1>2. DeployInv'
  BY <1>1, NoneDeploys DEF UidInv
<1>3. UidTypes'
  BY DEF UidInv, UidTypes, uidDisk
<1> QED
  BY <1>1, <1>2, <1>3 DEF UidInv
LEMMA HygieneBeginsKeeps ==
  ASSUME UidInv, HygieneBegins \/ ListActiveApps \/ ListReleased \/ HygieneEnds
  PROVE  UidInv'
<1>1. hygiene \in HygienePass /\ appRows \subseteq UidApps /\ searchPool \in {"docker", "other", "none"}
  BY DEF UidInv, UidTypes
<1>2. /\ hygiene' \in HygienePass
      /\ \/ hygiene'.at \in {"idle", "active"}
         \/ hygiene'.at = "released" /\ hygiene'.active = appRows
         \/ /\ hygiene'.at = "look" /\ hygiene.at = "released" /\ hygiene'.active = hygiene.active
            /\ hygiene'.moved = hygiene.moved
  <2>1. IdleHygiene \in HygienePass /\ IdleHygiene.at = "idle"
    BY DEF IdleHygiene, HygienePass, HygieneSteps
  <2>2. CASE HygieneBegins
    <3>1. hygiene' = [IdleHygiene EXCEPT !.at = "active", !.mount = searchPool]
      BY <2>2 DEF HygieneBegins
    <3> QED
      BY <1>1, <3>1 DEF IdleHygiene, HygienePass, HygieneSteps
  <2>3. CASE hygiene' = IdleHygiene
    BY <2>1, <2>3
  <2>4. CASE hygiene' = [hygiene EXCEPT !.at = "released", !.active = appRows]
    BY <1>1, <2>4, Zenon DEF HygienePass, HygieneSteps
  <2>5. CASE ListReleased
    <3>1. PICK some \in SUBSET UidApps : hygiene' = [hygiene EXCEPT !.at = "look", !.todo = some]
      BY <2>5, Zenon DEF ListReleased
    <3> QED
      BY <1>1, <2>5, <3>1, Zenon DEF HygienePass, HygieneSteps, ListReleased
  <2> QED
    BY <2>2, <2>3, <2>4, <2>5 DEF ListActiveApps, HygieneEnds
<1>4. hygiene'.at \in HygieneSteps /\ \A a \in UidApps : hygiene'.at # a
  BY <1>2, UidNumbers DEF HygieneSteps
<1>5. UNCHANGED <<uidRows, nextUid, appUsers, uidDisk, appRows, deployments, removals, uidOwner, pardoned>>
  BY DEF HygieneBegins, ListActiveApps, ListReleased, HygieneEnds
<1>6. HygieneInv'
  BY <1>2, <1>4, <1>5 DEF HygieneInv, Watched, UidInv
<1> QED
  BY <1>2, <1>5, <1>6, TaskStands
LEMMA HygieneLooksKeeps ==
  ASSUME UidInv, NEW a \in UidApps, HygieneLooks(a)
  PROVE  UidInv'
<1>1. hygiene \in HygienePass /\ hygiene.at = "look" /\ a \in hygiene.todo
  BY DEF UidInv, UidTypes, HygieneLooks
<1>2. /\ hygiene' \in HygienePass /\ hygiene'.active = hygiene.active /\ hygiene'.mount = hygiene.mount
      /\ hygiene'.todo = hygiene.todo \ {a}
      /\ \/ hygiene'.at = "look" /\ \A b \in UidApps : b # a => (b \in hygiene.moved <=> b \in hygiene'.moved)
         \/ ~SpareApp(a) /\ hygiene'.at = a /\ hygiene'.moved = hygiene.moved
  BY <1>1, Zenon DEF HygieneLooks, HygienePass, HygieneSteps
<1>3. UNCHANGED <<uidRows, nextUid, appUsers, uidDisk, appRows, deployments, removals, uidOwner, pardoned>>
  BY DEF HygieneLooks
<1>4. UNCHANGED <<uidRows, appFiles, appRows>>
  BY <1>3 DEF uidDisk
<1>5. \A b \in UidApps : b # "look" /\ b # "released"
  BY UidNumbers DEF HygieneSteps
<1>6. \A b \in UidApps : Watched(b)' => b \in hygiene.todo /\ (b # a \/ hygiene'.at = a)
  BY <1>1, <1>2, <1>5 DEF Watched
<1>7. \A b \in UidApps : Watched(b)' /\ b \in appRows => b \in hygiene'.active \cup hygiene'.moved
  <2> SUFFICES ASSUME NEW b \in UidApps, Watched(b)', b \in appRows PROVE b \in hygiene'.active \cup hygiene'.moved
    OBVIOUS
  <2>1. b \in hygiene.active \cup hygiene.moved
    BY <1>1, <1>6 DEF UidInv, HygieneInv, Watched
  <2> QED
    BY <1>2, <1>6, <1>5, <2>1
<1>8. ASSUME NEW b \in UidApps, hygiene'.at = b, b \notin hygiene'.moved
      PROVE  b \notin hygiene'.active /\ (hygiene'.mount = "docker" => uidRows[b].uid \notin appFiles[b])
  BY <1>2, <1>5, <1>8 DEF SpareApp, FilesFound
<1>9. HygieneInv'
  BY <1>4, <1>7, <1>8 DEF HygieneInv
<1> QED
  BY <1>2, <1>3, <1>9, TaskStands
LEMMA DeleteAppUserKeeps ==
  ASSUME UidInv, NEW a \in UidApps, DeleteAppUser(a)
  PROVE  UidInv'
<1>1. /\ hygiene \in HygienePass /\ appUsers \in [UidNames -> 0..UidMax] /\ UserName(a) \in UidNames
      /\ 0 \in 0..UidMax /\ hygiene.at = a
  BY UidNumbers DEF UidInv, UidTypes, UidNames, DeleteAppUser
<1>2. UNCHANGED <<uidRows, nextUid, appFiles, searchPool, appRows, deployments, removals, uidOwner>>
  BY DEF DeleteAppUser, uidDisk
<1>3. /\ appUsers' \in [UidNames -> 0..UidMax] /\ appUsers'[UserName(a)] = 0
      /\ \A n \in UidNames : n # UserName(a) => appUsers'[n] = appUsers[n]
  BY <1>1 DEF DeleteAppUser
<1>4. /\ hygiene' \in HygienePass /\ hygiene'.at = "look" /\ hygiene'.active = hygiene.active
      /\ hygiene'.todo = hygiene.todo /\ hygiene'.moved = hygiene.moved
  BY <1>1 DEF DeleteAppUser, HygienePass, HygieneSteps
<1>5. /\ pardoned \subseteq pardoned' /\ pardoned' \subseteq UidApps
      /\ \A b \in UidApps \ pardoned' : uidRows[b].uid # 0 /\ uidRows[b].uid = appUsers[UserName(a)] =>
           b = a /\ b \notin hygiene.moved /\ hygiene.mount = "docker" /\ \A d \in Deployers : deployments[d].app # b
  BY DEF DeleteAppUser, UidInv, UidTypes
<1>6. \A b \in UidApps : b # "look" /\ b # "released" /\ b # "idle" /\ b # "active"
  BY UidNumbers DEF HygieneSteps
<1>7. a \notin hygiene.moved /\ hygiene.mount = "docker" => ~CountsOnUser(a)
  BY <1>1, <1>6 DEF UidInv, HygieneInv, Watched, CountsOnUser
\* Who loses his user is pardoned, or is the app the task looked at and has nothing.
<1>8. ASSUME NEW b \in UidApps \ pardoned', HasUser(b)
      PROVE  HasUser(b)' \/ (~CountsOnUser(b) /\ \A d \in Deployers : deployments[d].app # b)
  <2>1. PICK n \in UidNames : uidRows[b].uid # 0 /\ appUsers[n] = uidRows[b].uid
    BY <1>8 DEF HasUser
  <2>2. CASE n = UserName(a)
    BY <1>5, <1>7, <2>1, <2>2
  <2>3. CASE n # UserName(a)
    BY <1>2, <1>3, <2>1, <2>3 DEF HasUser
  <2> QED
    BY <2>2, <2>3
<1>9. KeptInv'
  <2> SUFFICES ASSUME NEW b \in UidApps \ pardoned', CountsOnUser(b)' PROVE HasUser(b)'
    BY DEF KeptInv
  <2>1. CountsOnUser(b) /\ b \in UidApps \ pardoned
    BY <1>2, <1>5 DEF CountsOnUser
  <2>2. HasUser(b)
    BY <2>1 DEF UidInv, KeptInv
  <2> QED
    BY <1>8, <2>1, <2>2
<1>10. GivenInv'
  <2>1. ASSUME NEW n \in UidNames
        PROVE  appUsers'[n] < nextUid' /\ (appUsers'[n] # 0 => UserName(uidOwner'[appUsers'[n]]) = n)
    <3>1. nextUid \in 1..(UidMax + 1) /\ appUsers[n] < nextUid /\ (appUsers[n] # 0 => UserName(uidOwner[appUsers[n]]) = n)
      BY DEF UidInv, UidTypes, GivenInv
    <3>2. 0 < nextUid
      BY <3>1, UidNumbers
    <3> QED
      BY <1>2, <1>3, <3>1, <3>2
  <2> QED
    BY <1>2, <2>1 DEF UidInv, GivenInv
<1>11. DeployInv'
  <2> SUFFICES ASSUME NEW d \in Deployers PROVE DeploymentOK(deployments[d])'
    BY DEF DeployInv
  <2>1. PICK x : x = deployments[d]
    OBVIOUS
  <2>2. x \in {NoDeployment} \cup Deployment /\ DeploymentOK(x)
    BY <2>1 DEF UidInv, UidTypes, DeployInv
  <2>3. CASE x = NoDeployment
    BY <1>2, <2>1, <2>3 DEF NoDeployment, DeploymentOK
  <2>4. CASE x \in Deployment
    <3>1. x.app \in UidApps
      BY <2>4 DEF Deployment
    <3>2. x.app \notin pardoned' /\ HasUser(x.app) => HasUser(x.app)'
      BY <1>8, <2>1, <3>1
    <3>3. x.app \notin pardoned' => x.app \notin pardoned
      BY <1>5
    <3>4. DeploymentOK(x)'
      BY <1>2, <2>2, <3>2, <3>3 DEF DeploymentOK
    <3> QED
      BY <1>2, <2>1, <3>4
  <2> QED
    BY <2>2, <2>3, <2>4
<1>12. HygieneInv'
  BY <1>1, <1>2, <1>4, <1>6 DEF UidInv, HygieneInv, Watched
<1>13. UidTypes'
  BY <1>2, <1>3, <1>4, <1>5 DEF UidInv, UidTypes
<1> QED
  BY <1>9, <1>10, <1>11, <1>12, <1>13 DEF UidInv

-----------------------------------------------------------------------------
LEMMA UidStep ==
  ASSUME UidInv, AppUidNext \/ UNCHANGED appUidVars
  PROVE  UidInv'
<1>1. ASSUME NEW d \in Deployers, NEW a \in UidApps, Deploy(d, a) PROVE UidInv'
  BY <1>1, DeployKeeps
<1>2. ASSUME NEW d \in Deployers, RuntimeIdentity(d) \/ AssignForVolumes(d) \/ EnsureAppSystemUser(d) \/ ApplyVolumes(d)
      PROVE  UidInv'
  BY <1>2, RuntimeIdentityKeeps, AssignForVolumesKeeps, EnsureAppSystemUserKeeps, ApplyVolumesKeeps
<1>3. ASSUME NEW d \in Deployers, DeployUp(d) \/ FinalizePermissions(d) \/ RegisterApp(d) PROVE UidInv'
  BY <1>3, DeployUpKeeps, FinalizePermissionsKeeps, RegisterAppKeeps
<1>4. ASSUME NEW a \in UidApps, NEW wipe \in BOOLEAN, DeleteStack(a, wipe) PROVE UidInv'
  BY <1>4, RemovalsKeep
<1>5. ASSUME NEW a \in UidApps, WipeFiles(a) \/ DeleteContainer(a) \/ ForgetApp(a) \/ FilesDeleted(a) PROVE UidInv'
  BY <1>5, RemovalsKeep
<1>6. ASSUME NEW a \in UidApps, ReleaseUid(a) \/ HygieneLooks(a) \/ DeleteAppUser(a) PROVE UidInv'
  BY <1>6, ReleaseUidKeeps, HygieneLooksKeeps, DeleteAppUserKeeps
<1>7. CASE HygieneBegins \/ ListActiveApps \/ ListReleased \/ HygieneEnds
  BY <1>7, HygieneBeginsKeeps
<1>8. CASE SearchPoolChanges
  <2>1. CASE UidApps = {}
    BY <1>8, <2>1, RemovalKeeps DEF SearchPoolChanges, UidInv, UidTypes
  <2>2. CASE UidApps # {}
    BY <1>8, <2>2, RemovalsKeep
  <2> QED
    BY <2>1, <2>2
<1>9. CASE UidCrash
  BY <1>9, UidCrashKeeps
<1>10. CASE UNCHANGED appUidVars
  BY <1>10, RemovalKeeps DEF appUidVars, uidDisk, UidInv, UidTypes
<1>11. CASE AppUidNext
  BY <1>1, <1>2, <1>3, <1>4, <1>5, <1>6, <1>7, <1>8, <1>9, <1>11 DEF AppUidNext
<1> QED
  BY <1>10, <1>11
LEMMA IdentitiesStayConsistent ==
  ASSUME UidInv
  PROVE  AppIdentityConsistent /\ AppUidTypeOK
<1>1. \A a \in UidApps : /\ uidRows[a] \in [uid : 0..UidMax, released : BOOLEAN]
                         /\ appFiles[a] \subseteq 1..UidMax \cup {ImageUser, DatabaseUser}
  BY DEF UidInv, UidTypes, UidRow, FileOwners
<1>2. hygiene.active \cup hygiene.todo \cup hygiene.moved \subseteq UidApps
  BY DEF UidInv, UidTypes, HygienePass
<1>3. AppUidTypeOK
  BY <1>1, <1>2 DEF UidInv, UidTypes, AppUidTypeOK
<1>4. ASSUME NEW d \in Deployers
      PROVE  deployments[d].identity # 0 => uidRows[deployments[d].app].uid = deployments[d].identity
  BY DEF UidInv, DeployInv, DeploymentOK
<1>5. UidForever
  BY <1>4 DEF UidInv, GivenInv, UidForever
<1>6. FilesHaveUser
  BY DEF UidInv, KeptInv, CountsOnUser, FilesHaveUser
<1> QED
  BY <1>3, <1>5, <1>6 DEF AppIdentityConsistent

-----------------------------------------------------------------------------
(* Maintenance.  What is owed is still to be judged in this pass, under a   *)
(* schedule that makes it due; what an edit read is what its task still is, *)
(* as long as no other edit of the task is in flight.                      *)

ChorePlan == [enabled : BOOLEAN, kind : Kinds, minute : 0..(Minutes - 1)]
ChoreLoop == [at : {"asleep", "pass", "run", "idle"}, now : Nat, boot : BOOLEAN, todo : SUBSET Chores, since : Nat]
ChoreEdit == [of : Chores, base : ChorePlan, change : Changes]
ChoreTypes ==
  /\ clock \in 0..LastMinute /\ tick \in 0..(LastMinute + 1)
  /\ plans \in [Chores -> ChorePlan] /\ wish \in [Chores -> ChorePlan]
  /\ lastRun \in [Chores -> 0..clock \cup {Never}]
  /\ loop \in ChoreLoop /\ owed \subseteq Chores /\ blurred \subseteq Chores
  /\ edits \in [Editors -> {NoEdit} \cup ChoreEdit]
StillOwed(c) ==
  /\ loop.at \in {"pass", "run"} /\ c \in loop.todo /\ plans[c].enabled /\ plans[c].kind = "daily"
  /\ plans[c].minute = loop.now % Minutes /\ ~SameDay(lastRun[c], loop.now)
OwedInv == (\A c \in owed : StillOwed(c)) /\ (loop.at = "run" => First(loop.todo) \notin owed)
EditInv ==
  /\ \A c \in Chores \ blurred : plans[c] = wish[c]
  /\ \A e \in Editors : edits[e] # NoEdit /\ edits[e].of \notin blurred => edits[e].base = plans[edits[e].of]
  /\ \A d, e \in Editors : d # e /\ edits[d].of = edits[e].of /\ edits[d] # NoEdit => edits[d].of \in blurred
ChoreInv == ChoreTypes /\ OwedInv /\ EditInv

LEMMA ChoreNumbers ==
  /\ LastMinute \in Nat /\ Minutes \in Nat \ {0} /\ 0 \in 0..(Minutes - 1) /\ 1 % Minutes \in 0..(Minutes - 1)
  /\ 0 \in 0..LastMinute /\ Chores \subseteq Nat \ {0}
BY MaintenanceAssumption
\* An edit that changes one field leaves the others.
LEMMA OverIs ==
  ASSUME NEW change \in Changes, NEW row \in ChorePlan
  PROVE  Over(change, row) \in ChorePlan
<1>1. DOMAIN row = {"enabled", "kind", "minute"} /\ row.enabled \in BOOLEAN /\ row.kind \in Kinds /\ row.minute \in 0..(Minutes - 1)
  BY DEF ChorePlan
<1>2. CASE change \in [enabled : {FALSE}]
  <2>1. DOMAIN change = {"enabled"} /\ change.enabled \in BOOLEAN
    BY <1>2
  <2>2. Over(change, row) = [enabled |-> change.enabled, kind |-> row.kind, minute |-> row.minute]
    BY <1>1, <2>1 DEF Over
  <2> QED
    BY <1>1, <2>1, <2>2 DEF ChorePlan
<1>3. CASE change \in [minute : {0}]
  <2>1. DOMAIN change = {"minute"} /\ change.minute \in 0..(Minutes - 1)
    BY <1>3, ChoreNumbers
  <2>2. Over(change, row) = [enabled |-> row.enabled, kind |-> row.kind, minute |-> change.minute]
    BY <1>1, <2>1 DEF Over
  <2> QED
    BY <1>1, <2>1, <2>2 DEF ChorePlan
<1> QED
  BY <1>2, <1>3 DEF Changes

LEMMA ChoresStart ==
  ASSUME MaintenanceInit
  PROVE  ChoreInv
<1>1. \A c \in Chores : Seed(c) \in ChorePlan
  BY ChoreNumbers, MaintenanceAssumption DEF Seed, ChorePlan, AtMinute, Kinds
<1>2. Asleep \in ChoreLoop
  BY DEF Asleep, ChoreLoop
<1>3. ChoreTypes
  BY <1>1, <1>2, ChoreNumbers DEF MaintenanceInit, ChoreTypes, Never, NoTick
<1>4. OwedInv
  BY DEF MaintenanceInit, OwedInv, Asleep
<1>5. EditInv
  BY DEF MaintenanceInit, EditInv
<1> QED
  BY <1>3, <1>4, <1>5 DEF ChoreInv

-----------------------------------------------------------------------------
\* The loop.
LEMMA EditsStand ==
  ASSUME EditInv, UNCHANGED <<plans, wish, edits, blurred>>
  PROVE  EditInv'
BY DEF EditInv
LEMMA LoopStays ==
  ASSUME ChoreInv, ClockTicks \/ FirstPass \/ TakeTick \/ PassEnds
  PROVE  ChoreInv'
<1>1. EditInv'
  BY EditsStand DEF ChoreInv, ClockTicks, FirstPass, TakeTick, PassEnds
<1>2. /\ loop \in ChoreLoop /\ clock \in 0..LastMinute /\ tick \in 0..(LastMinute + 1)
      /\ lastRun \in [Chores -> 0..clock \cup {Never}] /\ LastMinute \in Nat
      /\ clock \in Nat /\ tick \in Nat
  BY ChoreNumbers DEF ChoreInv, ChoreTypes
<1>3. CASE ClockTicks
  <2>1. clock' \in 0..LastMinute /\ 0..clock \subseteq 0..clock' /\ tick' \in 0..(LastMinute + 1)
    BY <1>2, <1>3 DEF ClockTicks, NoTick
  <2>2. UNCHANGED <<plans, lastRun, loop, edits, owed, wish, blurred>>
    BY <1>3 DEF ClockTicks
  <2>3. lastRun' \in [Chores -> 0..clock' \cup {Never}]
    BY <1>2, <2>1, <2>2
  <2>4. ChoreTypes' /\ OwedInv'
    BY <2>1, <2>2, <2>3 DEF ChoreInv, ChoreTypes, OwedInv, StillOwed
  <2> QED
    BY <1>1, <2>4 DEF ChoreInv
<1>4. CASE FirstPass
  <2>1. /\ loop' \in ChoreLoop /\ loop'.at = "pass" /\ loop.at = "asleep"
        /\ UNCHANGED <<clock, plans, lastRun, tick, edits, owed, wish, blurred>>
    BY <1>2, <1>4 DEF FirstPass, ChoreLoop
  <2>2. owed = {}
    BY <2>1 DEF ChoreInv, OwedInv, StillOwed
  <2>3. ChoreTypes' /\ OwedInv'
    BY <2>1, <2>2 DEF ChoreInv, ChoreTypes, OwedInv
  <2> QED
    BY <1>1, <2>3 DEF ChoreInv
<1>5. CASE TakeTick
  <2>1. /\ loop' \in ChoreLoop /\ loop'.at = "pass" /\ loop'.now = tick /\ loop'.todo = Chores
        /\ UNCHANGED <<clock, plans, lastRun, edits, wish, blurred>>
    BY <1>2, <1>5 DEF TakeTick, ChoreLoop
  <2>2. owed' = Expected(tick) /\ owed' \subseteq Chores
    BY <1>5 DEF TakeTick, Expected
  <2>3. OwedInv'
    BY <2>1, <2>2 DEF OwedInv, StillOwed, Expected
  <2>4. tick' \in 0..(LastMinute + 1)
    BY <1>2, <1>5 DEF TakeTick, NoTick
  <2>5. ChoreTypes'
    BY <2>1, <2>2, <2>4 DEF ChoreInv, ChoreTypes
  <2> QED
    BY <1>1, <2>3, <2>5 DEF ChoreInv
<1>6. CASE PassEnds
  <2>1. /\ loop' \in ChoreLoop /\ loop'.at = "idle" /\ loop.todo = {}
        /\ UNCHANGED <<clock, plans, lastRun, tick, edits, owed, wish, blurred>>
    BY <1>2, <1>6 DEF PassEnds, ChoreLoop
  <2>2. owed = {}
    BY <2>1 DEF ChoreInv, OwedInv, StillOwed
  <2>3. ChoreTypes' /\ OwedInv'
    BY <2>1, <2>2 DEF ChoreInv, ChoreTypes, OwedInv
  <2> QED
    BY <1>1, <2>3 DEF ChoreInv
<1> QED
  BY <1>3, <1>4, <1>5, <1>6
\* A task that is owed is due, whether or not its last run can be read.
LEMMA OwedIsDue ==
  ASSUME ChoreInv, NEW c \in owed, NEW last \in {lastRun[c], Never}
  PROVE  plans[c].enabled /\ TaskIsDue(plans[c], last, loop.now, loop.boot)
BY DEF ChoreInv, OwedInv, StillOwed, TaskIsDue, SameDay
LEMMA JudgeKeeps ==
  ASSUME ChoreInv, JudgeTask
  PROVE  ChoreInv'
<1> DEFINE c == First(loop.todo)
<1>1. PICK plan \in {plans[c], Unread}, last \in {lastRun[c], Never} :
        LET due == plan.enabled /\ TaskIsDue(plan, last, loop.now, loop.boot) IN
        /\ loop' = IF due THEN [loop EXCEPT !.at = "run"] ELSE [loop EXCEPT !.todo = @ \ {c}]
        /\ owed' = IF due \/ plan # plans[c] THEN owed \ {c} ELSE owed
  BY DEF JudgeTask
<1>2. UNCHANGED <<clock, plans, lastRun, tick, edits, wish, blurred>> /\ loop.at = "pass"
  BY DEF JudgeTask
<1>3. PICK first : first = c
  OBVIOUS
<1>4. loop \in ChoreLoop
  BY DEF ChoreInv, ChoreTypes
<1>5. c \notin owed'
  BY <1>1, OwedIsDue
<1>6. owed' \subseteq owed
  BY <1>1
<1> HIDE DEF c
<1>7. /\ loop' \in ChoreLoop /\ loop'.at \in {"pass", "run"} /\ loop'.now = loop.now
      /\ \A d : d # first /\ d \in loop.todo => d \in loop'.todo
      /\ loop'.at = "run" => loop'.todo = loop.todo
  BY <1>1, <1>2, <1>3, <1>4 DEF ChoreLoop
<1>8. \A d \in owed' : StillOwed(d) /\ d # first
  BY <1>3, <1>5, <1>6 DEF ChoreInv, OwedInv
<1>9. loop'.at = "run" => First(loop'.todo) \notin owed'
  BY <1>5, <1>7 DEF c
<1>10. OwedInv'
  BY <1>2, <1>7, <1>8, <1>9 DEF OwedInv, StillOwed
<1>11. ChoreTypes'
  BY <1>2, <1>6, <1>7 DEF ChoreInv, ChoreTypes
<1>12. EditInv'
  BY <1>2, EditsStand DEF ChoreInv
<1> QED
  BY <1>10, <1>11, <1>12 DEF ChoreInv
LEMMA RecordedIs ==
  ASSUME ChoreInv, NEW c, Recorded(c)
  PROVE  lastRun' \in [Chores -> 0..clock \cup {Never}] /\ \A d \in Chores : d # c => lastRun'[d] = lastRun[d]
<1>1. clock \in 0..clock /\ lastRun \in [Chores -> 0..clock \cup {Never}]
  BY ChoreNumbers DEF ChoreInv, ChoreTypes
<1> QED
  BY <1>1 DEF Recorded
LEMMA RunEndsKeeps ==
  ASSUME ChoreInv, RunEnds
  PROVE  ChoreInv'
<1>1. PICK c : c = First(loop.todo)
  OBVIOUS
<1>2. lastRun' \in [Chores -> 0..clock \cup {Never}] /\ \A d \in Chores : d # c => lastRun'[d] = lastRun[d]
  BY <1>1, RecordedIs DEF RunEnds
<1>3. /\ loop.at = "run" /\ loop' = [loop EXCEPT !.at = "pass", !.todo = @ \ {c}]
      /\ UNCHANGED <<clock, plans, tick, edits, owed, wish, blurred>>
  BY <1>1 DEF RunEnds
<1>4. loop' \in ChoreLoop /\ loop'.at = "pass" /\ loop'.now = loop.now /\ loop'.todo = loop.todo \ {c}
  BY <1>3 DEF ChoreInv, ChoreTypes, ChoreLoop
<1>5. c \notin owed /\ owed \subseteq Chores
  BY <1>1, <1>3 DEF ChoreInv, OwedInv, ChoreTypes
<1>6. OwedInv'
  <2> SUFFICES ASSUME NEW d \in owed PROVE StillOwed(d)'
    BY <1>3, <1>4 DEF OwedInv
  <2>1. StillOwed(d) /\ d # c /\ d \in Chores /\ lastRun'[d] = lastRun[d]
    BY <1>2, <1>5 DEF ChoreInv, OwedInv
  <2> QED
    BY <1>3, <1>4, <2>1 DEF StillOwed
<1>7. ChoreTypes'
  BY <1>2, <1>3, <1>4 DEF ChoreInv, ChoreTypes
<1>8. EditInv'
  BY <1>3, EditsStand DEF ChoreInv
<1> QED
  BY <1>6, <1>7, <1>8 DEF ChoreInv

-----------------------------------------------------------------------------
\* Requests.
LEMMA RunByHandKeeps ==
  ASSUME ChoreInv, NEW c \in Chores, RunByHand(c)
  PROVE  ChoreInv'
<1>1. lastRun' \in [Chores -> 0..clock \cup {Never}] /\ \A d \in Chores : d # c => lastRun'[d] = lastRun[d]
  BY RecordedIs DEF RunByHand
<1>2. UNCHANGED <<clock, plans, loop, tick, edits, wish, blurred>> /\ owed' = owed \ {c}
  BY DEF RunByHand
<1>3. OwedInv'
  <2> SUFFICES ASSUME NEW d \in owed \ {c} PROVE StillOwed(d)'
    BY <1>2 DEF OwedInv, ChoreInv
  <2>1. StillOwed(d) /\ d \in Chores /\ lastRun'[d] = lastRun[d]
    BY <1>1 DEF ChoreInv, OwedInv, ChoreTypes
  <2> QED
    BY <1>2, <2>1 DEF StillOwed
<1>4. ChoreTypes'
  BY <1>1, <1>2 DEF ChoreInv, ChoreTypes
<1>5. EditInv'
  BY <1>2, EditsStand DEF ChoreInv
<1> QED
  BY <1>3, <1>4, <1>5 DEF ChoreInv
LEMMA EditReadsKeeps ==
  ASSUME ChoreInv, NEW e \in Editors, NEW c \in Chores, NEW change \in Changes, EditReads(e, c, change)
  PROVE  ChoreInv'
<1>1. PICK put : put = [of |-> c, base |-> plans[c], change |-> change]
  OBVIOUS
<1>2. put \in ChoreEdit /\ put.of = c /\ put.base = plans[c] /\ c # 0 /\ c \in Nat
  BY <1>1, ChoreNumbers DEF ChoreInv, ChoreTypes, ChoreEdit
<1>3. /\ edits' = [edits EXCEPT ![e] = put] /\ edits \in [Editors -> {NoEdit} \cup ChoreEdit]
      /\ blurred' = IF \E d \in Editors : edits[d].of = c THEN blurred \cup {c} ELSE blurred
      /\ UNCHANGED <<clock, plans, lastRun, loop, tick, owed, wish>>
  BY <1>1 DEF EditReads, ChoreInv, ChoreTypes
<1>4. /\ edits' \in [Editors -> {NoEdit} \cup ChoreEdit] /\ edits'[e] = put
      /\ \A d \in Editors : d # e => edits'[d] = edits[d]
  BY <1>2, <1>3
<1>5. blurred \subseteq blurred' /\ blurred' \subseteq Chores
  BY <1>3 DEF ChoreInv, ChoreTypes
<1>6. ASSUME NEW d \in Editors, edits'[d] # NoEdit, edits'[d].of \notin blurred'
      PROVE  edits'[d].base = plans'[edits'[d].of]
  <2>1. CASE d = e
    BY <1>2, <1>3, <1>4, <2>1
  <2>2. CASE d # e
    BY <1>3, <1>4, <1>5, <1>6, <2>2 DEF ChoreInv, EditInv
  <2> QED
    BY <2>1, <2>2
<1>7. ASSUME NEW d \in Editors, NEW f \in Editors, d # f, edits'[d].of = edits'[f].of, edits'[d] # NoEdit
      PROVE  edits'[d].of \in blurred'
  <2>1. CASE d = e \/ f = e
    BY <1>2, <1>3, <1>4, <1>7, <2>1
  <2>2. CASE d # e /\ f # e
    BY <1>4, <1>5, <1>7, <2>2 DEF ChoreInv, EditInv
  <2> QED
    BY <2>1, <2>2
<1>8. EditInv'
  BY <1>3, <1>5, <1>6, <1>7 DEF ChoreInv, EditInv
<1>9. ChoreTypes' /\ OwedInv'
  BY <1>3, <1>4, <1>5 DEF ChoreInv, ChoreTypes, OwedInv, StillOwed
<1> QED
  BY <1>8, <1>9 DEF ChoreInv
LEMMA EditWritesKeeps ==
  ASSUME ChoreInv, NEW e \in Editors, EditWrites(e)
  PROVE  ChoreInv'
<1>1. PICK c, change, base : c = edits[e].of /\ change = edits[e].change /\ base = edits[e].base
  OBVIOUS
<1>2. c # 0 /\ edits \in [Editors -> {NoEdit} \cup ChoreEdit]
  BY <1>1 DEF EditWrites, ChoreInv, ChoreTypes
<1>3. edits[e] # NoEdit /\ edits[e] \in ChoreEdit /\ c \in Chores /\ change \in Changes /\ base \in ChorePlan
  BY <1>1, <1>2 DEF NoEdit, ChoreEdit
<1>4. /\ edits' = [edits EXCEPT ![e] = NoEdit] /\ owed' = owed \ {c}
      /\ UNCHANGED <<clock, lastRun, loop, tick, blurred>>
      /\ \/ /\ plans' = [plans EXCEPT ![c] = Over(change, base)]
            /\ wish' = [wish EXCEPT ![c] = Over(change, wish[c])]
         \/ UNCHANGED <<plans, wish>>
  BY <1>1 DEF EditWrites
<1>5. /\ plans \in [Chores -> ChorePlan] /\ wish \in [Chores -> ChorePlan]
      /\ Over(change, base) \in ChorePlan /\ Over(change, wish[c]) \in ChorePlan
  BY <1>3, OverIs DEF ChoreInv, ChoreTypes
<1>6. /\ plans' \in [Chores -> ChorePlan] /\ wish' \in [Chores -> ChorePlan]
      /\ \A d \in Chores : d # c => plans'[d] = plans[d] /\ wish'[d] = wish[d]
      /\ \/ plans'[c] = plans[c] /\ wish'[c] = wish[c]
         \/ plans'[c] = Over(change, base) /\ wish'[c] = Over(change, wish[c])
  <2>1. CASE plans' = plans /\ wish' = wish
    BY <1>5, <2>1
  <2>2. PICK new, wished : new = Over(change, base) /\ wished = Over(change, wish[c])
    OBVIOUS
  <2>3. CASE plans' = [plans EXCEPT ![c] = new] /\ wish' = [wish EXCEPT ![c] = wished]
    BY <1>3, <1>5, <2>2, <2>3
  <2> QED
    BY <1>4, <2>1, <2>2, <2>3
<1>7. /\ edits' \in [Editors -> {NoEdit} \cup ChoreEdit] /\ edits'[e] = NoEdit
      /\ \A d \in Editors : d # e => edits'[d] = edits[d]
  BY <1>2, <1>4
<1>8. c \notin blurred => base = plans[c] /\ plans[c] = wish[c]
  BY <1>1, <1>3 DEF ChoreInv, EditInv
<1>9. \A d \in Chores \ blurred : plans'[d] = wish'[d]
  BY <1>3, <1>6, <1>8 DEF ChoreInv, EditInv
<1>10. ASSUME NEW d \in Editors, edits'[d] # NoEdit, edits'[d].of \notin blurred
       PROVE  edits'[d].base = plans'[edits'[d].of]
  <2>1. d # e /\ edits'[d] = edits[d] /\ edits[d] \in ChoreEdit /\ edits[d].of \in Chores
    BY <1>2, <1>7, <1>10 DEF ChoreEdit
  <2>2. edits[d].of # c /\ edits[d].base = plans[edits[d].of]
    BY <1>1, <1>3, <1>10, <2>1 DEF ChoreInv, EditInv
  <2> QED
    BY <1>6, <2>1, <2>2
<1>11. ASSUME NEW d \in Editors, NEW f \in Editors, d # f, edits'[d].of = edits'[f].of, edits'[d] # NoEdit
       PROVE  edits'[d].of \in blurred
  <2>1. d # e /\ edits[d] \in ChoreEdit /\ edits[d].of \in Chores /\ edits[d].of # 0 /\ edits'[d] = edits[d]
    BY <1>2, <1>7, <1>11, ChoreNumbers DEF ChoreEdit
  <2>2. f # e
    BY <1>7, <1>11, <2>1 DEF NoEdit
  <2> QED
    BY <1>7, <1>11, <2>1, <2>2 DEF ChoreInv, EditInv
<1>12. EditInv'
  BY <1>4, <1>9, <1>10, <1>11 DEF EditInv
<1>13. OwedInv'
  <2> SUFFICES ASSUME NEW d \in owed \ {c} PROVE StillOwed(d)'
    BY <1>4 DEF OwedInv, ChoreInv
  <2>1. StillOwed(d) /\ d \in Chores /\ plans'[d] = plans[d]
    BY <1>6 DEF ChoreInv, OwedInv, ChoreTypes
  <2> QED
    BY <1>4, <2>1 DEF StillOwed
<1>14. ChoreTypes'
  BY <1>4, <1>6, <1>7 DEF ChoreInv, ChoreTypes
<1> QED
  BY <1>12, <1>13, <1>14 DEF ChoreInv
LEMMA StartAgainKeeps ==
  ASSUME ChoreInv, StartAgain
  PROVE  ChoreInv'
<1>1. /\ loop' = [Asleep EXCEPT !.since = clock] /\ tick' = NoTick /\ edits' = [e \in Editors |-> NoEdit] /\ owed' = {}
      /\ UNCHANGED <<clock, plans, lastRun, wish, blurred>>
  BY DEF StartAgain
<1>2. clock \in Nat /\ NoTick \in 0..(LastMinute + 1)
  BY ChoreNumbers DEF ChoreInv, ChoreTypes, NoTick
<1>3. loop' \in ChoreLoop /\ loop'.at = "asleep"
  BY <1>1, <1>2 DEF Asleep, ChoreLoop
<1>4. ChoreTypes' /\ OwedInv' /\ EditInv'
  BY <1>1, <1>2, <1>3 DEF ChoreInv, ChoreTypes, OwedInv, EditInv
<1> QED
  BY <1>4 DEF ChoreInv

LEMMA ChoreStep ==
  ASSUME ChoreInv, MaintenanceNext \/ UNCHANGED maintenanceVars
  PROVE  ChoreInv'
<1>1. CASE ClockTicks \/ FirstPass \/ TakeTick \/ PassEnds
  BY <1>1, LoopStays
<1>2. CASE JudgeTask \/ RunEnds \/ StartAgain
  BY <1>2, JudgeKeeps, RunEndsKeeps, StartAgainKeeps
<1>3. ASSUME NEW c \in Chores, RunByHand(c) PROVE ChoreInv'
  BY <1>3, RunByHandKeeps
<1>4. ASSUME NEW e \in Editors, EditWrites(e) PROVE ChoreInv'
  BY <1>4, EditWritesKeeps
<1>5. ASSUME NEW e \in Editors, NEW c \in Chores, NEW change \in Changes, EditReads(e, c, change) PROVE ChoreInv'
  BY <1>5, EditReadsKeeps
<1>6. CASE UNCHANGED maintenanceVars
  BY <1>6 DEF maintenanceVars, ChoreInv, ChoreTypes, OwedInv, StillOwed, EditInv
<1> QED
  BY <1>1, <1>2, <1>3, <1>4, <1>5, <1>6 DEF MaintenanceNext
LEMMA ChoresStayConsistent ==
  ASSUME ChoreInv
  PROVE  MaintenanceConsistent /\ MaintenanceTypeOK
<1>1. MaintenanceConsistent
  BY DEF ChoreInv, OwedInv, EditInv, StillOwed, MaintenanceConsistent, DailyStarted, EditsKept
<1>2. MaintenanceTypeOK
  BY DEF ChoreInv, ChoreTypes, ChorePlan, ChoreLoop, MaintenanceTypeOK
<1> QED
  BY <1>1, <1>2

-----------------------------------------------------------------------------
(* AppUpdates.  From the containers to the row one digest is on its way: it *)
(* is the tag until a writer has read it, then what the writer holds, then  *)
(* the row.  The remote one is the newest, or a release overtook it.        *)

ImageVersions == 0..MaxVersion
CheckStatus == {"ok", "error", "terminal"}
ImageRow == [on : BOOLEAN, local : ImageVersions, remote : ImageVersions, fresh : BOOLEAN, status : CheckStatus]
Writer == [at : {"idle", "list", "pull", "up", "tell", "rows", "write"}, todo : SUBSET Images, digest : ImageVersions]
Checker == [at : {"idle", "ask"}, todo : SUBSET Images, got : [Images -> ImageVersions], status : [Images -> CheckStatus],
            late : SUBSET Images]
UpdTypes ==
  /\ newest \in [Images -> ImageVersions \ {0}] /\ tagged \in [Images -> ImageVersions] /\ running \in [Images -> ImageVersions]
  /\ imageRows \in [Images -> ImageRow] /\ overtaken \subseteq Images /\ untold \subseteq Images
  /\ filling \in Writer /\ updating \in Writer /\ updating.at # "list" /\ checking \in [ImageCheckers -> Checker]
  /\ deploying \in {"idle", "pull", "up", "register"}
  /\ uninstalling \in {"idle", "wipe", "down", "forget app", "forget images"}
  /\ composeFile \in BOOLEAN /\ appRow \in BOOLEAN /\ astray \in BOOLEAN /\ revived \in BOOLEAN
HeldBy(writer) == {s \in writer.todo : writer.at = "write" /\ \A t \in writer.todo : s <= t}
TagAwaited(s) == deploying = "register" \/ s \in YetToRead(filling) \cup YetToRead(updating)
LocalOK(s) ==
  /\ TagAwaited(s) => tagged[s] = running[s]
  /\ s \in HeldBy(filling) => filling.digest = running[s]
  /\ s \in HeldBy(updating) => updating.digest = running[s]
  /\ ~TagAwaited(s) /\ s \notin HeldBy(filling) \cup HeldBy(updating) /\ imageRows[s].on => imageRows[s].local = running[s]
LocalInv == \A s \in Images \ untold : running[s] # 0 => LocalOK(s)
RowsRemote ==
  \A s \in Images : /\ imageRows[s].on /\ imageRows[s].status = "ok" /\ s \notin overtaken => imageRows[s].remote = newest[s]
                    /\ imageRows[s].status # "ok" => imageRows[s].remote = 0
CheckOK(check) ==
  \A s \in Images : /\ check.got[s] # 0 /\ s \notin check.late => check.got[s] = newest[s]
                    /\ check.status[s] # "ok" => check.got[s] = 0
RemoteInv == RowsRemote /\ \A c \in ImageCheckers : CheckOK(checking[c])
FillLeft == IF filling.at = "list" THEN Images ELSE IF filling.at = "idle" THEN {} ELSE filling.todo
RowsInv ==
  ~astray /\ uninstalling # "forget images" =>
    /\ \A s \in Images \ FillLeft : imageRows[s].on <=> appRow
    /\ filling.at # "idle" => appRow
StoppedInv == ~revived /\ ~appRow /\ deploying = "idle" => \A s \in Images : running[s] = 0
UpdInv ==
  /\ UpdTypes /\ LocalInv /\ RemoteInv /\ RowsInv /\ StoppedInv
  /\ deploying # "idle" => filling.at = "idle"

LEMMA VersionNumbers ==
  /\ MaxVersion \in Nat /\ 0 \in ImageVersions /\ 1 \in ImageVersions \ {0} /\ Images \subseteq Nat
  /\ IdleWriter \in Writer /\ IdleWriter.at = "idle" /\ IdleChecker \in Checker
  /\ \A s \in Images : IdleChecker.got[s] = 0 /\ IdleChecker.status[s] = "ok"
  /\ NoImage \in ImageRow /\ ~NoImage.on /\ NoImage.status = "ok"
<1>1. MaxVersion \in Nat /\ 0 \in ImageVersions /\ 1 \in ImageVersions \ {0} /\ Images \subseteq Nat
  BY AppUpdatesAssumption DEF ImageVersions
<1> QED
  BY <1>1 DEF IdleWriter, Writer, IdleChecker, Checker, NoImage, ImageRow, CheckStatus
LEMMA UpdatesStart ==
  ASSUME UpdateInit
  PROVE  UpdInv
<1>1. UpdTypes
  BY VersionNumbers DEF UpdateInit, UpdTypes
<1>2. LocalInv /\ StoppedInv
  BY DEF UpdateInit, LocalInv, StoppedInv
<1>3. \A c \in ImageCheckers : CheckOK(checking[c])
  BY VersionNumbers DEF UpdateInit, CheckOK
<1>4. RowsRemote
  BY VersionNumbers DEF UpdateInit, RowsRemote
<1>5. RowsInv
  BY VersionNumbers DEF UpdateInit, RowsInv
<1> QED
  BY <1>1, <1>2, <1>3, <1>4, <1>5, VersionNumbers DEF UpdateInit, UpdInv, RemoteInv

-----------------------------------------------------------------------------
(* What a step leaves alone.                                               *)

LEMMA LocalStands ==
  ASSUME LocalInv, UNCHANGED <<tagged, running, untold, filling, updating>>,
         deploying' = "register" <=> deploying = "register",
         \A s \in Images : imageRows'[s].on => imageRows[s].on /\ imageRows'[s].local = imageRows[s].local
  PROVE  LocalInv'
BY DEF LocalInv, LocalOK, TagAwaited
LEMMA RemoteStands ==
  ASSUME RemoteInv, UNCHANGED <<imageRows, newest, overtaken, checking>>
  PROVE  RemoteInv'
BY DEF RemoteInv, RowsRemote, CheckOK
LEMMA ImageRowsStand ==
  ASSUME RowsInv, UNCHANGED <<imageRows, appRow, astray, filling>>,
         uninstalling' # "forget images" => uninstalling # "forget images"
  PROVE  RowsInv'
BY Zenon DEF RowsInv, FillLeft
LEMMA StoppedStands ==
  ASSUME StoppedInv, UNCHANGED <<running, appRow>>, revived => revived', deploying' = "idle" => deploying = "idle"
  PROVE  StoppedInv'
BY DEF StoppedInv
\* A tag that moves is awaited by nobody, or its services are named.
LEMMA TagsMove ==
  ASSUME UpdTypes, LocalInv, NEW moved, TagMoves(moved), UNCHANGED <<running, imageRows, filling>>,
         tagged' \in [Images -> ImageVersions], \A s \in Images \ moved : tagged'[s] = tagged[s],
         deploying' = deploying \/ (deploying = "pull" /\ deploying' = "up"),
         updating' = updating \/ (updating.at = "pull" /\ updating'.at \in {"idle", "up"})
  PROVE  LocalInv'
<1> SUFFICES ASSUME NEW s \in Images, s \notin untold', running[s] # 0 PROVE LocalOK(s)'
  BY DEF LocalInv
<1>1. s \notin untold /\ (s \notin moved \/ ~TagAwaited(s))
  BY DEF TagMoves, TagAwaited
<1>2. LocalOK(s)
  BY <1>1 DEF LocalInv
<1>3. /\ TagAwaited(s)' <=> TagAwaited(s)
      /\ s \in HeldBy(updating)' => s \in HeldBy(updating) /\ updating' = updating
      /\ s \in HeldBy(updating) => s \in HeldBy(updating)'
  BY DEF TagAwaited, YetToRead, HeldBy
<1>4. s \in HeldBy(filling)' <=> s \in HeldBy(filling)
  BY DEF HeldBy
<1>5. TagAwaited(s) => tagged'[s] = tagged[s]
  BY <1>1
<1> QED
  BY <1>2, <1>3, <1>4, <1>5 DEF LocalOK
\* What runs was just brought up, and nobody else writes.
LEMMA BroughtUp ==
  ASSUME UpdTypes, running' = tagged', untold' = Images \/ filling'.at = "idle",
         untold' = Images \/ (deploying' = "register" /\ updating'.at = "idle") \/ updating'.at = "tell"
  PROVE  LocalInv'
<1> SUFFICES ASSUME NEW s \in Images, s \notin untold' PROVE LocalOK(s)'
  BY DEF LocalInv
<1>1. s \notin HeldBy(filling)' /\ s \notin HeldBy(updating)'
  BY DEF HeldBy
<1>2. TagAwaited(s)'
  BY DEF TagAwaited, YetToRead
<1> QED
  BY <1>1, <1>2 DEF LocalOK

-----------------------------------------------------------------------------
(* A deployment.                                                           *)

LEMMA DeployStackKeeps ==
  ASSUME UpdInv, DeployStack
  PROVE  UpdInv'
<1>1. /\ deploying = "idle" /\ filling.at = "idle" /\ deploying' = "pull" /\ composeFile' = TRUE
      /\ UNCHANGED <<newest, tagged, running, appRow, imageRows, filling, updating, uninstalling, checking,
                     overtaken, untold, astray, revived>>
  BY DEF DeployStack, imageHistory
<1>2. LocalInv'
  BY <1>1, LocalStands DEF UpdInv
<1>3. RemoteInv' /\ RowsInv' /\ StoppedInv'
  BY <1>1, RemoteStands, ImageRowsStand, StoppedStands, Zenon DEF UpdInv
<1>4. UpdTypes'
  BY <1>1, Zenon DEF UpdInv, UpdTypes
<1> QED
  BY <1>1, <1>2, <1>3, <1>4 DEF UpdInv
LEMMA DeployPullKeeps ==
  ASSUME UpdInv, DeployPull
  PROVE  UpdInv'
<1>1. /\ deploying = "pull" /\ deploying' = "up"
      /\ UNCHANGED <<newest, running, composeFile, appRow, imageRows, filling, updating, uninstalling, checking,
                     overtaken, astray, revived>>
  BY DEF DeployPull
<1>4. LocalInv' /\ tagged' \in [Images -> ImageVersions] /\ untold' \subseteq Images
  <2>1. CASE tagged' = newest /\ TagMoves({s \in Images : tagged[s] # newest[s]})
    <3>1. tagged' \in [Images -> ImageVersions] /\ untold' \subseteq Images
      BY <2>1, Zenon DEF UpdInv, UpdTypes, TagMoves
    <3>2. LocalInv'
      BY <1>1, <2>1, <3>1, TagsMove DEF UpdInv
    <3> QED
      BY <3>1, <3>2
  <2>2. CASE UNCHANGED <<tagged, untold>>
    BY <1>1, <2>2, LocalStands, Zenon DEF UpdInv, UpdTypes
  <2> QED
    BY <2>1, <2>2 DEF DeployPull
<1>5. RemoteInv' /\ RowsInv' /\ StoppedInv'
  BY <1>1, RemoteStands, ImageRowsStand, StoppedStands, Zenon DEF UpdInv
<1>6. UpdTypes'
  BY <1>1, <1>4, Zenon DEF UpdInv, UpdTypes
<1> QED
  BY <1>1, <1>4, <1>5, <1>6 DEF UpdInv
LEMMA StackUpKeeps ==
  ASSUME UpdInv, StackUp
  PROVE  UpdInv'
<1>1. /\ deploying = "up" /\ filling.at = "idle"
      /\ UNCHANGED <<newest, composeFile, appRow, imageRows, filling, updating, uninstalling, checking, overtaken, astray>>
  BY DEF StackUp, UpdInv
<1>2. RemoteInv' /\ RowsInv'
  BY <1>1, RemoteStands, ImageRowsStand, Zenon DEF UpdInv
<1>3. CASE /\ tagged' = [s \in Images |-> IF tagged[s] = 0 THEN newest[s] ELSE tagged[s]]
           /\ running' = tagged' /\ deploying' = "register" /\ Recreated(Images, updating.at # "idle")
           /\ revived' = (revived \/ uninstalling # "idle")
  <2>1. tagged' \in [Images -> ImageVersions] /\ (untold' = Images \/ (untold' = {} /\ updating.at = "idle"))
    BY <1>3, Zenon DEF UpdInv, UpdTypes, Recreated
  <2>2. LocalInv'
    BY <1>1, <1>3, <2>1, BroughtUp DEF UpdInv
  <2>3. UpdTypes' /\ StoppedInv'
    BY <1>1, <1>3, <2>1, Zenon DEF UpdInv, UpdTypes, StoppedInv
  <2> QED
    BY <1>1, <1>2, <2>2, <2>3 DEF UpdInv
<1>4. CASE /\ deploying' = "idle" /\ revived' = (revived \/ ~appRow) /\ UNCHANGED <<tagged, running, untold>>
  <2>1. LocalInv'
    BY <1>1, <1>4, LocalStands DEF UpdInv
  <2>2. UpdTypes' /\ StoppedInv'
    BY <1>1, <1>4, Zenon DEF UpdInv, UpdTypes, StoppedInv
  <2> QED
    BY <1>1, <1>2, <1>4, <2>1, <2>2 DEF UpdInv
<1> QED
  BY <1>3, <1>4 DEF StackUp
LEMMA RegisterStackKeeps ==
  ASSUME UpdInv, RegisterStack
  PROVE  UpdInv'
<1>1. /\ deploying = "register" /\ deploying' = "idle" /\ appRow' = TRUE
      /\ filling' \in Writer /\ filling'.at = "list" /\ filling.at = "idle"
      /\ UNCHANGED <<newest, tagged, running, composeFile, imageRows, updating, uninstalling, checking,
                     overtaken, untold, astray, revived>>
  BY VersionNumbers DEF RegisterStack, imageHistory, UpdInv, Writer
<1>2. LocalInv'
  <2> SUFFICES ASSUME NEW s \in Images \ untold, running[s] # 0 PROVE LocalOK(s)'
    BY <1>1 DEF LocalInv
  <2>1. tagged[s] = running[s] /\ (s \in HeldBy(updating) => updating.digest = running[s])
    BY <1>1 DEF UpdInv, LocalInv, LocalOK, TagAwaited
  <2>2. TagAwaited(s)' /\ s \notin HeldBy(filling)'
    BY <1>1 DEF TagAwaited, YetToRead, HeldBy
  <2> QED
    BY <1>1, <2>1, <2>2 DEF LocalOK
<1>3. RemoteInv'
  BY <1>1, RemoteStands DEF UpdInv
<1>4. RowsInv' /\ StoppedInv'
  BY <1>1, Zenon DEF RowsInv, FillLeft, StoppedInv
<1>5. UpdTypes'
  BY <1>1, Zenon DEF UpdInv, UpdTypes
<1> QED
  BY <1>1, <1>2, <1>3, <1>4, <1>5 DEF UpdInv

-----------------------------------------------------------------------------
(* The two writers of the local digest.                                    *)

\* Of the services left to a writer all but the first are yet to be read, and the first is in hand
\* once it is read.
LEMMA FirstInHand ==
  ASSUME NEW w \in Writer, w.at \in {"rows", "write"}, NEW s \in w.todo, \A t \in w.todo : s <= t, NEW t \in Images
  PROVE  /\ t \in YetToRead(w) <=> t \in w.todo /\ (w.at = "rows" \/ t # s)
         /\ t \in HeldBy(w) <=> w.at = "write" /\ t = s
<1>1. w.todo \subseteq Images /\ s \in Nat /\ t \in Nat /\ \A u \in w.todo : u \in Nat
  BY VersionNumbers DEF Writer
<1>2. t # s /\ t \in w.todo => s < t /\ ~(t <= s)
  BY <1>1
<1>3. ~(\E u \in w.todo : u < s)
  BY <1>1
<1>4. t \in HeldBy(w) <=> w.at = "write" /\ t = s
  BY <1>1, <1>2 DEF HeldBy
<1> QED
  BY <1>1, <1>2, <1>3, <1>4 DEF YetToRead
LEMMA RestsIdle ==
  ASSUME NEW w \in Writer, NEW t \in Images
  PROVE  /\ w.at \in {"list", "tell"} => t \in YetToRead(w) /\ t \notin HeldBy(w)
         /\ w.at \in {"idle", "pull", "up"} => t \notin YetToRead(w) /\ t \notin HeldBy(w)
         /\ w.at = "rows" => t \notin HeldBy(w) /\ (t \in YetToRead(w) <=> t \in w.todo)
BY DEF YetToRead, HeldBy
\* The goroutine of the deployment takes a step, and with it at most the row of one service.
LEMMA FillSteps ==
  ASSUME UpdTypes, LocalInv, NEW f \in Writer, filling' = f, UNCHANGED <<tagged, running, updating, deploying>>,
         untold \subseteq untold',
         NEW wrote \in SUBSET Images, \A t \in Images : imageRows'[t] = imageRows[t] \/ t \in wrote,
         \A t \in Images \ untold' :
           /\ t \in YetToRead(f) => t \in YetToRead(filling)
           /\ t \in HeldBy(f) => \/ t \in HeldBy(filling) /\ f.digest = filling.digest
                                 \/ t \in YetToRead(filling) /\ f.digest = tagged[t]
           /\ t \in wrote => t \in HeldBy(filling) /\ imageRows'[t].local = filling.digest
           /\ t \in YetToRead(filling) \cup HeldBy(filling) => t \in YetToRead(f) \cup HeldBy(f) \cup wrote
  PROVE  LocalInv'
<1> SUFFICES ASSUME NEW t \in Images \ untold', running[t] # 0 PROVE LocalOK(t)'
  BY DEF LocalInv
<1>1. LocalOK(t)
  BY DEF LocalInv
<1>2. /\ TagAwaited(t)' <=> deploying = "register" \/ t \in YetToRead(f) \cup YetToRead(updating)
      /\ t \in HeldBy(filling)' <=> t \in HeldBy(f)
      /\ t \in HeldBy(updating)' <=> t \in HeldBy(updating)
  BY DEF TagAwaited, YetToRead, HeldBy
<1>3. TagAwaited(t) <=> deploying = "register" \/ t \in YetToRead(filling) \cup YetToRead(updating)
  BY DEF TagAwaited
<1>4. TagAwaited(t)' => TagAwaited(t)
  BY <1>2, <1>3
<1>5. t \in HeldBy(filling)' => f.digest = running[t]
  BY <1>1, <1>2, <1>3 DEF LocalOK
<1>6. ~TagAwaited(t)' /\ t \notin HeldBy(filling)' \cup HeldBy(updating)' /\ imageRows'[t].on => imageRows'[t].local = running[t]
  <2>1. CASE t \in wrote
    BY <1>1, <2>1 DEF LocalOK
  <2>2. CASE t \notin wrote
    BY <1>1, <1>2, <1>3, <2>2 DEF LocalOK
  <2> QED
    BY <2>1, <2>2
<1> QED
  BY <1>1, <1>2, <1>4, <1>5, <1>6 DEF LocalOK
\* So does an update.
LEMMA TellSteps ==
  ASSUME UpdTypes, LocalInv, NEW u \in Writer, updating' = u, UNCHANGED <<tagged, running, filling, deploying>>,
         untold \subseteq untold',
         NEW wrote \in SUBSET Images, \A t \in Images : imageRows'[t] = imageRows[t] \/ t \in wrote,
         \A t \in Images \ untold' :
           /\ t \in YetToRead(u) => t \in YetToRead(updating)
           /\ t \in HeldBy(u) => \/ t \in HeldBy(updating) /\ u.digest = updating.digest
                                 \/ t \in YetToRead(updating) /\ u.digest = tagged[t]
           /\ t \in wrote /\ imageRows'[t].on => t \in HeldBy(updating) /\ imageRows'[t].local = updating.digest
           /\ t \in YetToRead(updating) \cup HeldBy(updating) => t \in YetToRead(u) \cup HeldBy(u) \cup wrote
  PROVE  LocalInv'
<1> SUFFICES ASSUME NEW t \in Images \ untold', running[t] # 0 PROVE LocalOK(t)'
  BY DEF LocalInv
<1>1. LocalOK(t)
  BY DEF LocalInv
<1>2. /\ TagAwaited(t)' <=> deploying = "register" \/ t \in YetToRead(filling) \cup YetToRead(u)
      /\ t \in HeldBy(updating)' <=> t \in HeldBy(u)
      /\ t \in HeldBy(filling)' <=> t \in HeldBy(filling)
  BY DEF TagAwaited, YetToRead, HeldBy
<1>3. TagAwaited(t) <=> deploying = "register" \/ t \in YetToRead(filling) \cup YetToRead(updating)
  BY DEF TagAwaited
<1>4. TagAwaited(t)' => TagAwaited(t)
  BY <1>2, <1>3
<1>5. t \in HeldBy(updating)' => u.digest = running[t]
  BY <1>1, <1>2, <1>3 DEF LocalOK
<1>6. ~TagAwaited(t)' /\ t \notin HeldBy(filling)' \cup HeldBy(updating)' /\ imageRows'[t].on => imageRows'[t].local = running[t]
  <2>1. CASE t \in wrote
    BY <1>1, <2>1 DEF LocalOK
  <2>2. CASE t \notin wrote
    BY <1>1, <1>2, <1>3, <2>2 DEF LocalOK
  <2> QED
    BY <2>1, <2>2
<1> QED
  BY <1>1, <1>2, <1>4, <1>5, <1>6 DEF LocalOK

LEMMA FillListsKeeps ==
  ASSUME UpdInv, FillLists
  PROVE  UpdInv'
<1>1. /\ filling.at = "list" /\ filling \in Writer /\ deploying = "idle" /\ untold \subseteq Images
      /\ UNCHANGED <<newest, tagged, running, composeFile, appRow, imageRows, deploying, updating, uninstalling,
                     checking, overtaken, revived>>
  BY Zenon DEF FillLists, UpdInv, UpdTypes, imageWorld
<1>2. RemoteInv' /\ StoppedInv'
  BY <1>1, RemoteStands, StoppedStands DEF UpdInv
<1>3. PICK f : f = filling'
  OBVIOUS
<1>4. /\ f \in Writer
      /\ \/ f.at = "rows" /\ f.todo = Images /\ UNCHANGED <<astray, untold>>
         \/ f.at = "idle" /\ astray' = TRUE /\ untold' = Images
  BY <1>1, <1>3, VersionNumbers DEF FillLists, Writer
<1>5. LocalInv'
  <2>1. \A t \in Images \ untold' :
           /\ t \in YetToRead(f) => t \in YetToRead(filling)
           /\ t \notin HeldBy(f) /\ t \notin HeldBy(filling)
           /\ t \in YetToRead(filling) => t \in YetToRead(f)
    BY <1>1, <1>4, RestsIdle
  <2> QED
    BY <1>1, <1>3, <1>4, <2>1, FillSteps, {} \in SUBSET Images DEF UpdInv
<1>6. RowsInv'
  <2>1. CASE f.at = "idle" /\ astray' = TRUE
    BY <2>1, Zenon DEF RowsInv
  <2>2. CASE f.at = "rows" /\ f.todo = Images /\ astray' = astray
    <3>1. FillLeft' = Images /\ filling.at # "idle" /\ filling'.at # "idle"
      BY <1>1, <1>3, <2>2 DEF FillLeft
    <3> QED
      BY <1>1, <2>2, <3>1, Zenon DEF UpdInv, RowsInv
  <2> QED
    BY <1>4, <2>1, <2>2
<1>7. UpdTypes'
  BY <1>1, <1>3, <1>4, Zenon DEF UpdInv, UpdTypes
<1> QED
  BY <1>1, <1>2, <1>5, <1>6, <1>7 DEF UpdInv
LEMMA FillInspectsKeeps ==
  ASSUME UpdInv, NEW s \in Images, FillInspects(s)
  PROVE  UpdInv'
<1>1. /\ filling.at = "rows" /\ filling \in Writer /\ deploying = "idle"
      /\ UNCHANGED <<newest, tagged, running, composeFile, appRow, imageRows, deploying, updating, uninstalling,
                     checking, overtaken, astray, revived>>
      /\ s \in filling.todo /\ \A t \in filling.todo : s <= t
  BY Zenon DEF FillInspects, UpdInv, UpdTypes, imageWorld
<1>2. RemoteInv' /\ StoppedInv'
  BY <1>1, RemoteStands, StoppedStands DEF UpdInv
<1>3. PICK f : f = filling'
  OBVIOUS
<1>4. tagged[s] \in ImageVersions /\ 0 \in ImageVersions /\ filling.todo \subseteq Images
  BY <1>1, VersionNumbers, Zenon DEF UpdInv, UpdTypes, Writer
<1>5. /\ f \in Writer /\ f.at = "write" /\ f.todo = filling.todo /\ untold \subseteq untold' /\ untold' \subseteq Images
      /\ f.digest = tagged[s] \/ s \in untold'
  <2>1. PICK digest \in ImageVersions : /\ f = [at |-> "write", todo |-> filling.todo, digest |-> digest]
                                   /\ \/ digest = tagged[s] /\ untold' = untold
                                      \/ untold' = untold \cup {s}
    BY <1>3, <1>4 DEF FillInspects
  <2>2. untold \subseteq Images
    BY Zenon DEF UpdInv, UpdTypes
  <2>3. f \in Writer /\ f.at = "write" /\ f.todo = filling.todo /\ f.digest = digest
    BY <1>4, <2>1 DEF Writer
  <2> QED
    BY <2>1, <2>2, <2>3
<1>6. LocalInv'
  <2>1. \A t \in Images : /\ t \in YetToRead(filling) <=> t \in filling.todo
                          /\ t \notin HeldBy(filling)
    BY <1>1, FirstInHand
  <2>2. \A t \in Images : /\ t \in YetToRead(f) <=> t \in filling.todo /\ t # s
                          /\ t \in HeldBy(f) <=> t = s
    BY <1>1, <1>5, FirstInHand
  <2> QED
    BY <1>1, <1>3, <1>5, <2>1, <2>2, FillSteps, {} \in SUBSET Images DEF UpdInv
<1>7. RowsInv'
  BY <1>1, <1>3, <1>5, Zenon DEF UpdInv, RowsInv, FillLeft
<1>8. UpdTypes'
  BY <1>1, <1>3, <1>5, Zenon DEF UpdInv, UpdTypes
<1> QED
  BY <1>1, <1>2, <1>6, <1>7, <1>8 DEF UpdInv
LEMMA FillWritesKeeps ==
  ASSUME UpdInv, NEW s \in Images, FillWrites(s)
  PROVE  UpdInv'
<1>1. /\ filling.at = "write" /\ filling \in Writer /\ deploying = "idle" /\ filling.todo \subseteq Images
      /\ UNCHANGED <<newest, tagged, running, composeFile, appRow, deploying, updating, uninstalling,
                     checking, untold, astray, revived>>
      /\ s \in filling.todo /\ (\A t \in filling.todo : s <= t) /\ filling.digest \in ImageVersions
  BY Zenon DEF FillWrites, UpdInv, UpdTypes, imageWorld, Writer
<1>2. PICK row : row = UpsertLocal(imageRows[s], filling.digest)
  OBVIOUS
<1>3. row \in ImageRow /\ row.on /\ row.local = filling.digest /\ row.remote = filling.digest /\ row.status = "ok"
  BY <1>1, <1>2 DEF UpsertLocal, ImageRow, CheckStatus
<1>4. imageRows' = [imageRows EXCEPT ![s] = row] /\ imageRows \in [Images -> ImageRow]
  BY <1>2, Zenon DEF FillWrites, UpdInv, UpdTypes
<1>5. imageRows' \in [Images -> ImageRow] /\ imageRows'[s] = row /\ \A t \in Images : t # s => imageRows'[t] = imageRows[t]
  BY <1>3, <1>4
<1>6. PICK f : f = filling'
  OBVIOUS
<1>7. /\ f \in Writer
      /\ \/ f.at = "idle" /\ filling.todo \ {s} = {}
         \/ f.at = "rows" /\ f.todo = filling.todo \ {s}
  <2>1. PICK left \in SUBSET Images : left = filling.todo \ {s}
    BY <1>1
  <2>2. f = IF left = {} THEN IdleWriter ELSE [at |-> "rows", todo |-> left, digest |-> 0]
    BY <1>6, <2>1 DEF FillWrites
  <2>3. CASE left = {}
    BY <2>1, <2>2, <2>3, VersionNumbers
  <2>4. CASE left # {}
    BY <2>1, <2>2, <2>4, VersionNumbers DEF Writer
  <2> QED
    BY <2>3, <2>4
<1>8. LocalInv'
  <2>1. \A t \in Images : /\ t \in YetToRead(filling) <=> t \in filling.todo /\ t # s
                          /\ t \in HeldBy(filling) <=> t = s
    BY <1>1, FirstInHand
  <2>2. \A t \in Images : t \notin HeldBy(f) /\ (t \in YetToRead(f) <=> t \in filling.todo /\ t # s)
    BY <1>7, RestsIdle
  <2> QED
    <3>1. PICK wrote \in SUBSET Images : wrote = {s}
      OBVIOUS
    <3>2. /\ \A t \in Images : imageRows'[t] = imageRows[t] \/ t \in wrote
          /\ \A t \in wrote : imageRows'[t].local = filling.digest
      BY <1>3, <1>5, <3>1
    <3>3. \A t \in Images \ untold' :
            /\ t \in YetToRead(f) => t \in YetToRead(filling)
            /\ t \notin HeldBy(f)
            /\ t \in wrote => t \in HeldBy(filling) /\ imageRows'[t].local = filling.digest
            /\ t \in YetToRead(filling) \cup HeldBy(filling) => t \in YetToRead(f) \cup HeldBy(f) \cup wrote
      BY <2>1, <2>2, <3>1, <3>2
    <3> QED
      BY <1>1, <1>6, <1>7, <3>2, <3>3, FillSteps DEF UpdInv
<1>9. /\ overtaken' = IF filling.digest = newest[s] THEN overtaken \ {s} ELSE overtaken \cup {s}
      /\ overtaken' \subseteq Images
  BY Zenon DEF FillWrites, UpdInv, UpdTypes
<1>10. RowsRemote'
  <2> SUFFICES ASSUME NEW t \in Images
               PROVE  /\ imageRows'[t].on /\ imageRows'[t].status = "ok" /\ t \notin overtaken'
                           => imageRows'[t].remote = newest[t]
                      /\ imageRows'[t].status # "ok" => imageRows'[t].remote = 0
    BY <1>1 DEF RowsRemote
  <2>1. CASE t = s
    BY <1>3, <1>5, <1>9, <2>1
  <2>2. CASE t # s
    BY <1>5, <1>9, <2>2 DEF UpdInv, RemoteInv, RowsRemote
  <2> QED
    BY <2>1, <2>2
<1>11. RemoteInv'
  BY <1>1, <1>10 DEF UpdInv, RemoteInv, CheckOK
<1>12. RowsInv'
  <2> SUFFICES ASSUME ~astray, uninstalling # "forget images"
               PROVE  (\A t \in Images \ FillLeft' : imageRows'[t].on <=> appRow) /\ appRow
    BY <1>1, Zenon DEF RowsInv
  <2>1. appRow /\ \A t \in Images \ filling.todo : imageRows[t].on
    BY <1>1, Zenon DEF UpdInv, RowsInv, FillLeft
  <2>2. FillLeft' = filling.todo \ {s}
    BY <1>6, <1>7, Zenon DEF FillLeft
  <2> QED
    BY <1>3, <1>5, <2>1, <2>2, Zenon
<1>13. StoppedInv'
  BY <1>1, StoppedStands DEF UpdInv
<1>14. UpdTypes'
  BY <1>1, <1>5, <1>6, <1>7, <1>9, Zenon DEF UpdInv, UpdTypes
<1> QED
  BY <1>1, <1>8, <1>11, <1>12, <1>13, <1>14 DEF UpdInv

-----------------------------------------------------------------------------
(* An update.                                                              *)

LEMMA UpdateAppKeeps ==
  ASSUME UpdInv, UpdateApp \/ TellLists
  PROVE  UpdInv'
<1>1. /\ updating \in Writer /\ UNCHANGED <<newest, tagged, running, composeFile, appRow, imageRows, deploying, filling,
                                           uninstalling, checking, overtaken, astray, revived>>
  BY Zenon DEF UpdateApp, TellLists, UpdInv, UpdTypes, imageWorld, imageHistory
<1>2. RemoteInv' /\ RowsInv' /\ StoppedInv'
  BY <1>1, RemoteStands, ImageRowsStand, StoppedStands, Zenon DEF UpdInv
<1>3. PICK u : u = updating'
  OBVIOUS
<1>4. /\ u \in Writer /\ untold \subseteq untold' /\ untold' \subseteq Images
      /\ \/ updating.at = "idle" /\ u.at = "pull"
         \/ updating.at = "tell" /\ u.at = "rows" /\ u.todo = Images
         \/ updating.at = "tell" /\ u.at = "idle" /\ untold' = Images
  <2>1. CASE UpdateApp
    BY <1>1, <1>3, <2>1, VersionNumbers, Zenon DEF UpdateApp, Writer, UpdInv, UpdTypes, imageHistory
  <2>2. CASE TellLists
    BY <1>1, <1>3, <2>2, VersionNumbers, Zenon DEF TellLists, Writer, UpdInv, UpdTypes
  <2> QED
    BY <2>1, <2>2
<1>5. LocalInv'
  <2>1. \A t \in Images \ untold' :
           /\ t \in YetToRead(u) <=> t \in YetToRead(updating)
           /\ t \notin HeldBy(u) /\ t \notin HeldBy(updating)
    BY <1>1, <1>4, RestsIdle
  <2> QED
    BY <1>1, <1>3, <1>4, <2>1, TellSteps, {} \in SUBSET Images DEF UpdInv
<1>6. UpdTypes'
  BY <1>1, <1>3, <1>4, Zenon DEF UpdInv, UpdTypes
<1> QED
  BY <1>1, <1>2, <1>5, <1>6 DEF UpdInv
LEMMA UpdatePullsKeeps ==
  ASSUME UpdInv, UpdatePulls
  PROVE  UpdInv'
<1>1. /\ updating.at = "pull" /\ updating \in Writer
      /\ UNCHANGED <<newest, running, composeFile, appRow, imageRows, deploying, filling,
                     uninstalling, checking, overtaken, astray, revived>>
  BY Zenon DEF UpdatePulls, UpdInv, UpdTypes
<1>2. RemoteInv' /\ RowsInv' /\ StoppedInv'
  BY <1>1, RemoteStands, ImageRowsStand, StoppedStands, Zenon DEF UpdInv
<1>3. updating' \in Writer /\ updating'.at \in {"idle", "up"}
  BY <1>1, VersionNumbers DEF UpdatePulls, Writer
<1>4. \E moved \in SUBSET Images :
        /\ TagMoves(moved) /\ tagged' \in [Images -> ImageVersions] /\ \A s \in Images \ moved : tagged'[s] = tagged[s]
  <2>1. tagged \in [Images -> ImageVersions] /\ newest \in [Images -> ImageVersions]
    BY Zenon DEF UpdInv, UpdTypes
  <2>2. CASE tagged' = newest /\ TagMoves({s \in Images : tagged[s] # newest[s]})
    BY <2>1, <2>2
  <2>3. CASE UNCHANGED <<tagged, untold>>
    BY <2>1, <2>3, TagMoves({}), {} \in SUBSET Images DEF TagMoves
  <2>4. CASE \E some \in SUBSET Images : /\ tagged' = [s \in Images |-> IF s \in some THEN newest[s] ELSE tagged[s]]
                                        /\ TagMoves(some)
    BY <2>1, <2>4
  <2> QED
    BY <2>2, <2>3, <2>4 DEF UpdatePulls
<1>5. PICK moved \in SUBSET Images :
        /\ TagMoves(moved) /\ tagged' \in [Images -> ImageVersions] /\ \A s \in Images \ moved : tagged'[s] = tagged[s]
  BY <1>4
<1>6. LocalInv'
  BY <1>1, <1>3, <1>5, TagsMove DEF UpdInv
<1>7. untold' \subseteq Images
  BY <1>5, Zenon DEF TagMoves, UpdInv, UpdTypes
<1>8. UpdTypes'
  BY <1>1, <1>3, <1>5, <1>7, Zenon DEF UpdInv, UpdTypes
<1> QED
  BY <1>1, <1>2, <1>6, <1>8 DEF UpdInv
LEMMA UpdateUpKeeps ==
  ASSUME UpdInv, UpdateUp
  PROVE  UpdInv'
<1>1. /\ updating.at = "up" /\ updating \in Writer
      /\ tagged \in [Images -> ImageVersions] /\ running \in [Images -> ImageVersions] /\ newest \in [Images -> ImageVersions]
      /\ UNCHANGED <<newest, composeFile, appRow, imageRows, deploying, filling, uninstalling, checking,
                     overtaken, astray>>
  BY Zenon DEF UpdateUp, UpdInv, UpdTypes
<1>2. RemoteInv' /\ RowsInv'
  BY <1>1, RemoteStands, ImageRowsStand, Zenon DEF UpdInv
<1>3. CASE /\ tagged' = newest /\ running' = newest /\ updating' = [updating EXCEPT !.at = "tell"]
           /\ Recreated(Images, deploying # "idle" \/ filling.at # "idle")
           /\ revived' = (revived \/ uninstalling # "idle" \/ (~appRow /\ deploying = "idle"))
  <2>1. updating' \in Writer /\ updating'.at = "tell"
    BY <1>1, <1>3 DEF Writer
  <2>2. untold' = Images \/ (untold' = {} /\ filling.at = "idle")
    BY <1>3, Zenon DEF UpdInv, UpdTypes, Recreated
  <2>3. LocalInv'
    BY <1>1, <1>3, <2>1, <2>2, BroughtUp DEF UpdInv
  <2>4. StoppedInv'
    BY <1>1, <1>3 DEF StoppedInv
  <2>5. UpdTypes'
    BY <1>1, <1>3, <2>1, <2>2, Zenon DEF UpdInv, UpdTypes
  <2> QED
    BY <1>1, <1>2, <2>3, <2>4, <2>5 DEF UpdInv
<1>4. CASE updating' = IdleWriter /\ UNCHANGED <<tagged, running, untold, revived>>
  <2>1. \A t \in Images : /\ t \notin YetToRead(updating) \cup HeldBy(updating)
                          /\ t \notin YetToRead(IdleWriter) \cup HeldBy(IdleWriter)
    BY <1>1, RestsIdle, VersionNumbers
  <2>2. LocalInv'
    BY <1>1, <1>4, <2>1, TellSteps, VersionNumbers, {} \in SUBSET Images DEF UpdInv
  <2>3. StoppedInv'
    BY <1>1, <1>4, StoppedStands DEF UpdInv
  <2>4. UpdTypes'
    BY <1>1, <1>4, VersionNumbers, Zenon DEF UpdInv, UpdTypes
  <2> QED
    BY <1>1, <1>2, <2>2, <2>3, <2>4 DEF UpdInv
<1>5. CASE /\ updating' = IdleWriter /\ revived' = TRUE
           /\ \E some \in SUBSET Images :
                /\ tagged' = [s \in Images |-> IF s \in some THEN newest[s] ELSE tagged[s]]
                /\ running' = [s \in Images |-> IF s \in some THEN newest[s] ELSE running[s]]
                /\ untold' = untold \cup some
  <2>1. PICK some \in SUBSET Images :
                /\ tagged' = [s \in Images |-> IF s \in some THEN newest[s] ELSE tagged[s]]
                /\ running' = [s \in Images |-> IF s \in some THEN newest[s] ELSE running[s]]
                /\ untold' = untold \cup some
    BY <1>5
  <2>2. /\ tagged' \in [Images -> ImageVersions] /\ running' \in [Images -> ImageVersions] /\ untold' \subseteq Images
        /\ \A s \in Images \ untold' : s \notin untold /\ tagged'[s] = tagged[s] /\ running'[s] = running[s]
    BY <1>1, <2>1, Zenon DEF UpdInv, UpdTypes
  <2>3. LocalInv'
    <3> SUFFICES ASSUME NEW s \in Images \ untold', running'[s] # 0 PROVE LocalOK(s)'
      BY DEF LocalInv
    <3>1. LocalOK(s)
      BY <2>2 DEF UpdInv, LocalInv
    <3>2. /\ TagAwaited(s)' <=> TagAwaited(s)
          /\ s \in HeldBy(filling)' <=> s \in HeldBy(filling)
          /\ s \notin HeldBy(updating)' /\ s \notin HeldBy(updating)
      BY <1>1, <1>5, VersionNumbers DEF TagAwaited, YetToRead, HeldBy
    <3> QED
      BY <1>1, <2>2, <3>1, <3>2 DEF LocalOK
  <2>4. StoppedInv'
    BY <1>5 DEF StoppedInv
  <2>5. UpdTypes'
    BY <1>1, <1>5, <2>2, VersionNumbers, Zenon DEF UpdInv, UpdTypes
  <2> QED
    BY <1>1, <1>2, <2>3, <2>4, <2>5 DEF UpdInv
<1> QED
  BY <1>3, <1>4, <1>5 DEF UpdateUp
LEMMA TellInspectsKeeps ==
  ASSUME UpdInv, NEW s \in Images, TellInspects(s)
  PROVE  UpdInv'
<1>1. /\ updating.at = "rows" /\ updating \in Writer
      /\ UNCHANGED <<newest, tagged, running, composeFile, appRow, imageRows, deploying, filling, uninstalling,
                     checking, overtaken, astray, revived>>
      /\ s \in updating.todo /\ \A t \in updating.todo : s <= t
  BY Zenon DEF TellInspects, UpdInv, UpdTypes, imageWorld
<1>2. RemoteInv' /\ RowsInv' /\ StoppedInv'
  BY <1>1, RemoteStands, ImageRowsStand, StoppedStands, Zenon DEF UpdInv
<1>3. PICK u : u = updating'
  OBVIOUS
<1>4. tagged[s] \in ImageVersions /\ updating.todo \subseteq Images /\ untold \subseteq Images
  BY <1>1, Zenon DEF UpdInv, UpdTypes, Writer
<1>5. /\ u \in Writer /\ untold \subseteq untold' /\ untold' \subseteq Images
      /\ \/ u.at = "write" /\ u.todo = updating.todo /\ u.digest = tagged[s] /\ untold' = untold
         \/ s \in untold' /\ u.at = "idle" /\ updating.todo = {s}
         \/ s \in untold' /\ u.at = "rows" /\ u.todo = updating.todo \ {s}
  <2>1. CASE updating' = [at |-> "write", todo |-> updating.todo, digest |-> tagged[s]] /\ untold' = untold
    BY <1>3, <1>4, <2>1 DEF Writer
  <2>2. CASE untold' = untold \cup {s} /\ updating.todo = {s} /\ updating' = IdleWriter
    BY <1>3, <1>4, <2>2, VersionNumbers
  <2>3. CASE untold' = untold \cup {s} /\ updating' = [updating EXCEPT !.todo = @ \ {s}]
    BY <1>1, <1>3, <1>4, <2>3 DEF Writer
  <2> QED
    BY <2>1, <2>2, <2>3 DEF TellInspects
<1>6. \A t \in Images : /\ t \in YetToRead(updating) <=> t \in updating.todo
                        /\ t \notin HeldBy(updating)
  BY <1>1, FirstInHand
<1>7. LocalInv'
  <2>1. \A t \in Images \ untold' :
           /\ t \in YetToRead(u) => t \in YetToRead(updating)
           /\ t \in HeldBy(u) => t \in YetToRead(updating) /\ u.digest = tagged[t]
           /\ t \in YetToRead(updating) => t \in YetToRead(u) \cup HeldBy(u)
    <3>1. CASE u.at = "write" /\ u.todo = updating.todo /\ u.digest = tagged[s]
      <4>1. \A t \in Images : /\ t \in YetToRead(u) <=> t \in updating.todo /\ t # s
                              /\ t \in HeldBy(u) <=> t = s
        BY <1>1, <1>5, <3>1, FirstInHand
      <4> QED
        BY <1>1, <1>6, <3>1, <4>1
    <3>2. CASE u.at = "idle" /\ updating.todo = {s} /\ s \in untold'
      BY <1>5, <1>6, <3>2, RestsIdle
    <3>3. CASE u.at = "rows" /\ u.todo = updating.todo \ {s} /\ s \in untold'
      BY <1>5, <1>6, <3>3, RestsIdle
    <3> QED
      BY <1>5, <3>1, <3>2, <3>3
  <2> QED
    BY <1>1, <1>3, <1>5, <1>6, <2>1, TellSteps, {} \in SUBSET Images DEF UpdInv
<1>8. UpdTypes'
  BY <1>1, <1>3, <1>5, Zenon DEF UpdInv, UpdTypes
<1> QED
  BY <1>1, <1>2, <1>7, <1>8 DEF UpdInv
LEMMA TellWritesKeeps ==
  ASSUME UpdInv, NEW s \in Images, TellWrites(s)
  PROVE  UpdInv'
<1>1. /\ updating.at = "write" /\ updating \in Writer /\ updating.todo \subseteq Images
      /\ UNCHANGED <<newest, tagged, running, composeFile, appRow, deploying, filling, uninstalling,
                     checking, overtaken, untold, astray, revived>>
      /\ s \in updating.todo /\ (\A t \in updating.todo : s <= t) /\ updating.digest \in ImageVersions
  BY Zenon DEF TellWrites, UpdInv, UpdTypes, imageWorld, imageHistory, Writer
<1>2. imageRows \in [Images -> ImageRow] /\ imageRows[s] \in ImageRow
  BY Zenon DEF UpdInv, UpdTypes
<1>3. PICK row : row = IF imageRows[s].on THEN UpdateLocal(imageRows[s], updating.digest) ELSE imageRows[s]
  OBVIOUS
<1>4. /\ row \in ImageRow /\ row.on = imageRows[s].on /\ row.remote = imageRows[s].remote
      /\ row.status = imageRows[s].status /\ (row.on => row.local = updating.digest)
  BY <1>1, <1>2, <1>3 DEF UpdateLocal, ImageRow
<1>5. imageRows' = [imageRows EXCEPT ![s] = row]
  BY <1>3 DEF TellWrites
<1>6. imageRows' \in [Images -> ImageRow] /\ imageRows'[s] = row /\ \A t \in Images : t # s => imageRows'[t] = imageRows[t]
  BY <1>2, <1>4, <1>5
<1>7. PICK u : u = updating'
  OBVIOUS
<1>8. /\ u \in Writer
      /\ \/ u.at = "idle" /\ updating.todo = {s}
         \/ u.at = "rows" /\ u.todo = updating.todo \ {s}
  <2>1. CASE updating.todo = {s}
    BY <1>7, <2>1, VersionNumbers DEF TellWrites
  <2>2. CASE updating.todo # {s}
    BY <1>1, <1>7, <2>2, VersionNumbers DEF TellWrites, Writer
  <2> QED
    BY <2>1, <2>2
<1>9. LocalInv'
  <2>1. \A t \in Images : /\ t \in YetToRead(updating) <=> t \in updating.todo /\ t # s
                          /\ t \in HeldBy(updating) <=> t = s
    BY <1>1, FirstInHand
  <2>2. \A t \in Images : t \notin HeldBy(u) /\ (t \in YetToRead(u) <=> t \in updating.todo /\ t # s)
    BY <1>8, RestsIdle
  <2>3. PICK wrote \in SUBSET Images : wrote = {s}
    OBVIOUS
  <2>4. /\ \A t \in Images : imageRows'[t] = imageRows[t] \/ t \in wrote
        /\ \A t \in wrote : imageRows'[t].on => imageRows'[t].local = updating.digest
    BY <1>4, <1>6, <2>3
  <2>5. \A t \in Images \ untold' :
          /\ t \in YetToRead(u) => t \in YetToRead(updating)
          /\ t \notin HeldBy(u)
          /\ t \in wrote /\ imageRows'[t].on => t \in HeldBy(updating) /\ imageRows'[t].local = updating.digest
          /\ t \in YetToRead(updating) \cup HeldBy(updating) => t \in YetToRead(u) \cup HeldBy(u) \cup wrote
    BY <2>1, <2>2, <2>3, <2>4
  <2> QED
    BY <1>1, <1>7, <1>8, <2>4, <2>5, TellSteps DEF UpdInv
<1>10. \A t \in Images : /\ imageRows'[t].on = imageRows[t].on /\ imageRows'[t].remote = imageRows[t].remote
                         /\ imageRows'[t].status = imageRows[t].status
  BY <1>4, <1>6
<1>11. RemoteInv'
  BY <1>1, <1>10 DEF UpdInv, RemoteInv, RowsRemote, CheckOK
<1>12. RowsInv'
  BY <1>1, <1>10, Zenon DEF UpdInv, RowsInv, FillLeft
<1>13. StoppedInv'
  BY <1>1, StoppedStands DEF UpdInv
<1>14. UpdTypes'
  BY <1>1, <1>6, <1>7, <1>8, Zenon DEF UpdInv, UpdTypes
<1> QED
  BY <1>1, <1>9, <1>11, <1>12, <1>13, <1>14 DEF UpdInv

-----------------------------------------------------------------------------
(* A check.                                                                *)

LEMMA CheckStands ==
  ASSUME UpdInv, UNCHANGED <<imageWorld, imageRows, deploying, filling, updating, uninstalling, imageHistory>>,
         NEW c \in ImageCheckers, NEW check \in Checker, CheckOK(check), checking' = [checking EXCEPT ![c] = check]
  PROVE  UpdInv'
<1>1. UNCHANGED <<newest, tagged, running, composeFile, appRow, imageRows, deploying, filling, updating, uninstalling,
                  overtaken, untold, astray, revived>>
  BY DEF imageWorld, imageHistory
<1>2. LocalInv' /\ RowsInv' /\ StoppedInv'
  BY <1>1, LocalStands, ImageRowsStand, StoppedStands, Zenon DEF UpdInv
<1>3. RowsRemote'
  BY <1>1 DEF UpdInv, RemoteInv, RowsRemote
<1>4. ASSUME NEW e \in ImageCheckers PROVE CheckOK(checking[e])'
  <2>1. CASE e = c
    <3>1. checking'[e] = check
      BY <2>1, Zenon DEF UpdInv, UpdTypes
    <3> QED
      BY <1>1, <3>1 DEF CheckOK
  <2>2. CASE e # c
    BY <1>1, <2>2, Zenon DEF UpdInv, UpdTypes, RemoteInv, CheckOK
  <2> QED
    BY <2>1, <2>2
<1>5. UpdTypes'
  BY <1>1, Zenon DEF UpdInv, UpdTypes
<1> QED
  BY <1>1, <1>2, <1>3, <1>4, <1>5 DEF UpdInv, RemoteInv
LEMMA IdleCheckerOK == CheckOK(IdleChecker) /\ CheckOK(IdleChecker)'
BY VersionNumbers DEF CheckOK
LEMMA RefreshBeginsKeeps ==
  ASSUME UpdInv, NEW c \in ImageCheckers, RefreshBegins(c)
  PROVE  UpdInv'
<1>1. PICK check : check = [IdleChecker EXCEPT !.at = "ask", !.todo = Tracked]
  OBVIOUS
<1>2. check \in Checker /\ check.got = IdleChecker.got /\ check.status = IdleChecker.status
  BY <1>1, VersionNumbers, Zenon DEF Checker, Tracked
<1>3. CheckOK(check)
  BY <1>2, VersionNumbers DEF CheckOK
<1> QED
  BY <1>1, <1>2, <1>3, CheckStands DEF RefreshBegins
LEMMA RegistryAnswersKeeps ==
  ASSUME UpdInv, NEW c \in ImageCheckers, NEW s \in Images, RegistryAnswers(c, s)
  PROVE  UpdInv'
<1>1. /\ checking[c] \in Checker /\ CheckOK(checking[c]) /\ newest[s] \in ImageVersions /\ newest[s] # 0
      /\ checking[c].got[s] = 0 /\ checking[c].status[s] = "ok"
      /\ UNCHANGED <<imageWorld, imageRows, deploying, filling, updating, uninstalling, imageHistory>>
  BY Zenon DEF RegistryAnswers, UpdInv, UpdTypes, RemoteInv
<1>2. CASE checking' = [checking EXCEPT ![c].got[s] = newest[s]]
  <2>1. PICK check : check = [checking[c] EXCEPT !.got[s] = newest[s]]
    OBVIOUS
  <2>2. PICK got : got = [checking[c].got EXCEPT ![s] = newest[s]]
    OBVIOUS
  <2>3. got \in [Images -> ImageVersions] /\ got[s] = newest[s] /\ \A t \in Images : t # s => got[t] = checking[c].got[t]
    BY <1>1, <2>2 DEF Checker
  <2>4. check \in Checker /\ check.got = got /\ check.status = checking[c].status /\ check.late = checking[c].late
    BY <1>1, <2>1, <2>2, <2>3 DEF Checker
  <2>5. CheckOK(check)
    BY <1>1, <2>3, <2>4 DEF CheckOK
  <2> QED
    BY <1>1, <1>2, <2>1, <2>4, <2>5, CheckStands
<1>3. ASSUME NEW answer \in {"error", "terminal"}, checking' = [checking EXCEPT ![c].status[s] = answer]
      PROVE  UpdInv'
  <2>1. PICK check : check = [checking[c] EXCEPT !.status[s] = answer]
    OBVIOUS
  <2>2. PICK status : status = [checking[c].status EXCEPT ![s] = answer]
    OBVIOUS
  <2>3. /\ status \in [Images -> CheckStatus] /\ status[s] = answer
        /\ \A t \in Images : t # s => status[t] = checking[c].status[t]
    BY <1>1, <2>2 DEF Checker, CheckStatus
  <2>4. check \in Checker /\ check.status = status /\ check.got = checking[c].got /\ check.late = checking[c].late
    BY <1>1, <2>1, <2>2, <2>3 DEF Checker
  <2>5. CheckOK(check)
    BY <1>1, <2>3, <2>4 DEF CheckOK
  <2> QED
    BY <1>1, <1>3, <2>1, <2>4, <2>5, CheckStands
<1> QED
  BY <1>2, <1>3 DEF RegistryAnswers
LEMMA CheckTimesOutKeeps ==
  ASSUME UpdInv, NEW c \in ImageCheckers, CheckTimesOut(c)
  PROVE  UpdInv'
BY CheckStands, IdleCheckerOK, VersionNumbers DEF CheckTimesOut
LEMMA CheckWritesKeeps ==
  ASSUME UpdInv, NEW c \in ImageCheckers, NEW s \in Images, CheckWrites(c, s)
  PROVE  UpdInv'
<1>1. PICK check : check = checking[c]
  OBVIOUS
<1>2. /\ check \in Checker /\ CheckOK(check) /\ check.got[s] \in ImageVersions /\ check.status[s] \in CheckStatus
      /\ check.got[s] # 0 \/ check.status[s] # "ok"
  BY <1>1, Zenon DEF CheckWrites, UpdInv, UpdTypes, RemoteInv, Checker
<1>3. /\ UNCHANGED <<newest, tagged, running, composeFile, appRow, deploying, filling, updating, uninstalling,
                     untold, astray, revived>>
      /\ overtaken' = IF ~imageRows[s].on THEN overtaken
                      ELSE IF s \in check.late THEN overtaken \cup {s} ELSE overtaken \ {s}
  BY <1>1 DEF CheckWrites, imageWorld
<1>4. imageRows \in [Images -> ImageRow] /\ imageRows[s] \in ImageRow /\ overtaken \subseteq Images
  BY Zenon DEF UpdInv, UpdTypes
<1>5. PICK row : row = UpdateRemote(imageRows[s], check.got[s], check.status[s])
  OBVIOUS
<1>6. /\ row \in ImageRow /\ row.on = imageRows[s].on /\ row.local = imageRows[s].local
      /\ row.on => row.remote = check.got[s] /\ row.status = check.status[s]
      /\ ~row.on => row = imageRows[s]
  BY <1>2, <1>4, <1>5 DEF UpdateRemote, ImageRow
<1>7. imageRows' = [imageRows EXCEPT ![s] = row]
  BY <1>1, <1>5 DEF CheckWrites
<1>8. imageRows' \in [Images -> ImageRow] /\ imageRows'[s] = row /\ \A t \in Images : t # s => imageRows'[t] = imageRows[t]
  BY <1>4, <1>6, <1>7
<1>9. LocalInv'
  BY <1>3, <1>6, <1>8, LocalStands DEF UpdInv
<1>10. RowsInv' /\ StoppedInv'
  BY <1>3, <1>6, <1>8, Zenon DEF UpdInv, RowsInv, StoppedInv, FillLeft
<1>11. RowsRemote'
  <2> SUFFICES ASSUME NEW t \in Images
               PROVE  /\ imageRows'[t].on /\ imageRows'[t].status = "ok" /\ t \notin overtaken'
                           => imageRows'[t].remote = newest[t]
                      /\ imageRows'[t].status # "ok" => imageRows'[t].remote = 0
    BY <1>3 DEF RowsRemote
  <2>1. CASE t = s /\ row.on
    <3>1. check.status[s] = "ok" /\ s \notin check.late => check.got[s] = newest[s]
      BY <1>2 DEF CheckOK
    <3>2. check.status[s] # "ok" => check.got[s] = 0
      BY <1>2 DEF CheckOK
    <3> QED
      BY <1>3, <1>6, <1>8, <2>1, <3>1, <3>2
  <2>2. CASE t # s \/ ~row.on
    <3>1. imageRows'[t] = imageRows[t] /\ (t \in overtaken' <=> t \in overtaken)
      BY <1>3, <1>6, <1>8, <2>2
    <3> QED
      BY <3>1 DEF UpdInv, RemoteInv, RowsRemote
  <2> QED
    BY <2>1, <2>2
<1>12. PICK left \in SUBSET Images : left = check.todo \ {s}
  BY <1>2 DEF Checker
<1>13. PICK next : next = IF left = {} THEN IdleChecker ELSE [check EXCEPT !.todo = left, !.got[s] = 0, !.status[s] = "ok"]
  OBVIOUS
<1>14. next \in Checker /\ CheckOK(next) /\ checking' = [checking EXCEPT ![c] = next]
  <2>1. checking' = [checking EXCEPT ![c] = next]
    BY <1>1, <1>12, <1>13 DEF CheckWrites
  <2>2. CASE left = {}
    BY <1>13, <2>1, <2>2, IdleCheckerOK, VersionNumbers
  <2>3. CASE left # {}
    <3>1. PICK got, status : got = [check.got EXCEPT ![s] = 0] /\ status = [check.status EXCEPT ![s] = "ok"]
      OBVIOUS
    <3>2. /\ got \in [Images -> ImageVersions] /\ got[s] = 0 /\ \A t \in Images : t # s => got[t] = check.got[t]
          /\ status \in [Images -> CheckStatus] /\ status[s] = "ok" /\ \A t \in Images : t # s => status[t] = check.status[t]
      BY <1>2, <3>1, VersionNumbers DEF Checker, CheckStatus
    <3>3. next \in Checker /\ next.got = got /\ next.status = status /\ next.late = check.late
      BY <1>2, <1>13, <2>3, <3>1, <3>2 DEF Checker
    <3>4. CheckOK(next)
      BY <1>2, <3>2, <3>3 DEF CheckOK
    <3> QED
      BY <2>1, <3>3, <3>4
  <2> QED
    BY <2>2, <2>3
<1>15. ASSUME NEW e \in ImageCheckers PROVE CheckOK(checking[e])'
  <2>1. CASE e = c
    <3>1. checking'[e] = next
      BY <1>14, <2>1, Zenon DEF UpdInv, UpdTypes
    <3> QED
      BY <1>3, <1>14, <3>1 DEF CheckOK
  <2>2. CASE e # c
    BY <1>3, <1>14, <2>2, Zenon DEF UpdInv, UpdTypes, RemoteInv, CheckOK
  <2> QED
    BY <2>1, <2>2
<1>16. overtaken' \subseteq Images /\ checking' \in [ImageCheckers -> Checker]
  BY <1>3, <1>4, <1>14, Zenon DEF UpdInv, UpdTypes
<1>17. UpdTypes'
  BY <1>3, <1>8, <1>16, Zenon DEF UpdInv, UpdTypes
<1> QED
  BY <1>3, <1>9, <1>10, <1>11, <1>15, <1>17 DEF UpdInv, RemoteInv

-----------------------------------------------------------------------------
(* An uninstall, and what happens by itself.                               *)

LEMMA UninstallKeeps ==
  ASSUME UpdInv, DeleteAppRow \/ \E wipe \in BOOLEAN : UninstallStack(wipe)
  PROVE  UpdInv'
<1>1. /\ UNCHANGED <<newest, tagged, running, composeFile, imageRows, deploying, filling, updating, checking,
                     overtaken, untold, astray>>
  BY Zenon DEF DeleteAppRow, UninstallStack, imageWorld, imageHistory
<1>2. LocalInv' /\ RemoteInv'
  BY <1>1, LocalStands, RemoteStands DEF UpdInv
<1>3. CASE DeleteAppRow
  <2>1. RowsInv' /\ StoppedInv' /\ UpdTypes'
    BY <1>1, <1>3, Zenon DEF DeleteAppRow, UpdInv, UpdTypes, RowsInv, StoppedInv
  <2> QED
    BY <1>1, <1>2, <2>1 DEF UpdInv
<1>4. CASE \E wipe \in BOOLEAN : UninstallStack(wipe)
  <2>1. uninstalling = "idle" /\ uninstalling' \in {"wipe", "down"} /\ UNCHANGED <<appRow, revived>>
    BY <1>4 DEF UninstallStack, imageWorld, imageHistory
  <2>2. RowsInv' /\ StoppedInv' /\ UpdTypes'
    BY <1>1, <2>1, ImageRowsStand, StoppedStands, Zenon DEF UpdInv, UpdTypes
  <2> QED
    BY <1>1, <1>2, <2>2 DEF UpdInv
<1> QED
  BY <1>3, <1>4
LEMMA StackDownKeeps ==
  ASSUME UpdInv, StackDown
  PROVE  UpdInv'
<1>1. /\ uninstalling \in {"down", "wipe"} /\ uninstalling' = "forget app"
      /\ UNCHANGED <<newest, appRow, imageRows, deploying, filling, updating, checking, overtaken, astray>>
      /\ TagMoves({s \in Images : tagged'[s] # tagged[s]})
  BY Zenon DEF StackDown
<1>2. /\ tagged \in [Images -> ImageVersions] /\ running \in [Images -> ImageVersions] /\ 0 \in ImageVersions /\ untold \subseteq Images
  BY VersionNumbers, Zenon DEF UpdInv, UpdTypes
<1>3. /\ running' \in [Images -> ImageVersions] /\ \A s \in Images : running'[s] = running[s] \/ running'[s] = 0
      /\ \/ revived' = TRUE
         \/ revived' \in BOOLEAN /\ (~revived' => \A s \in Images : running'[s] = 0)
  BY <1>2, Zenon DEF StackDown
<1>4. tagged' \in [Images -> ImageVersions] /\ composeFile' \in BOOLEAN
  BY <1>2, Zenon DEF StackDown, UpdInv, UpdTypes
<1>5. untold' \subseteq Images
  BY <1>1, <1>2, Zenon DEF TagMoves
<1>6. LocalInv'
  <2> SUFFICES ASSUME NEW s \in Images, s \notin untold', running'[s] # 0 PROVE LocalOK(s)'
    BY DEF LocalInv
  <2>1. s \notin untold /\ (tagged'[s] = tagged[s] \/ ~TagAwaited(s)) /\ running'[s] = running[s]
    BY <1>1, <1>3, Zenon DEF TagMoves, TagAwaited
  <2>2. LocalOK(s)
    BY <2>1 DEF UpdInv, LocalInv
  <2>3. /\ TagAwaited(s)' <=> TagAwaited(s)
        /\ s \in HeldBy(filling)' <=> s \in HeldBy(filling)
        /\ s \in HeldBy(updating)' <=> s \in HeldBy(updating)
    BY <1>1, Zenon DEF TagAwaited, YetToRead, HeldBy
  <2> QED
    BY <1>1, <2>1, <2>2, <2>3, Zenon DEF LocalOK
<1>7. RemoteInv' /\ RowsInv'
  BY <1>1, RemoteStands, ImageRowsStand, Zenon DEF UpdInv
<1>8. StoppedInv'
  BY <1>3 DEF StoppedInv
<1>9. UpdTypes'
  BY <1>1, <1>3, <1>4, <1>5, Zenon DEF UpdInv, UpdTypes
<1> QED
  BY <1>1, <1>6, <1>7, <1>8, <1>9, Zenon DEF UpdInv
LEMMA DeleteByAppKeeps ==
  ASSUME UpdInv, DeleteByApp
  PROVE  UpdInv'
<1>1. /\ uninstalling = "forget images" /\ uninstalling' = "idle"
      /\ UNCHANGED <<newest, tagged, running, composeFile, appRow, deploying, filling, updating, checking,
                     overtaken, untold, revived>>
  BY Zenon DEF DeleteByApp, imageWorld
<1>2. CASE imageRows' = [s \in Images |-> NoImage] /\ astray' = (deploying # "idle" \/ filling.at # "idle" \/ appRow)
  <2>1. \A s \in Images : ~imageRows'[s].on /\ imageRows'[s].status = "ok"
    BY <1>2, VersionNumbers
  <2>2. LocalInv'
    BY <1>1, <2>1, LocalStands, Zenon DEF UpdInv
  <2>3. RemoteInv'
    BY <1>1, <2>1, Zenon DEF UpdInv, RemoteInv, RowsRemote, CheckOK
  <2>4. RowsInv'
    BY <1>1, <1>2, <2>1, Zenon DEF RowsInv
  <2>5. StoppedInv'
    BY <1>1, StoppedStands, Zenon DEF UpdInv
  <2>6. UpdTypes'
    BY <1>1, <1>2, VersionNumbers, Zenon DEF UpdInv, UpdTypes
  <2> QED
    BY <1>1, <2>2, <2>3, <2>4, <2>5, <2>6, Zenon DEF UpdInv
<1>3. CASE astray' = TRUE /\ UNCHANGED imageRows
  <2>1. LocalInv' /\ RemoteInv' /\ StoppedInv'
    BY <1>1, <1>3, LocalStands, RemoteStands, StoppedStands, Zenon DEF UpdInv
  <2>2. RowsInv' /\ UpdTypes'
    BY <1>1, <1>3, Zenon DEF UpdInv, UpdTypes, RowsInv
  <2> QED
    BY <1>1, <2>1, <2>2, Zenon DEF UpdInv
<1> QED
  BY <1>2, <1>3, Zenon DEF DeleteByApp
LEMMA ReleasedKeeps ==
  ASSUME UpdInv, NEW s \in Images, Released(s)
  PROVE  UpdInv'
<1>1. /\ newest[s] < MaxVersion /\ newest' = [newest EXCEPT ![s] = @ + 1] /\ overtaken' = overtaken \cup {s}
      /\ UNCHANGED <<tagged, running, composeFile, appRow, imageRows, deploying, filling, updating, uninstalling,
                     untold, astray, revived>>
      /\ checking' = [c \in ImageCheckers |-> IF checking[c].got[s] # 0 THEN [checking[c] EXCEPT !.late = @ \cup {s}]
                                              ELSE checking[c]]
  BY DEF Released
<1>2. newest \in [Images -> ImageVersions \ {0}] /\ newest[s] + 1 \in ImageVersions \ {0}
  <2>1. newest \in [Images -> ImageVersions \ {0}] /\ newest[s] \in ImageVersions
    BY Zenon DEF UpdInv, UpdTypes
  <2> QED
    BY <1>1, <2>1, VersionNumbers DEF ImageVersions
<1>3. newest' \in [Images -> ImageVersions \ {0}] /\ \A t \in Images : t # s => newest'[t] = newest[t]
  BY <1>1, <1>2
<1>4. LocalInv' /\ RowsInv' /\ StoppedInv'
  BY <1>1, LocalStands, ImageRowsStand, StoppedStands, Zenon DEF UpdInv
<1>5. RowsRemote'
  BY <1>1, <1>3 DEF UpdInv, RemoteInv, RowsRemote
<1>6. ASSUME NEW c \in ImageCheckers PROVE checking'[c] \in Checker /\ CheckOK(checking[c])'
  <2>1. checking[c] \in Checker /\ CheckOK(checking[c])
    BY Zenon DEF UpdInv, UpdTypes, RemoteInv
  <2>2. PICK check : check = checking'[c]
    OBVIOUS
  <2>3. CASE checking[c].got[s] # 0
    <3>1. check = [checking[c] EXCEPT !.late = @ \cup {s}]
      BY <1>1, <2>2, <2>3
    <3>2. /\ check \in Checker /\ check.got = checking[c].got /\ check.status = checking[c].status
          /\ check.late = checking[c].late \cup {s}
      BY <2>1, <3>1 DEF Checker
    <3> QED
      BY <1>3, <2>1, <2>2, <3>2 DEF CheckOK
  <2>4. CASE checking[c].got[s] = 0
    <3>1. checking'[c] = checking[c]
      BY <1>1, <2>4
    <3>2. CheckOK(checking[c])'
      BY <1>3, <2>1, <2>4, <3>1 DEF CheckOK
    <3> QED
      BY <2>1, <3>1, <3>2
  <2> QED
    BY <2>3, <2>4
<1>7. UpdTypes'
  <2>1. checking' \in [ImageCheckers -> Checker]
    BY <1>1, <1>6
  <2> QED
    BY <1>1, <1>3, <2>1, Zenon DEF UpdInv, UpdTypes
<1> QED
  BY <1>1, <1>4, <1>5, <1>6, <1>7 DEF UpdInv, RemoteInv
LEMMA PulledElsewhereKeeps ==
  ASSUME UpdInv, NEW s \in Images, PulledElsewhere(s)
  PROVE  UpdInv'
<1>1. /\ tagged' = [tagged EXCEPT ![s] = newest[s]] /\ TagMoves({s})
      /\ UNCHANGED <<newest, running, composeFile, appRow, imageRows, deploying, filling, updating, uninstalling, checking,
                     overtaken, astray, revived>>
  BY DEF PulledElsewhere, imageWork
<1>2. tagged' \in [Images -> ImageVersions] /\ untold' \subseteq Images /\ \A t \in Images \ {s} : tagged'[t] = tagged[t]
  BY <1>1, Zenon DEF UpdInv, UpdTypes, TagMoves
<1>3. LocalInv'
  BY <1>1, <1>2, TagsMove DEF UpdInv
<1>4. RemoteInv' /\ RowsInv' /\ StoppedInv'
  BY <1>1, RemoteStands, ImageRowsStand, StoppedStands, Zenon DEF UpdInv
<1>5. UpdTypes'
  BY <1>1, <1>2, Zenon DEF UpdInv, UpdTypes
<1> QED
  BY <1>1, <1>3, <1>4, <1>5 DEF UpdInv
LEMMA ChecksAgeKeeps ==
  ASSUME UpdInv, ChecksAge
  PROVE  UpdInv'
<1>1. /\ UNCHANGED <<newest, tagged, running, composeFile, appRow, deploying, filling, updating, uninstalling, checking,
                     overtaken, untold, astray, revived>>
      /\ imageRows' = [s \in Images |-> [imageRows[s] EXCEPT !.fresh = FALSE]]
  BY DEF ChecksAge, imageWorld, imageWork, imageHistory
<1>2. \A s \in Images : imageRows[s] \in ImageRow
  BY Zenon DEF UpdInv, UpdTypes
<1>3. ASSUME NEW s \in Images
      PROVE  /\ imageRows'[s] \in ImageRow /\ imageRows'[s].on = imageRows[s].on /\ imageRows'[s].local = imageRows[s].local
             /\ imageRows'[s].remote = imageRows[s].remote /\ imageRows'[s].status = imageRows[s].status
  BY <1>1, <1>2 DEF ImageRow
<1>4. LocalInv'
  BY <1>1, <1>3, LocalStands DEF UpdInv
<1>5. RemoteInv'
  BY <1>1, <1>3 DEF UpdInv, RemoteInv, RowsRemote, CheckOK
<1>6. RowsInv'
  BY <1>1, <1>3, Zenon DEF UpdInv, RowsInv, FillLeft
<1>7. StoppedInv'
  BY <1>1, StoppedStands DEF UpdInv
<1>8. UpdTypes'
  <2>1. imageRows' \in [Images -> ImageRow]
    BY <1>1, <1>3
  <2> QED
    BY <1>1, <2>1, Zenon DEF UpdInv, UpdTypes
<1> QED
  BY <1>1, <1>4, <1>5, <1>6, <1>7, <1>8 DEF UpdInv
LEMMA UpdateCrashKeeps ==
  ASSUME UpdInv, UpdateCrash
  PROVE  UpdInv'
<1>1. /\ deploying' = "idle" /\ filling' = IdleWriter /\ updating' = IdleWriter /\ uninstalling' = "idle"
      /\ checking' = [c \in ImageCheckers |-> IdleChecker]
      /\ untold' = IF updating.at \in {"tell", "rows", "write"} \/ deploying = "register" \/ filling.at # "idle"
                   THEN Images ELSE untold
      /\ astray' = (astray \/ filling.at # "idle" \/ deploying = "register" \/ uninstalling = "forget images")
      /\ revived' = (revived \/ deploying # "idle")
      /\ UNCHANGED <<newest, tagged, running, composeFile, appRow, imageRows, overtaken>>
  BY Zenon DEF UpdateCrash, imageWorld
<1>2. LocalInv'
  <2> SUFFICES ASSUME NEW s \in Images, s \notin untold', running[s] # 0 PROVE LocalOK(s)'
    BY <1>1, Zenon DEF LocalInv
  <2>1. /\ updating.at \notin {"tell", "rows", "write"} /\ deploying # "register" /\ filling.at = "idle"
        /\ s \notin untold /\ updating \in Writer
    BY <1>1, Zenon DEF UpdInv, UpdTypes
  <2>2. LocalOK(s)
    BY <2>1 DEF UpdInv, LocalInv
  <2>3. ~TagAwaited(s) /\ s \notin HeldBy(filling) \cup HeldBy(updating)
    BY <2>1, Zenon DEF TagAwaited, YetToRead, HeldBy, UpdInv, UpdTypes
  <2>4. ~TagAwaited(s)' /\ s \notin HeldBy(filling)' \cup HeldBy(updating)'
    BY <1>1, VersionNumbers, Zenon DEF TagAwaited, YetToRead, HeldBy
  <2> QED
    BY <1>1, <2>2, <2>3, <2>4, Zenon DEF LocalOK
<1>3. RowsRemote'
  BY <1>1, Zenon DEF UpdInv, RemoteInv, RowsRemote
<1>4. ASSUME NEW c \in ImageCheckers PROVE CheckOK(checking[c])'
  <2>1. checking'[c] = IdleChecker
    BY <1>1, Zenon
  <2> QED
    BY <2>1, VersionNumbers DEF CheckOK
<1>5. RowsInv'
  <2> SUFFICES ASSUME ~astray, filling.at = "idle", deploying # "register", uninstalling # "forget images"
               PROVE  \A s \in Images : imageRows[s].on <=> appRow
    BY <1>1, VersionNumbers, Zenon DEF RowsInv
  <2> QED
    BY Zenon DEF UpdInv, RowsInv, FillLeft
<1>6. StoppedInv'
  BY <1>1, Zenon DEF UpdInv, StoppedInv
<1>7. UpdTypes'
  BY <1>1, VersionNumbers, Zenon DEF UpdInv, UpdTypes
<1> QED
  BY <1>1, <1>2, <1>3, <1>4, <1>5, <1>6, <1>7, Zenon DEF UpdInv, RemoteInv

-----------------------------------------------------------------------------
LEMMA UpdateStep ==
  ASSUME UpdInv, UpdateNext \/ UNCHANGED updateVars
  PROVE  UpdInv'
<1>1. CASE DeployStack \/ DeployPull \/ StackUp \/ RegisterStack \/ FillLists
  BY <1>1, DeployStackKeeps, DeployPullKeeps, StackUpKeeps, RegisterStackKeeps, FillListsKeeps
<1>2. CASE UpdateApp \/ UpdatePulls \/ UpdateUp \/ TellLists
  BY <1>2, UpdateAppKeeps, UpdatePullsKeeps, UpdateUpKeeps
<1>3. ASSUME NEW s \in Images, FillInspects(s) \/ FillWrites(s) \/ TellInspects(s) \/ TellWrites(s) PROVE UpdInv'
  BY <1>3, FillInspectsKeeps, FillWritesKeeps, TellInspectsKeeps, TellWritesKeeps
<1>4. ASSUME NEW s \in Images, Released(s) \/ PulledElsewhere(s) PROVE UpdInv'
  BY <1>4, ReleasedKeeps, PulledElsewhereKeeps
<1>5. ASSUME NEW c \in ImageCheckers, (\E force \in BOOLEAN : UpdateCheck(c, force)) \/ CheckTimesOut(c) PROVE UpdInv'
  BY <1>5, RefreshBeginsKeeps, CheckTimesOutKeeps DEF UpdateCheck
<1>6. ASSUME NEW c \in ImageCheckers, NEW s \in Images, RegistryAnswers(c, s) \/ CheckWrites(c, s) PROVE UpdInv'
  BY <1>6, RegistryAnswersKeeps, CheckWritesKeeps
<1>7. CASE (\E wipe \in BOOLEAN : UninstallStack(wipe)) \/ DeleteAppRow \/ StackDown \/ DeleteByApp
  BY <1>7, UninstallKeeps, StackDownKeeps, DeleteByAppKeeps
<1>8. CASE NightlyCheck
  BY <1>8, RefreshBeginsKeeps, AppUpdatesAssumption DEF NightlyCheck
<1>9. CASE ChecksAge \/ UpdateCrash
  BY <1>9, ChecksAgeKeeps, UpdateCrashKeeps
<1>10. CASE UNCHANGED updateVars
  <2>1. UNCHANGED <<newest, tagged, running, composeFile, appRow, imageRows, deploying, filling, updating, uninstalling,
                    checking, overtaken, untold, astray, revived>>
    BY <1>10 DEF updateVars, imageWorld, imageWork, imageHistory
  <2>2. LocalInv' /\ RemoteInv' /\ RowsInv' /\ StoppedInv'
    BY <2>1, LocalStands, RemoteStands, ImageRowsStand, StoppedStands, Zenon DEF UpdInv
  <2>3. UpdTypes'
    BY <2>1, Zenon DEF UpdInv, UpdTypes
  <2> QED
    BY <2>1, <2>2, <2>3 DEF UpdInv
<1>11. CASE UpdateNext
  BY <1>1, <1>2, <1>3, <1>4, <1>5, <1>6, <1>7, <1>8, <1>9, <1>11 DEF UpdateNext
<1> QED
  BY <1>10, <1>11
LEMMA UpdatesStayConsistent ==
  ASSUME UpdInv
  PROVE  UpdatesConsistent /\ UpdateTypeOK
<1>1. ASSUME Settled PROVE /\ \A s \in Images : ~TagAwaited(s) /\ s \notin HeldBy(filling) \cup HeldBy(updating)
                           /\ FillLeft = {} /\ uninstalling = "idle" /\ deploying = "idle"
  BY <1>1 DEF Settled, TagAwaited, YetToRead, HeldBy, FillLeft
<1>2. LocalIsWhatRuns
  BY <1>1 DEF LocalIsWhatRuns, UpdInv, LocalInv, LocalOK
<1>3. OffersAreTrue
  <2>1. ASSUME Settled, NEW s \in Images \ (untold \cup overtaken), appRow, imageRows[s].on, running[s] # 0,
               imageRows[s].status = "ok"
        PROVE  HasUpdate(imageRows[s]) <=> running[s] # newest[s]
    <3>1. imageRows[s].local = running[s]
      BY <1>2, <2>1 DEF LocalIsWhatRuns
    <3>2. imageRows[s].remote = newest[s] /\ newest[s] # 0
      BY <2>1, Zenon DEF UpdInv, RemoteInv, RowsRemote, UpdTypes
    <3> QED
      BY <3>1, <3>2 DEF HasUpdate
  <2>2. \A s \in Images : HasUpdate(imageRows[s]) => imageRows[s].status = "ok"
    BY DEF UpdInv, RemoteInv, RowsRemote, HasUpdate
  <2> QED
    BY <2>1, <2>2 DEF OffersAreTrue, InSummary
<1>4. TrackedIsInstalled
  <2>1. ASSUME Settled, ~astray PROVE \A s \in Images : imageRows[s].on <=> appRow
    BY <1>1, <2>1 DEF UpdInv, RowsInv
  <2>2. ASSUME Settled, ~revived, ~appRow PROVE \A s \in Images : running[s] = 0
    BY <1>1, <2>2 DEF UpdInv, StoppedInv
  <2> QED
    BY <2>1, <2>2 DEF TrackedIsInstalled
<1>5. /\ \A s \in Images : newest[s] \in 1..MaxVersion /\ {tagged[s], running[s]} \subseteq 0..MaxVersion
      /\ \A s \in Images : imageRows[s] \in ImageRow
      /\ filling.todo \subseteq Images /\ updating.todo \subseteq Images
  <2>1. ImageVersions \ {0} \subseteq 1..MaxVersion
    BY VersionNumbers DEF ImageVersions
  <2>2. /\ \A s \in Images : newest[s] \in ImageVersions \ {0} /\ tagged[s] \in ImageVersions /\ running[s] \in ImageVersions
        /\ \A s \in Images : imageRows[s] \in ImageRow
    BY Zenon DEF UpdInv, UpdTypes
  <2>3. filling.todo \subseteq Images /\ updating.todo \subseteq Images
    BY DEF UpdInv, UpdTypes, Writer
  <2> QED
    BY <2>1, <2>2, <2>3 DEF ImageVersions
<1>6. UpdateTypeOK
  BY <1>5, Zenon DEF UpdInv, UpdTypes, UpdateTypeOK, ImageRow, ImageVersions, CheckStatus
<1> QED
  BY <1>2, <1>3, <1>4, <1>6 DEF UpdatesConsistent

-----------------------------------------------------------------------------
\* What runs is what was asked for, under the user it was given and in the version it is said to be
\* (services.go, app_uids.go, maintenance_scheduler.go, docker_updates.go): a service that
\* lost its pool is not started before the pool is back and its wish survives, a uid is one app's
\* for ever, a task that is due in a minute starts in its pass, and the version remembered for an
\* app is the one its containers run; for any number of requests, faults and crashes.
THEOREM MachineryAgrees == DaemonSpec => []MachineryConsistent
<1> DEFINE Inv == /\ part = "services" => ServiceInv
                  /\ part = "identity" => UidInv
                  /\ part = "chores" => ChoreInv
                  /\ part = "updates" => UpdInv
<1>1. DaemonStart => Inv
  BY ServiceStarts, UidStarts, ChoresStart, UpdatesStart DEF DaemonStart
<1>2. Inv /\ [DaemonNext]_daemonVars => Inv'
  <2>1. ASSUME Inv, [DaemonNext]_daemonVars, part' = "services" PROVE ServiceInv'
    <3>1. part = "services" /\ ServiceInv /\ (ServiceNext \/ UNCHANGED serviceVars)
      BY <2>1 DEF DaemonNext, daemonVars
    <3> QED
      BY <3>1, ServiceStep
  <2>2. ASSUME Inv, [DaemonNext]_daemonVars, part' = "identity" PROVE UidInv'
    <3>1. part = "identity" /\ UidInv /\ (AppUidNext \/ UNCHANGED appUidVars)
      BY <2>2 DEF DaemonNext, daemonVars
    <3> QED
      BY <3>1, UidStep
  <2>3. ASSUME Inv, [DaemonNext]_daemonVars, part' = "chores" PROVE ChoreInv'
    <3>1. part = "chores" /\ ChoreInv /\ (MaintenanceNext \/ UNCHANGED maintenanceVars)
      BY <2>3 DEF DaemonNext, daemonVars
    <3> QED
      BY <3>1, ChoreStep
  <2>4. ASSUME Inv, [DaemonNext]_daemonVars, part' = "updates" PROVE UpdInv'
    <3>1. part = "updates" /\ UpdInv /\ (UpdateNext \/ UNCHANGED updateVars)
      BY <2>4 DEF DaemonNext, daemonVars
    <3> QED
      BY <3>1, UpdateStep
  <2> QED
    BY <2>1, <2>2, <2>3, <2>4
<1>3. Inv => MachineryConsistent
  BY ServicesStayConsistent, IdentitiesStayConsistent, ChoresStayConsistent, UpdatesStayConsistent
     DEF MachineryConsistent
<1> QED
  BY <1>1, <1>2, <1>3, PTL DEF DaemonSpec
=============================================================================
