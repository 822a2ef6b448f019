------------------------------ MODULE Services ------------------------------
(***************************************************************************)
(* The registry of services, what the user asked of them, the pass of       *)
(* NimHealth that finds, forgets and judges them, the guard that keeps      *)
(* Docker off a pool that is not mounted, and a pool that is taken away     *)
(* while all of them run.                                                   *)
(***************************************************************************)
EXTENDS Naturals
CONSTANTS
  Instances,          \* registered services, of "docker", "torrent" and "ssh"
  Askers,             \* requests that start and stop services at one time
  MaxServiceAsked,    \* requests, and operations on the pool, in all
  MaxServiceMishaps   \* commands and queries that fail, daemon crashes, and what happens to
                      \* units and the pool by themselves

ASSUME ServicesAssumption ==
  /\ Instances \subseteq {"docker", "torrent", "ssh"} /\ Askers # {}
  /\ {MaxServiceAsked, MaxServiceMishaps} \subseteq Nat

VARIABLES
  registry,           \* rows of service_instances; the health of a row follows from its status
  up,                 \* units systemd has active
  poolListed, poolMounted, \* the pool: its row in SQLite, and what the kernel says
  barrier,            \* dockerAutoStartSuppressed
  removal,            \* an export or destruction of the pool
  sweep,               \* the pass of the observer
  asks,               \* requests in flight
  serviceAsked, serviceMishaps,
  wanted,             \* history: what the user last asked of each service and was persisted
  forgotten,          \* history: services whose row went, or was written anew
  guarded,            \* history: a guard looked, and ended, since Docker or the pool last changed
  calm                \* history: "told" once a pass saw no change from its beginning to its end

bounds == <<serviceAsked, serviceMishaps>>
histories == <<wanted, forgotten, guarded, calm>>
world == <<up, poolListed, poolMounted>>
serviceVars == <<registry, world, barrier, removal, sweep, asks, bounds, histories>>

Units == {"docker", "torrent", "ssh"}
OnPool == {"docker", "torrent"}
ServiceStatuses == {"running", "stopped", "starting", "stopping", "error", "unknown"}
Unregistered == [status |-> "absent", desired |-> "absent"]
Registered == {i \in Instances : registry[i] # Unregistered}
IdlePass == [at |-> "idle", known |-> {}, copy |-> [i \in {} |-> "unknown"]]
NoAsk == [at |-> "idle", of |-> "docker", again |-> FALSE]
NoRemoval == [at |-> "idle", was |-> {}]

ServiceInit ==
  /\ registry = [i \in Instances |-> Unregistered]
  /\ up = Units /\ poolListed = TRUE /\ poolMounted = TRUE
  /\ barrier = FALSE /\ removal = NoRemoval /\ sweep = IdlePass /\ asks = [a \in Askers |-> NoAsk]
  /\ serviceAsked = 0 /\ serviceMishaps = 0
  /\ wanted = [i \in Instances |-> "running"] /\ forgotten = {} /\ guarded = "no" /\ calm = "no"

-----------------------------------------------------------------------------
(* What the steps share.                                                   *)

Mishap == serviceMishaps < MaxServiceMishaps /\ serviceMishaps' = serviceMishaps + 1
NoMishap == UNCHANGED serviceMishaps
\* dbServiceUpdateStatus: nothing happens when the row is gone.
Marked(reg, i, s) == IF reg[i] = Unregistered THEN reg ELSE [reg EXCEPT ![i].status = s]
Intent(i, d) == IF registry[i] = Unregistered THEN registry ELSE [registry EXCEPT ![i].desired = d]
\* systemctl start or stop of units; TRUE for the caller when it worked.
Systemctl(units, start, works) ==
  /\ works \/ Mishap
  /\ works => NoMishap
  /\ up' = IF ~works THEN up ELSE IF start THEN up \cup units ELSE up \ units
\* What moved since the guard looked, and since the pass began.
Moved == guarded' = "no" /\ calm' = "no"
DockerMoved == IF up' # up \/ poolMounted' # poolMounted THEN Moved ELSE UNCHANGED <<guarded, calm>>

-----------------------------------------------------------------------------
(* Requests to stop, start and restart a service (services.go).            *)

Turn(a, at) == asks' = [asks EXCEPT ![a].at = at]
Answer(a) == asks' = [asks EXCEPT ![a] = NoAsk]
Request(a, i, at, again) ==
  /\ asks[a] = NoAsk /\ i \in Registered
  /\ serviceAsked < MaxServiceAsked /\ serviceAsked' = serviceAsked + 1
  /\ asks' = [asks EXCEPT ![a] = [at |-> at, of |-> i, again |-> again]]
  /\ calm' = "no"
  /\ UNCHANGED <<registry, world, barrier, removal, sweep, serviceMishaps, wanted, forgotten, guarded>>
AskStop(a, i) == Request(a, i, "stop", FALSE)
AskStart(a, i) == Request(a, i, "start", FALSE)
AskRestart(a, i) == Request(a, i, "stop", TRUE)

\* The intent to stop is written before anything is done.
StopIntent(a) ==
  LET i == asks[a].of IN
  /\ asks[a].at = "stop" /\ calm' = "no" /\ guarded' = "no"
  /\ \/ /\ i \in Registered /\ NoMishap
        /\ registry' = Marked(Intent(i, "stopped"), i, "stopping")
        /\ wanted' = [wanted EXCEPT ![i] = "stopped"] /\ forgotten' = forgotten \ {i}
        /\ Turn(a, "halt")
     \/ /\ i \notin Registered /\ NoMishap /\ (IF asks[a].again THEN Turn(a, "start") ELSE Answer(a))
        /\ UNCHANGED <<registry, wanted, forgotten>>
  /\ UNCHANGED <<world, barrier, removal, sweep, serviceAsked>>
StopUnit(a, works) ==
  LET i == asks[a].of IN
  /\ asks[a].at = "halt" /\ Systemctl({i}, FALSE, works) /\ Moved
  /\ registry' = IF works THEN registry ELSE Marked(registry, i, "error")
  /\ (IF asks[a].again THEN Turn(a, "start") ELSE Answer(a))
  /\ UNCHANGED <<poolListed, poolMounted, barrier, removal, sweep, serviceAsked, wanted, forgotten>>

\* The lock of the storage is held for all of a removal, so that a start waits for its end.
StartIntent(a) ==
  LET i == asks[a].of IN
  /\ asks[a].at = "start" /\ removal = NoRemoval /\ calm' = "no"
  /\ \/ /\ i \in Registered /\ Turn(a, "mounted")
        /\ registry' = Intent(i, "running")
        /\ wanted' = [wanted EXCEPT ![i] = "running"] /\ forgotten' = forgotten \ {i}
     \/ i \notin Registered /\ Answer(a) /\ UNCHANGED <<registry, wanted, forgotten>>
  /\ UNCHANGED <<world, barrier, removal, sweep, bounds, guarded>>
\* A service of the system has no pool, and the root of the pools is no mounted pool.
StartMounted(a) ==
  LET i == asks[a].of IN
  /\ asks[a].at = "mounted" /\ calm' = "no"
  /\ IF i \in OnPool /\ poolMounted
       THEN registry' = Marked(registry, i, "starting") /\ Turn(a, "run")
       ELSE registry' = Marked(registry, i, "error") /\ Answer(a)
  /\ UNCHANGED <<world, barrier, removal, sweep, bounds, wanted, forgotten, guarded>>
StartUnit(a, works) ==
  LET i == asks[a].of IN
  /\ asks[a].at = "run" /\ Systemctl({i}, TRUE, works) /\ Moved /\ Answer(a)
  /\ registry' = IF works THEN registry ELSE Marked(registry, i, "error")
  /\ UNCHANGED <<poolListed, poolMounted, barrier, removal, sweep, serviceAsked, wanted, forgotten>>

-----------------------------------------------------------------------------
(* The pass of the observer (nimhealth_observer.go, nimhealth_detectors.go, *)
(* reconcileServices).                                                      *)

Step(at) == sweep' = [sweep EXCEPT !.at = at]
\* docker.json keeps its path when its pool goes; the torrents follow the primary pool.
Detected == {i \in Instances : i = "torrent" => poolListed}
\* What the detectors find and the listing did not show is inserted or replaced: everything,
\* when the listing takes too long.
PassRegister(from, at) ==
  /\ sweep.at = from /\ Step(at)
  /\ \E known \in {Registered, {}} : LET new == Detected \ known IN
       /\ IF known = Registered THEN NoMishap ELSE Mishap
       /\ registry' = [i \in Instances |-> IF i \notin new THEN registry[i]
                                           ELSE [status |-> "unknown", desired |-> "running"]]
       /\ forgotten' = forgotten \cup (Registered \cap new)
  /\ calm' = IF from = "idle" THEN "begun" ELSE calm
  /\ UNCHANGED <<world, barrier, removal, asks, serviceAsked, wanted, guarded>>
\* Services of pools that are not listed are forgotten, all of them when the list fails.
PassForget ==
  /\ sweep.at = "pools"
  /\ \E listed \in BOOLEAN :
       /\ IF listed THEN NoMishap ELSE Mishap
       /\ sweep' = [sweep EXCEPT !.at = IF listed /\ poolListed THEN "copy" ELSE "drop"]
  /\ UNCHANGED <<registry, world, barrier, removal, asks, serviceAsked, histories>>
PassDrop ==
  /\ sweep.at = "drop" /\ Step("copy")
  /\ registry' = [i \in Instances |-> IF i \in OnPool THEN Unregistered ELSE registry[i]]
  /\ forgotten' = forgotten \cup (Registered \cap OnPool)
  /\ UNCHANGED <<world, barrier, removal, asks, bounds, wanted, guarded, calm>>
PassCopy ==
  /\ sweep.at = "copy"
  /\ sweep' = [at |-> "judge", known |-> Registered, copy |-> [i \in Registered |-> registry[i].status]]
  /\ UNCHANGED <<registry, world, barrier, removal, asks, bounds, histories>>
\* reconcileOneInstance writes only when what it finds is not what the copy of the row says.
Judgement(i) ==
  IF i \in OnPool /\ ~poolMounted THEN "error"
  ELSE IF i \in up THEN "running" ELSE "stopped"
PassJudge(i) ==
  /\ sweep.at = "judge" /\ i \in sweep.known
  /\ sweep' = [sweep EXCEPT !.known = @ \ {i}]
  /\ registry' = IF sweep.copy[i] = Judgement(i) THEN registry ELSE Marked(registry, i, Judgement(i))
  /\ UNCHANGED <<world, barrier, removal, asks, bounds, histories>>
PassJudged ==
  /\ sweep.at = "judge" /\ sweep.known = {} /\ sweep' = [IdlePass EXCEPT !.at = "look"]
  /\ calm' = IF calm = "begun" THEN "told" ELSE calm
  /\ UNCHANGED <<registry, world, barrier, removal, asks, bounds, wanted, forgotten, guarded>>

\* ensureDockerSafeOrStop: Docker does not write below a pool that is not mounted.
GuardLook ==
  /\ sweep.at = "look" /\ guarded' = (IF guarded = "no" THEN "looked" ELSE guarded)
  /\ Step(IF poolMounted THEN "barrier" ELSE "secure")
  /\ UNCHANGED <<registry, world, barrier, removal, asks, bounds, wanted, forgotten, calm>>
\* A stop that fails is not looked at; what the guard found stays to be done by the next sweep.
GuardEnd(stopped) == guarded' = IF guarded = "looked" /\ stopped THEN "done" ELSE "no"
GuardStop(from, works) ==
  /\ sweep.at = from /\ Systemctl({"docker"}, FALSE, works) /\ sweep' = IdlePass
  /\ GuardEnd(works) /\ calm' = IF up' = up THEN calm ELSE "no"
  /\ UNCHANGED <<registry, poolListed, poolMounted, barrier, removal, asks, serviceAsked, wanted, forgotten>>
\* A mutant: the guard does not ask what the user wanted.
AutoStartAlways == TRUE
\* ensureDockerStartedIfSafe: not while a pool is taken away, not against the user.
GuardBarrier ==
  /\ sweep.at = "barrier"
  /\ IF barrier THEN sweep' = IdlePass /\ guarded' = "no" ELSE Step("allowed") /\ UNCHANGED guarded
  /\ UNCHANGED <<registry, world, barrier, removal, asks, bounds, wanted, forgotten, calm>>
AutoStartAllowed == "docker" \in Registered => registry["docker"].desired = "running"
GuardAllowed ==
  /\ sweep.at = "allowed"
  /\ \/ NoMishap /\ AutoStartAllowed /\ Step("ready") /\ UNCHANGED guarded
     \/ /\ (IF AutoStartAllowed THEN Mishap ELSE NoMishap)
        /\ IF "docker" \in up THEN Step("refuse") /\ UNCHANGED guarded
           ELSE sweep' = IdlePass /\ GuardEnd(TRUE)
  /\ UNCHANGED <<registry, world, barrier, removal, asks, serviceAsked, wanted, forgotten, calm>>
GuardStart(works) ==
  /\ sweep.at = "ready" /\ sweep' = IdlePass
  /\ IF "docker" \in up THEN works /\ NoMishap /\ UNCHANGED up /\ GuardEnd(TRUE) /\ UNCHANGED calm
     ELSE Systemctl({"docker"}, TRUE, works) /\ Moved
  /\ UNCHANGED <<registry, poolListed, poolMounted, barrier, removal, asks, serviceAsked, wanted, forgotten>>
\* The boot looks once, and starts nothing.
BootGuard ==
  /\ sweep.at = "boot"
  /\ IF poolMounted THEN sweep' = IdlePass ELSE Step("secure")
  /\ guarded' = (IF ~poolMounted /\ guarded = "no" THEN "looked" ELSE guarded)
  /\ UNCHANGED <<registry, world, barrier, removal, asks, bounds, wanted, forgotten, calm>>

-----------------------------------------------------------------------------
(* A pool is exported or destroyed (storage_btrfs_pool.go).                *)

Remove(at) == removal' = [removal EXCEPT !.at = at]
RemovalBegins ==
  /\ removal = NoRemoval /\ poolListed
  /\ serviceAsked < MaxServiceAsked /\ serviceAsked' = serviceAsked + 1
  /\ removal' = [at |-> "quiesce", was |-> up \cap {"docker"}]
  /\ UNCHANGED <<registry, world, barrier, sweep, asks, serviceMishaps, histories>>
\* quiesceDockerForPool: the data root of Docker is in this pool when the pool is mounted or not.
RaiseBarrier ==
  /\ removal.at = "quiesce" /\ barrier' = TRUE /\ Remove("docker")
  /\ UNCHANGED <<registry, world, sweep, asks, bounds, histories>>
QuiesceDocker(works) ==
  /\ removal.at = "docker" /\ Systemctl({"docker"}, FALSE, works)
  /\ IF works THEN UNCHANGED barrier /\ Remove("verify") ELSE barrier' = FALSE /\ removal' = NoRemoval
  /\ UNCHANGED <<registry, poolListed, poolMounted, sweep, asks, serviceAsked, wanted, forgotten>>
  /\ DockerMoved
VerifyDocker ==
  /\ removal.at = "verify"
  /\ IF "docker" \in up THEN barrier' = FALSE /\ removal' = NoRemoval ELSE UNCHANGED barrier /\ Remove("torrent")
  /\ UNCHANGED <<registry, world, sweep, asks, bounds, histories>>
QuiesceTorrent(works) ==
  /\ removal.at = "torrent" /\ Systemctl({"torrent"}, FALSE, works) /\ ("torrent" \notin up => works)
  /\ removal' = IF works THEN [removal EXCEPT !.at = "unmount", !.was = @ \cup (up \cap {"torrent"})]
                ELSE [removal EXCEPT !.at = "release"]
  /\ UNCHANGED <<registry, poolListed, poolMounted, barrier, sweep, asks, serviceAsked, wanted, forgotten>>
  /\ DockerMoved
\* Mounts on top, or files that are open, keep the pool where it is.
UnmountPool ==
  /\ removal.at = "unmount"
  /\ \/ /\ up \cap OnPool = {} /\ NoMishap /\ poolMounted' = FALSE /\ Remove("rows")
     \/ /\ (IF up \cap OnPool = {} THEN Mishap ELSE NoMishap)
        /\ UNCHANGED poolMounted /\ Remove(IF poolMounted THEN "release" ELSE "rows")
  /\ UNCHANGED <<registry, up, poolListed, barrier, sweep, asks, serviceAsked, wanted, forgotten>>
  /\ DockerMoved
RemoveRow ==
  /\ removal.at = "rows"
  /\ \/ NoMishap /\ poolListed' = FALSE /\ Remove("services")
     \/ Mishap /\ UNCHANGED poolListed /\ Remove("release")
  /\ calm' = "no"
  /\ UNCHANGED <<registry, up, poolMounted, barrier, sweep, asks, serviceAsked,
                 wanted, forgotten, guarded>>
RemoveServices ==
  /\ removal.at = "services" /\ Remove("end")
  /\ registry' = [i \in Instances |-> IF i \in OnPool THEN Unregistered ELSE registry[i]]
  /\ forgotten' = forgotten \cup (Registered \cap OnPool) /\ calm' = "no"
  /\ UNCHANGED <<world, barrier, sweep, asks, bounds, wanted, guarded>>
\* The barrier goes; after a failure what ran is started, Docker only where it may be.
Release(works) ==
  /\ removal.at \in {"end", "release"} /\ barrier' = FALSE /\ removal' = NoRemoval
  /\ LET back == IF removal.at = "end" THEN {}
                 ELSE {u \in removal.was : u = "docker" => AutoStartAllowed /\ poolMounted} IN
     Systemctl(back, TRUE, works) /\ (back = {} => works)
  /\ UNCHANGED <<registry, poolListed, poolMounted, sweep, asks, serviceAsked, wanted, forgotten>>
  /\ DockerMoved

-----------------------------------------------------------------------------
(* What happens by itself.                                                 *)

Event == Mishap /\ Moved
\* A unit dies, or something else than the daemon starts it.
UnitChanges(u) ==
  /\ Event /\ up' = IF u \in up THEN up \ {u} ELSE up \cup {u}
  /\ UNCHANGED <<registry, poolListed, poolMounted, barrier, removal, sweep, asks, serviceAsked, wanted, forgotten>>
\* The disk goes, or the pool is mounted again, or imported.
PoolDrops ==
  /\ poolMounted /\ Event /\ poolMounted' = FALSE
  /\ UNCHANGED <<registry, up, poolListed, barrier, removal, sweep, asks, serviceAsked, wanted, forgotten>>
PoolReturns ==
  /\ ~poolMounted /\ removal = NoRemoval /\ Event /\ poolMounted' = TRUE /\ poolListed' = TRUE
  /\ UNCHANGED <<registry, up, barrier, removal, sweep, asks, serviceAsked, wanted, forgotten>>
DaemonRestarts ==
  /\ Mishap /\ barrier' = FALSE /\ removal' = NoRemoval /\ asks' = [a \in Askers |-> NoAsk]
  /\ sweep' = [IdlePass EXCEPT !.at = "boot"] /\ Moved
  /\ UNCHANGED <<registry, world, serviceAsked, wanted, forgotten>>

ServiceNext ==
  \/ \E a \in Askers, i \in Instances : AskStop(a, i) \/ AskStart(a, i) \/ AskRestart(a, i)
  \/ \E a \in Askers : StopIntent(a) \/ StartIntent(a) \/ StartMounted(a)
  \/ \E a \in Askers, works \in BOOLEAN : StopUnit(a, works) \/ StartUnit(a, works)
  \/ PassRegister("idle", "again") \/ PassRegister("again", "pools")
  \/ PassForget \/ PassDrop \/ PassCopy \/ PassJudged \/ \E i \in Instances : PassJudge(i)
  \/ GuardLook \/ GuardBarrier \/ GuardAllowed \/ BootGuard
  \/ \E works \in BOOLEAN : GuardStop("secure", works) \/ GuardStop("refuse", works) \/ GuardStart(works)
  \/ RemovalBegins \/ RaiseBarrier \/ VerifyDocker \/ UnmountPool \/ RemoveRow \/ RemoveServices
  \/ \E works \in BOOLEAN : QuiesceDocker(works) \/ QuiesceTorrent(works) \/ Release(works)
  \/ \E u \in Units : UnitChanges(u)
  \/ PoolDrops \/ PoolReturns \/ DaemonRestarts

ServiceSpec == ServiceInit /\ [][ServiceNext]_serviceVars

-----------------------------------------------------------------------------
(* What holds.                                                             *)

\* Every variable has its type.
ServiceTypeOK ==
  /\ \A i \in Instances : registry[i] = Unregistered
       \/ registry[i] \in [status : ServiceStatuses, desired : {"running", "stopped"}]
  /\ up \subseteq Units /\ poolListed \in BOOLEAN /\ poolMounted \in BOOLEAN /\ barrier \in BOOLEAN
  /\ sweep.known \subseteq Instances /\ DOMAIN sweep.copy \subseteq Instances
  /\ \A a \in Askers : asks[a].at \in {"idle", "stop", "halt", "start", "mounted", "run"}
  /\ forgotten \subseteq Instances /\ guarded \in {"no", "looked", "done"} /\ calm \in {"no", "begun", "told"}

\* What the user asked for last is what the row says, as long as the row was not deleted, nor
\* written anew by a pass that could not list it, since.
IntentKept == \A i \in Registered \ forgotten : wanted[i] = "stopped" => registry[i].desired = "stopped"
\* Once a guard looked and ended with nothing moving in between, Docker does not run on a pool
\* that is not mounted, nor against what the user asked for.
DockerGuarded ==
  guarded = "done" /\ "docker" \in up =>
    poolMounted /\ ("docker" \in Registered \ forgotten => wanted["docker"] = "running")
\* The barrier stands while Docker is kept away from a pool that goes, and never longer.
BarrierLifted == barrier <=> removal.at \notin {"idle", "quiesce"}
\* A pass from whose beginning to whose end nothing moved leaves each service as it is, and
\* no service of a pool that is gone.
StatusTold ==
  calm = "told" => /\ \A i \in Registered : registry[i].status = Judgement(i)
                   /\ ~poolListed => Registered \cap OnPool = {}
ServicesConsistent == IntentKept /\ DockerGuarded /\ BarrierLifted /\ StatusTold
=============================================================================
