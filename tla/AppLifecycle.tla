----------------------------- MODULE AppLifecycle -----------------------------
(***************************************************************************)
(* The apps that run in Docker: install, run of a single container,         *)
(* uninstall, the lock of the direct port, update as an asynchronous        *)
(* operation, the registry's own routes, the reconciler that reimports      *)
(* orphan containers and the weekly sweep of ghost rows.  Nothing takes a   *)
(* lock: each handler or goroutine is a worker that interleaves with all.   *)
(***************************************************************************)
EXTENDS Naturals, FiniteSets, FiniteSetsExt

CONSTANTS
  Apps,
  Singles,            \* the apps that are one container, without a compose file
  Fixed,              \* the apps whose port is well known and never reassigned
  Pool, Hard,         \* floating host ports, ports that NimOS keeps for itself
  Preferred,          \* the host port each app declares
  Workers, Ops,
  Passes,             \* the reconciler's own goroutine, and RunOnce of the administrator
  MaxRequests, MaxFailures,    \* bounds: a failure is a crash or a lost SQLite write
  None, Empty         \* nothing there; a stack directory without a compose file

ASSUME AppAssumption ==
  /\ Singles \subseteq Apps /\ Fixed \subseteq Apps \ Singles
  /\ Pool \subseteq Nat /\ Hard \subseteq Nat /\ Preferred \in [Apps -> Nat \ {0}]
  /\ Workers \subseteq Nat /\ Pool \cap Hard = {}
  /\ None \notin Nat \cup Ops /\ Empty # None

VARIABLES
  rows,      \* docker_apps, None without a row
  files,     \* stacks/<app>: None, Empty, or the ports of docker-compose.yml
  ctrs,      \* the containers of the app, running or not
  ops,       \* nimos_operations: the journal of updates
  proc,      \* what each worker is doing
  rcn,       \* the passes of DockerAppReconciler under way
  sweep,     \* a pass of ghostAppSweepTask
  lost,      \* the operations nobody will close
  asked, failures

vars == <<rows, files, ctrs, ops, proc, rcn, sweep, lost, asked, failures>>
counters == <<asked, failures>>

-----------------------------------------------------------------------------
Ports == Pool \cup {Preferred[a] : a \in Apps}
File == [port : Ports, locked : BOOLEAN]
\* port is None in the rows the reconciler makes up from labels.
Row == [deleting : BOOLEAN, port : Ports \cup {None}, locked : BOOLEAN, old : BOOLEAN]
Containers == [port : Ports, locked : BOOLEAN, up : BOOLEAN]

Active == {a \in Apps : rows[a] # None /\ ~rows[a].deleting}
Occupied(a) == {rows[b].port : b \in Active \ {a}} \ {None}
Composed(a) == files[a] \notin {None, Empty}

\* UPSERT: what it does not set (access_mode, installed_at) stays as it was.
Upserted(a, p) ==
  [rows EXCEPT ![a] = [deleting |-> FALSE, port |-> p,
                       locked |-> IF @ = None THEN FALSE ELSE @.locked,
                       old |-> IF @ = None THEN FALSE ELSE @.old]]
\* A write to SQLite that may fail; its error is logged and forgotten.
Fault == failures < MaxFailures /\ failures' = failures + 1
Write(new) == \/ rows' = new /\ UNCHANGED failures
              \/ Fault /\ UNCHANGED rows

\* resolveStackHostPorts for an app of one port.
PortFor(a) ==
  LET taken == Hard \cup Occupied(a)
      sticky == IF rows[a] = None THEN None ELSE rows[a].port IN
  IF a \in Fixed THEN Preferred[a]
  ELSE IF sticky # None /\ sticky \notin taken THEN sticky
  ELSE IF Preferred[a] \notin taken \/ Pool \subseteq taken THEN Preferred[a]
  ELSE Min(Pool \ taken)

AppJobs == [kind : {"install", "run", "uninstall", "access", "update", "rebuild"}, app : Apps,
         pc : {"compose", "up", "register", "down", "wipe", "forget", "rewrite", "rollback",
               "persist", "mark", "succeeded", "failed"},
         port : Ports, file : File \cup {None}, lock : BOOLEAN, op : Ops \cup {None}]
Idle == {w \in Workers : proc[w] = None}
\* Requests are handled by goroutines; here the first idle worker.
Accept(w) == /\ w \in Idle /\ w = Min(Idle)
             /\ asked < MaxRequests /\ asked' = asked + 1
Job(kind, a, pc) == [kind |-> kind, app |-> a, pc |-> pc, port |-> Preferred[a],
                     file |-> None, lock |-> FALSE, op |-> None]
Begin(w, job) == proc' = [proc EXCEPT ![w] = job]
Goto(w, pc) == proc' = [proc EXCEPT ![w].pc = pc]
End(w) == proc' = [proc EXCEPT ![w] = None]
At(w, pc) == proc[w] # None /\ proc[w].pc = pc
App(w) == proc[w].app

\* Docker publishes a host port once among the containers that run.
Bindable(a, p) == \A b \in Apps \ {a} : ctrs[b] # None /\ ctrs[b].up => ctrs[b].port # p
Started(a, f, up) == [ctrs EXCEPT ![a] = [port |-> f.port, locked |-> f.locked, up |-> up]]

-----------------------------------------------------------------------------
(* dockerStackDeploy.                                                      *)

\* The directory is made before the ports are looked at; a fixed port that
\* another app holds refuses the installation.
RequestInstall(w, a) ==
  /\ a \in Apps \ Singles /\ Accept(w)
  /\ files' = [files EXCEPT ![a] = IF @ = None THEN Empty ELSE @]
  /\ IF a \in Fixed /\ Preferred[a] \in Occupied(a)
     THEN UNCHANGED proc
     ELSE Begin(w, [Job("install", a, "compose") EXCEPT !.port = PortFor(a)])
  /\ UNCHANGED <<rows, ctrs, ops, rcn, sweep, lost, failures>>

\* os.WriteFile, its error ignored: without its directory there is no file.
WriteCompose(w) ==
  /\ At(w, "compose") /\ Goto(w, "up")
  /\ files' = [files EXCEPT ![App(w)] =
       IF @ = None THEN None ELSE [port |-> proc[w].port, locked |-> FALSE]]
  /\ UNCHANGED <<rows, ctrs, ops, rcn, sweep, lost, counters>>

\* docker compose up -d, or docker run of a single container.
Up(w) ==
  /\ At(w, "up")
  /\ LET a == App(w)
         f == IF a \in Singles THEN [port |-> proc[w].port, locked |-> FALSE] ELSE files[a] IN
     /\ f \notin {None, Empty} /\ Bindable(a, f.port)
     /\ a \in Singles => ctrs[a] = None                  \* the name is taken
     /\ ctrs' = Started(a, f, TRUE)
  /\ CASE proc[w].kind = "access" -> Goto(w, "persist")
       [] proc[w].kind = "update" -> Goto(w, "succeeded")
       [] proc[w].kind = "rebuild" -> End(w)
       [] OTHER -> Goto(w, "register")
  /\ UNCHANGED <<rows, files, ops, rcn, sweep, lost, counters>>

\* A mutant: a failed update returns without an error to its wrapper.
UpFailsSilently(w) ==
  /\ At(w, "up") /\ End(w)
  /\ UNCHANGED <<rows, files, ctrs, ops, rcn, sweep, lost, counters>>

\* The pull, the ports or Docker itself: containers may be left created.
UpFails(w) ==
  /\ At(w, "up")
  /\ \/ UNCHANGED ctrs
     \/ App(w) \notin Singles /\ Composed(App(w)) /\ ctrs' = Started(App(w), files[App(w)], FALSE)
  /\ CASE proc[w].kind = "access" -> Goto(w, "rollback")
       [] proc[w].kind = "update" -> Goto(w, "failed")
       [] OTHER -> End(w)
  /\ UNCHANGED <<rows, files, ops, rcn, sweep, lost, counters>>

Register(w) ==
  /\ At(w, "register") /\ Write(Upserted(App(w), proc[w].port)) /\ End(w)
  /\ UNCHANGED <<files, ctrs, ops, rcn, sweep, lost, asked>>

\* dockerContainerCreate asks no allocator.
RequestRun(w, a) ==
  /\ a \in Singles /\ Accept(w) /\ Begin(w, Job("run", a, "up"))
  /\ UNCHANGED <<rows, files, ctrs, ops, rcn, sweep, lost, failures>>

-----------------------------------------------------------------------------
(* dockerStackDelete, dockerContainerDelete: marked, then a goroutine.     *)

RequestUninstall(w, a, wipe) ==
  /\ Accept(w) /\ Begin(w, [Job("uninstall", a, "down") EXCEPT !.lock = wipe])
  /\ Write(IF rows[a] = None THEN rows ELSE [rows EXCEPT ![a].deleting = TRUE])
  /\ UNCHANGED <<files, ctrs, ops, rcn, sweep, lost>>

\* compose down needs the file; its error is not looked at.
Down(w) ==
  /\ At(w, "down")
  /\ \/ /\ App(w) \in Singles \/ Composed(App(w))
        /\ ctrs' = [ctrs EXCEPT ![App(w)] = None]
     \/ UNCHANGED ctrs
  /\ Goto(w, IF proc[w].lock /\ App(w) \notin Singles THEN "wipe" ELSE "forget")
  /\ UNCHANGED <<rows, files, ops, rcn, sweep, lost, counters>>

Wipe(w) ==
  /\ At(w, "wipe") /\ Goto(w, "forget")
  /\ files' = [files EXCEPT ![App(w)] = None]
  /\ UNCHANGED <<rows, ctrs, ops, rcn, sweep, lost, counters>>

Forget(w) ==
  /\ At(w, "forget") /\ Write([rows EXCEPT ![App(w)] = None]) /\ End(w)
  /\ UNCHANGED <<files, ctrs, ops, rcn, sweep, lost, asked>>

-----------------------------------------------------------------------------
(* setAppAccessModeWorker.                                                 *)

\* A mutant: the error of reading the compose file is not looked at.
RequestAccessUnread(w, a, m) ==
  /\ a \in Active \ Singles /\ Accept(w)
  /\ Begin(w, [Job("access", a, "rewrite") EXCEPT
                 !.lock = m, !.file = IF Composed(a) THEN files[a] ELSE None])
  /\ UNCHANGED <<rows, files, ctrs, ops, rcn, sweep, lost, failures>>

RequestAccess(w, a, m) ==
  /\ a \in Active \ Singles /\ Composed(a) /\ Accept(w)
  /\ Begin(w, [Job("access", a, IF files[a].locked = m THEN "persist" ELSE "rewrite")
               EXCEPT !.lock = m, !.file = files[a]])
  /\ UNCHANGED <<rows, files, ctrs, ops, rcn, sweep, lost, failures>>

\* What it writes derives from the file it read, whatever is there by now.
Rewrite(w) ==
  /\ At(w, "rewrite")
  /\ IF files[App(w)] = None THEN End(w) /\ UNCHANGED files
     ELSE /\ files' = [files EXCEPT ![App(w)] = [proc[w].file EXCEPT !.locked = proc[w].lock]]
          /\ Goto(w, "up")
  /\ UNCHANGED <<rows, ctrs, ops, rcn, sweep, lost, counters>>

\* The file as it was read, and up again whether or not that works.
Rollback(w) ==
  /\ At(w, "rollback") /\ End(w)
  /\ files' = [files EXCEPT ![App(w)] = IF @ = None THEN None ELSE proc[w].file]
  /\ \/ UNCHANGED ctrs
     \/ files'[App(w)] # None /\ Bindable(App(w), proc[w].file.port)
        /\ ctrs' = Started(App(w), proc[w].file, TRUE)
  /\ UNCHANGED <<rows, ops, rcn, sweep, lost, counters>>

\* With the context of the request: a client that left loses the write.
Persist(w) ==
  /\ At(w, "persist") /\ End(w)
  /\ \/ rows[App(w)] # None /\ rows' = [rows EXCEPT ![App(w)].locked = proc[w].lock]
     \/ UNCHANGED rows
  /\ UNCHANGED <<files, ctrs, ops, rcn, sweep, lost, counters>>

-----------------------------------------------------------------------------
(* dockerAppUpdate?async=true: runWorkerAsync around runAppUpdateWork.     *)

Open(o) == ops[o] \in {"pending", "running"}

\* Neither the row nor the compose file is asked for.
RequestUpdate(w, a, o) ==
  /\ a \in Apps \ Singles /\ ops[o] = None /\ Accept(w)
  /\ ops' = [ops EXCEPT ![o] = "pending"]
  /\ Begin(w, [Job("update", a, "mark") EXCEPT !.op = o])
  /\ UNCHANGED <<rows, files, ctrs, rcn, sweep, lost, failures>>

\* dockerContainerRebuild of a stack: up again, for the row and the file of now.
RequestRebuild(w, a) ==
  /\ a \in Apps \ Singles /\ rows[a] # None /\ Composed(a) /\ Accept(w)
  /\ Begin(w, Job("rebuild", a, "up"))
  /\ UNCHANGED <<rows, files, ctrs, ops, rcn, sweep, lost, failures>>

MarkRunning(w) ==
  /\ At(w, "mark") /\ Goto(w, "up")
  /\ \/ ops' = [ops EXCEPT ![proc[w].op] = IF @ = "pending" THEN "running" ELSE @]
        /\ UNCHANGED failures
     \/ Fault /\ UNCHANGED ops
  /\ UNCHANGED <<rows, files, ctrs, rcn, sweep, lost, asked>>

\* markFinished: never out of an outcome.  A lost write is only logged.
MarkFinished(w) ==
  /\ At(w, "succeeded") \/ At(w, "failed")
  /\ End(w)
  /\ \/ ops' = [ops EXCEPT ![proc[w].op] = IF Open(proc[w].op) THEN proc[w].pc ELSE @]
        /\ UNCHANGED <<failures, lost>>
     \/ Fault /\ lost' = lost \cup {proc[w].op} /\ UNCHANGED ops
  /\ UNCHANGED <<rows, files, ctrs, rcn, sweep, asked>>

-----------------------------------------------------------------------------
(* The registry's routes, docker stop and start.                           *)

RegistryPost(a) ==
  /\ asked < MaxRequests /\ asked' = asked + 1
  /\ rows' = Upserted(a, Preferred[a])
  /\ UNCHANGED <<files, ctrs, ops, proc, rcn, sweep, lost, failures>>

RegistryDelete(a) ==
  /\ asked < MaxRequests /\ asked' = asked + 1
  /\ rows' = [rows EXCEPT ![a] = None]
  /\ UNCHANGED <<files, ctrs, ops, proc, rcn, sweep, lost, failures>>

\* dockerContainerAction: stop, start.
Toggle(a) ==
  /\ asked < MaxRequests /\ asked' = asked + 1
  /\ ctrs[a] # None /\ (ctrs[a].up \/ Bindable(a, ctrs[a].port))
  /\ ctrs' = [ctrs EXCEPT ![a].up = ~@]
  /\ UNCHANGED <<rows, files, ops, proc, rcn, sweep, lost, failures>>

-----------------------------------------------------------------------------
(* DockerAppReconciler.Reconcile.                                          *)

\* docker ps -a by label; without containers there is nothing to do.
ListContainers(p) ==
  /\ rcn[p] = None /\ \E a \in Apps : ctrs[a] # None
  /\ rcn' = [rcn EXCEPT ![p] = [pc |-> "rows", apps |-> {a \in Apps : ctrs[a] # None}]]
  /\ UNCHANGED <<rows, files, ctrs, ops, proc, sweep, lost, counters>>

\* A mutant: what has a stack directory is taken for registered.
ListRowsOrStacks(p) ==
  /\ rcn[p] # None /\ rcn[p].pc = "rows"
  /\ LET orphans == {a \in rcn[p].apps : rows[a] = None /\ files[a] = None} IN
     rcn' = [rcn EXCEPT ![p] = IF orphans = {} THEN None ELSE [pc |-> "import", apps |-> orphans]]
  /\ UNCHANGED <<rows, files, ctrs, ops, proc, sweep, lost, counters>>

\* The rows, deleting ones included, so as not to reimport them.
ListRows(p) ==
  /\ rcn[p] # None /\ rcn[p].pc = "rows"
  /\ LET orphans == {a \in rcn[p].apps : rows[a] = None} IN
     rcn' = [rcn EXCEPT ![p] = IF orphans = {} THEN None ELSE [pc |-> "import", apps |-> orphans]]
  /\ UNCHANGED <<rows, files, ctrs, ops, proc, sweep, lost, counters>>

\* reimportOrphan: the row of before does not matter, whatever it is by now.
Reimport(p, a) ==
  /\ rcn[p] # None /\ rcn[p].pc = "import" /\ a \in rcn[p].apps
  /\ Write(Upserted(a, None))
  /\ rcn' = [rcn EXCEPT ![p] = IF @.apps = {a} THEN None ELSE [@ EXCEPT !.apps = rcn[p].apps \ {a}]]
  /\ UNCHANGED <<files, ctrs, ops, proc, sweep, lost, asked>>

-----------------------------------------------------------------------------
(* ghostAppSweepTask.Run; it is skipped while Docker or the pool is down.   *)

\* ListDockerApps and withinGhostGrace.
ListGhosts ==
  /\ sweep = None /\ \E a \in Active : rows[a].old
  /\ sweep' = [pc |-> "look", apps |-> {a \in Active : rows[a].old}]
  /\ UNCHANGED <<rows, files, ctrs, ops, proc, rcn, lost, counters>>

Looked(a) == IF sweep.apps = {a} THEN None ELSE [pc |-> "look", apps |-> sweep.apps \ {a}]

\* A mutant: a deleted row keeps the app known.
LookNowhere(a) ==
  /\ sweep # None /\ sweep.pc = "look" /\ a \in sweep.apps /\ sweep' = Looked(a)
  /\ UNCHANGED <<rows, files, ctrs, ops, proc, rcn, lost, counters>>

\* appHasAnyContainer, appHasStackDir.
LookFor(a) ==
  /\ sweep # None /\ sweep.pc = "look" /\ a \in sweep.apps
  /\ sweep' = IF ctrs[a] # None \/ files[a] # None THEN Looked(a)
              ELSE [pc |-> "delete", apps |-> sweep.apps, app |-> a]
  /\ UNCHANGED <<rows, files, ctrs, ops, proc, rcn, lost, counters>>

DeleteGhost(a) ==
  /\ sweep # None /\ sweep.pc = "delete" /\ a = sweep.app
  /\ Write([rows EXCEPT ![a] = None]) /\ sweep' = Looked(a)
  /\ UNCHANGED <<files, ctrs, ops, proc, rcn, lost, asked>>

\* An hour goes by.
Age(a) ==
  /\ rows[a] # None /\ ~rows[a].old /\ rows' = [rows EXCEPT ![a].old = TRUE]
  /\ UNCHANGED <<files, ctrs, ops, proc, rcn, sweep, lost, counters>>

\* Containers go on; nobody takes up what the workers left.
DaemonCrash ==
  /\ failures < MaxFailures /\ failures' = failures + 1
  /\ proc' = [w \in Workers |-> None] /\ rcn' = [p \in Passes |-> None] /\ sweep' = None
  /\ lost' = lost \cup {o \in Ops : Open(o)}
  /\ UNCHANGED <<rows, files, ctrs, ops, asked>>

-----------------------------------------------------------------------------
\* On a new installation the restored database may list apps that are not there.
Init ==
  /\ \E G \in SUBSET Apps :
     /\ \A a, b \in G : a # b => Preferred[a] # Preferred[b]
     /\ rows = [a \in Apps |-> IF a \notin G THEN None ELSE
          [deleting |-> FALSE, port |-> Preferred[a], locked |-> FALSE, old |-> TRUE]]
  /\ files = [a \in Apps |-> None]
  /\ ctrs = [a \in Apps |-> None] /\ ops = [o \in Ops |-> None]
  /\ proc = [w \in Workers |-> None] /\ rcn = [p \in Passes |-> None] /\ sweep = None /\ lost = {}
  /\ asked = 0 /\ failures = 0

Requests ==
  \/ \E w \in Workers, a \in Apps :
       \/ RequestInstall(w, a) \/ RequestRun(w, a) \/ RequestRebuild(w, a)
       \/ \E m \in BOOLEAN : RequestUninstall(w, a, m) \/ RequestAccess(w, a, m)
       \/ \E o \in Ops : RequestUpdate(w, a, o)
  \/ \E a \in Apps : RegistryPost(a) \/ RegistryDelete(a) \/ Toggle(a)

Work(w) == \/ WriteCompose(w) \/ Up(w) \/ UpFails(w) \/ Register(w)
           \/ Down(w) \/ Wipe(w) \/ Forget(w)
           \/ Rewrite(w) \/ Rollback(w) \/ Persist(w)
           \/ MarkRunning(w) \/ MarkFinished(w)
Reconcile(p) == ListContainers(p) \/ ListRows(p) \/ \E a \in Apps : Reimport(p, a)
Sweep == ListGhosts \/ \E a \in Apps : LookFor(a) \/ DeleteGhost(a)

Next == \/ Requests \/ \E w \in Workers : Work(w)
        \/ \E p \in Passes : Reconcile(p)
        \/ Sweep \/ (\E a \in Apps : Age(a)) \/ DaemonCrash

Spec == Init /\ [][Next]_vars

\* Subprocesses have deadlines, the reconciler and the sweep their timers.
Fairness == /\ WF_vars(\E w \in Workers : Work(w))
            /\ \A p \in Passes : WF_vars(Reconcile(p))
            /\ WF_vars(Sweep) /\ WF_vars(\E a \in Apps : Age(a))
FairSpec == Spec /\ Fairness

-----------------------------------------------------------------------------
\* Every variable has its type, and a rewrite of the ports has a file to write.
TypeOK ==
  /\ rows \in [Apps -> Row \cup {None}]
  /\ files \in [Apps -> File \cup {None, Empty}]
  /\ ctrs \in [Apps -> Containers \cup {None}]
  /\ ops \in [Ops -> {None, "pending", "running", "succeeded", "failed"}]
  /\ proc \in [Workers -> AppJobs \cup {None}]
  /\ \A w \in Workers : At(w, "rewrite") \/ At(w, "rollback") => proc[w].file # None
  /\ \A w \in Workers : At(w, "mark") \/ At(w, "succeeded") \/ At(w, "failed") => proc[w].op # None
  /\ \A p \in Passes : rcn[p] # None => rcn[p].apps \subseteq Apps /\ rcn[p].apps # {}
  /\ sweep # None => sweep.apps \subseteq Apps /\ sweep.apps # {}
  /\ lost \subseteq Ops

\* What the reconciler is for: containers that no row lists (a lost write, a
\* crash before it, a row deleted by hand or by the sweep) end up in the
\* registry again, unless they go away.
OrphansReimported == \A a \in Apps :
  (ctrs[a] # None /\ rows[a] = None) ~> (ctrs[a] = None \/ rows[a] # None)

\* What the sweep is for: a row with nothing behind it does not stay, whether
\* it came from a restored database or from a reconciler that read old lists.
Ghost(a) == a \in Active /\ ctrs[a] = None /\ files[a] = None
GhostsSwept == \A a \in Apps : Ghost(a) ~> ~Ghost(a)

\* The client that polls an update gets an outcome, unless the daemon died or
\* the write of the outcome was lost: nothing closes the operation then.
UpdatesEnd == \A o \in Ops : Open(o) ~> (~Open(o) \/ o \in lost)

\* An orphan is a "container vivo sin row" (docker_reconciler.go:158), and the
\* deleting rows are read so as not to reimport what is being uninstalled
\* (docker_reconciler.go:117): the code can break this.
ImportedIsAlive == [][\A p \in Passes, a \in Apps :
  Reimport(p, a) /\ rows[a] = None => ctrs[a] # None \/ rows'[a] = None]_vars
==============================================================================
