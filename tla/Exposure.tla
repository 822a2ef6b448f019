------------------------------ MODULE Exposure ------------------------------
(***************************************************************************)
(* The exposed apps: their rows with the optimistic lock of desired_        *)
(* generation, the singleton configuration, and the pass of                 *)
(* NetworkExposureReconciler, which drives Caddy (listen ports, routes,     *)
(* TLS) and the firewall of the host (ufw).                                 *)
(***************************************************************************)
EXTENDS NetworkBounds

CONSTANTS
  Apps, Clients,      \* the apps (app_id is UNIQUE); browsers of administrators
  Routes,             \* what routing and upstream of a row amount to
  PortChoices,        \* sets of ports http_port and https_port are set to
  DefaultPorts,       \* 80 and 443
  SSH                 \* port 22

Ports == UNION PortChoices
ASSUME ExposureAssumption ==
  DefaultPorts \in PortChoices /\ SSH \in Ports /\ Routes # {} /\ None \notin Apps

VARIABLES
  cfg,        \* network_exposure_config: enabled and the ports
  managed,    \* fw_managed_ports
  rows,       \* network_exposed_apps, None without a row
  view,       \* what each client read, and the update its handler composes
  token,      \* the DDNS entry of the base domain has a token
  caddy,      \* the configuration Caddy runs
  ufw,        \* active, and the ports with an ALLOW rule
  pass,       \* the pass of the reconciler
  opened, leaked, wanted    \* history: rules ufw got from NimOS; those whose record a
                            \* fault took; ports that were ever configured

db == <<cfg, rows>>
firewall == <<ufw, managed, opened, leaked>>
exposureVars == <<db, view, token, caddy, firewall, pass, wanted, bounds>>

-----------------------------------------------------------------------------
ExposedApp == [id : Nat, desired : Nat, applied : Nat, on : BOOLEAN, route : Routes]
Config == [on : BOOLEAN, ports : PortChoices]
Listed == [id : Nat, desired : Nat, on : BOOLEAN, route : Routes]    \* what a client sees of an app
Edit == [on : BOOLEAN, route : Routes]
ASSUME AbsenceAssumption == None \notin ExposedApp \cup Config \cup Listed \cup Edit

\* The base configuration of caddy.json, which every start of Caddy loads.
Base == [ports |-> DefaultPorts, routes |-> [a \in Apps |-> None], redirect |-> FALSE, tls |-> FALSE]
Resting == [pc |-> "idle", cfg |-> None, managed |-> {}, rows |-> [a \in Apps |-> None],
            ours |-> {}, tls |-> FALSE, todo |-> {}]
NoView == [pc |-> "idle", app |-> None, row |-> None, new |-> None, cfg |-> None]

ExposureFault == Fault(MaxExposureFaults)
Doing(pc) == pass.pc = pc
IsPending(r) == r # None /\ r.applied < r.desired
\* buildAppRoutes: the enabled apps, and none when exposure is off.
Served(c, rs) == [a \in Apps |-> IF c.on /\ rs[a] # None /\ rs[a].on THEN rs[a].route ELSE None]

\* A new installation, or a daemon that starts where it converged.
ExposureInit ==
  /\ \/ /\ cfg = [on |-> FALSE, ports |-> DefaultPorts] /\ managed = {} /\ caddy = Base
        /\ rows = [a \in Apps |-> None] /\ ufw = [active |-> TRUE, rules |-> {SSH}]
     \/ /\ cfg = [on |-> TRUE, ports |-> DefaultPorts] /\ managed = DefaultPorts
        /\ rows = [a \in Apps |-> [id |-> 0, desired |-> 1, applied |-> 1, on |-> TRUE,
                                 route |-> CHOOSE r \in Routes : TRUE]]
        /\ caddy = [Base EXCEPT !.routes = Served(cfg, rows)]
        /\ ufw = [active |-> TRUE, rules |-> {SSH} \cup DefaultPorts]
  /\ view = [c \in Clients |-> NoView] /\ token = FALSE /\ pass = Resting
  /\ opened = managed /\ leaked = {} /\ wanted = DefaultPorts
  /\ BoundsInit

-----------------------------------------------------------------------------
(* The API: a client edits what it saw.                                    *)

\* Clients have no identity: the first that is free.
Seen(a) == [id |-> rows[a].id, desired |-> rows[a].desired,
            on |-> rows[a].on, route |-> rows[a].route]
Free(c) == view[c].pc = "idle" /\ c = CHOOSE d \in Clients : view[d].pc = "idle"

\* exposureListHTTP: the rows, with the generation If-Match will carry.
ReadApp(c, a) ==
  /\ Free(c) /\ rows[a] # None /\ asked < MaxRequests
  /\ view' = [view EXCEPT ![c].pc = "seen", ![c].app = a, ![c].row = Seen(a)]
  /\ UNCHANGED <<db, token, caddy, firewall, pass, wanted, bounds>>

\* exposureCreateHTTP: app_id is UNIQUE, the id is new.
CreateExposedApp(a, on, route) ==
  /\ rows[a] = None /\ Request
  /\ rows' = [rows EXCEPT ![a] = [id |-> asked', desired |-> 1, applied |-> 0,
                                  on |-> on, route |-> route]]
  /\ UNCHANGED <<cfg, view, token, caddy, firewall, pass, wanted, faults>>

\* exposureUpdateHTTP: the row as it is now, by its id, with the fields of the request.
ComposeUpdate(c) ==
  /\ view[c].pc = "seen"
  /\ LET row == rows[view[c].app] IN
     IF row = None \/ row.id # view[c].row.id
     THEN view' = [view EXCEPT ![c] = NoView]
     ELSE \E new \in Edit :
            /\ (new.on = row.on) # (new.route = row.route)
            /\ view' = [view EXCEPT ![c].pc = "save", ![c].new = new]
  /\ UNCHANGED <<db, token, caddy, firewall, pass, wanted, bounds>>

\* Mutant: without the generation.
MatchesId(c) == rows[view[c].app] # None /\ rows[view[c].app].id = view[c].row.id

\* WHERE id = ? AND desired_generation = ?
Matches(c) == LET row == rows[view[c].app] IN
  row # None /\ row.id = view[c].row.id /\ row.desired = view[c].row.desired
Edited(row, new) == [row EXCEPT !.on = new.on, !.route = new.route, !.desired = @ + 1]
UpdateExposedAppConfig(c) ==
  /\ view[c].pc = "save"
  /\ IF Matches(c)
     THEN Request /\ rows' = [rows EXCEPT ![view[c].app] = Edited(@, view[c].new)]
     ELSE UNCHANGED <<rows, asked>>
  /\ view' = [view EXCEPT ![c] = NoView]
  /\ UNCHANGED <<cfg, token, caddy, firewall, pass, wanted, faults>>

DeleteExposedApp(c) ==
  /\ view[c].pc = "seen"
  /\ IF Matches(c) THEN Request /\ rows' = [rows EXCEPT ![view[c].app] = None]
                   ELSE UNCHANGED <<rows, asked>>
  /\ view' = [view EXCEPT ![c] = NoView]
  /\ UNCHANGED <<cfg, token, caddy, firewall, pass, wanted, faults>>

\* exposureConfigPutHTTP: the singleton is read, changed and written without a lock;
\* fw_managed_ports is not written.
ComposeConfig(c) ==
  /\ Free(c) /\ asked < MaxRequests
  /\ \E new \in {[cfg EXCEPT !.on = ~@]} \cup {[cfg EXCEPT !.ports = p] : p \in PortChoices \ {cfg.ports}} :
       view' = [view EXCEPT ![c].pc = "config", ![c].cfg = new]
  /\ UNCHANGED <<db, token, caddy, firewall, pass, wanted, bounds>>
SaveExposureConfig(c) ==
  /\ view[c].pc = "config" /\ Request /\ cfg' = view[c].cfg /\ wanted' = wanted \cup cfg'.ports
  /\ view' = [view EXCEPT ![c] = NoView]
  /\ UNCHANGED <<rows, token, caddy, firewall, pass, faults>>

-----------------------------------------------------------------------------
(* The pass of the reconciler.                                             *)

ReadConfig ==
  /\ Doing("idle") /\ pass' = [pass EXCEPT !.pc = "list", !.cfg = cfg, !.managed = managed]
  /\ UNCHANGED <<db, view, token, caddy, firewall, wanted, bounds>>
ListApps ==
  /\ Doing("list") /\ pass' = [pass EXCEPT !.pc = "listen", !.rows = rows]
  /\ UNCHANGED <<db, view, token, caddy, firewall, wanted, bounds>>

\* A call to Caddy's API: done, or answered with an error, done or not.
Calls(new, next, failed) ==
  \/ caddy' = new /\ pass' = next /\ UNCHANGED faults
  \/ caddy' \in {caddy, new} /\ pass' = failed /\ ExposureFault

SyncListen ==
  /\ Doing("listen")
  /\ LET next == [pass EXCEPT !.pc = "wall"] IN
     Calls([caddy EXCEPT !.ports = pass.cfg.ports], next, next)
  /\ UNCHANGED <<db, view, token, firewall, wanted, asked>>

\* EnsurePorts: allow what is missing, delete what was ours and is not wanted any
\* more, never SSH.  A command that fails stops it where it is.
Missing == pass.cfg.ports \ ufw.rules
\* Mutant: without the guard of SSH.
StaleAny == (pass.managed \ pass.cfg.ports) \cap ufw.rules

Stale == ((pass.managed \ pass.cfg.ports) \cap ufw.rules) \ {SSH}
\* Mutant: a change is what was deleted.
NowIfDeleted(ours) == IF Stale = {} THEN "routes" ELSE "persist"

Now(ours) == IF ours = pass.managed THEN "routes" ELSE "persist"
EnsurePorts ==
  /\ Doing("wall")
  /\ \/ /\ ~ufw.active /\ pass' = [pass EXCEPT !.pc = Now({}), !.ours = {}]
        /\ UNCHANGED <<ufw, opened, leaked, faults>>
     \/ /\ ufw.active /\ pass' = [pass EXCEPT !.pc = Now(pass.cfg.ports), !.ours = pass.cfg.ports]
        /\ ufw' = [ufw EXCEPT !.rules = (@ \cup Missing) \ Stale]
        /\ opened' = (opened \cup Missing) \ Stale
        /\ UNCHANGED <<leaked, faults>>
     \/ /\ ufw.active /\ ExposureFault /\ pass' = [pass EXCEPT !.pc = "routes"]
        /\ \E allowed \in SUBSET Missing, deleted \in SUBSET Stale :
             /\ deleted # {} => allowed = Missing
             /\ ufw' = [ufw EXCEPT !.rules = (@ \cup allowed) \ deleted]
             /\ opened' = (opened \cup allowed) \ deleted
             /\ leaked' = leaked \cup (allowed \ managed)
  /\ UNCHANGED <<db, managed, view, token, caddy, wanted, asked>>

\* UpdateFWManagedPorts; its failure is an event, no more.
PersistPorts ==
  /\ Doing("persist") /\ pass' = [pass EXCEPT !.pc = "routes"]
  /\ \/ /\ managed' = pass.ours /\ UNCHANGED faults
        /\ leaked' = (leaked \cup (IF pass.ours = {} THEN opened ELSE {})) \ pass.ours
     \/ ExposureFault /\ leaked' = leaked \cup (opened \ managed) /\ UNCHANGED managed
  /\ UNCHANGED <<db, view, token, caddy, ufw, opened, wanted, asked>>

\* Mutant: the routes are only sent when some app is pending.
SyncAppRoutesIfPending ==
  /\ Doing("routes")
  /\ IF \E a \in Apps : IsPending(pass.rows[a])
     THEN Calls([caddy EXCEPT !.routes = Served(pass.cfg, pass.rows), !.redirect = token],
                [pass EXCEPT !.pc = "tls", !.tls = token], Resting)
     ELSE pass' = [pass EXCEPT !.pc = "tls", !.tls = token] /\ UNCHANGED <<caddy, faults>>
  /\ UNCHANGED <<db, view, token, firewall, wanted, asked>>

\* The token of the DDNS entry decides certificates and redirection; the routes
\* replace all those of before.  Without them nothing is marked.
SyncAppRoutes ==
  /\ Doing("routes")
  /\ Calls([caddy EXCEPT !.routes = Served(pass.cfg, pass.rows), !.redirect = token],
           [pass EXCEPT !.pc = "tls", !.tls = token], Resting)
  /\ UNCHANGED <<db, view, token, firewall, wanted, asked>>

Marking == LET todo == {a \in Apps : IsPending(pass.rows[a])} IN
  IF todo = {} THEN Resting ELSE [pass EXCEPT !.pc = "mark", !.todo = todo]
SyncTLS ==
  /\ Doing("tls") /\ Calls([caddy EXCEPT !.tls = pass.tls], Marking, Marking)
  /\ UNCHANGED <<db, view, token, firewall, wanted, asked>>

\* MarkExposedAppApplied: the generation there is now, of what was pending in the list.
MarkExposedAppApplied(a) ==
  /\ Doing("mark") /\ a \in pass.todo
  /\ pass' = IF pass.todo = {a} THEN Resting ELSE [pass EXCEPT !.todo = @ \ {a}]
  /\ \/ /\ UNCHANGED faults
        /\ rows' = IF rows[a] # None /\ rows[a].id = pass.rows[a].id
                   THEN [rows EXCEPT ![a].applied = rows[a].desired] ELSE rows
     \/ ExposureFault /\ UNCHANGED rows
  /\ UNCHANGED <<cfg, view, token, caddy, firewall, wanted, asked>>

-----------------------------------------------------------------------------
(* What happens around.                                                    *)

\* The DDNS entry of the base domain is created, or deleted with its token.
TokenChanges ==
  /\ Request /\ token' = ~token
  /\ UNCHANGED <<db, view, caddy, firewall, pass, wanted, faults>>
CaddyRestarts ==
  /\ ExposureFault /\ caddy' = Base
  /\ UNCHANGED <<db, view, token, firewall, pass, wanted, asked>>
\* ufw enable, ufw disable: the rules stay.
UfwSwitched ==
  /\ ExposureFault /\ ufw' = [ufw EXCEPT !.active = ~@]
  /\ UNCHANGED <<db, managed, opened, leaked, view, token, caddy, pass, wanted, asked>>
UserAllows(p) ==
  /\ Request /\ p \notin ufw.rules /\ ufw' = [ufw EXCEPT !.rules = @ \cup {p}]
  /\ UNCHANGED <<db, managed, opened, leaked, view, token, caddy, pass, wanted, faults>>
ExposureCrash ==
  /\ ExposureFault /\ pass' = Resting /\ view' = [c \in Clients |-> NoView]
  /\ leaked' = leaked \cup (IF Doing("persist") THEN opened \ managed ELSE {})
  /\ UNCHANGED <<db, token, caddy, ufw, managed, opened, wanted, asked>>

-----------------------------------------------------------------------------
Reconcile ==
  \/ ReadConfig \/ ListApps \/ SyncListen \/ EnsurePorts \/ PersistPorts
  \/ SyncAppRoutes \/ SyncTLS \/ \E a \in Apps : MarkExposedAppApplied(a)
ExposureNext ==
  \/ \E c \in Clients, a \in Apps : ReadApp(c, a)
  \/ \E a \in Apps, on \in BOOLEAN, route \in Routes : CreateExposedApp(a, on, route)
  \/ \E c \in Clients : \/ ComposeUpdate(c) \/ UpdateExposedAppConfig(c) \/ DeleteExposedApp(c)
                        \/ ComposeConfig(c) \/ SaveExposureConfig(c)
  \/ Reconcile
  \/ TokenChanges \/ CaddyRestarts \/ UfwSwitched \/ (\E p \in Ports : UserAllows(p)) \/ ExposureCrash

\* The scheduler runs the reconciler again and again; a pass that runs goes on.
ExposureFairness == WF_exposureVars(Reconcile)
ExposureSpec == ExposureInit /\ [][ExposureNext]_exposureVars

-----------------------------------------------------------------------------
ExposureTypeOK ==
  /\ cfg \in Config /\ managed \subseteq Ports /\ rows \in [Apps -> ExposedApp \cup {None}]
  /\ view \in [Clients -> [pc : {"idle", "seen", "save", "config"}, app : Apps \cup {None},
                           row : Listed \cup {None}, new : Edit \cup {None}, cfg : Config \cup {None}]]
  /\ token \in BOOLEAN
  /\ caddy \in [ports : PortChoices, routes : [Apps -> Routes \cup {None}],
                redirect : BOOLEAN, tls : BOOLEAN]
  /\ ufw \in [active : BOOLEAN, rules : SUBSET Ports]
  /\ pass \in [pc : {"idle", "list", "listen", "wall", "persist", "routes", "tls", "mark"},
               cfg : Config \cup {None}, managed : SUBSET Ports, ours : SUBSET Ports,
               rows : [Apps -> ExposedApp \cup {None}], tls : BOOLEAN, todo : SUBSET Apps]
  /\ opened \subseteq Ports /\ leaked \subseteq Ports /\ wanted \subseteq Ports
  /\ BoundsTypeOK

\* A rule that NimOS opened, other than that of SSH, is on record as its own, or about
\* to be, so that a change of ports can retire it; unless a crash, a command or a write that
\* failed, or a pass with ufw off took it from the record.
OpenedPortsAreTracked ==
  opened \ {SSH} \subseteq
    managed \cup leaked \cup (IF Doing("persist") THEN pass.ours ELSE {})

\* Whoever changes or deletes an app had seen it as it is: with the same id, also after
\* it was deleted and exposed again, and the same content.  What the request does
\* not mention stays.
NoLostUpdate ==
  [][\A a \in Apps :
       LET old == rows[a]  new == rows'[a] IN
       old # None /\ (new = None \/ new.desired # old.desired) =>
         /\ \E c \in Clients : /\ view[c].app = a /\ view'[c] # view[c]
                               /\ view[c].row.id = old.id
                               /\ view[c].row.on = old.on /\ view[c].row.route = old.route
         /\ new # None => new.on = old.on \/ new.route = old.route]_exposureVars

\* The reconciler never retires the rule of SSH, even after 22 was one of its ports,
\* and retires a rule it did not open only for a port that was once configured.
FirewallSpares ==
  [][\A p \in ufw.rules \ ufw'.rules : p # SSH /\ (p \in opened \/ p \in wanted)]_exposureVars

\* Caddy ends up with exactly the routes of the enabled apps (none when exposure is
\* off), the configured ports, and certificates and redirection if there is a token; all
\* rows are applied: through edits in the middle of a pass, failed calls, restarts of
\* Caddy and crashes.
CaddyConverges ==
  <>[](/\ caddy.routes = Served(cfg, rows) /\ caddy.ports = cfg.ports
       /\ caddy.redirect = token /\ caddy.tls = token
       /\ \A a \in Apps : ~IsPending(rows[a]))

\* With ufw on, the ports in use end up open and those of before closed, save the ones
\* a fault took from the record, and SSH.
FirewallConverges ==
  <>[]ufw.active => <>[](/\ cfg.ports \subseteq ufw.rules /\ managed = cfg.ports
                         /\ opened \subseteq cfg.ports \cup leaked \cup {SSH})

\* Both reconcilers of exposure reach what was asked for
\* (network_exposure_reconciler.go:183, network_exposure_firewall.go:120).
ExposureConverges == CaddyConverges /\ FirewallConverges
==============================================================================
