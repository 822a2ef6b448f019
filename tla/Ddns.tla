-------------------------------- MODULE Ddns --------------------------------
(***************************************************************************)
(* One dynamic DNS entry: its row and the secret with its token, the pass   *)
(* of DDNSReconciler and the forced updates that run beside it, the journal *)
(* of ddns_update operations, and the circuit breaker of the provider.      *)
(* The domain is UNIQUE, and so is the label of its secret.                 *)
(***************************************************************************)
EXTENDS NetworkBounds

CONSTANTS
  Tick, Forced,       \* the scheduler's goroutine; the requests "update now"
  Ops,                \* names of operations; the finished ones are free again
  Threshold           \* FailureThreshold of the breaker

ASSUME DdnsAssumption == Threshold \in Nat \ {0} /\ Tick \notin Forced /\ None \notin Ops

VARIABLES
  row,        \* network_ddns: the entry, or None
  secret,     \* nimos_secrets: the one labelled provider:domain, or None
  admin,      \* the request that creates or deletes the entry, between its steps
  worker,     \* what each execution of processOne is doing
  journal,    \* the ddns_update operations in progress; the finished ones are of no use here
  breaker,
  published,  \* the provider answers with the current public address
  orphaned, lost, streak    \* history: a token left on purpose or by a fault; operations nobody
                            \* will close; transient answers since the last good one

rowVars == <<row, secret, admin, orphaned>>
provider == <<breaker, streak, published>>
ddnsVars == <<rowVars, worker, journal, provider, lost, bounds>>

-----------------------------------------------------------------------------
Workers == Forced \cup {Tick}
Entry == [id : Nat, enabled : BOOLEAN, auto : BOOLEAN, desired : Nat, applied : Nat,
        run : {"never", "recent", "due"}]
Secret == [id : Nat, good : BOOLEAN]       \* good: the provider accepts the token
Pending == [pc : {"create", "purge"}, id : Nat]
ASSUME NoneAssumption == None \notin Entry \cup Secret \cup Pending
Idle == [pc |-> "idle", row |-> None, op |-> None, token |-> FALSE, res |-> None, live |-> TRUE]
Closed == [state |-> "closed", failures |-> 0, cooling |-> FALSE]

At(w, pc) == worker[w].pc = pc
Fails(w, pc) == worker' = [worker EXCEPT ![w].pc = pc, ![w].res = "failed"]
Goto(w, pc) == worker' = [worker EXCEPT ![w].pc = pc]
End(w) == worker' = [worker EXCEPT ![w] = Idle]
Calling == {w \in Workers : worker[w].pc \in {"calling", "served"}}

DdnsFault == Fault(MaxDdnsFaults)
\* A transaction commits, or is lost: always when the request's context is over.
Commits(w) == worker[w].live /\ UNCHANGED faults
IsLost(w) == IF worker[w].live THEN DdnsFault ELSE UNCHANGED faults

\* Without an entry, or with the one the daemon left when it was stopped.
DdnsInit ==
  /\ \/ row = None /\ secret = None
     \/ /\ secret = [id |-> 0, good |-> TRUE]
        /\ row = [id |-> 0, enabled |-> TRUE, auto |-> TRUE, desired |-> 1, applied |-> 1,
                  run |-> "due"]
  /\ admin = None
  /\ worker = [w \in Workers |-> Idle] /\ journal = {}
  /\ breaker = Closed /\ published = FALSE
  /\ orphaned = FALSE /\ lost = {} /\ streak = 0
  /\ BoundsInit

-----------------------------------------------------------------------------
(* The administrator's requests.                                           *)

\* ddnsCreateHTTP, first the secret.  Without one of its label: no conflict.
CreateSecret(good) ==
  /\ admin = None /\ Request
  /\ IF secret = None
     THEN /\ secret' = [id |-> asked', good |-> good]
          /\ admin' = [pc |-> "create", id |-> asked']
     ELSE UNCHANGED <<secret, admin>>
  /\ UNCHANGED <<row, orphaned, worker, journal, provider, lost, faults>>

\* Mutant: the secret stays when the row cannot be written.
CreateDdnsNoRollback(enabled, auto) ==
  /\ admin # None /\ admin.pc = "create" /\ admin' = None
  /\ \/ /\ row = None
        /\ row' = [id |-> admin.id, enabled |-> enabled, auto |-> auto,
                   desired |-> 1, applied |-> 0, run |-> "never"]
        /\ UNCHANGED faults
     \/ DdnsFault /\ UNCHANGED row
  /\ UNCHANGED <<secret, orphaned, worker, journal, provider, lost, asked>>

\* Then the row; when that fails the secret is deleted, and the error of that ignored.
CreateDdns(enabled, auto) ==
  /\ admin # None /\ admin.pc = "create" /\ admin' = None
  /\ \/ /\ row = None
        /\ row' = [id |-> admin.id, enabled |-> enabled, auto |-> auto,
                   desired |-> 1, applied |-> 0, run |-> "never"]
        /\ UNCHANGED <<secret, orphaned, faults>>
     \/ /\ DdnsFault /\ UNCHANGED row
        /\ \/ secret' = None /\ UNCHANGED orphaned
           \/ UNCHANGED secret /\ orphaned' = TRUE
  /\ UNCHANGED <<worker, journal, provider, lost, asked>>

\* ddnsUpdateHTTP: enabled, auto_update and the interval, never the token.
Configured(r, enabled, auto) ==
  [r EXCEPT !.enabled = enabled, !.auto = auto, !.desired = @ + 1]
UpdateDdnsConfig(enabled, auto) ==
  /\ row # None /\ Request
  /\ row' = Configured(row, enabled, auto)
  /\ UNCHANGED <<secret, admin, orphaned, worker, journal, provider, lost, faults>>

\* ddnsRotateTokenHTTP: the secret keeps its id.
RotateToken(good) ==
  /\ row # None /\ Request
  /\ secret' = [secret EXCEPT !.good = good]
  /\ UNCHANGED <<row, admin, orphaned, worker, journal, provider, lost, faults>>

\* ddnsDeleteHTTP: the row, and with ?delete_secret the secret after it.
DeleteDdns(purge) ==
  /\ admin = None /\ row # None /\ Request /\ row' = None
  /\ IF purge THEN admin' = [pc |-> "purge", id |-> row.id] /\ UNCHANGED orphaned
              ELSE orphaned' = TRUE /\ UNCHANGED admin
  /\ UNCHANGED <<secret, worker, journal, provider, lost, faults>>

\* The foreign key deletes with the secret the row that refers to it.
DeleteSecret ==
  /\ admin # None /\ admin.pc = "purge" /\ admin' = None
  /\ \/ /\ secret' = None
        /\ row' = IF row # None /\ row.id = admin.id THEN None ELSE row
        /\ UNCHANGED <<orphaned, faults>>
     \/ DdnsFault /\ orphaned' = TRUE /\ UNCHANGED <<row, secret>>
  /\ UNCHANGED <<worker, journal, provider, lost, asked>>

-----------------------------------------------------------------------------
(* processOne, in the pass of the scheduler or in a forced update.         *)

\* Mutant: without auto_update nothing is ever due.
NeedsUpdateAuto(d) == d.auto /\ (d.applied < d.desired \/ d.run # "recent")

NeedsUpdate(d) == \/ d.applied < d.desired
                  \/ d.auto /\ d.run # "recent"

\* ListDdns: what follows works on this copy of the row.
DdnsPass ==
  /\ At(Tick, "idle") /\ row # None /\ row.enabled /\ NeedsUpdate(row)
  /\ worker' = [worker EXCEPT ![Tick].pc = "listed", ![Tick].row = row]
  /\ UNCHANGED <<rowVars, journal, provider, lost, bounds>>

ForceUpdate(w) ==
  /\ w \in Forced /\ At(w, "idle") /\ row # None /\ row.enabled /\ Request
  /\ worker' = [worker EXCEPT ![w].pc = "listed", ![w].row = row]
  /\ UNCHANGED <<rowVars, journal, provider, lost, faults>>

\* Mutant: the row of the operation gets no id.
NewOpUnnamed == None

\* openOperation; without it the entry is skipped.
NewOp == CHOOSE o \in Ops : o \notin journal
OpenOperation(w) ==
  /\ At(w, "listed") /\ journal # Ops
  /\ \/ /\ Commits(w) /\ journal' = journal \cup {NewOp}
        /\ worker' = [worker EXCEPT ![w].pc = "opened", ![w].op = NewOp]
     \/ IsLost(w) /\ End(w) /\ UNCHANGED journal
  /\ UNCHANGED <<rowVars, provider, lost, asked>>

\* Mutant: without the secret it returns before closing the operation.
DialForgets(w) ==
  /\ At(w, "opened")
  /\ IF secret = None \/ secret.id # worker[w].row.id
     THEN End(w) /\ UNCHANGED breaker
     ELSE IF breaker.state = "open" /\ breaker.cooling
     THEN Fails(w, "record") /\ UNCHANGED breaker
     ELSE /\ worker' = [worker EXCEPT ![w].pc = "calling", ![w].token = secret.good]
          /\ breaker' = [breaker EXCEPT !.state = IF @ = "open" THEN "half_open" ELSE @]
  /\ UNCHANGED <<rowVars, journal, published, streak, lost, bounds>>

\* GetSecret, then beforeCall: an open breaker answers for the provider until
\* its cooldown is over, and lets through what comes after.
Dial(w) ==
  /\ At(w, "opened")
  /\ IF secret = None \/ secret.id # worker[w].row.id
     THEN Fails(w, "close") /\ UNCHANGED breaker
     ELSE IF breaker.state = "open" /\ breaker.cooling
     THEN Fails(w, "record") /\ UNCHANGED breaker
     ELSE /\ worker' = [worker EXCEPT ![w].pc = "calling", ![w].token = secret.good]
          /\ breaker' = [breaker EXCEPT !.state = IF @ = "open" THEN "half_open" ELSE @]
  /\ UNCHANGED <<rowVars, journal, published, streak, lost, bounds>>

\* The request at the provider: accepted, refused for its token, or no answer
\* (an error of transport, a 5xx, the end of the request's context).
Serve(w) ==
  /\ At(w, "calling")
  /\ \/ /\ worker' = [worker EXCEPT ![w].pc = "served", ![w].res = IF worker[w].token THEN "ok" ELSE "refused"]
        /\ published' = (published \/ worker[w].token) /\ UNCHANGED faults
     \/ /\ IsLost(w) /\ UNCHANGED published
        /\ worker' = [worker EXCEPT ![w].pc = "served", ![w].res = "transient"]
  /\ UNCHANGED <<rowVars, journal, breaker, streak, lost, asked>>

\* recordFailureLocked and recordSuccessLocked; a refused token is no failure.
Failed == [breaker EXCEPT !.failures = @ + 1,
             !.state = IF @ = "half_open" \/ breaker.failures + 1 >= Threshold THEN "open" ELSE @]
AfterFailure == [Failed EXCEPT !.cooling = @ \/ (breaker.state # "open" /\ Failed.state = "open")]
\* Mutant: the probe that succeeds leaves the count.
AfterSuccessKeepsCount ==
  IF breaker.state = "open" THEN breaker ELSE [breaker EXCEPT !.state = "closed"]

AfterSuccess == IF breaker.state = "open" THEN breaker ELSE Closed

AfterCall(w) ==
  /\ At(w, "served")
  /\ breaker' = IF worker[w].res = "transient" THEN AfterFailure ELSE AfterSuccess
  /\ streak' = IF worker[w].res = "transient" THEN streak + 1 ELSE 0
  /\ worker' = [worker EXCEPT ![w].pc = "record", ![w].res = IF worker[w].res = "ok" THEN "ok" ELSE "failed"]
  /\ UNCHANGED <<rowVars, journal, published, lost, bounds>>

\* Mutant: the result is written by domain.
RecordByDomain(w) ==
  /\ At(w, "record") /\ row # None /\ Commits(w) /\ Goto(w, "close")
  /\ row' = [row EXCEPT !.run = "recent",
               !.applied = IF worker[w].res = "ok" THEN row.desired ELSE @]
  /\ UNCHANGED <<secret, admin, orphaned, journal, provider, lost, asked>>

\* The row after a run: what RecordDdnsRun and MarkDdnsApplied write.
Ran(r, res) == [r EXCEPT !.run = "recent", !.applied = IF res = "ok" THEN r.desired ELSE @]

\* RecordDdnsRun, and MarkDdnsApplied after a success: both or none, by the id
\* of the copy.  A success that cannot be recorded closes the operation as failed.
Record(w) ==
  /\ At(w, "record")
  /\ LET mine == row # None /\ row.id = worker[w].row.id IN
     \/ /\ mine /\ Commits(w) /\ Goto(w, "close")
        /\ row' = Ran(row, worker[w].res)
     \/ /\ IF mine THEN IsLost(w) ELSE UNCHANGED faults
        /\ Fails(w, "close") /\ UNCHANGED row
  /\ UNCHANGED <<secret, admin, orphaned, journal, provider, lost, asked>>

\* closeOperation, its error ignored.
Close(w) ==
  /\ At(w, "close") /\ End(w)
  /\ \/ Commits(w) /\ journal' = journal \ {worker[w].op} /\ UNCHANGED lost
     \/ IsLost(w) /\ lost' = lost \cup {worker[w].op} /\ UNCHANGED journal
  /\ UNCHANGED <<rowVars, provider, asked>>

-----------------------------------------------------------------------------
(* What happens around.                                                    *)

\* The client of a forced update goes away: its context is over.
Disconnect(w) ==
  /\ w \in Forced /\ ~At(w, "idle") /\ worker[w].live /\ DdnsFault
  /\ worker' = [worker EXCEPT ![w].live = FALSE]
  /\ UNCHANGED <<rowVars, journal, provider, lost, asked>>

\* The interval of the entry goes by.
IntervalEnds ==
  /\ row # None /\ row.run = "recent" /\ row' = [row EXCEPT !.run = "due"]
  /\ UNCHANGED <<secret, admin, orphaned, worker, journal, provider, lost, bounds>>

\* The cooldown (5 min) goes by: calls (10 s) do not outlast it.
CooldownEnds ==
  /\ breaker.cooling /\ Calling = {} /\ breaker' = [breaker EXCEPT !.cooling = FALSE]
  /\ UNCHANGED <<rowVars, worker, journal, published, streak, lost, bounds>>

AddressMoves ==
  /\ published /\ DdnsFault /\ published' = FALSE
  /\ UNCHANGED <<rowVars, worker, journal, breaker, streak, lost, asked>>

\* The daemon dies and starts: the breakers are built closed, without Persist.
DdnsCrash ==
  /\ DdnsFault /\ worker' = [w \in Workers |-> Idle] /\ admin' = None
  /\ breaker' = Closed /\ streak' = 0
  /\ orphaned' = (orphaned \/ admin # None)
  /\ lost' = lost \cup ({worker[w].op : w \in Workers} \ {None})
  /\ UNCHANGED <<row, secret, journal, published, asked>>

-----------------------------------------------------------------------------
Process(w) == OpenOperation(w) \/ Dial(w) \/ Serve(w) \/ AfterCall(w) \/ Record(w) \/ Close(w)
DdnsNext ==
  \/ \E good \in BOOLEAN : CreateSecret(good) \/ RotateToken(good)
  \/ \E enabled, auto \in BOOLEAN : CreateDdns(enabled, auto) \/ UpdateDdnsConfig(enabled, auto)
  \/ \E purge \in BOOLEAN : DeleteDdns(purge)
  \/ DeleteSecret
  \/ DdnsPass
  \/ \E w \in Workers : ForceUpdate(w) \/ Process(w) \/ Disconnect(w)
  \/ IntervalEnds \/ CooldownEnds \/ AddressMoves \/ DdnsCrash

\* The scheduler ticks, the clock runs, and a goroutine that runs goes on.
DdnsFairness ==
  /\ WF_ddnsVars(DdnsPass) /\ WF_ddnsVars(IntervalEnds) /\ WF_ddnsVars(CooldownEnds)
  /\ \A w \in Workers : WF_ddnsVars(Process(w))
DdnsSpec == DdnsInit /\ [][DdnsNext]_ddnsVars

-----------------------------------------------------------------------------
DdnsTypeOK ==
  /\ row \in Entry \cup {None} /\ secret \in Secret \cup {None}
  /\ admin \in Pending \cup {None}
  /\ worker \in [Workers ->
       [pc : {"idle", "listed", "opened", "calling", "served", "record", "close"},
        row : Entry \cup {None}, op : Ops \cup {None}, token : BOOLEAN,
        res : {None, "ok", "refused", "transient", "failed"}, live : BOOLEAN]]
  /\ journal \subseteq Ops /\ lost \subseteq Ops
  /\ breaker \in [state : {"closed", "open", "half_open"}, failures : Nat, cooling : BOOLEAN]
  /\ published \in BOOLEAN /\ orphaned \in BOOLEAN /\ streak \in Nat
  /\ BoundsTypeOK

\* An operation in progress is being worked on, or a crash, a lost write or the end of
\* the client's connection left it so (nothing at boot closes it): no path of processOne
\* forgets it.
OpenOperationAttended ==
  \A o \in journal : o \in lost \/ \E w \in Workers : worker[w].op = o

\* The entry always has its token, whatever the order of creations, deletions with the
\* secret and crashes; and a token without entry, whose label refuses any new entry of
\* the domain, is one being worked on, one kept on request, or left by a fault.
RowAndSecretTogether ==
  /\ row # None => secret # None /\ secret.id = row.id
  /\ secret # None /\ row = None => orphaned \/ admin # None

\* Closed, the breaker counts the transient answers since the last good one, of
\* all the calls that overlap, across a half-open probe; and it is below the threshold.
FailuresAreConsecutive ==
  breaker.state = "closed" => breaker.failures = streak /\ streak < Threshold

\* A result only reaches the entry it was asked for: not one created again for the
\* same domain while the call was under way.
ResultsStayWithTheirRow ==
  [][row # None /\ row' # None /\ row'.applied # row.applied =>
       \E w \in Workers : /\ At(w, "record") /\ worker'[w].pc = "close"
                          /\ worker[w].res = "ok" /\ worker[w].row.id = row.id]_ddnsVars

Settled == row # None /\ row.enabled /\ secret # None /\ secret.good
\* An entry left enabled with a good token is applied, also one without auto_update,
\* and with auto_update the provider ends up with the current address: past failures,
\* an open breaker, crashes and changes of address.
EntryConverges ==
  /\ <>[]Settled => <>[](row # None /\ row.applied = row.desired)
  /\ <>[](Settled /\ row.auto) => <>[]published
==============================================================================
