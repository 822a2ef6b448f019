----------------------------- MODULE Network_proofs -----------------------------
(***************************************************************************)
(* Theorems about Ddns and Exposure, for any number of forced updates,      *)
(* operations, apps, clients, requests and faults, any threshold of the     *)
(* breaker and any choices of ports; and about the two of them as           *)
(* MCNetwork composes them.                                                 *)
(***************************************************************************)
EXTENDS MCNetwork, TLAPS

(* Ddns *)

\* The administrator's requests: while one is between its two steps there is no row,
\* and the secret is the one it wrote or the one it is about to delete.
AdminInv == admin # None => /\ row = None /\ secret # None
                            /\ admin.pc = "create" => secret.id = admin.id

\* An execution has an operation from when it is opened to when it is closed.
OpInv == \A w \in Workers : worker[w].pc \in {"idle", "listed"} <=> worker[w].op = None

Pcs == {"idle", "listed", "opened", "calling", "served", "record", "close"}
Results == {None, "ok", "refused", "transient", "failed"}
WorkerType == [Workers -> [pc : Pcs, row : Entry \cup {None}, op : Ops \cup {None},
                           token : BOOLEAN, res : Results, live : BOOLEAN]]
BreakerType == /\ breaker \in [state : {"closed", "open", "half_open"}, failures : Nat, cooling : BOOLEAN]
               /\ streak \in Nat
DdnsRowsType == /\ row \in Entry \cup {None} /\ secret \in Secret \cup {None}
            /\ admin \in Pending \cup {None} /\ orphaned \in BOOLEAN

\* The invariant, in the parts that the actions touch: the rows with the request that
\* owns them, the executions with the journal, the breaker, the bounds.
DdnsRowsInv == DdnsRowsType /\ AdminInv /\ RowAndSecretTogether
ProcessInv == /\ worker \in WorkerType /\ journal \subseteq Ops /\ lost \subseteq Ops
              /\ OpInv /\ OpenOperationAttended
BreakerInv == BreakerType /\ published \in BOOLEAN /\ FailuresAreConsecutive
DdnsInv == DdnsRowsInv /\ ProcessInv /\ BreakerInv /\ BoundsTypeOK

----------------------------------------------------------------------------
\* What the records built by the actions are: typed, and never None.
LEMMA NewEntry ==
  ASSUME NEW i \in Nat, NEW d \in Nat, NEW a \in Nat, NEW e \in BOOLEAN, NEW u \in BOOLEAN
  PROVE  LET new == [id |-> i, enabled |-> e, auto |-> u, desired |-> d, applied |-> a, run |-> "never"]
         IN new \in Entry /\ new # None /\ new.id = i
<1> DEFINE new == [id |-> i, enabled |-> e, auto |-> u, desired |-> d, applied |-> a, run |-> "never"]
<1>1. new \in Entry
  BY DEF Entry
<1> HIDE DEF new
<1>2. new # None
  BY <1>1, NoneAssumption
<1> USE DEF new
<1>3. new.id = i
  OBVIOUS
<1> QED BY <1>1, <1>2, <1>3

\* A secret that is built is one.
LEMMA NewSecret ==
  ASSUME NEW i \in Nat, NEW g \in BOOLEAN
  PROVE  LET new == [id |-> i, good |-> g] IN new \in Secret /\ new # None /\ new.id = i
<1> DEFINE new == [id |-> i, good |-> g]
<1>1. new \in Secret
  BY DEF Secret
<1> HIDE DEF new
<1>2. new # None
  BY <1>1, NoneAssumption
<1> USE DEF new
<1>3. new.id = i
  OBVIOUS
<1> QED BY <1>1, <1>2, <1>3

\* And so is a request between its steps.
LEMMA NewPending ==
  ASSUME NEW i \in Nat, NEW c \in {"create", "purge"}
  PROVE  LET new == [pc |-> c, id |-> i] IN new \in Pending /\ new # None /\ new.id = i /\ new.pc = c
BY NoneAssumption DEF Pending

\* A new configuration keeps the id.
LEMMA ConfiguredEntry ==
  ASSUME NEW r \in Entry, NEW e \in BOOLEAN, NEW u \in BOOLEAN
  PROVE  Configured(r, e, u) \in Entry /\ Configured(r, e, u) # None /\ Configured(r, e, u).id = r.id
<1> DEFINE d == r.desired + 1
          new == [r EXCEPT !.enabled = e, !.auto = u, !.desired = d]
<1>1. d \in Nat
  BY DEF Entry
<1> HIDE DEF d
<1>2. new \in Entry /\ new.id = r.id
  BY <1>1 DEF Entry
<1>3. Configured(r, e, u) = new
  BY DEF Configured, d
<1> HIDE DEF new
<1> QED BY <1>2, <1>3, NoneAssumption

\* The record of a run keeps the id, and the generation unless it succeeded.
LEMMA RanEntry ==
  ASSUME NEW r \in Entry, NEW res
  PROVE  /\ Ran(r, res) \in Entry /\ Ran(r, res) # None /\ Ran(r, res).id = r.id
         /\ res # "ok" => Ran(r, res).applied = r.applied
<1> DEFINE new(a) == [r EXCEPT !.run = "recent", !.applied = a]
<1>1. \A a \in Nat : new(a) \in Entry /\ new(a).id = r.id /\ new(a).applied = a
  BY DEF Entry
<1>2. r.desired \in Nat /\ r.applied \in Nat
  BY DEF Entry
<1>3. Ran(r, res) = IF res = "ok" THEN new(r.desired) ELSE new(r.applied)
  BY DEF Ran
<1> HIDE DEF new
<1> QED BY <1>1, <1>2, <1>3, NoneAssumption

\* The end of the interval keeps both.
LEMMA DueEntry ==
  ASSUME NEW r \in Entry
  PROVE  LET new == [r EXCEPT !.run = "due"] IN new \in Entry /\ new.id = r.id /\ new.applied = r.applied
BY DEF Entry

\* There is a free name as long as not all operations are in progress.
LEMMA NewOpIsNew == ASSUME journal \subseteq Ops, journal # Ops PROVE NewOp \in Ops \ journal
BY DEF NewOp

\* The initial states satisfy the invariant.
LEMMA DdnsInvInit == DdnsInit => DdnsInv
<1> SUFFICES ASSUME DdnsInit PROVE DdnsInv
  OBVIOUS
<1> USE DdnsAssumption, BoundsAssumption, NoneAssumption DEF DdnsInit, BoundsInit
<1>1. DdnsRowsInv
  <2>1. CASE row = None /\ secret = None
    BY <2>1 DEF DdnsRowsInv, DdnsRowsType, AdminInv, RowAndSecretTogether
  <2>2. CASE row # None \/ secret # None
    <3>1. secret = [id |-> 0, good |-> TRUE]
      BY <2>2
    <3>2. row = [id |-> 0, enabled |-> TRUE, auto |-> TRUE, desired |-> 1, applied |-> 1, run |-> "due"]
      BY <2>2
    <3>3. row \in Entry /\ row.id = 0
      BY <3>2 DEF Entry
    <3>4. secret \in Secret /\ secret.id = 0
      BY <3>1 DEF Secret
    <3> QED BY <3>3, <3>4, NoneAssumption DEF DdnsRowsInv, DdnsRowsType, AdminInv, RowAndSecretTogether
  <2> QED BY <2>1, <2>2
<1>2. worker \in WorkerType /\ BreakerType /\ BoundsTypeOK
  <2>1. worker \in WorkerType
    BY DEF Idle, WorkerType, Pcs, Results
  <2>2. BreakerType
    BY DEF Closed, BreakerType
  <2> QED BY <2>1, <2>2 DEF BoundsTypeOK
<1>3. OpInv /\ OpenOperationAttended
  BY DEF OpInv, OpenOperationAttended, Idle
<1>4. FailuresAreConsecutive
  BY DEF FailuresAreConsecutive, Closed
<1> QED BY <1>1, <1>2, <1>3, <1>4 DEF DdnsInv, ProcessInv, BreakerInv

----------------------------------------------------------------------------
(* The rows and the administrator's request. *)

\* A new secret is owned by the request that goes on to write the row.
LEMMA CreateSecretKeeps ==
  ASSUME DdnsRowsInv, BoundsTypeOK, NEW good \in BOOLEAN, CreateSecret(good)
  PROVE  DdnsRowsInv'
<1>1. asked' \in Nat
  BY DEF CreateSecret, Request, BoundsTypeOK
<1>2. LET new == [id |-> asked', good |-> good] IN new \in Secret /\ new # None /\ new.id = asked'
  BY <1>1, NewSecret
<1>3. LET new == [pc |-> "create", id |-> asked'] IN
      new \in Pending /\ new # None /\ new.id = asked' /\ new.pc = "create"
  BY <1>1, NewPending
<1>4. row' \in Entry \cup {None}
  BY <1>1, <1>2, <1>3 DEF CreateSecret, DdnsRowsInv, DdnsRowsType
<1>5. secret' \in Secret \cup {None}
  BY <1>1, <1>2, <1>3 DEF CreateSecret, DdnsRowsInv, DdnsRowsType
<1>6. admin' \in Pending \cup {None} /\ orphaned' \in BOOLEAN
  BY <1>1, <1>2, <1>3 DEF CreateSecret, DdnsRowsInv, DdnsRowsType
<1>7. AdminInv'
  BY <1>1, <1>2, <1>3 DEF CreateSecret, DdnsRowsInv, AdminInv, RowAndSecretTogether
<1>8. RowAndSecretTogether'
  BY <1>1, <1>2, <1>3 DEF CreateSecret, DdnsRowsInv, AdminInv, RowAndSecretTogether
<1> QED BY <1>4, <1>5, <1>6, <1>7, <1>8 DEF DdnsRowsInv, DdnsRowsType

\* A new token changes neither the row nor the id of the secret.
LEMMA RotateTokenKeeps ==
  ASSUME DdnsRowsInv, BoundsTypeOK, NEW good \in BOOLEAN, RotateToken(good)
  PROVE  DdnsRowsInv'
<1>1. row # None /\ secret # None /\ secret \in Secret
  BY DEF RotateToken, DdnsRowsInv, DdnsRowsType, RowAndSecretTogether
<1>2. LET new == [secret EXCEPT !.good = good] IN new \in Secret /\ new.id = secret.id
  BY <1>1 DEF Secret
<1>3. [secret EXCEPT !.good = good] # None
  BY <1>2, NoneAssumption
<1>4. row' \in Entry \cup {None}
  BY <1>1, <1>2, <1>3 DEF RotateToken, DdnsRowsInv, DdnsRowsType
<1>5. secret' \in Secret \cup {None}
  BY <1>1, <1>2, <1>3 DEF RotateToken, DdnsRowsInv, DdnsRowsType
<1>6. admin' \in Pending \cup {None} /\ orphaned' \in BOOLEAN
  BY <1>1, <1>2, <1>3 DEF RotateToken, DdnsRowsInv, DdnsRowsType
<1>7. AdminInv'
  BY <1>1, <1>2, <1>3 DEF RotateToken, DdnsRowsInv, AdminInv, RowAndSecretTogether
<1>8. RowAndSecretTogether'
  BY <1>1, <1>2, <1>3 DEF RotateToken, DdnsRowsInv, AdminInv, RowAndSecretTogether
<1> QED BY <1>4, <1>5, <1>6, <1>7, <1>8 DEF DdnsRowsInv, DdnsRowsType

\* The row gets the id of its secret; without the row the secret goes, or is left by the fault.
LEMMA CreateDdnsKeeps ==
  ASSUME DdnsRowsInv, BoundsTypeOK, NEW enabled \in BOOLEAN, NEW auto \in BOOLEAN, CreateDdns(enabled, auto)
  PROVE  DdnsRowsInv'
<1>1. admin.id \in Nat
  BY DEF CreateDdns, DdnsRowsInv, DdnsRowsType, Pending
<1>2. LET new == [id |-> admin.id, enabled |-> enabled, auto |-> auto, desired |-> 1,
                  applied |-> 0, run |-> "never"]
      IN new \in Entry /\ new # None /\ new.id = admin.id
  BY <1>1, NewEntry
<1>3. admin # None /\ admin.pc = "create"
  BY DEF CreateDdns
<1>4. row' \in Entry \cup {None}
  BY <1>1, <1>2, <1>3 DEF CreateDdns, DdnsRowsInv, DdnsRowsType
<1>5. secret' \in Secret \cup {None}
  BY <1>1, <1>2, <1>3 DEF CreateDdns, DdnsRowsInv, DdnsRowsType
<1>6. admin' \in Pending \cup {None} /\ orphaned' \in BOOLEAN
  BY <1>1, <1>2, <1>3 DEF CreateDdns, DdnsRowsInv, DdnsRowsType
<1>7. AdminInv'
  BY <1>1, <1>2, <1>3 DEF CreateDdns, DdnsRowsInv, AdminInv, RowAndSecretTogether
<1>8. RowAndSecretTogether'
  BY <1>1, <1>2, <1>3 DEF CreateDdns, DdnsRowsInv, AdminInv, RowAndSecretTogether
<1> QED BY <1>4, <1>5, <1>6, <1>7, <1>8 DEF DdnsRowsInv, DdnsRowsType

\* A new configuration keeps the id of the row.
LEMMA UpdateDdnsConfigKeeps ==
  ASSUME DdnsRowsInv, BoundsTypeOK, NEW enabled \in BOOLEAN, NEW auto \in BOOLEAN, UpdateDdnsConfig(enabled, auto)
  PROVE  DdnsRowsInv'
<1>1. row \in Entry
  BY DEF UpdateDdnsConfig, DdnsRowsInv, DdnsRowsType
<1>2. LET new == Configured(row, enabled, auto) IN new \in Entry /\ new # None /\ new.id = row.id
  BY <1>1, ConfiguredEntry
<1>3. row # None
  BY DEF UpdateDdnsConfig
<1>4. row' \in Entry \cup {None}
  BY <1>1, <1>2, <1>3 DEF UpdateDdnsConfig, DdnsRowsInv, DdnsRowsType
<1>5. secret' \in Secret \cup {None}
  BY <1>1, <1>2, <1>3 DEF UpdateDdnsConfig, DdnsRowsInv, DdnsRowsType
<1>6. admin' \in Pending \cup {None} /\ orphaned' \in BOOLEAN
  BY <1>1, <1>2, <1>3 DEF UpdateDdnsConfig, DdnsRowsInv, DdnsRowsType
<1>7. AdminInv'
  BY <1>1, <1>2, <1>3 DEF UpdateDdnsConfig, DdnsRowsInv, AdminInv, RowAndSecretTogether
<1>8. RowAndSecretTogether'
  BY <1>1, <1>2, <1>3 DEF UpdateDdnsConfig, DdnsRowsInv, AdminInv, RowAndSecretTogether
<1> QED BY <1>4, <1>5, <1>6, <1>7, <1>8 DEF DdnsRowsInv, DdnsRowsType

\* A deleted row leaves its secret to the request, or on purpose.
LEMMA DeleteDdnsKeeps ==
  ASSUME DdnsRowsInv, BoundsTypeOK, NEW purge \in BOOLEAN, DeleteDdns(purge)
  PROVE  DdnsRowsInv'
<1>1. row # None /\ row.id \in Nat
  BY DEF DeleteDdns, DdnsRowsInv, DdnsRowsType, Entry
<1>2. LET new == [pc |-> "purge", id |-> row.id] IN
      new \in Pending /\ new # None /\ new.id = row.id /\ new.pc = "purge"
  BY <1>1, NewPending
<1>3. secret # None
  BY <1>1 DEF DdnsRowsInv, RowAndSecretTogether
<1>4. row' \in Entry \cup {None}
  BY <1>1, <1>2, <1>3 DEF DeleteDdns, DdnsRowsInv, DdnsRowsType
<1>5. secret' \in Secret \cup {None}
  BY <1>1, <1>2, <1>3 DEF DeleteDdns, DdnsRowsInv, DdnsRowsType
<1>6. admin' \in Pending \cup {None} /\ orphaned' \in BOOLEAN
  BY <1>1, <1>2, <1>3 DEF DeleteDdns, DdnsRowsInv, DdnsRowsType
<1>7. AdminInv'
  BY <1>1, <1>2, <1>3 DEF DeleteDdns, DdnsRowsInv, AdminInv, RowAndSecretTogether
<1>8. RowAndSecretTogether'
  BY <1>1, <1>2, <1>3 DEF DeleteDdns, DdnsRowsInv, AdminInv, RowAndSecretTogether
<1> QED BY <1>4, <1>5, <1>6, <1>7, <1>8 DEF DdnsRowsInv, DdnsRowsType

\* The secret goes when no row refers to it.
LEMMA DeleteSecretKeeps ==
  ASSUME DdnsRowsInv, BoundsTypeOK, DeleteSecret
  PROVE  DdnsRowsInv'
<1>1. admin # None /\ row = None
  BY DEF DeleteSecret, DdnsRowsInv, AdminInv
<1>2. row' = None /\ admin' = None
  BY <1>1 DEF DeleteSecret
<1>3. secret' # None => orphaned'
  BY DEF DeleteSecret
<1>4. row' \in Entry \cup {None}
  BY <1>1, <1>2, <1>3 DEF DeleteSecret, DdnsRowsInv, DdnsRowsType
<1>5. secret' \in Secret \cup {None}
  BY <1>1, <1>2, <1>3 DEF DeleteSecret, DdnsRowsInv, DdnsRowsType
<1>6. admin' \in Pending \cup {None} /\ orphaned' \in BOOLEAN
  BY <1>1, <1>2, <1>3 DEF DeleteSecret, DdnsRowsInv, DdnsRowsType
<1>7. AdminInv'
  BY <1>1, <1>2, <1>3 DEF DeleteSecret, DdnsRowsInv, AdminInv, RowAndSecretTogether
<1>8. RowAndSecretTogether'
  BY <1>1, <1>2, <1>3 DEF DeleteSecret, DdnsRowsInv, AdminInv, RowAndSecretTogether
<1> QED BY <1>4, <1>5, <1>6, <1>7, <1>8 DEF DdnsRowsInv, DdnsRowsType

----------------------------------------------------------------------------
(* The executions and the journal. *)

WorkerRec == [pc : Pcs, row : Entry \cup {None}, op : Ops \cup {None},
              token : BOOLEAN, res : Results, live : BOOLEAN]

\* An execution that keeps its operation may move on as it likes, once past "listed",
\* or before it as long as it has none.
LEMMA WorkerMoves ==
  ASSUME ProcessInv, NEW w \in Workers, NEW new \in WorkerRec,
         worker' = [worker EXCEPT ![w] = new],
         new.op = worker[w].op, new.pc \in {"idle", "listed"} <=> new.op = None,
         UNCHANGED <<journal, lost>>
  PROVE  ProcessInv'
<1>1. worker' \in WorkerType
  BY DEF ProcessInv, WorkerType, WorkerRec
<1>2. \A x \in Workers : worker'[x].op = worker[x].op
  BY DEF ProcessInv, WorkerType, WorkerRec
<1>3. OpInv'
  BY <1>1, <1>2 DEF ProcessInv, WorkerType, WorkerRec, OpInv
<1>4. OpenOperationAttended'
  BY <1>2 DEF ProcessInv, OpenOperationAttended
<1> QED BY <1>1, <1>3, <1>4 DEF ProcessInv

\* The executions that keep their operation.
LEMMA StepsKeepOperations ==
  ASSUME ProcessInv, DdnsRowsInv, NEW w \in Workers,
         \/ w = Tick /\ DdnsPass
         \/ ForceUpdate(w) \/ Dial(w) \/ Serve(w) \/ AfterCall(w) \/ Record(w) \/ Disconnect(w)
  PROVE  ProcessInv'
<1> USE DdnsAssumption, NoneAssumption DEF At, Fails, Goto
<1>0. worker[w] \in WorkerRec /\ worker = [worker EXCEPT ![w] = worker[w]]
  BY DEF ProcessInv, WorkerType, WorkerRec
<1>1. UNCHANGED <<journal, lost>>
  BY DEF DdnsPass, ForceUpdate, Dial, Serve, AfterCall, Record, Disconnect
<1>2. \E new \in WorkerRec : worker' = [worker EXCEPT ![w] = new] /\ new.op = worker[w].op
         /\ (new.pc \in {"idle", "listed"} <=> worker[w].pc \in {"idle", "listed"})
  <2>1. CASE (w = Tick /\ DdnsPass) \/ ForceUpdate(w)
    <3>1. worker[w].pc = "idle" /\ worker' = [worker EXCEPT ![w].pc = "listed", ![w].row = row]
      BY <2>1 DEF DdnsPass, ForceUpdate
    <3>2. row \in Entry \cup {None}
      BY DEF DdnsRowsInv, DdnsRowsType
    <3> DEFINE new == [worker[w] EXCEPT !.pc = "listed", !.row = row]
    <3>3. new \in WorkerRec /\ new.op = worker[w].op /\ new.pc = "listed"
      BY <1>0, <3>2 DEF WorkerRec, Pcs
    <3>4. worker' = [worker EXCEPT ![w] = new]
      BY <3>1 DEF ProcessInv, WorkerType
    <3> HIDE DEF new
    <3> QED BY <3>1, <3>3, <3>4
  <2>2. CASE Dial(w)
    <3>1. secret.good \in BOOLEAN \/ secret = None
      BY DEF DdnsRowsInv, DdnsRowsType, Secret
    <3>2. \E new \in {[worker[w] EXCEPT !.pc = "close", !.res = "failed"],
                     [worker[w] EXCEPT !.pc = "record", !.res = "failed"]} :
            worker' = [worker EXCEPT ![w] = new]
          \/ /\ secret # None
             /\ worker' = [worker EXCEPT ![w] = [worker[w] EXCEPT !.pc = "calling", !.token = secret.good]]
      BY <2>2 DEF Dial, ProcessInv, WorkerType
    <3>3. \A p \in {"close", "record"} :
            LET new == [worker[w] EXCEPT !.pc = p, !.res = "failed"] IN
            new \in WorkerRec /\ new.op = worker[w].op /\ new.pc = p
      BY <1>0 DEF WorkerRec, Pcs, Results
    <3>4. \A b \in BOOLEAN : LET new == [worker[w] EXCEPT !.pc = "calling", !.token = b] IN
            new \in WorkerRec /\ new.op = worker[w].op /\ new.pc = "calling"
      BY <1>0 DEF WorkerRec, Pcs
    <3> QED BY <2>2, <3>1, <3>2, <3>3, <3>4, Zenon DEF Dial
  <2>3. CASE Serve(w)
    <3>1. \E r \in {"ok", "refused", "transient"} :
            worker' = [worker EXCEPT ![w] = [worker[w] EXCEPT !.pc = "served", !.res = r]]
      BY <2>3 DEF Serve, ProcessInv, WorkerType
    <3>2. \A r \in {"ok", "refused", "transient"} :
            LET new == [worker[w] EXCEPT !.pc = "served", !.res = r] IN
            new \in WorkerRec /\ new.op = worker[w].op /\ new.pc = "served"
      BY <1>0 DEF WorkerRec, Pcs, Results
    <3> QED BY <2>3, <3>1, <3>2 DEF Serve
  <2>4. CASE AfterCall(w)
    <3>1. \E r \in {"ok", "failed"} :
            worker' = [worker EXCEPT ![w] = [worker[w] EXCEPT !.pc = "record", !.res = r]]
      BY <2>4 DEF AfterCall, ProcessInv, WorkerType
    <3>2. \A r \in {"ok", "failed"} :
            LET new == [worker[w] EXCEPT !.pc = "record", !.res = r] IN
            new \in WorkerRec /\ new.op = worker[w].op /\ new.pc = "record"
      BY <1>0 DEF WorkerRec, Pcs, Results
    <3> QED BY <2>4, <3>1, <3>2 DEF AfterCall
  <2>5. CASE Record(w)
    <3>1. \/ worker' = [worker EXCEPT ![w] = [worker[w] EXCEPT !.pc = "close"]]
          \/ worker' = [worker EXCEPT ![w] = [worker[w] EXCEPT !.pc = "close", !.res = "failed"]]
      BY <2>5 DEF Record, ProcessInv, WorkerType
    <3>2. LET new == [worker[w] EXCEPT !.pc = "close"] IN
            new \in WorkerRec /\ new.op = worker[w].op /\ new.pc = "close"
      BY <1>0 DEF WorkerRec, Pcs
    <3>3. LET new == [worker[w] EXCEPT !.pc = "close", !.res = "failed"] IN
            new \in WorkerRec /\ new.op = worker[w].op /\ new.pc = "close"
      BY <1>0 DEF WorkerRec, Pcs, Results
    <3> QED BY <2>5, <3>1, <3>2, <3>3 DEF Record
  <2>6. CASE Disconnect(w)
    <3>1. worker' = [worker EXCEPT ![w] = [worker[w] EXCEPT !.live = FALSE]]
      BY <2>6 DEF Disconnect, ProcessInv, WorkerType
    <3>2. LET new == [worker[w] EXCEPT !.live = FALSE] IN
            new \in WorkerRec /\ new.op = worker[w].op /\ new.pc = worker[w].pc
      BY <1>0 DEF WorkerRec
    <3> QED BY <3>1, <3>2
  <2> QED BY <2>1, <2>2, <2>3, <2>4, <2>5, <2>6
<1>3. worker[w].pc \in {"idle", "listed"} <=> worker[w].op = None
  BY DEF ProcessInv, OpInv
<1> QED BY <1>1, <1>2, <1>3, WorkerMoves

\* A new operation is in progress and its execution has it; a closed one is neither,
\* or its execution lost the write.
LEMMA OpenAndClose ==
  ASSUME ProcessInv, NEW w \in Workers, OpenOperation(w) \/ Close(w)
  PROVE  ProcessInv'
<1> USE DdnsAssumption DEF At, End
<1>1. worker[w] \in WorkerRec /\ worker \in WorkerType /\ journal \subseteq Ops /\ lost \subseteq Ops
  BY DEF ProcessInv, WorkerType, WorkerRec
<1>2. Idle \in WorkerRec /\ Idle.op = None /\ Idle.pc = "idle"
  BY DEF Idle, WorkerRec, Pcs, Results
<1>3. CASE OpenOperation(w)
  <2>1. worker[w].pc = "listed" /\ worker[w].op = None /\ UNCHANGED lost
    BY <1>3 DEF OpenOperation, ProcessInv, OpInv
  <2>2. CASE journal' = journal \cup {NewOp} /\ worker' = [worker EXCEPT ![w].pc = "opened", ![w].op = NewOp]
    <3>1. NewOp \in Ops
      BY <1>1, <1>3, NewOpIsNew DEF OpenOperation
    <3> DEFINE new == [worker[w] EXCEPT !.pc = "opened", !.op = NewOp]
    <3>2. new \in WorkerRec /\ new.op = NewOp /\ new.pc = "opened"
      BY <1>1, <3>1 DEF WorkerRec, Pcs
    <3>3. worker' = [worker EXCEPT ![w] = new]
      BY <1>1, <2>2 DEF WorkerType
    <3> HIDE DEF new
    <3>4. worker' \in WorkerType
      BY <1>1, <3>2, <3>3 DEF WorkerType, WorkerRec
    <3>5. worker'[w] = new /\ \A x \in Workers : x # w => worker'[x] = worker[x]
      BY <1>1, <3>3 DEF WorkerType
    <3>6. OpInv'
      BY <3>1, <3>2, <3>5 DEF ProcessInv, OpInv
    <3>7. OpenOperationAttended'
      <4>1. worker'[w].op = NewOp
        BY <3>2, <3>5
      <4>2. \A o \in journal : o \in lost \/ \E x \in Workers \ {w} : worker[x].op = o
        BY <2>1, <1>1 DEF ProcessInv, OpenOperationAttended
      <4>3. \A o \in journal : o \in lost \/ \E x \in Workers : worker'[x].op = o
        BY <4>2, <3>5
      <4> QED BY <2>1, <2>2, <4>1, <4>3 DEF OpenOperationAttended
    <3> QED BY <1>1, <2>1, <2>2, <3>1, <3>4, <3>6, <3>7 DEF ProcessInv
  <2>3. CASE worker' = [worker EXCEPT ![w] = Idle] /\ UNCHANGED journal
    BY <1>2, <2>1, <2>3, WorkerMoves
  <2> QED BY <1>3, <2>2, <2>3 DEF OpenOperation
<1>4. CASE Close(w)
  <2>1. worker' = [worker EXCEPT ![w] = Idle]
    BY <1>4 DEF Close
  <2>2. worker' \in WorkerType
    BY <1>1, <1>2, <2>1 DEF WorkerType, WorkerRec
  <2>3. worker'[w] = Idle /\ \A x \in Workers : x # w => worker'[x] = worker[x]
    BY <1>1, <2>1 DEF WorkerType
  <2>4. OpInv'
    BY <1>2, <2>3 DEF ProcessInv, OpInv
  <2>5. \/ journal' = journal \ {worker[w].op} /\ UNCHANGED lost
        \/ lost' = lost \cup {worker[w].op} /\ UNCHANGED journal
    BY <1>4 DEF Close
  <2>6. worker[w].op \in Ops
    BY <1>1, <1>4 DEF Close, ProcessInv, OpInv, WorkerRec
  <2>7. OpenOperationAttended'
    BY <2>3, <2>5, <1>1 DEF ProcessInv, OpenOperationAttended
  <2> QED BY <1>1, <2>2, <2>4, <2>5, <2>6, <2>7 DEF ProcessInv
<1> QED BY <1>3, <1>4

----------------------------------------------------------------------------
(* The breaker. *)

\* Every action moves the breaker by a call, by its cooldown, or not at all.
LEMMA BreakerMoves ==
  ASSUME BreakerInv, published' \in BOOLEAN,
         \/ UNCHANGED <<breaker, streak>>
         \/ breaker.state = "open" /\ UNCHANGED streak
              /\ breaker' = [breaker EXCEPT !.state = IF @ = "open" THEN "half_open" ELSE @]
         \/ breaker' = AfterFailure /\ streak' = streak + 1
         \/ breaker' = AfterSuccess /\ streak' = 0
         \/ breaker' = [breaker EXCEPT !.cooling = FALSE] /\ UNCHANGED streak
         \/ breaker' = Closed /\ streak' = 0
  PROVE  BreakerInv'
<1> USE DdnsAssumption DEF BreakerInv
<1>0. /\ breaker.state \in {"closed", "open", "half_open"} /\ breaker.failures \in Nat
      /\ breaker.cooling \in BOOLEAN /\ streak \in Nat
  BY DEF BreakerType
<1>1. CASE UNCHANGED <<breaker, streak>>
  BY <1>1 DEF BreakerType, FailuresAreConsecutive
<1>2. CASE breaker.state = "open" /\ UNCHANGED streak
              /\ breaker' = [breaker EXCEPT !.state = IF @ = "open" THEN "half_open" ELSE @]
  <2>1. breaker'.state = "half_open"
    BY <1>2 DEF BreakerType
  <2>2. BreakerType'
    BY <1>2 DEF BreakerType
  <2> QED BY <2>1, <2>2 DEF FailuresAreConsecutive
<1>3. CASE breaker' = AfterFailure /\ streak' = streak + 1
  <2> DEFINE state == IF breaker.state = "half_open" \/ breaker.failures + 1 >= Threshold
                      THEN "open" ELSE breaker.state
             n == breaker.failures + 1
  <2>1. n \in Nat /\ state \in {"closed", "open", "half_open"}
    BY <1>0
  <2>2. Failed = [breaker EXCEPT !.failures = n, !.state = state]
    BY DEF Failed, BreakerType
  <2>3. (state = "closed") => breaker.state = "closed" /\ n < Threshold
    BY <1>0
  <2> HIDE DEF state, n
  <2>4. Failed \in [state : {"closed", "open", "half_open"}, failures : Nat, cooling : BOOLEAN]
        /\ Failed.failures = n /\ Failed.state = state
    BY <2>1, <2>2 DEF BreakerType
  <2>5. \E c \in BOOLEAN : AfterFailure = [Failed EXCEPT !.cooling = c]
    BY <1>0, <2>4 DEF AfterFailure
  <2> HIDE DEF Failed
  <2>6. BreakerType' /\ breaker'.failures = n /\ breaker'.state = state
    <3>1. PICK c \in BOOLEAN : AfterFailure = [Failed EXCEPT !.cooling = c]
      BY <2>5
    <3>2. breaker' = [Failed EXCEPT !.cooling = c]
      BY <1>3, <3>1
    <3>3. streak' \in Nat
      BY <1>0, <1>3
    <3> QED BY <2>4, <3>2, <3>3 DEF BreakerType
  <2>7. FailuresAreConsecutive'
    BY <1>0, <1>3, <2>3, <2>6 DEF FailuresAreConsecutive, n
  <2> QED BY <2>6, <2>7
<1>4. CASE breaker' = AfterSuccess /\ streak' = 0
  BY <1>4 DEF AfterSuccess, Closed, BreakerType, FailuresAreConsecutive
<1>5. CASE breaker' = [breaker EXCEPT !.cooling = FALSE] /\ UNCHANGED streak
  BY <1>5 DEF BreakerType, FailuresAreConsecutive
<1>6. CASE breaker' = Closed /\ streak' = 0
  BY <1>6 DEF Closed, BreakerType, FailuresAreConsecutive
<1> QED BY <1>1, <1>2, <1>3, <1>4, <1>5, <1>6

----------------------------------------------------------------------------
(* Every step. *)

\* An execution, whatever it does, keeps each part of the invariant.
LEMMA ExecutionKeeps ==
  ASSUME DdnsInv, NEW w \in Workers,
         (w = Tick /\ DdnsPass) \/ ForceUpdate(w) \/ Process(w) \/ Disconnect(w)
  PROVE  DdnsInv'
<1> USE DEF DdnsInv
<1>1. ProcessInv'
  BY StepsKeepOperations, OpenAndClose DEF Process
<1>2. BoundsTypeOK'
  <2> USE BoundsAssumption DEF BoundsTypeOK, bounds, Request, DdnsFault, Fault, IsLost, Commits
  <2>1. CASE (w = Tick /\ DdnsPass) \/ ForceUpdate(w)
    BY <2>1 DEF DdnsPass, ForceUpdate
  <2>2. CASE OpenOperation(w) \/ Close(w) \/ Disconnect(w)
    BY <2>2 DEF OpenOperation, Close, Disconnect
  <2>3. CASE Serve(w)
    BY <2>3 DEF Serve
  <2>4. CASE Record(w)
    BY <2>4 DEF Record
  <2>5. CASE Dial(w) \/ AfterCall(w)
    BY <2>5 DEF Dial, AfterCall
  <2> QED BY <2>1, <2>2, <2>3, <2>4, <2>5 DEF Process
<1>3. BreakerInv'
  <2>1. CASE Dial(w)
    <3>1. UNCHANGED <<published, streak>>
      BY <2>1 DEF Dial
    <3>2. \/ UNCHANGED breaker
          \/ breaker' = [breaker EXCEPT !.state = IF @ = "open" THEN "half_open" ELSE @]
      BY <2>1 DEF Dial
    <3>3. breaker.state # "open" => UNCHANGED breaker
      BY <3>2 DEF BreakerInv, BreakerType
    <3> QED BY <3>1, <3>2, <3>3, BreakerMoves DEF BreakerInv
  <2>2. CASE AfterCall(w)
    BY <2>2, BreakerMoves DEF AfterCall, BreakerInv
  <2>3. CASE Serve(w)
    <3>1. UNCHANGED <<breaker, streak>>
      BY <2>3 DEF Serve
    <3>2. published' \in BOOLEAN
      BY <2>3 DEF Serve, BreakerInv, ProcessInv, WorkerType
    <3> QED BY <3>1, <3>2, BreakerMoves
  <2>4. CASE (w = Tick /\ DdnsPass) \/ ForceUpdate(w) \/ OpenOperation(w) \/ Record(w) \/ Close(w) \/ Disconnect(w)
    <3>1. UNCHANGED provider
      BY <2>4 DEF DdnsPass, ForceUpdate, OpenOperation, Record, Close, Disconnect
    <3> QED BY <3>1, BreakerMoves DEF provider, BreakerInv
  <2> QED BY <2>1, <2>2, <2>3, <2>4 DEF Process
<1>4. DdnsRowsInv'
  <2>1. CASE Record(w)
    <3>1. UNCHANGED <<secret, admin, orphaned>> /\ (UNCHANGED row \/ (row # None /\ row' = Ran(row, worker[w].res)))
      BY <2>1 DEF Record
    <3>2. row # None => row \in Entry
      BY DEF DdnsRowsInv, DdnsRowsType
    <3>3. row' # row => row # None /\ row' \in Entry /\ row' # None /\ row'.id = row.id
      BY <3>1, <3>2, RanEntry
    <3> QED BY <3>1, <3>3 DEF DdnsRowsInv, DdnsRowsType, AdminInv, RowAndSecretTogether
  <2>2. CASE ~Record(w)
    <3>1. UNCHANGED rowVars
      BY <2>2 DEF DdnsPass, ForceUpdate, Process, OpenOperation, Dial, Serve, AfterCall, Close, Disconnect
    <3> QED BY <3>1 DEF rowVars, DdnsRowsInv, DdnsRowsType, AdminInv, RowAndSecretTogether
  <2> QED BY <2>1, <2>2
<1> QED BY <1>1, <1>2, <1>3, <1>4

\* So do the requests of the administrator,
LEMMA AdminKeeps ==
  ASSUME DdnsInv,
         \/ \E good \in BOOLEAN : CreateSecret(good) \/ RotateToken(good)
         \/ \E enabled, auto \in BOOLEAN : CreateDdns(enabled, auto) \/ UpdateDdnsConfig(enabled, auto)
         \/ \E purge \in BOOLEAN : DeleteDdns(purge)
         \/ DeleteSecret
  PROVE  DdnsInv'
<1>1. DdnsRowsInv'
  BY CreateSecretKeeps, RotateTokenKeeps, CreateDdnsKeeps, UpdateDdnsConfigKeeps, DeleteDdnsKeeps,
     DeleteSecretKeeps DEF DdnsInv
<1>2. UNCHANGED <<worker, journal, provider, lost>>
  BY DEF CreateSecret, RotateToken, CreateDdns, UpdateDdnsConfig, DeleteDdns, DeleteSecret
<1>3. BoundsTypeOK'
  BY BoundsAssumption DEF DdnsInv, BoundsTypeOK, Request, DdnsFault, Fault, CreateSecret, RotateToken, CreateDdns,
     UpdateDdnsConfig, DeleteDdns, DeleteSecret
<1>4. BreakerInv'
  BY <1>2, BreakerMoves DEF DdnsInv, BreakerInv, provider
<1>5. ProcessInv'
  BY <1>2 DEF DdnsInv, ProcessInv, OpInv, OpenOperationAttended, WorkerType
<1> QED BY <1>1, <1>3, <1>4, <1>5 DEF DdnsInv

\* and what happens around: the clock, the address, the end of the process.
LEMMA DdnsAroundKeeps ==
  ASSUME DdnsInv, IntervalEnds \/ CooldownEnds \/ AddressMoves \/ DdnsCrash
  PROVE  DdnsInv'
<1> USE DEF DdnsInv
<1>1. BoundsTypeOK'
  BY BoundsAssumption DEF BoundsTypeOK, bounds, DdnsFault, Fault, IntervalEnds, CooldownEnds, AddressMoves, DdnsCrash
<1>2. CASE IntervalEnds
  <2>1. row # None /\ row \in Entry /\ row' = [row EXCEPT !.run = "due"] /\ UNCHANGED <<secret, admin, orphaned>>
    BY <1>2 DEF IntervalEnds, DdnsRowsInv, DdnsRowsType
  <2>2. row' \in Entry /\ row'.id = row.id
    BY <2>1, DueEntry
  <2>3. DdnsRowsInv'
    BY <2>1, <2>2, NoneAssumption DEF DdnsRowsInv, DdnsRowsType, AdminInv, RowAndSecretTogether
  <2>4. UNCHANGED <<worker, journal, provider, lost>>
    BY <1>2 DEF IntervalEnds
  <2>5. BreakerInv'
    BY <2>4, BreakerMoves DEF BreakerInv, provider
  <2>6. ProcessInv'
    BY <2>4 DEF ProcessInv, OpInv, OpenOperationAttended, WorkerType
  <2> QED BY <1>1, <2>3, <2>5, <2>6
<1>3. CASE CooldownEnds \/ AddressMoves
  <2>1. UNCHANGED <<rowVars, worker, journal, lost, streak>> /\ published' \in BOOLEAN
        /\ (UNCHANGED breaker \/ breaker' = [breaker EXCEPT !.cooling = FALSE])
    BY <1>3 DEF CooldownEnds, AddressMoves, BreakerInv
  <2>2. BreakerInv'
    BY <2>1, BreakerMoves
  <2>3. ProcessInv'
    BY <2>1 DEF ProcessInv, OpInv, OpenOperationAttended, WorkerType
  <2>4. DdnsRowsInv'
    BY <2>1 DEF rowVars, DdnsRowsInv, DdnsRowsType, AdminInv, RowAndSecretTogether
  <2> QED BY <1>1, <2>2, <2>3, <2>4
<1>4. CASE DdnsCrash
  <2>1. worker' = [w \in Workers |-> Idle] /\ admin' = None /\ UNCHANGED <<row, secret, journal, published>>
        /\ breaker' = Closed /\ streak' = 0 /\ lost' = lost \cup ({worker[w].op : w \in Workers} \ {None})
    BY <1>4 DEF DdnsCrash
  <2>2. orphaned' = (orphaned \/ admin # None)
    BY <1>4 DEF DdnsCrash
  <2>3. BreakerInv'
    BY <2>1, BreakerMoves DEF BreakerInv
  <2>4. DdnsRowsInv'
    BY <2>1, <2>2 DEF DdnsRowsInv, DdnsRowsType, AdminInv, RowAndSecretTogether
  <2>5. worker' \in WorkerType /\ OpInv'
    BY <2>1 DEF WorkerType, Pcs, Results, Idle, OpInv
  <2>6. lost' \subseteq Ops /\ journal' \subseteq Ops
    BY <2>1 DEF ProcessInv, WorkerType
  <2>7. \A o \in journal : o \in lost'
    BY <2>1, DdnsAssumption DEF ProcessInv, OpenOperationAttended
  <2>8. ProcessInv'
    BY <2>1, <2>5, <2>6, <2>7 DEF ProcessInv, OpenOperationAttended
  <2> QED BY <1>1, <2>3, <2>4, <2>8
<1> QED BY <1>2, <1>3, <1>4

\* Every step keeps the invariant.
LEMMA DdnsInvNext == DdnsInv /\ [DdnsNext]_ddnsVars => DdnsInv'
<1> SUFFICES ASSUME DdnsInv, [DdnsNext]_ddnsVars PROVE DdnsInv'
  OBVIOUS
<1>1. CASE UNCHANGED ddnsVars
  BY <1>1 DEF DdnsInv, ddnsVars, rowVars, provider, bounds, DdnsRowsInv, DdnsRowsType, AdminInv, RowAndSecretTogether,
     ProcessInv, OpInv, OpenOperationAttended, WorkerType, BreakerInv, BreakerType, FailuresAreConsecutive,
     BoundsTypeOK
<1>2. CASE DdnsNext
  <2>1. Tick \in Workers
    BY DEF Workers
  <2> QED BY <1>2, <2>1, AdminKeeps, ExecutionKeeps, DdnsAroundKeeps DEF DdnsNext
<1> QED BY <1>1, <1>2

\* The invariant holds in every reachable state.
LEMMA DdnsInvariance == DdnsSpec => []DdnsInv
BY DdnsInvInit, DdnsInvNext, PTL DEF DdnsSpec

----------------------------------------------------------------------------
\* The entry, its secret, the executions, the journal and the breaker keep their types.
THEOREM DdnsTypes == DdnsSpec => []DdnsTypeOK
<1>1. DdnsInv => DdnsTypeOK
  BY DEF DdnsInv, DdnsTypeOK, DdnsRowsInv, DdnsRowsType, ProcessInv, WorkerType, Pcs, Results, BreakerInv, BreakerType
<1> QED BY DdnsInvariance, <1>1, PTL

\* No path of processOne forgets its operation.
THEOREM OperationsAttended == DdnsSpec => []OpenOperationAttended
<1>1. DdnsInv => OpenOperationAttended
  BY DEF DdnsInv, ProcessInv
<1> QED BY DdnsInvariance, <1>1, PTL

\* The entry has its token; a token without entry is explained.
THEOREM RowsHaveSecrets == DdnsSpec => []RowAndSecretTogether
<1>1. DdnsInv => RowAndSecretTogether
  BY DEF DdnsInv, DdnsRowsInv
<1> QED BY DdnsInvariance, <1>1, PTL

\* A closed breaker counts the failures since the last success, and is below its threshold.
THEOREM BreakerCounts == DdnsSpec => []FailuresAreConsecutive
<1>1. DdnsInv => FailuresAreConsecutive
  BY DEF DdnsInv, BreakerInv
<1> QED BY DdnsInvariance, <1>1, PTL

\* Only the execution that recorded a success changes what is applied, in its own row.
LEMMA AppliedStep ==
  ASSUME DdnsInv, [DdnsNext]_ddnsVars, row # None, row' # None, row'.applied # row.applied
  PROVE  \E w \in Workers : /\ At(w, "record") /\ worker'[w].pc = "close"
                           /\ worker[w].res = "ok" /\ worker[w].row.id = row.id
<1>1. row \in Entry /\ worker \in WorkerType
  BY DEF DdnsInv, DdnsRowsInv, DdnsRowsType, ProcessInv
<1>2. CASE \E w \in Workers : Record(w)
  <2>1. PICK w \in Workers : Record(w)
    BY <1>2
  <2>2. row.id = worker[w].row.id /\ row' = Ran(row, worker[w].res) /\ At(w, "record") /\ Goto(w, "close")
    BY <2>1 DEF Record
  <2>3. worker[w].res = "ok"
    BY <1>1, <2>2, RanEntry
  <2>4. worker'[w].pc = "close"
    BY <1>1, <2>2 DEF Goto, WorkerType
  <2> QED BY <2>2, <2>3, <2>4
<1>3. CASE IntervalEnds
  BY <1>1, <1>3, DueEntry DEF IntervalEnds
<1>4. CASE \E enabled, auto \in BOOLEAN : CreateDdns(enabled, auto) \/ UpdateDdnsConfig(enabled, auto)
  <2>1. PICK enabled \in BOOLEAN, auto \in BOOLEAN : CreateDdns(enabled, auto) \/ UpdateDdnsConfig(enabled, auto)
    BY <1>4
  <2>2. ~CreateDdns(enabled, auto)
    BY DEF CreateDdns, DdnsInv, DdnsRowsInv, AdminInv
  <2>3. row' = Configured(row, enabled, auto)
    BY <2>1, <2>2 DEF UpdateDdnsConfig
  <2>4. Configured(row, enabled, auto).applied = row.applied
    BY <1>1 DEF Configured, Entry
  <2> QED BY <2>3, <2>4
<1>5. CASE DeleteSecret
  BY <1>5 DEF DeleteSecret
<1>6. CASE UNCHANGED row
  BY <1>6
<1>7. CASE \/ \E good \in BOOLEAN : CreateSecret(good) \/ RotateToken(good)
           \/ \E purge \in BOOLEAN : DeleteDdns(purge)
           \/ DdnsPass \/ CooldownEnds \/ AddressMoves \/ DdnsCrash
           \/ \E w \in Workers : \/ ForceUpdate(w) \/ OpenOperation(w) \/ Dial(w) \/ Serve(w) \/ AfterCall(w)
                                \/ Close(w) \/ Disconnect(w)
  <2>1. row' = row \/ row' = None
    BY <1>7 DEF CreateSecret, RotateToken, DeleteDdns, DdnsPass, CooldownEnds, AddressMoves, DdnsCrash, ForceUpdate,
       OpenOperation, Dial, Serve, AfterCall, Close, Disconnect, rowVars
  <2> QED BY <2>1
<1> QED BY <1>2, <1>3, <1>4, <1>5, <1>6, <1>7 DEF DdnsNext, Process, ddnsVars, rowVars

\* A result only reaches the entry it was asked for.
THEOREM ResultsKeepTheirRow == DdnsSpec => ResultsStayWithTheirRow
<1>1. DdnsInv /\ [DdnsNext]_ddnsVars =>
        [row # None /\ row' # None /\ row'.applied # row.applied =>
           \E w \in Workers : /\ At(w, "record") /\ worker'[w].pc = "close"
                              /\ worker[w].res = "ok" /\ worker[w].row.id = row.id]_ddnsVars
  BY AppliedStep
<1> QED BY DdnsInvariance, <1>1, PTL DEF DdnsSpec, ResultsStayWithTheirRow

----------------------------------------------------------------------------
(* Exposure *)

(* The clients and the rows *)

ViewPcs == {"idle", "seen", "save", "config"}
View == [pc : ViewPcs, app : Apps \cup {None}, row : Listed \cup {None}, new : Edit \cup {None},
         cfg : Config \cup {None}]

\* An id is never used again.
IdsAreOld == \A a \in Apps : rows[a] # None => rows[a].id <= asked

\* A client that saw an app, as it is now or as it was: the same generation of the same
\* row has the same content.
SawIt(v) == \A a \in Apps : v.app = a /\ rows[a] # None /\ rows[a].id = v.row.id =>
  /\ v.row.desired <= rows[a].desired
  /\ v.row.desired = rows[a].desired => v.row.on = rows[a].on /\ v.row.route = rows[a].route

\* The update that it saves changes one thing of the row it would match.
EditsIt(v) == \A a \in Apps :
  v.app = a /\ rows[a] # None /\ rows[a].id = v.row.id /\ rows[a].desired = v.row.desired =>
    v.new.on = rows[a].on \/ v.new.route = rows[a].route

ViewOK(v) == /\ v.pc \in {"seen", "save"} => /\ v.app \in Apps /\ v.row \in Listed
                                            /\ v.row.id <= asked /\ SawIt(v)
             /\ v.pc = "save" => v.new \in Edit /\ EditsIt(v)
             /\ v.pc = "config" => v.cfg \in Config

ExposureRowsType == rows \in [Apps -> ExposedApp \cup {None}] /\ asked \in Nat /\ view \in [Clients -> View]
ExposureRowsInv == ExposureRowsType /\ IdsAreOld /\ \A c \in Clients : ViewOK(view[c])

(* The firewall and what is on record of it *)

WallType == /\ cfg \in Config /\ managed \subseteq Ports /\ ufw \in [active : BOOLEAN, rules : SUBSET Ports]
            /\ opened \subseteq Ports /\ leaked \subseteq Ports /\ wanted \subseteq Ports
PassType == /\ pass \in [pc : {"idle", "list", "listen", "wall", "persist", "routes", "tls", "mark"},
                         cfg : Config \cup {None}, managed : SUBSET Ports, ours : SUBSET Ports,
                         rows : [Apps -> ExposedApp \cup {None}], tls : BOOLEAN, todo : SUBSET Apps]
            /\ pass.pc # "idle" => pass.cfg \in Config

\* The record the pass read is the one there is, until it writes it.
RecordIsFresh == pass.pc \in {"list", "listen", "wall", "persist"} => pass.managed = managed

\* When the pass writes the ports it uses, it has deleted the others.
OthersDeleted == Doing("persist") /\ pass.ours # {} => opened \ {SSH} \subseteq leaked \cup pass.ours

\* What NimOS opened is open; what it has on record was once configured.
OnceWanted == /\ opened \subseteq ufw.rules
              /\ cfg.ports \cup managed \cup pass.managed \cup pass.ours \subseteq wanted
              /\ pass.cfg # None => pass.cfg.ports \subseteq wanted

WallInv == WallType /\ PassType /\ RecordIsFresh /\ OthersDeleted /\ OnceWanted /\ OpenedPortsAreTracked

CaddyType == /\ caddy \in [ports : PortChoices, routes : [Apps -> Routes \cup {None}],
                           redirect : BOOLEAN, tls : BOOLEAN]
             /\ token \in BOOLEAN
ExposureInv == ExposureRowsInv /\ WallInv /\ CaddyType /\ faults \in Nat

----------------------------------------------------------------------------
(* Rows *)

\* A client goes on, or goes away; the rows stay.
LEMMA ViewMoves ==
  ASSUME ExposureRowsInv, UNCHANGED <<rows, asked>>, NEW c \in Clients, NEW new \in View, ViewOK(new),
         view' = [view EXCEPT ![c] = new]
  PROVE  ExposureRowsInv'
<1>1. view' \in [Clients -> View] /\ \A d \in Clients : view'[d] = IF d = c THEN new ELSE view[d]
  BY DEF ExposureRowsInv, ExposureRowsType
<1>2. \A d \in Clients : ViewOK(view'[d])
  BY <1>1 DEF ExposureRowsInv
<1>3. \A d \in Clients : ViewOK(view[d])'
  BY <1>2 DEF ViewOK, SawIt, EditsIt
<1> QED BY <1>1, <1>3 DEF ExposureRowsInv, ExposureRowsType, IdsAreOld

\* A client at rest is all right.
LEMMA NoViewOK == NoView \in View /\ ViewOK(NoView)
BY DEF NoView, View, ViewPcs, ViewOK

\* One row is created, deleted, edited with a new generation, or marked.
LEMMA RowMoves ==
  ASSUME ExposureRowsInv, NEW a \in Apps, NEW new \in ExposedApp \cup {None}, rows' = [rows EXCEPT ![a] = new],
         asked' \in Nat, asked <= asked', new # None => new.id <= asked',
         \/ new = None
         \/ rows[a] = None /\ new.id > asked
         \/ /\ rows[a] # None /\ new.id = rows[a].id
            /\ \/ new.desired > rows[a].desired
               \/ new.desired = rows[a].desired /\ new.on = rows[a].on /\ new.route = rows[a].route,
         \/ UNCHANGED view
         \/ \E c \in Clients : view' = [view EXCEPT ![c] = NoView]
  PROVE  ExposureRowsInv'
<1>1. rows' \in [Apps -> ExposedApp \cup {None}] /\ \A x \in Apps : rows'[x] = IF x = a THEN new ELSE rows[x]
  BY DEF ExposureRowsInv, ExposureRowsType
<1>2. IdsAreOld'
  BY <1>1 DEF ExposureRowsInv, ExposureRowsType, IdsAreOld, ExposedApp
<1>3. view' \in [Clients -> View] /\ \A c \in Clients : view'[c] = NoView \/ view'[c] = view[c]
  BY NoViewOK DEF ExposureRowsInv, ExposureRowsType
<1>4. \A c \in Clients : ViewOK(view[c])'
  <2> SUFFICES ASSUME NEW c \in Clients PROVE ViewOK(view[c])'
    OBVIOUS
  <2>1. CASE view'[c] = NoView
    BY <2>1 DEF NoView, ViewOK
  <2>2. CASE view'[c] = view[c]
    <3> DEFINE v == view[c]
    <3>1. v \in View /\ ViewOK(v)
      BY DEF ExposureRowsInv, ExposureRowsType
    <3>2. CASE v.pc \notin {"seen", "save"}
      BY <2>2, <3>1, <3>2 DEF ViewOK
    <3>3. CASE v.pc \in {"seen", "save"}
      <4>1. /\ v.app \in Apps /\ v.row \in Listed /\ v.row.id <= asked /\ SawIt(v)
            /\ v.pc = "save" => v.new \in Edit /\ EditsIt(v)
        BY <3>1, <3>3 DEF ViewOK
      <4>2. v.row.id \in Nat /\ v.row.desired \in Nat /\ asked \in Nat
        BY <4>1 DEF Listed, ExposureRowsInv, ExposureRowsType
      <4>3. SawIt(v)'
        BY <1>1, <2>2, <4>1, <4>2 DEF SawIt, ExposedApp, ExposureRowsInv, ExposureRowsType
      <4>4. v.pc = "save" => EditsIt(v)'
        BY <1>1, <2>2, <4>1, <4>2 DEF SawIt, EditsIt, ExposedApp, ExposureRowsInv, ExposureRowsType
      <4>5. v.row.id <= asked'
        BY <4>1, <4>2
      <4> QED BY <2>2, <3>3, <4>1, <4>3, <4>4, <4>5 DEF ViewOK
    <3> QED BY <3>2, <3>3
  <2> QED BY <1>3, <2>1, <2>2
<1> QED BY <1>1, <1>2, <1>3, <1>4 DEF ExposureRowsInv, ExposureRowsType

\* An edit changes what the request says, and the generation.
LEMMA EditedApp ==
  ASSUME NEW r \in ExposedApp, NEW e \in Edit
  PROVE  /\ Edited(r, e) \in ExposedApp /\ Edited(r, e).id = r.id
         /\ Edited(r, e).desired > r.desired
         /\ Edited(r, e).on = e.on /\ Edited(r, e).route = e.route
<1> DEFINE d == r.desired + 1
          o == e.on
          t == e.route
          new == [r EXCEPT !.on = o, !.route = t, !.desired = d]
<1>1. d \in Nat /\ d > r.desired /\ o \in BOOLEAN /\ t \in Routes
  BY DEF ExposedApp, Edit
<1> HIDE DEF d, o, t
<1>2. new \in ExposedApp /\ new.id = r.id /\ new.desired = d
  BY <1>1 DEF ExposedApp
<1>3. new.on = o /\ new.route = t
  BY <1>1 DEF ExposedApp
<1>4. Edited(r, e) = new
  BY DEF Edited, d, o, t
<1> QED BY <1>1, <1>2, <1>3, <1>4 DEF o, t

\* Marking changes no more than the generation applied.
LEMMA MarkedApp ==
  ASSUME NEW r \in ExposedApp
  PROVE  LET new == [r EXCEPT !.applied = r.desired] IN
         new \in ExposedApp /\ new.id = r.id /\ new.desired = r.desired /\ new.on = r.on /\ new.route = r.route
BY DEF ExposedApp

\* The clients see and compose: the rows stay, and what they saw is what there was.
LEMMA ClientsKeepRows ==
  ASSUME ExposureRowsInv, cfg \in Config, NEW c \in Clients,
         (\E a \in Apps : ReadApp(c, a)) \/ ComposeUpdate(c) \/ ComposeConfig(c)
  PROVE  ExposureRowsInv'
<1> USE AbsenceAssumption, ExposureAssumption
<1>0. view[c] \in View /\ ViewOK(view[c]) /\ view \in [Clients -> View]
  BY DEF ExposureRowsInv, ExposureRowsType
<1>1. ASSUME NEW a \in Apps, ReadApp(c, a) PROVE ExposureRowsInv'
  <2>1. rows[a] \in ExposedApp /\ rows[a].id <= asked
    BY <1>1, Zenon DEF ReadApp, ExposureRowsInv, ExposureRowsType, IdsAreOld
  <2> DEFINE s == [id |-> rows[a].id, desired |-> rows[a].desired, on |-> rows[a].on, route |-> rows[a].route]
  <2>2. s \in Listed /\ s.id = rows[a].id /\ s.desired = rows[a].desired /\ s.on = rows[a].on
        /\ s.route = rows[a].route
    BY <2>1 DEF ExposedApp, Listed
  <2>3. Seen(a) = s
    BY DEF Seen
  <2> HIDE DEF s
  <2> DEFINE new == [view[c] EXCEPT !.pc = "seen", !.app = a, !.row = s]
  <2>4. new \in View /\ new.pc = "seen" /\ new.app = a /\ new.row = s
    BY <1>0, <2>2 DEF View, ViewPcs
  <2>5. view' = [view EXCEPT ![c] = new]
    BY <1>0, <1>1, <2>3, Zenon DEF ReadApp
  <2>6. UNCHANGED <<rows, asked>>
    BY <1>1, Zenon DEF ReadApp, db, bounds
  <2> HIDE DEF new
  <2>7. ViewOK(new)
    BY <2>1, <2>2, <2>4 DEF ViewOK, SawIt, ExposedApp
  <2> QED BY <2>4, <2>5, <2>6, <2>7, ViewMoves
<1>2. CASE ComposeUpdate(c)
  <2>1. UNCHANGED <<rows, asked>> /\ view[c].pc = "seen"
    BY <1>2 DEF ComposeUpdate, db, bounds
  <2>2. CASE view' = [view EXCEPT ![c] = NoView]
    BY <2>1, <2>2, NoViewOK, ViewMoves
  <2>3. CASE view' # [view EXCEPT ![c] = NoView]
    <3>1. PICK e \in Edit : /\ (e.on = rows[view[c].app].on) # (e.route = rows[view[c].app].route)
                            /\ view' = [view EXCEPT ![c].pc = "save", ![c].new = e]
      BY <1>2, <2>3 DEF ComposeUpdate
    <3> DEFINE new == [view[c] EXCEPT !.pc = "save", !.new = e]
    <3>2. new \in View /\ new.pc = "save" /\ new.new = e /\ new.app = view[c].app /\ new.row = view[c].row
      BY <1>0 DEF View, ViewPcs
    <3>3. view' = [view EXCEPT ![c] = new]
      BY <1>0, <3>1
    <3> HIDE DEF new
    <3>4. ViewOK(new)
      BY <1>0, <2>1, <3>1, <3>2 DEF ViewOK, SawIt, EditsIt
    <3> QED BY <2>1, <3>2, <3>3, <3>4, ViewMoves
  <2> QED BY <2>2, <2>3
<1>3. CASE ComposeConfig(c)
  <2>1. UNCHANGED <<rows, asked>>
    BY <1>3 DEF ComposeConfig, db, bounds
  <2>2. PICK n : /\ n \in {[cfg EXCEPT !.on = ~@]} \cup {[cfg EXCEPT !.ports = p] : p \in PortChoices \ {cfg.ports}}
                 /\ view' = [view EXCEPT ![c].pc = "config", ![c].cfg = n]
    BY <1>3 DEF ComposeConfig
  <2>3. n \in Config
    BY <2>2 DEF Config
  <2> DEFINE new == [view[c] EXCEPT !.pc = "config", !.cfg = n]
  <2>4. new \in View /\ new.pc = "config" /\ new.cfg = n
    BY <1>0, <2>3 DEF View, ViewPcs
  <2>5. view' = [view EXCEPT ![c] = new]
    BY <1>0, <2>2
  <2> HIDE DEF new
  <2>6. ViewOK(new)
    BY <2>3, <2>4 DEF ViewOK
  <2> QED BY <2>1, <2>4, <2>5, <2>6, ViewMoves
<1> QED BY <1>1, <1>2, <1>3

\* The requests and the marks change one row.
LEMMA WritesKeepRows ==
  ASSUME ExposureRowsInv, PassType,
         \/ \E a \in Apps, on \in BOOLEAN, route \in Routes : CreateExposedApp(a, on, route)
         \/ \E c \in Clients : UpdateExposedAppConfig(c) \/ DeleteExposedApp(c)
         \/ \E a \in Apps : MarkExposedAppApplied(a)
  PROVE  ExposureRowsInv'
<1> USE AbsenceAssumption, ExposureAssumption
<1>0. asked \in Nat /\ rows \in [Apps -> ExposedApp \cup {None}]
  BY DEF ExposureRowsInv, ExposureRowsType
<1>1. ASSUME NEW a \in Apps, NEW on \in BOOLEAN, NEW route \in Routes, CreateExposedApp(a, on, route) PROVE ExposureRowsInv'
  <2> DEFINE new == [id |-> asked', desired |-> 1, applied |-> 0, on |-> on, route |-> route]
  <2>1. asked' = asked + 1 /\ UNCHANGED view /\ rows[a] = None
    BY <1>1 DEF CreateExposedApp, Request
  <2>2. new \in ExposedApp /\ new.id = asked'
    BY <1>0, <2>1 DEF ExposedApp
  <2>3. rows' = [rows EXCEPT ![a] = new]
    BY <1>1 DEF CreateExposedApp
  <2> HIDE DEF new
  <2>4. asked' \in Nat /\ asked <= asked' /\ new.id > asked /\ new.id <= asked'
    BY <1>0, <2>1, <2>2
  <2>5. new \in ExposedApp \cup {None} /\ UNCHANGED view
    BY <2>1, <2>2
  <2> QED BY <2>1, <2>3, <2>4, <2>5, RowMoves
<1>2. ASSUME NEW c \in Clients, UpdateExposedAppConfig(c) PROVE ExposureRowsInv'
  <2>1. view' = [view EXCEPT ![c] = NoView] /\ view[c].pc = "save" /\ ViewOK(view[c])
    BY <1>2 DEF UpdateExposedAppConfig, ExposureRowsInv
  <2>2. CASE Matches(c)
    <3> DEFINE a == view[c].app
             new == Edited(rows[a], view[c].new)
    <3>1. a \in Apps /\ view[c].new \in Edit /\ rows[a] \in ExposedApp /\ rows[a] # None
      BY <1>0, <2>1, <2>2 DEF ViewOK, Matches
    <3>2. new \in ExposedApp /\ new.id = rows[a].id /\ new.desired > rows[a].desired
      BY <3>1, EditedApp
    <3>3. rows' = [rows EXCEPT ![a] = new] /\ asked' = asked + 1
      BY <1>2, <2>2 DEF UpdateExposedAppConfig, Request
    <3>4. rows[a].id <= asked
      BY <3>1 DEF ExposureRowsInv, IdsAreOld
    <3> HIDE DEF new, a
    <3>5. asked' \in Nat /\ asked <= asked' /\ new.id <= asked'
      BY <1>0, <3>1, <3>2, <3>3, <3>4 DEF ExposedApp
    <3> QED BY <2>1, <3>1, <3>2, <3>3, <3>5, RowMoves
  <2>3. CASE ~Matches(c)
    <3>1. UNCHANGED <<rows, asked>>
      BY <1>2, <2>3 DEF UpdateExposedAppConfig
    <3>2. NoView \in View /\ ViewOK(NoView) /\ view' = [view EXCEPT ![c] = NoView]
      BY <2>1, NoViewOK
    <3> QED BY <3>1, <3>2, ViewMoves
  <2> QED BY <2>2, <2>3
<1>3. ASSUME NEW c \in Clients, DeleteExposedApp(c) PROVE ExposureRowsInv'
  <2>1. view' = [view EXCEPT ![c] = NoView] /\ view[c].pc = "seen" /\ ViewOK(view[c])
    BY <1>3 DEF DeleteExposedApp, ExposureRowsInv
  <2>2. CASE Matches(c)
    <3>1. view[c].app \in Apps
      BY <2>1 DEF ViewOK
    <3>2. rows' = [rows EXCEPT ![view[c].app] = None] /\ asked' = asked + 1
      BY <1>3, <2>2 DEF DeleteExposedApp, Request
    <3>3. asked' \in Nat /\ asked <= asked'
      BY <1>0, <3>2
    <3> QED BY <2>1, <3>1, <3>2, <3>3, RowMoves
  <2>3. CASE ~Matches(c)
    BY <1>3, <2>1, <2>3, NoViewOK, ViewMoves DEF DeleteExposedApp
  <2> QED BY <2>2, <2>3
<1>4. ASSUME NEW a \in Apps, MarkExposedAppApplied(a) PROVE ExposureRowsInv'
  <2>1. UNCHANGED <<view, asked>>
    BY <1>4 DEF MarkExposedAppApplied
  <2>2. CASE UNCHANGED rows
    BY <2>1, <2>2 DEF ExposureRowsInv, ExposureRowsType, IdsAreOld, ViewOK, SawIt, EditsIt
  <2>3. CASE rows' # rows
    <3>1. rows[a] \in ExposedApp /\ rows' = [rows EXCEPT ![a].applied = rows[a].desired]
      BY <1>0, <1>4, <2>3 DEF MarkExposedAppApplied
    <3> DEFINE new == [rows[a] EXCEPT !.applied = rows[a].desired]
    <3>2. new \in ExposedApp /\ new.id = rows[a].id /\ new.desired = rows[a].desired
          /\ new.on = rows[a].on /\ new.route = rows[a].route
      BY <3>1, MarkedApp
    <3>3. rows' = [rows EXCEPT ![a] = new]
      BY <1>0, <3>1
    <3> HIDE DEF new
    <3>4. rows[a].id <= asked /\ rows[a] # None
      BY <3>1 DEF ExposureRowsInv, IdsAreOld
    <3>5. asked' \in Nat /\ asked <= asked' /\ new.id <= asked'
      BY <1>0, <2>1, <3>2, <3>4
    <3> QED BY <2>1, <3>2, <3>3, <3>4, <3>5, RowMoves
  <2> QED BY <2>2, <2>3
<1> QED BY <1>1, <1>2, <1>3, <1>4

----------------------------------------------------------------------------
(* The firewall *)

\* With ufw on, what is missing is opened and what is not wanted any more is deleted, up to
\* where a command fails.
LEMMA EnsurePortsKeeps ==
  ASSUME WallInv, EnsurePorts
  PROVE  WallInv'
<1> USE ExposureAssumption, AbsenceAssumption
<1> DEFINE P == pass.cfg.ports
<1>0. /\ UNCHANGED <<cfg, managed, wanted>> /\ pass.pc = "wall" /\ pass.cfg \in Config /\ pass.cfg # None
      /\ managed \subseteq Ports /\ pass.managed = managed /\ P \subseteq Ports /\ P \subseteq wanted
      /\ opened \subseteq ufw.rules /\ opened \ {SSH} \subseteq managed \cup leaked
      /\ opened \subseteq Ports /\ leaked \subseteq Ports /\ ufw.rules \subseteq Ports
  BY DEF WallInv, WallType, PassType, RecordIsFresh, OnceWanted, OpenedPortsAreTracked, EnsurePorts, Doing, db, Config,
     Ports
<1>1. Missing = P \ ufw.rules /\ Stale = ((managed \ P) \cap ufw.rules) \ {SSH}
  BY <1>0 DEF Missing, Stale
<1> HIDE DEF P
<1>2. ASSUME NEW pc \in {"routes", "persist"}, NEW ours \in SUBSET Ports,
             pass' = [pass EXCEPT !.pc = pc, !.ours = ours]
      PROVE  /\ PassType' /\ pass'.managed = managed /\ pass'.pc = pc /\ pass'.ours = ours
             /\ pass'.cfg = pass.cfg
  BY <1>0, <1>2 DEF WallInv, PassType
<1>3. CASE ~ufw.active /\ pass' = [pass EXCEPT !.pc = Now({}), !.ours = {}] /\ UNCHANGED <<ufw, opened, leaked, faults>>
  <2>1. Now({}) \in {"routes", "persist"} /\ (Now({}) = "routes" => managed = {})
    BY <1>0 DEF Now
  <2>2. PassType' /\ pass'.managed = managed /\ pass'.ours = {} /\ pass'.pc = Now({}) /\ pass'.cfg = pass.cfg
    BY <1>2, <1>3, <2>1, Zenon
  <2>3. WallType' /\ OnceWanted' /\ RecordIsFresh'
    BY <1>0, <1>3, <2>2 DEF WallInv, WallType, OnceWanted, RecordIsFresh
  <2>4. OthersDeleted' /\ OpenedPortsAreTracked'
    BY <1>0, <1>3, <2>2 DEF OthersDeleted, OpenedPortsAreTracked, Doing
  <2> QED BY <2>2, <2>3, <2>4 DEF WallInv
<1>4. CASE /\ ufw.active /\ pass' = [pass EXCEPT !.pc = Now(P), !.ours = P]
           /\ ufw' = [ufw EXCEPT !.rules = (@ \cup Missing) \ Stale]
           /\ opened' = (opened \cup Missing) \ Stale /\ UNCHANGED <<leaked, faults>>
  <2>1. Now(P) \in {"routes", "persist"} /\ (Now(P) = "routes" => managed = P)
    BY <1>0 DEF Now
  <2>2. PassType' /\ pass'.managed = managed /\ pass'.ours = P /\ pass'.pc = Now(P) /\ pass'.cfg = pass.cfg
    BY <1>0, <1>2, <1>4, <2>1, Zenon
  <2>3. ufw' \in [active : BOOLEAN, rules : SUBSET Ports] /\ opened' \subseteq ufw'.rules
    BY <1>0, <1>1, <1>4 DEF WallInv, WallType
  <2>4. WallType' /\ OnceWanted' /\ RecordIsFresh'
    BY <1>0, <1>1, <1>4, <2>2, <2>3 DEF WallInv, WallType, OnceWanted, RecordIsFresh
  <2>5. opened' \ {SSH} \subseteq leaked \cup P
    BY <1>0, <1>1, <1>4
  <2>6. OthersDeleted' /\ OpenedPortsAreTracked'
    BY <1>0, <1>4, <2>1, <2>2, <2>5 DEF OthersDeleted, OpenedPortsAreTracked, Doing
  <2> QED BY <2>2, <2>4, <2>6 DEF WallInv
<1>5. CASE /\ ufw.active /\ ExposureFault /\ pass' = [pass EXCEPT !.pc = "routes"]
           /\ \E allowed \in SUBSET Missing, deleted \in SUBSET Stale :
                /\ ufw' = [ufw EXCEPT !.rules = (@ \cup allowed) \ deleted]
                /\ opened' = (opened \cup allowed) \ deleted
                /\ leaked' = leaked \cup (allowed \ managed)
  <2>1. PICK allowed \in SUBSET Missing, deleted \in SUBSET Stale :
                /\ ufw' = [ufw EXCEPT !.rules = (@ \cup allowed) \ deleted]
                /\ opened' = (opened \cup allowed) \ deleted
                /\ leaked' = leaked \cup (allowed \ managed)
    BY <1>5
  <2>2. PassType' /\ pass'.managed = managed /\ pass'.ours = pass.ours /\ pass'.pc = "routes" /\ pass'.cfg = pass.cfg
    BY <1>0, <1>5 DEF WallInv, PassType
  <2>3. ufw' \in [active : BOOLEAN, rules : SUBSET Ports] /\ opened' \subseteq ufw'.rules
    BY <1>0, <1>1, <2>1 DEF WallInv, WallType
  <2>4. WallType' /\ OnceWanted' /\ RecordIsFresh'
    BY <1>0, <1>1, <2>1, <2>2, <2>3 DEF WallInv, WallType, OnceWanted, RecordIsFresh
  <2>5. OthersDeleted' /\ OpenedPortsAreTracked'
    BY <1>0, <2>1, <2>2 DEF OthersDeleted, OpenedPortsAreTracked, Doing
  <2> QED BY <2>2, <2>4, <2>5 DEF WallInv
<1> QED BY <1>0, <1>3, <1>4, <1>5 DEF EnsurePorts, P

\* The record is written, or the fault leaves it.
LEMMA PersistPortsKeeps ==
  ASSUME WallInv, PersistPorts
  PROVE  WallInv'
<1>0. /\ UNCHANGED <<cfg, ufw, opened, wanted>> /\ pass.pc = "persist" /\ pass.managed = managed
      /\ pass' = [pass EXCEPT !.pc = "routes"] /\ pass.ours \subseteq Ports
  BY DEF WallInv, PassType, RecordIsFresh, PersistPorts, Doing, db
<1>1. PassType' /\ pass'.pc = "routes" /\ pass'.managed = pass.managed /\ pass'.ours = pass.ours /\ pass'.cfg = pass.cfg
  BY <1>0 DEF WallInv, PassType
<1>2. CASE /\ managed' = pass.ours
           /\ leaked' = (leaked \cup (IF pass.ours = {} THEN opened ELSE {})) \ pass.ours
  <2>1. WallType' /\ OnceWanted' /\ RecordIsFresh' /\ OthersDeleted'
    BY <1>0, <1>1, <1>2 DEF WallInv, WallType, OnceWanted, RecordIsFresh, OthersDeleted, Doing
  <2>2. OpenedPortsAreTracked'
    BY <1>0, <1>1, <1>2 DEF WallInv, OthersDeleted, OpenedPortsAreTracked, Doing
  <2> QED BY <1>1, <2>1, <2>2 DEF WallInv
<1>3. CASE leaked' = leaked \cup (opened \ managed) /\ UNCHANGED managed
  <2>1. WallType' /\ OnceWanted' /\ RecordIsFresh' /\ OthersDeleted'
    BY <1>0, <1>1, <1>3 DEF WallInv, WallType, OnceWanted, RecordIsFresh, OthersDeleted, Doing
  <2>2. OpenedPortsAreTracked'
    BY <1>0, <1>1, <1>3 DEF WallInv, OpenedPortsAreTracked, Doing
  <2> QED BY <1>1, <2>1, <2>2 DEF WallInv
<1> QED BY <1>2, <1>3 DEF PersistPorts

----------------------------------------------------------------------------
(* The pass *)

\* The pass goes on without touching the firewall: it starts anew, rests, or moves on.
LEMMA PassMoves ==
  ASSUME WallInv, UNCHANGED <<cfg, managed, ufw, opened, leaked, wanted>>, PassType', pass.pc # "persist",
         pass'.pc # "persist",
         \/ pass'.pc = "idle" /\ pass'.cfg = None /\ pass'.managed = {} /\ pass'.ours = {}
         \/ pass'.cfg = cfg /\ pass'.managed = managed /\ pass'.ours = pass.ours
         \/ /\ pass'.cfg = pass.cfg /\ pass'.managed = pass.managed /\ pass'.ours = pass.ours
            /\ pass'.pc \in {"list", "listen", "wall"} => pass.pc \in {"list", "listen", "wall"}
  PROVE  WallInv'
<1>1. WallType' /\ RecordIsFresh' /\ OthersDeleted'
  BY DEF WallInv, WallType, RecordIsFresh, OthersDeleted, Doing
<1>2. OnceWanted'
  BY AbsenceAssumption DEF WallInv, OnceWanted
<1>3. OpenedPortsAreTracked'
  BY DEF WallInv, OpenedPortsAreTracked, Doing
<1> QED BY <1>1, <1>2, <1>3 DEF WallInv

LEMMA RestingType ==
  /\ Resting.pc = "idle" /\ Resting.cfg = None /\ Resting.managed = {} /\ Resting.ours = {}
  /\ Resting \in [pc : {"idle", "list", "listen", "wall", "persist", "routes", "tls", "mark"},
                  cfg : Config \cup {None}, managed : SUBSET Ports, ours : SUBSET Ports,
                  rows : [Apps -> ExposedApp \cup {None}], tls : BOOLEAN, todo : SUBSET Apps]
BY DEF Resting

\* Routes are those of enabled apps.
LEMMA ServedType ==
  ASSUME NEW c \in Config, NEW rs \in [Apps -> ExposedApp \cup {None}]
  PROVE  Served(c, rs) \in [Apps -> Routes \cup {None}]
BY DEF Served, ExposedApp

\* Each step of the pass that leaves the firewall alone.
LEMMA PassSteps ==
  ASSUME WallInv, CaddyType, rows \in [Apps -> ExposedApp \cup {None}],
         \/ ReadConfig \/ ListApps \/ SyncListen \/ SyncAppRoutes \/ SyncTLS
         \/ \E a \in Apps : MarkExposedAppApplied(a)
  PROVE  WallInv' /\ CaddyType'
<1> DEFINE PassPcs == {"idle", "list", "listen", "wall", "persist", "routes", "tls", "mark"}
<1>0. PassType /\ cfg \in Config /\ managed \subseteq Ports
  BY DEF WallInv, WallType
<1>1. CASE ReadConfig
  <2>1. UNCHANGED <<cfg, managed, ufw, opened, leaked, wanted, caddy, token>> /\ pass.pc = "idle"
        /\ pass' = [pass EXCEPT !.pc = "list", !.cfg = cfg, !.managed = managed]
    BY <1>1 DEF ReadConfig, Doing, db, firewall
  <2>2. PassType' /\ pass'.pc = "list" /\ pass'.cfg = cfg /\ pass'.managed = managed /\ pass'.ours = pass.ours
    BY <1>0, <2>1 DEF PassType
  <2> QED BY <2>1, <2>2, PassMoves DEF CaddyType
<1>2. CASE ListApps
  <2>1. UNCHANGED <<cfg, managed, ufw, opened, leaked, wanted, caddy, token>> /\ pass.pc = "list"
        /\ pass' = [pass EXCEPT !.pc = "listen", !.rows = rows]
    BY <1>2 DEF ListApps, Doing, db, firewall
  <2>2. PassType' /\ pass'.pc = "listen" /\ pass'.cfg = pass.cfg /\ pass'.managed = pass.managed /\ pass'.ours = pass.ours
    BY <1>0, <2>1 DEF PassType
  <2> QED BY <2>1, <2>2, PassMoves DEF CaddyType
<1>3. CASE SyncListen
  <2>1. UNCHANGED <<cfg, managed, ufw, opened, leaked, wanted, token>> /\ pass.pc = "listen"
        /\ pass' = [pass EXCEPT !.pc = "wall"]
        /\ caddy' \in {caddy, [caddy EXCEPT !.ports = pass.cfg.ports]}
    BY <1>3 DEF SyncListen, Calls, Doing, db, firewall
  <2>2. PassType' /\ pass'.pc = "wall" /\ pass'.cfg = pass.cfg /\ pass'.managed = pass.managed /\ pass'.ours = pass.ours
    BY <1>0, <2>1 DEF PassType
  <2>3. CaddyType'
    BY <1>0, <2>1 DEF PassType, CaddyType, Config
  <2> QED BY <2>1, <2>2, <2>3, PassMoves
<1>4. CASE SyncAppRoutes
  <2> DEFINE routes == Served(pass.cfg, pass.rows)
  <2>0. pass.cfg \in Config /\ pass.rows \in [Apps -> ExposedApp \cup {None}]
    BY <1>0, <1>4 DEF PassType, SyncAppRoutes, Doing
  <2>1. UNCHANGED <<cfg, managed, ufw, opened, leaked, wanted, token>> /\ pass.pc = "routes"
        /\ (pass' = [pass EXCEPT !.pc = "tls", !.tls = token] \/ pass' = Resting)
        /\ caddy' \in {caddy, [caddy EXCEPT !.routes = routes, !.redirect = token]}
    BY <1>4 DEF SyncAppRoutes, Calls, Doing, db, firewall
  <2>2. routes \in [Apps -> Routes \cup {None}] /\ token \in BOOLEAN
    BY <2>0, ServedType DEF CaddyType
  <2> HIDE DEF routes
  <2>3. CaddyType'
    BY <2>1, <2>2 DEF CaddyType
  <2>4. CASE pass' = [pass EXCEPT !.pc = "tls", !.tls = token]
    <3>1. PassType' /\ pass'.pc = "tls" /\ pass'.cfg = pass.cfg /\ pass'.managed = pass.managed
          /\ pass'.ours = pass.ours
      BY <1>0, <2>0, <2>2, <2>4 DEF PassType
    <3> QED BY <2>1, <2>3, <3>1, PassMoves
  <2>5. CASE pass' = Resting
    <3>1. PassType'
      BY <2>5, RestingType DEF PassType
    <3>2. pass'.pc = "idle" /\ pass'.cfg = None /\ pass'.managed = {} /\ pass'.ours = {}
      BY <2>5, RestingType
    <3> QED BY <2>1, <2>3, <3>1, <3>2, PassMoves
  <2> QED BY <2>1, <2>4, <2>5
<1>5. CASE SyncTLS
  <2> DEFINE todo == {a \in Apps : IsPending(pass.rows[a])}
  <2>1. UNCHANGED <<cfg, managed, ufw, opened, leaked, wanted, token>> /\ pass.pc = "tls"
        /\ (pass' = [pass EXCEPT !.pc = "mark", !.todo = todo] \/ pass' = Resting)
        /\ caddy' \in {caddy, [caddy EXCEPT !.tls = pass.tls]}
    BY <1>5 DEF SyncTLS, Calls, Marking, Doing, db, firewall
  <2>2. todo \in SUBSET Apps
    OBVIOUS
  <2> HIDE DEF todo
  <2>3. CaddyType'
    BY <1>0, <2>1 DEF CaddyType, PassType
  <2>4. CASE pass' = [pass EXCEPT !.pc = "mark", !.todo = todo]
    <3>1. PassType' /\ pass'.pc = "mark" /\ pass'.cfg = pass.cfg /\ pass'.managed = pass.managed
          /\ pass'.ours = pass.ours
      BY <1>0, <2>1, <2>2, <2>4 DEF PassType
    <3> QED BY <2>1, <2>3, <3>1, PassMoves
  <2>5. CASE pass' = Resting
    <3>1. PassType'
      BY <2>5, RestingType DEF PassType
    <3>2. pass'.pc = "idle" /\ pass'.cfg = None /\ pass'.managed = {} /\ pass'.ours = {}
      BY <2>5, RestingType
    <3> QED BY <2>1, <2>3, <3>1, <3>2, PassMoves
  <2> QED BY <2>1, <2>4, <2>5
<1>6. ASSUME NEW a \in Apps, MarkExposedAppApplied(a) PROVE WallInv' /\ CaddyType'
  <2>1. UNCHANGED <<cfg, managed, ufw, opened, leaked, wanted, token, caddy>> /\ pass.pc = "mark"
        /\ (pass' = [pass EXCEPT !.todo = @ \ {a}] \/ pass' = Resting)
    BY <1>6 DEF MarkExposedAppApplied, Doing, firewall
  <2>4. CASE pass' = [pass EXCEPT !.todo = @ \ {a}]
    <3>1. PassType' /\ pass'.pc = "mark" /\ pass'.cfg = pass.cfg /\ pass'.managed = pass.managed
          /\ pass'.ours = pass.ours
      BY <1>0, <2>1, <2>4 DEF PassType
    <3> QED BY <2>1, <3>1, PassMoves DEF CaddyType
  <2>5. CASE pass' = Resting
    <3>1. PassType'
      BY <2>5, RestingType DEF PassType
    <3>2. pass'.pc = "idle" /\ pass'.cfg = None /\ pass'.managed = {} /\ pass'.ours = {}
      BY <2>5, RestingType
    <3> QED BY <2>1, <3>1, <3>2, PassMoves DEF CaddyType
  <2> QED BY <2>1, <2>4, <2>5
<1> QED BY <1>1, <1>2, <1>3, <1>4, <1>5, <1>6

----------------------------------------------------------------------------
(* The configuration is saved *)

LEMMA SaveKeeps ==
  ASSUME ExposureRowsInv, WallInv, CaddyType, NEW c \in Clients, SaveExposureConfig(c)
  PROVE  ExposureRowsInv' /\ WallInv' /\ CaddyType'
<1>1. /\ UNCHANGED <<rows, token, caddy, ufw, managed, opened, leaked, pass>> /\ view[c].pc = "config"
      /\ cfg' = view[c].cfg /\ wanted' = wanted \cup cfg'.ports /\ view' = [view EXCEPT ![c] = NoView]
      /\ asked' = asked + 1
  BY DEF SaveExposureConfig, Request, firewall
<1>2. asked \in Nat /\ cfg' \in Config /\ cfg'.ports \subseteq Ports
  BY <1>1 DEF ExposureRowsInv, ExposureRowsType, ViewOK, Config, Ports
<1>3. view' \in [Clients -> View] /\ \A d \in Clients : view'[d] = NoView \/ view'[d] = view[d]
  BY <1>1, NoViewOK DEF ExposureRowsInv, ExposureRowsType
<1>4. ExposureRowsType' /\ IdsAreOld'
  BY <1>1, <1>2, <1>3 DEF ExposureRowsInv, ExposureRowsType, IdsAreOld, ExposedApp
<1>5. ASSUME NEW d \in Clients PROVE ViewOK(view[d])'
  <2>1. ViewOK(view[d]) /\ (view'[d] = NoView \/ view'[d] = view[d])
    BY <1>3 DEF ExposureRowsInv
  <2>2. CASE view'[d] = NoView
    BY <2>2 DEF NoView, ViewOK
  <2>3. CASE view'[d] = view[d]
    BY <1>1, <1>2, <2>1, <2>3 DEF ViewOK, SawIt, EditsIt, Listed
  <2> QED BY <2>1, <2>2, <2>3
<1>6. ExposureRowsInv'
  BY <1>4, <1>5 DEF ExposureRowsInv
<1>7. WallType' /\ PassType' /\ RecordIsFresh' /\ OthersDeleted' /\ OnceWanted'
  BY <1>1, <1>2 DEF WallInv, WallType, PassType, RecordIsFresh, OthersDeleted, OnceWanted, Doing
<1>8. OpenedPortsAreTracked' /\ CaddyType'
  BY <1>1 DEF WallInv, OpenedPortsAreTracked, CaddyType, Doing
<1> QED BY <1>6, <1>7, <1>8 DEF WallInv

(* What happens around *)

\* Another component's request counts too.
LEMMA RowsStay ==
  ASSUME ExposureRowsInv, UNCHANGED <<rows, view>>, asked' \in Nat, asked <= asked'
  PROVE  ExposureRowsInv'
<1>1. ExposureRowsType' /\ IdsAreOld'
  BY DEF ExposureRowsInv, ExposureRowsType, IdsAreOld, ExposedApp
<1>2. ASSUME NEW c \in Clients PROVE ViewOK(view[c])'
  BY DEF ExposureRowsInv, ExposureRowsType, ViewOK, SawIt, EditsIt, Listed
<1> QED BY <1>1, <1>2 DEF ExposureRowsInv

LEMMA BaseType ==
  Base \in [ports : PortChoices, routes : [Apps -> Routes \cup {None}], redirect : BOOLEAN, tls : BOOLEAN]
BY ExposureAssumption DEF Base

LEMMA ExposureAroundKeeps ==
  ASSUME ExposureRowsInv, WallInv, CaddyType, faults \in Nat,
         TokenChanges \/ CaddyRestarts \/ UfwSwitched \/ (\E p \in Ports : UserAllows(p)) \/ ExposureCrash
  PROVE  ExposureRowsInv' /\ WallInv' /\ CaddyType'
<1> USE ExposureAssumption, BoundsAssumption
<1>0. asked \in Nat
  BY DEF ExposureRowsInv, ExposureRowsType
<1>1. CASE TokenChanges \/ CaddyRestarts
  <2>1. UNCHANGED <<rows, view, cfg, managed, ufw, opened, leaked, wanted, pass>> /\ asked' \in Nat /\ asked <= asked'
    BY <1>0, <1>1 DEF TokenChanges, CaddyRestarts, Request, db, firewall
  <2>2. CaddyType'
    <3>1. CASE TokenChanges
      <4>1. token' = ~token /\ caddy' = caddy /\ CaddyType
        BY <3>1 DEF TokenChanges
      <4>2. token' \in BOOLEAN
        BY <4>1, Zenon DEF CaddyType
      <4> QED BY <4>1, <4>2 DEF CaddyType
    <3>2. CASE CaddyRestarts
      <4>1. caddy' = Base /\ token' = token
        BY <3>2 DEF CaddyRestarts
      <4> QED BY <4>1, BaseType DEF CaddyType
    <3> QED BY <1>1, <3>1, <3>2
  <2>3. WallInv'
    BY <2>1 DEF WallInv, WallType, PassType, RecordIsFresh, OthersDeleted, OnceWanted, OpenedPortsAreTracked, Doing
  <2> QED BY <2>1, <2>2, <2>3, RowsStay
<1>2. CASE UfwSwitched \/ \E p \in Ports : UserAllows(p)
  <2>1. UNCHANGED <<rows, view, cfg, managed, opened, leaked, wanted, pass, token, caddy>> /\ asked' \in Nat /\ asked <= asked'
    BY <1>0, <1>2 DEF UfwSwitched, UserAllows, Request, db
  <2>2. ufw' \in [active : BOOLEAN, rules : SUBSET Ports] /\ ufw.rules \subseteq ufw'.rules
    <3>0. ufw \in [active : BOOLEAN, rules : SUBSET Ports]
      BY DEF WallInv, WallType
    <3>1. CASE UfwSwitched
      <4> DEFINE b == ~ufw.active
      <4>1. b \in BOOLEAN /\ ufw' = [ufw EXCEPT !.active = b]
        BY <3>1 DEF UfwSwitched
      <4> HIDE DEF b
      <4> QED BY <3>0, <4>1
    <3>2. ASSUME NEW p \in Ports, UserAllows(p)
          PROVE  ufw' \in [active : BOOLEAN, rules : SUBSET Ports] /\ ufw.rules \subseteq ufw'.rules
      BY <3>0, <3>2 DEF UserAllows
    <3> QED BY <1>2, <3>1, <3>2
  <2>3. WallInv'
    BY <2>1, <2>2 DEF WallInv, WallType, PassType, RecordIsFresh, OthersDeleted, OnceWanted, OpenedPortsAreTracked, Doing
  <2> QED BY <2>1, <2>3, RowsStay DEF CaddyType
<1>3. CASE ExposureCrash
  <2>1. /\ UNCHANGED <<rows, cfg, token, caddy, ufw, managed, opened, wanted, asked>> /\ pass' = Resting
        /\ view' = [c \in Clients |-> NoView]
        /\ leaked' = leaked \cup (IF Doing("persist") THEN opened \ managed ELSE {})
    BY <1>3 DEF ExposureCrash, db
  <2>2. ExposureRowsInv'
    BY <2>1, NoViewOK DEF ExposureRowsInv, ExposureRowsType, IdsAreOld, ViewOK, NoView
  <2>3. PassType' /\ pass'.pc = "idle" /\ pass'.cfg = None /\ pass'.managed = {} /\ pass'.ours = {}
    BY <2>1, RestingType DEF PassType
  <2>4. WallType' /\ OnceWanted' /\ RecordIsFresh' /\ OthersDeleted'
    BY <2>1, <2>3 DEF WallInv, WallType, OnceWanted, RecordIsFresh, OthersDeleted, Doing
  <2>5. OpenedPortsAreTracked'
    BY <2>1, <2>3 DEF WallInv, OpenedPortsAreTracked, Doing
  <2> QED BY <2>1, <2>2, <2>3, <2>4, <2>5 DEF WallInv, CaddyType
<1> QED BY <1>1, <1>2, <1>3

----------------------------------------------------------------------------
(* The invariant *)

LEMMA ExposureInvInit == ExposureInit => ExposureInv
<1> SUFFICES ASSUME ExposureInit PROVE ExposureInv
  OBVIOUS
<1> USE ExposureAssumption, AbsenceAssumption
<1>1. DefaultPorts \subseteq Ports /\ (CHOOSE r \in Routes : TRUE) \in Routes
  BY DEF Ports
<1>2. asked = 0 /\ faults = 0 /\ view = [c \in Clients |-> NoView] /\ pass = Resting /\ wanted = DefaultPorts
      /\ opened = managed /\ leaked = {} /\ token = FALSE
  BY DEF ExposureInit, BoundsInit
<1>3. cfg \in Config /\ cfg.ports = DefaultPorts /\ managed \subseteq DefaultPorts
  <2>1. \/ cfg = [on |-> FALSE, ports |-> DefaultPorts] /\ managed = {}
        \/ cfg = [on |-> TRUE, ports |-> DefaultPorts] /\ managed = DefaultPorts
    BY DEF ExposureInit
  <2>2. CASE cfg = [on |-> FALSE, ports |-> DefaultPorts] /\ managed = {}
    BY <2>2 DEF Config
  <2>3. CASE cfg = [on |-> TRUE, ports |-> DefaultPorts] /\ managed = DefaultPorts
    BY <2>3 DEF Config
  <2> QED BY <2>1, <2>2, <2>3
<1>4. rows \in [Apps -> ExposedApp \cup {None}] /\ \A a \in Apps : rows[a] # None => rows[a].id = 0
  <2> DEFINE r0 == CHOOSE r \in Routes : TRUE
             app == [id |-> 0, desired |-> 1, applied |-> 1, on |-> TRUE, route |-> r0]
  <2>1. app \in ExposedApp /\ app.id = 0
    <3>1. r0 \in Routes
      OBVIOUS
    <3> HIDE DEF r0
    <3> QED BY <3>1 DEF ExposedApp
  <2>2. rows = [a \in Apps |-> None] \/ rows = [a \in Apps |-> app]
    BY DEF ExposureInit
  <2> HIDE DEF app
  <2> QED BY <2>1, <2>2
<1>5. ufw \in [active : BOOLEAN, rules : SUBSET Ports] /\ managed \subseteq ufw.rules
  <2>1. \/ managed = {} /\ ufw = [active |-> TRUE, rules |-> {SSH}]
        \/ managed = DefaultPorts /\ ufw = [active |-> TRUE, rules |-> {SSH} \cup DefaultPorts]
    BY DEF ExposureInit
  <2>2. CASE managed = {} /\ ufw = [active |-> TRUE, rules |-> {SSH}]
    BY <2>2
  <2>3. CASE managed = DefaultPorts /\ ufw = [active |-> TRUE, rules |-> {SSH} \cup DefaultPorts]
    BY <1>1, <2>3
  <2> QED BY <2>1, <2>2, <2>3
<1>6. ExposureRowsInv
  BY <1>2, <1>4, NoViewOK DEF ExposureRowsInv, ExposureRowsType, IdsAreOld
<1>7. PassType
  BY <1>2, RestingType DEF PassType
<1>8. WallType /\ RecordIsFresh /\ OthersDeleted /\ OnceWanted /\ OpenedPortsAreTracked
  BY <1>1, <1>2, <1>3, <1>5, RestingType DEF WallType, RecordIsFresh, OthersDeleted, OnceWanted,
     OpenedPortsAreTracked, Doing
<1>9. CaddyType
  <2>2. Served(cfg, rows) \in [Apps -> Routes \cup {None}]
    BY <1>3, <1>4, ServedType
  <2>3. caddy = Base \/ caddy = [Base EXCEPT !.routes = Served(cfg, rows)]
    BY DEF ExposureInit
  <2> HIDE DEF Base, Served
  <2> QED BY <1>2, BaseType, <2>2, <2>3 DEF CaddyType
<1> QED BY <1>2, <1>6, <1>7, <1>8, <1>9 DEF ExposureInv, WallInv

\* Faults are counted.
LEMMA FaultsCount == faults \in Nat /\ (UNCHANGED faults \/ ExposureFault) => faults' \in Nat
BY DEF ExposureFault, Fault

LEMMA ExposureInvNext == ExposureInv /\ [ExposureNext]_exposureVars => ExposureInv'
<1> SUFFICES ASSUME ExposureInv, [ExposureNext]_exposureVars PROVE ExposureInv'
  OBVIOUS
<1>0. /\ ExposureRowsInv /\ WallInv /\ CaddyType /\ faults \in Nat /\ cfg \in Config /\ PassType
      /\ rows \in [Apps -> ExposedApp \cup {None}]
  BY DEF ExposureInv, WallInv, WallType, ExposureRowsInv, ExposureRowsType
<1>1. ASSUME UNCHANGED <<cfg, managed, ufw, opened, leaked, wanted, pass, caddy, token, faults>>, ExposureRowsInv'
      PROVE  ExposureInv'
  BY <1>0, <1>1 DEF ExposureInv, WallInv, WallType, PassType, RecordIsFresh, OthersDeleted, OnceWanted,
     OpenedPortsAreTracked, Doing, CaddyType
<1>2. ASSUME NEW c \in Clients, (\E a \in Apps : ReadApp(c, a)) \/ ComposeUpdate(c) \/ ComposeConfig(c)
      PROVE  ExposureInv'
  <2>1. UNCHANGED <<cfg, managed, ufw, opened, leaked, wanted, pass, caddy, token, faults>>
    BY <1>2, Zenon DEF ReadApp, ComposeUpdate, ComposeConfig, db, firewall, bounds
  <2>2. ExposureRowsInv'
    BY <1>0, <1>2, ClientsKeepRows
  <2> QED BY <1>1, <2>1, <2>2
<1>3. ASSUME \/ \E a \in Apps, on \in BOOLEAN, route \in Routes : CreateExposedApp(a, on, route)
             \/ \E c \in Clients : UpdateExposedAppConfig(c) \/ DeleteExposedApp(c)
      PROVE  ExposureInv'
  <2>1. UNCHANGED <<cfg, managed, ufw, opened, leaked, wanted, pass, caddy, token, faults>>
    BY <1>3 DEF CreateExposedApp, UpdateExposedAppConfig, DeleteExposedApp, firewall
  <2>2. ExposureRowsInv'
    BY <1>0, <1>3, WritesKeepRows
  <2> QED BY <1>1, <2>1, <2>2
<1>4. ASSUME NEW c \in Clients, SaveExposureConfig(c) PROVE ExposureInv'
  <2>1. faults' \in Nat
    BY <1>0, <1>4 DEF SaveExposureConfig
  <2> QED BY <1>0, <1>4, <2>1, SaveKeeps DEF ExposureInv
<1>5. ASSUME NEW a \in Apps, MarkExposedAppApplied(a) PROVE ExposureInv'
  <2>1. faults' \in Nat
    BY <1>0, <1>5, FaultsCount DEF MarkExposedAppApplied
  <2>2. ExposureRowsInv'
    BY <1>0, <1>5, WritesKeepRows
  <2> QED BY <1>0, <1>5, <2>1, <2>2, PassSteps DEF ExposureInv
<1>6. CASE EnsurePorts \/ PersistPorts
  <2>1. UNCHANGED <<rows, view, asked, caddy, token>>
    BY <1>6 DEF EnsurePorts, PersistPorts, db
  <2>2. faults' \in Nat
    BY <1>0, <1>6, FaultsCount DEF EnsurePorts, PersistPorts
  <2>3. asked' \in Nat /\ asked <= asked'
    BY <1>0, <2>1 DEF ExposureRowsInv, ExposureRowsType
  <2>4. ExposureRowsInv' /\ CaddyType'
    BY <1>0, <2>1, <2>3, RowsStay DEF CaddyType
  <2> QED BY <1>0, <1>6, <2>2, <2>4, EnsurePortsKeeps, PersistPortsKeeps DEF ExposureInv
<1>7. CASE ReadConfig \/ ListApps \/ SyncListen \/ SyncAppRoutes \/ SyncTLS
  <2>1. UNCHANGED <<rows, view, asked>>
    BY <1>7 DEF ReadConfig, ListApps, SyncListen, SyncAppRoutes, SyncTLS, db, bounds
  <2>2. faults' \in Nat
    BY <1>0, <1>7, FaultsCount DEF ReadConfig, ListApps, SyncListen, SyncAppRoutes, SyncTLS, Calls, bounds
  <2>3. asked' \in Nat /\ asked <= asked'
    BY <1>0, <2>1 DEF ExposureRowsInv, ExposureRowsType
  <2>4. ExposureRowsInv'
    BY <1>0, <2>1, <2>3, RowsStay
  <2> QED BY <1>0, <1>7, <2>2, <2>4, PassSteps DEF ExposureInv
<1>8. CASE TokenChanges \/ CaddyRestarts \/ UfwSwitched \/ (\E p \in Ports : UserAllows(p)) \/ ExposureCrash
  <2>1. faults' \in Nat
    BY <1>0, <1>8, FaultsCount DEF TokenChanges, CaddyRestarts, UfwSwitched, UserAllows, ExposureCrash
  <2> QED BY <1>0, <1>8, <2>1, ExposureAroundKeeps DEF ExposureInv
<1>9. CASE UNCHANGED exposureVars
  <2>1. UNCHANGED <<cfg, managed, ufw, opened, leaked, wanted, pass, caddy, token, faults, rows, view, asked>>
    BY <1>9 DEF exposureVars, db, firewall, bounds
  <2>2. asked' \in Nat /\ asked <= asked'
    BY <1>0, <2>1 DEF ExposureRowsInv, ExposureRowsType
  <2>3. ExposureRowsInv'
    BY <1>0, <2>1, <2>2, RowsStay
  <2> QED BY <1>1, <2>1, <2>3
<1> QED BY <1>2, <1>3, <1>4, <1>5, <1>6, <1>7, <1>8, <1>9 DEF ExposureNext, Reconcile

LEMMA ExposureInvariance == ExposureSpec => []ExposureInv
BY ExposureInvInit, ExposureInvNext, PTL DEF ExposureSpec

\* Rows, clients, configuration, Caddy, firewall and pass are always what their types say.
THEOREM ExposureTypes == ExposureSpec => []ExposureTypeOK
<1>1. ExposureInv => ExposureTypeOK
  BY DEF ExposureInv, ExposureRowsInv, ExposureRowsType, View, ViewPcs, WallInv, WallType, PassType, CaddyType, ExposureTypeOK, BoundsTypeOK
<1> QED BY <1>1, ExposureInvariance, PTL

\* Every rule of the firewall that NimOS opened, but that of SSH, is on record or about to be,
\* unless a fault took it from the record.
THEOREM RulesAreTracked == ExposureSpec => []OpenedPortsAreTracked
<1>1. ExposureInv => OpenedPortsAreTracked
  BY DEF ExposureInv, WallInv
<1> QED BY <1>1, ExposureInvariance, PTL

----------------------------------------------------------------------------
(* What a step may never do *)

\* The client whose write matched had seen the row as it is, and leaves alone what its
\* request does not mention.
LEMMA MatchedWrite ==
  ASSUME ExposureRowsInv, NEW c \in Clients, NEW a \in Apps, view[c].pc \in {"seen", "save"}, Matches(c),
         view[c].app = a, view' = [view EXCEPT ![c] = NoView]
  PROVE  \E d \in Clients : /\ view[d].app = a /\ view'[d] # view[d]
                            /\ view[d].row.id = rows[a].id
                            /\ view[d].row.on = rows[a].on /\ view[d].row.route = rows[a].route
<1>1. ViewOK(view[c]) /\ view \in [Clients -> View]
  BY DEF ExposureRowsInv, ExposureRowsType
<1>2. rows[a] # None /\ rows[a].id = view[c].row.id /\ rows[a].desired = view[c].row.desired
  BY DEF Matches
<1>3. view[c].row.on = rows[a].on /\ view[c].row.route = rows[a].route
  BY <1>1, <1>2 DEF ViewOK, SawIt
<1>4. view'[c] # view[c]
  BY <1>1 DEF NoView
<1> QED BY <1>2, <1>3, <1>4

\* Whoever changes or deletes an exposed app had seen it as it is.
THEOREM NobodyLosesUpdates == ExposureSpec => NoLostUpdate
<1> DEFINE Kept(a) == LET old == rows[a]  new == rows'[a] IN
       old # None /\ (new = None \/ new.desired # old.desired) =>
         /\ \E c \in Clients : /\ view[c].app = a /\ view'[c] # view[c]
                               /\ view[c].row.id = old.id
                               /\ view[c].row.on = old.on /\ view[c].row.route = old.route
         /\ new # None => new.on = old.on \/ new.route = old.route
           Lossless == \A a \in Apps : Kept(a)
<1>1. ASSUME ExposureInv, [ExposureNext]_exposureVars PROVE Lossless
  <2> USE AbsenceAssumption
  <2>0. ExposureRowsInv /\ rows \in [Apps -> ExposedApp \cup {None}]
    BY <1>1 DEF ExposureInv, ExposureRowsInv, ExposureRowsType
  <2>1. CASE UNCHANGED rows
    BY <2>1
  <2>2. ASSUME NEW x \in Apps, NEW on \in BOOLEAN, NEW route \in Routes, CreateExposedApp(x, on, route)
        PROVE  Lossless
    BY <2>0, <2>2 DEF CreateExposedApp
  <2>3. ASSUME NEW c \in Clients, UpdateExposedAppConfig(c), rows' # rows PROVE Lossless
    <3> SUFFICES ASSUME NEW a \in Apps PROVE Kept(a)
      OBVIOUS
    <3>1. /\ Matches(c) /\ view[c].pc = "save" /\ view' = [view EXCEPT ![c] = NoView]
          /\ rows' = [rows EXCEPT ![view[c].app] = Edited(@, view[c].new)]
      BY <2>3 DEF UpdateExposedAppConfig
    <3>2. CASE view[c].app # a
      BY <2>0, <3>1, <3>2
    <3>3. CASE view[c].app = a
      <4>1. rows[a] \in ExposedApp /\ rows[a] # None /\ ViewOK(view[c])
        BY <2>0, <3>1, <3>3 DEF Matches, ExposureRowsInv
      <4>2. view[c].new \in Edit /\ (view[c].new.on = rows[a].on \/ view[c].new.route = rows[a].route)
        BY <3>1, <3>3, <4>1 DEF ViewOK, EditsIt, Matches
      <4>3. rows'[a] = Edited(rows[a], view[c].new)
        BY <2>0, <3>1, <3>3
      <4>4. rows'[a] # None /\ rows'[a].on = view[c].new.on /\ rows'[a].route = view[c].new.route
        BY <4>1, <4>2, <4>3, EditedApp
      <4>5. \E d \in Clients : /\ view[d].app = a /\ view'[d] # view[d]
                               /\ view[d].row.id = rows[a].id
                               /\ view[d].row.on = rows[a].on /\ view[d].row.route = rows[a].route
        BY <2>0, <3>1, <3>3, MatchedWrite
      <4> QED BY <4>2, <4>4, <4>5
    <3> QED BY <3>2, <3>3
  <2>4. ASSUME NEW c \in Clients, DeleteExposedApp(c), rows' # rows PROVE Lossless
    <3> SUFFICES ASSUME NEW a \in Apps PROVE Kept(a)
      OBVIOUS
    <3>1. /\ Matches(c) /\ view[c].pc = "seen" /\ view' = [view EXCEPT ![c] = NoView]
          /\ rows' = [rows EXCEPT ![view[c].app] = None]
      BY <2>4 DEF DeleteExposedApp
    <3>2. CASE view[c].app # a
      BY <2>0, <3>1, <3>2
    <3>3. CASE view[c].app = a
      <4>1. rows'[a] = None
        BY <2>0, <3>1, <3>3
      <4>2. \E d \in Clients : /\ view[d].app = a /\ view'[d] # view[d]
                               /\ view[d].row.id = rows[a].id
                               /\ view[d].row.on = rows[a].on /\ view[d].row.route = rows[a].route
        BY <2>0, <3>1, <3>3, MatchedWrite
      <4> QED BY <4>1, <4>2
    <3> QED BY <3>2, <3>3
  <2>5. ASSUME NEW x \in Apps, MarkExposedAppApplied(x), rows' # rows PROVE Lossless
    <3>1. rows[x] \in ExposedApp /\ rows' = [rows EXCEPT ![x].applied = rows[x].desired]
      BY <2>0, <2>5 DEF MarkExposedAppApplied
    <3> DEFINE new == [rows[x] EXCEPT !.applied = rows[x].desired]
    <3>2. new \in ExposedApp /\ new.desired = rows[x].desired
      BY <3>1, MarkedApp
    <3>3. rows' = [rows EXCEPT ![x] = new]
      BY <2>0, <3>1
    <3> HIDE DEF new
    <3>4. \A a \in Apps : rows'[a] = rows[a] \/ (rows'[a] # None /\ rows'[a].desired = rows[a].desired)
      BY <2>0, <3>2, <3>3
    <3> QED BY <3>4
  <2>6. CASE UNCHANGED exposureVars
    BY <2>1, <2>6 DEF exposureVars, db
  <2>7. CASE (\E c \in Clients, a \in Apps : ReadApp(c, a)) \/ \E c \in Clients : ComposeUpdate(c) \/ ComposeConfig(c)
                                                                           \/ SaveExposureConfig(c)
    <3>1. UNCHANGED rows
      BY <2>7, Zenon DEF ReadApp, ComposeUpdate, ComposeConfig, SaveExposureConfig, db
    <3> QED BY <2>1, <3>1
  <2>8. CASE ReadConfig \/ ListApps \/ SyncListen \/ EnsurePorts \/ PersistPorts \/ SyncAppRoutes \/ SyncTLS
    <3>1. UNCHANGED rows
      BY <2>8 DEF ReadConfig, ListApps, SyncListen, EnsurePorts, PersistPorts, SyncAppRoutes, SyncTLS, db
    <3> QED BY <2>1, <3>1
  <2>9. CASE TokenChanges \/ CaddyRestarts \/ UfwSwitched \/ (\E p \in Ports : UserAllows(p)) \/ ExposureCrash
    <3>1. UNCHANGED rows
      BY <2>9 DEF TokenChanges, CaddyRestarts, UfwSwitched, UserAllows, ExposureCrash, db
    <3> QED BY <2>1, <3>1
  <2> HIDE DEF Lossless, Kept
  <2> QED BY <1>1, <2>1, <2>2, <2>3, <2>4, <2>5, <2>6, <2>7, <2>8, <2>9 DEF ExposureNext, Reconcile
<1>2. ExposureInv /\ [ExposureNext]_exposureVars => [Lossless]_exposureVars
  BY <1>1
<1> QED BY <1>2, ExposureInvariance, PTL DEF ExposureSpec, NoLostUpdate

\* The rule of SSH is never retired; another only if NimOS opened it or once configured its port.
THEOREM FirewallOfTheUser == ExposureSpec => FirewallSpares
<1> DEFINE Spares == \A p \in ufw.rules \ ufw'.rules : p # SSH /\ (p \in opened \/ p \in wanted)
<1>1. ASSUME ExposureInv, [ExposureNext]_exposureVars PROVE Spares
  <2>0. ufw \in [active : BOOLEAN, rules : SUBSET Ports] /\ pass.managed \subseteq wanted
    BY <1>1 DEF ExposureInv, WallInv, WallType, OnceWanted
  <2>1. Stale \subseteq wanted \ {SSH}
    BY <2>0 DEF Stale
  <2>2. CASE EnsurePorts
    <3>1. \E del \in SUBSET Stale, add \in SUBSET Ports : ufw'.rules = (ufw.rules \cup add) \ del
      <4>1. CASE UNCHANGED ufw
        <5>1. ufw'.rules = (ufw.rules \cup {}) \ {}
          BY <4>1
        <5> QED BY <5>1
      <4>2. CASE ufw' # ufw
        <5>1. \E add \in SUBSET Missing, del \in SUBSET Stale : ufw' = [ufw EXCEPT !.rules = (@ \cup add) \ del]
          <6>1. CASE ufw' = [ufw EXCEPT !.rules = (@ \cup Missing) \ Stale]
            BY <6>1
          <6>2. CASE \E allowed \in SUBSET Missing, deleted \in SUBSET Stale :
                       ufw' = [ufw EXCEPT !.rules = (@ \cup allowed) \ deleted]
            BY <6>2
          <6> QED BY <2>2, <4>2, <6>1, <6>2 DEF EnsurePorts
        <5>2. Missing \subseteq Ports
          BY <1>1, <2>2 DEF Missing, ExposureInv, WallInv, PassType, EnsurePorts, Doing, Config, Ports
        <5> QED BY <2>0, <5>1, <5>2
      <4> QED BY <4>1, <4>2
    <3> QED BY <2>1, <3>1
  <2>3. CASE ~EnsurePorts
    <3>1. ufw.rules \subseteq ufw'.rules
      <4>1. CASE UfwSwitched
        <5> DEFINE b == ~ufw.active
        <5>1. ufw' = [ufw EXCEPT !.active = b]
          BY <4>1 DEF UfwSwitched
        <5> HIDE DEF b
        <5> QED BY <2>0, <5>1
      <4>2. ASSUME NEW p \in Ports, UserAllows(p) PROVE ufw.rules \subseteq ufw'.rules
        BY <2>0, <4>2 DEF UserAllows
      <4>3. CASE UNCHANGED exposureVars
        BY <4>3 DEF exposureVars, firewall
      <4>4. CASE ReadConfig \/ ListApps \/ SyncListen \/ PersistPorts \/ SyncAppRoutes \/ SyncTLS
        BY <4>4 DEF ReadConfig, ListApps, SyncListen, PersistPorts, SyncAppRoutes, SyncTLS, firewall
      <4>5. CASE \/ \E c \in Clients, a \in Apps : ReadApp(c, a)
                 \/ \E c \in Clients : \/ ComposeUpdate(c) \/ UpdateExposedAppConfig(c) \/ DeleteExposedApp(c)
                                       \/ ComposeConfig(c) \/ SaveExposureConfig(c)
        BY <4>5, Zenon DEF ReadApp, ComposeUpdate, UpdateExposedAppConfig, DeleteExposedApp, ComposeConfig,
           SaveExposureConfig, firewall
      <4>6. CASE \/ \E a \in Apps, on \in BOOLEAN, route \in Routes : CreateExposedApp(a, on, route)
                 \/ \E a \in Apps : MarkExposedAppApplied(a)
                 \/ TokenChanges \/ CaddyRestarts \/ ExposureCrash
        BY <4>6 DEF CreateExposedApp, MarkExposedAppApplied, TokenChanges, CaddyRestarts, ExposureCrash, firewall
      <4> QED BY <1>1, <2>3, <4>1, <4>2, <4>3, <4>4, <4>5, <4>6 DEF ExposureNext, Reconcile
    <3> QED BY <3>1
  <2> QED BY <2>2, <2>3
<1>2. ExposureInv /\ [ExposureNext]_exposureVars => [Spares]_exposureVars
  BY <1>1
<1> QED BY <1>2, ExposureInvariance, PTL DEF ExposureSpec, FirewallSpares

----------------------------------------------------------------------------
(* The composition *)

\* What the parts' types say once their own invariants do.
LEMMA DdnsInvTypes == DdnsInv => DdnsTypeOK
BY DEF DdnsInv, DdnsTypeOK, DdnsRowsInv, DdnsRowsType, ProcessInv, WorkerType, Pcs, Results, BreakerInv, BreakerType

LEMMA ExposureInvTypes == ExposureInv => ExposureTypeOK
BY DEF ExposureInv, ExposureRowsInv, ExposureRowsType, View, ViewPcs, WallInv, WallType, PassType, CaddyType,
   ExposureTypeOK, BoundsTypeOK

\* The part that moves has its invariant; the other rests with its types.
NetworkInv == /\ NetworkTypesOK
              /\ part = "ddns" => DdnsInv
              /\ part = "exposure" => ExposureInv

\* A part that rests keeps its types: only the counters move, and they stay numbers.
LEMMA DdnsRests == ASSUME DdnsTypeOK, UNCHANGED OnlyDdns, BoundsTypeOK' PROVE DdnsTypeOK'
BY DEF DdnsTypeOK, OnlyDdns, rowVars, provider

LEMMA ExposureRests == ASSUME ExposureTypeOK, UNCHANGED OnlyExposure, BoundsTypeOK' PROVE ExposureTypeOK'
BY DEF ExposureTypeOK, OnlyExposure, db, firewall

\* Both parts start with their invariants.
LEMMA NetworkInit == Init => NetworkInv
BY DdnsInvInit, ExposureInvInit, DdnsInvTypes, ExposureInvTypes DEF Init, NetworkInv, NetworkTypesOK

\* A step moves one part and leaves the other.
LEMMA NetworkNext == NetworkInv /\ [Next]_vars => NetworkInv'
<1> SUFFICES ASSUME NetworkInv, [Next]_vars PROVE NetworkInv'
  OBVIOUS
<1>1. CASE part = "ddns" /\ UNCHANGED part /\ UNCHANGED OnlyExposure /\ [DdnsNext]_ddnsVars
  <2>1. DdnsInv'
    BY <1>1, DdnsInvNext DEF NetworkInv
  <2>2. DdnsTypeOK'
    BY <2>1, DdnsInvTypes, PTL
  <2>3. BoundsTypeOK'
    BY <2>2 DEF DdnsTypeOK
  <2>4. ExposureTypeOK'
    BY <1>1, <2>3, ExposureRests DEF NetworkInv, NetworkTypesOK
  <2> QED BY <1>1, <2>1, <2>2, <2>4 DEF NetworkInv, NetworkTypesOK
<1>2. CASE part = "exposure" /\ UNCHANGED part /\ UNCHANGED OnlyDdns /\ [ExposureNext]_exposureVars
  <2>1. ExposureInv'
    BY <1>2, ExposureInvNext DEF NetworkInv
  <2>2. ExposureTypeOK'
    BY <2>1, ExposureInvTypes, PTL
  <2>3. BoundsTypeOK'
    BY <2>2 DEF ExposureTypeOK
  <2>4. DdnsTypeOK'
    BY <1>2, <2>3, DdnsRests DEF NetworkInv, NetworkTypesOK
  <2> QED BY <1>2, <2>1, <2>2, <2>4 DEF NetworkInv, NetworkTypesOK
<1>3. CASE Next
  BY <1>1, <1>2, <1>3 DEF Next
<1>4. CASE UNCHANGED vars
  <2>1. UNCHANGED <<OnlyDdns, OnlyExposure, bounds, part>>
    BY <1>4 DEF vars
  <2>2. UNCHANGED ddnsVars /\ UNCHANGED exposureVars
    BY <2>1 DEF OnlyDdns, OnlyExposure, ddnsVars, exposureVars
  <2>3. part = "ddns" => DdnsInv'
    BY <2>2, DdnsInvNext DEF NetworkInv
  <2>4. part = "exposure" => ExposureInv'
    BY <2>2, ExposureInvNext DEF NetworkInv
  <2>5. BoundsTypeOK'
    BY <2>1 DEF NetworkInv, NetworkTypesOK, DdnsTypeOK, BoundsTypeOK, bounds
  <2>6. NetworkTypesOK'
    BY <2>1, <2>5, DdnsRests, ExposureRests DEF NetworkInv, NetworkTypesOK
  <2> QED BY <2>1, <2>3, <2>4, <2>6 DEF NetworkInv
<1> QED BY <1>3, <1>4

\* Every variable of both subsystems keeps its type while they take turns at the one
\* configuration, also that of the part that rests.
THEOREM NetworkTypes == FairSpec => []NetworkTypesOK
<1>1. NetworkInv => NetworkTypesOK
  BY DEF NetworkInv
<1>2. Init /\ [][Next]_vars => []NetworkInv
  BY NetworkInit, NetworkNext, PTL
<1> QED BY <1>1, <1>2, PTL DEF FairSpec
================================================================================
