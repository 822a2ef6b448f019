------------------------------- MODULE Shield -------------------------------
(***************************************************************************)
(* NimShield's blocks: the list in memory that the middleware consults, the *)
(* rows that survive a restart, and the set of nftables to which repeat     *)
(* offenders are escalated.  The event loop, a request, the administrator   *)
(* and the cleanup change the three without a common lock, one at a time.   *)
(* Which requests deserve a block is not modelled: any may.                 *)
(***************************************************************************)
EXTENDS Naturals, Sequences, FiniteSets
CONSTANTS
  Keys,               \* network keys: an IPv4 address, or the /64 of an IPv6 one
  PublicKeys,         \* those of the internet
  MaxBlocks, MaxShieldRequests, MaxShieldFaults

ASSUME ShieldAssumption ==
  /\ PublicKeys \subseteq Keys
  /\ MaxBlocks \in Nat /\ MaxShieldRequests \in Nat /\ MaxShieldFaults \in Nat

VARIABLES
  memory,             \* shieldBlocklist: the number of the block of each key, or 0
  blockRows,          \* shield_blocks: the rows of each key, by the number of their block
  expired,            \* the blocks whose time is over
  offences,           \* block_count of shield_reputation
  white,              \* shieldWhitelist, in memory and in SQLite
  kernel, table,      \* the elements of the set of nftables, and whether there is a table
  active,             \* shieldFWActive
  escalation, enabled,\* the two switches, in memory and in SQLite
  engine,             \* shieldEngineOnce
  job,                \* each goroutine: where it is, and with which key
  blocks, shieldAsked, shieldFaults,
  crossed,            \* history: keys of which a block or an unblock began in the middle of another, or that
                      \* nft, a new table or a restart left behind
  armedOff            \* history: the escalation was switched on while the shield was off

shieldVars == <<memory, blockRows, expired, offences, white, kernel, table, active, escalation,
                enabled, engine, job, blocks, shieldAsked, shieldFaults, crossed, armedOff>>
stores == <<memory, blockRows, offences>>
wall == <<kernel, table, active, armedOff>>
switches == <<white, escalation, enabled, engine>>
shieldBounds == <<expired, blocks, shieldAsked, shieldFaults>>

Goroutines == {"loop", "request", "admin", "cleanup"}
Resting == [pc |-> "idle", key |-> 0, block |-> 0, todo |-> {}]
Now(t, pc, k) == job[t].pc = pc /\ job[t].key = k
Becomes(t, pc) == job' = [job EXCEPT ![t].pc = pc]
Rests(t) == job' = [job EXCEPT ![t] = Resting]
ShieldRequest == shieldAsked < MaxShieldRequests /\ shieldAsked' = shieldAsked + 1
ShieldFault == shieldFaults < MaxShieldFaults /\ shieldFaults' = shieldFaults + 1

\* A goroutine is at one of the steps with the key, or has it on its list.
Under(k, steps, lister) == (\E t \in Goroutines : job[t].key = k /\ job[t].pc \in steps) \/ k \in job[lister].todo
Blocking(k) == Under(k, {"delete", "insert", "count", "escalate", "nft", "mark"}, "admin")
Unblocking(k) == Under(k, {"forget", "unrow", "unmark", "unnft"}, "cleanup")
Cross(ks) == crossed' = crossed \cup {k \in ks : Blocking(k) \/ Unblocking(k)}
Eligible(k) == k \in PublicKeys /\ k \notin white

ShieldInit ==
  /\ memory = [k \in Keys |-> 0] /\ blockRows = [k \in Keys |-> <<>>] /\ expired = {}
  /\ offences = [k \in Keys |-> 0] /\ white = {} /\ kernel = {} /\ active = {}
  /\ escalation \in BOOLEAN /\ enabled = TRUE /\ engine = TRUE /\ table = escalation
  /\ job = [t \in Goroutines |-> Resting]
  /\ blocks = 0 /\ shieldAsked = 0 /\ shieldFaults = 0 /\ crossed = {} /\ armedOff = FALSE

-----------------------------------------------------------------------------
(* shieldBlockIP.                                                          *)

BlockIP(t, k) ==
  /\ job[t].pc = "idle" /\ blocks < MaxBlocks /\ blocks' = blocks + 1
  /\ memory' = [memory EXCEPT ![k] = blocks']
  /\ job' = [job EXCEPT ![t] = [Resting EXCEPT !.pc = "delete", !.key = k, !.block = blocks']]
  /\ Cross({k}) /\ UNCHANGED <<blockRows, offences, wall, switches, expired, shieldAsked, shieldFaults>>
\* A rule of the loop: never for an address of the whitelist.
ProcessRules(k) == engine /\ k \notin white /\ BlockIP("loop", k)
\* A honeypot, a scanner, a payload, the feed; who is blocked already gets no further.
Middleware(k) == enabled /\ k \notin white /\ memory[k] \in expired \cup {0} /\ BlockIP("request", k)

DeleteRows(t, k) ==
  /\ Now(t, "delete", k) /\ Becomes(t, "insert") /\ blockRows' = [blockRows EXCEPT ![k] = <<>>]
  /\ UNCHANGED <<memory, offences, wall, switches, shieldBounds, crossed>>
InsertRow(t, k) ==
  /\ Now(t, "insert", k) /\ job' = [job EXCEPT ![t] = [job[t] EXCEPT !.pc = "count", !.block = 0]]
  /\ blockRows' = [blockRows EXCEPT ![k] = Append(@, job[t].block)]
  /\ UNCHANGED <<memory, offences, wall, switches, shieldBounds, crossed>>
\* shieldRepRecordBlock: the first offence stays within the daemon.
RecordBlock(t, k) ==
  /\ Now(t, "count", k) /\ offences' = [offences EXCEPT ![k] = @ + 1]
  /\ IF offences[k] >= 1 THEN Becomes(t, "escalate") ELSE Rests(t)
  /\ UNCHANGED <<memory, blockRows, wall, switches, shieldBounds, crossed>>
MaybeEscalate(t, k) ==
  /\ Now(t, "escalate", k)
  /\ IF Eligible(k) /\ escalation /\ k \notin active THEN Becomes(t, "nft") ELSE Rests(t)
  /\ UNCHANGED <<stores, wall, switches, shieldBounds, crossed>>

\* shieldFWAdd; without a table nft fails.
Proceeds(t) == IF job[t].todo = {} THEN Rests(t) ELSE Becomes(t, "resync")
AddElement(t, k) ==
  /\ Now(t, "nft", k)
  /\ \/ table /\ kernel' = kernel \cup {k} /\ Becomes(t, "mark") /\ UNCHANGED shieldFaults
     \/ UNCHANGED kernel /\ Proceeds(t) /\ (IF table THEN ShieldFault ELSE UNCHANGED shieldFaults)
  /\ UNCHANGED <<stores, table, active, armedOff, switches, expired, blocks, shieldAsked, crossed>>
MarkActive(t, k) ==
  /\ Now(t, "mark", k) /\ active' = active \cup {k} /\ Proceeds(t)
  /\ UNCHANGED <<stores, kernel, table, armedOff, switches, shieldBounds, crossed>>

-----------------------------------------------------------------------------
(* shieldUnblockIP, and what it is called by.                              *)

Unblocks(t, k) == Cross({k}) /\ job' = [job EXCEPT ![t] = [Resting EXCEPT !.pc = "forget", !.key = k]]
AdminUnblocks(k) ==
  /\ job["admin"].pc = "idle" /\ ShieldRequest /\ Unblocks("admin", k)
  /\ UNCHANGED <<stores, wall, switches, expired, blocks, shieldFaults>>
\* shieldIsBlocked reads an entry whose time is over, and releases the lock.
SeeExpired(k) ==
  /\ enabled /\ job["request"].pc = "idle" /\ memory[k] \in expired /\ Unblocks("request", k)
  /\ UNCHANGED <<stores, wall, switches, shieldBounds>>
WhitelistAdd(k) ==
  /\ job["admin"].pc = "idle" /\ ShieldRequest /\ white' = white \cup {k} /\ Unblocks("admin", k)
  /\ UNCHANGED <<stores, wall, escalation, enabled, engine, expired, blocks, shieldFaults>>
WhitelistRemove(k) ==
  /\ k \in white /\ job["admin"].pc = "idle" /\ white' = white \ {k}
  /\ UNCHANGED <<stores, wall, escalation, enabled, engine, job, shieldBounds, crossed>>

ForgetBlock(t, k) ==
  /\ Now(t, "forget", k) /\ memory' = [memory EXCEPT ![k] = 0] /\ Becomes(t, "unrow")
  /\ UNCHANGED <<blockRows, offences, wall, switches, shieldBounds, crossed>>
\* Mutant: an unblock leaves the rows, which bring the block back at the next start.
ForgetRowsNot(t, k) ==
  /\ Now(t, "unrow", k) /\ Becomes(t, "unmark")
  /\ UNCHANGED <<stores, wall, switches, shieldBounds, crossed>>
ForgetRows(t, k) ==
  /\ Now(t, "unrow", k) /\ blockRows' = [blockRows EXCEPT ![k] = <<>>] /\ Becomes(t, "unmark")
  /\ UNCHANGED <<memory, offences, wall, switches, shieldBounds, crossed>>
\* shieldFWRemove.
Unmark(t, k) ==
  /\ Now(t, "unmark", k) /\ active' = active \ {k}
  /\ IF k \in active THEN Becomes(t, "unnft")
     ELSE job' = [job EXCEPT ![t] = IF @.todo = {} THEN Resting ELSE [@ EXCEPT !.pc = "sweep"]]
  /\ UNCHANGED <<stores, kernel, table, armedOff, switches, shieldBounds, crossed>>
RemoveElement(t, k) ==
  /\ Now(t, "unnft", k)
  /\ job' = [job EXCEPT ![t] = IF @.todo = {} THEN Resting ELSE [@ EXCEPT !.pc = "sweep"]]
  /\ \/ kernel' = kernel \ {k} /\ UNCHANGED <<shieldFaults, crossed>>
     \/ ShieldFault /\ UNCHANGED kernel /\ crossed' = crossed \cup {k}
  /\ UNCHANGED <<stores, table, active, armedOff, switches, expired, blocks, shieldAsked>>

\* startShieldCleanup: the entries that are over leave memory together, then nftables
\* one by one; their rows stay.
CleanUp ==
  LET over == {k \in Keys : memory[k] \in expired} IN
  /\ job["cleanup"].pc = "idle" /\ over # {} /\ Cross(over)
  /\ memory' = [k \in Keys |-> IF k \in over THEN 0 ELSE memory[k]]
  /\ job' = [job EXCEPT !["cleanup"] = [Resting EXCEPT !.pc = "sweep", !.todo = over]]
  /\ UNCHANGED <<blockRows, offences, wall, switches, shieldBounds>>
Sweep(k) ==
  /\ job["cleanup"].pc = "sweep" /\ k \in job["cleanup"].todo
  /\ job' = [job EXCEPT !["cleanup"] =
                [job["cleanup"] EXCEPT !.pc = "unmark", !.key = k, !.todo = job["cleanup"].todo \ {k}]]
  /\ UNCHANGED <<stores, wall, switches, shieldBounds, crossed>>

-----------------------------------------------------------------------------
(* The switches.                                                           *)

\* shieldFWInit: a table from nothing; then the record is emptied, then the flag is set.
EscalationOn ==
  /\ ~escalation /\ job["admin"].pc = "idle"
  /\ job' = [job EXCEPT !["admin"] = [Resting EXCEPT !.pc = "build"]]
  /\ UNCHANGED <<stores, wall, switches, shieldBounds, crossed>>
BuildTable ==
  /\ job["admin"].pc = "build" /\ kernel' = {}
  /\ \/ table' = TRUE /\ Becomes("admin", "empty") /\ UNCHANGED shieldFaults
     \/ table' = FALSE /\ Rests("admin") /\ ShieldFault
  /\ UNCHANGED <<stores, active, armedOff, switches, expired, blocks, shieldAsked, crossed>>
\* What was added to the table since is not on record any more.
EmptyRecord ==
  /\ job["admin"].pc = "empty" /\ active' = {} /\ escalation' = TRUE /\ armedOff' = ~enabled
  /\ crossed' = crossed \cup kernel \cup {k \in Keys : Blocking(k) \/ Unblocking(k)}
  /\ job' = [job EXCEPT !["admin"] = [Resting EXCEPT !.pc = "resync",
       !.todo = {k \in Keys : memory[k] # 0 /\ offences[k] >= 2}]]
  /\ UNCHANGED <<stores, kernel, table, white, enabled, engine, shieldBounds>>
Resync ==
  /\ job["admin"].pc = "resync"
  /\ \/ \E k \in job["admin"].todo :
          job' = [job EXCEPT !["admin"] =
                    [job["admin"] EXCEPT !.key = k, !.todo = job["admin"].todo \ {k},
                       !.pc = IF Eligible(k) /\ k \notin active THEN "nft" ELSE "resync"]]
     \/ job["admin"].todo = {} /\ Rests("admin")
  /\ UNCHANGED <<stores, wall, switches, shieldBounds, crossed>>

EscalationOff ==
  /\ escalation /\ job["admin"].pc = "idle" /\ ShieldRequest /\ escalation' = FALSE
  /\ job' = [job EXCEPT !["admin"] = [Resting EXCEPT !.pc = "teardown"]]
  /\ UNCHANGED <<stores, wall, white, enabled, engine, expired, blocks, shieldFaults, crossed>>
\* handleShieldRoutes, toggle: the table goes with the shield, and comes back with it.
DisableShield ==
  /\ enabled /\ job["admin"].pc = "idle" /\ ShieldRequest /\ enabled' = FALSE
  /\ job' = [job EXCEPT !["admin"] = [Resting EXCEPT !.pc = "teardown"]]
  /\ UNCHANGED <<stores, wall, white, escalation, engine, expired, blocks, shieldFaults, crossed>>
TearDown ==
  /\ job["admin"].pc = "teardown" /\ kernel' = {} /\ table' = FALSE /\ armedOff' = FALSE /\ Becomes("admin", "torn")
  /\ UNCHANGED <<stores, active, switches, shieldBounds, crossed>>
Torn ==
  /\ job["admin"].pc = "torn" /\ active' = {} /\ Rests("admin")
  /\ UNCHANGED <<stores, kernel, table, armedOff, switches, shieldBounds, crossed>>
\* loadPersistedBlocks: of several rows the last.
Loaded == [k \in Keys |-> LET left == {i \in DOMAIN blockRows[k] : blockRows[k][i] \notin expired} IN
                          IF left = {} THEN 0 ELSE blockRows[k][CHOOSE i \in left : \A j \in left : j <= i]]
\* shieldEnsureEngine, when the shield was off at the start.
EnableShield ==
  /\ ~enabled /\ job["admin"].pc = "idle" /\ enabled' = TRUE /\ engine' = TRUE
  /\ memory' = IF engine THEN memory ELSE [k \in Keys |-> IF Loaded[k] = 0 THEN memory[k] ELSE Loaded[k]]
  /\ IF escalation THEN job' = [job EXCEPT !["admin"] = [Resting EXCEPT !.pc = "build"]] ELSE UNCHANGED job
  /\ UNCHANGED <<blockRows, offences, wall, white, escalation, shieldBounds, crossed>>

-----------------------------------------------------------------------------
Expire == \E k \in Keys : memory[k] # 0 /\ memory[k] \notin expired /\ expired' = expired \cup {memory[k]}
ShieldTime == Expire /\ UNCHANGED <<stores, wall, switches, job, blocks, shieldAsked, shieldFaults, crossed>>

\* shieldFWInit and shieldFWResync of the boot, before anything else runs.
Rebuilt == {k \in Keys : Loaded[k] # 0 /\ offences[k] >= 2 /\ Eligible(k)}
\* The daemon restarts; the table survives, and a boot without escalation leaves it.
ShieldRestart ==
  /\ ShieldFault /\ job' = [t \in Goroutines |-> Resting] /\ engine' = enabled /\ armedOff' = FALSE
  /\ memory' = IF enabled THEN Loaded ELSE [k \in Keys |-> 0]
  /\ LET armed == enabled /\ escalation IN
     \/ armed /\ table' = TRUE /\ kernel' = Rebuilt /\ active' = kernel'
     \/ ~armed /\ UNCHANGED <<kernel, table>> /\ active' = {}
  /\ crossed' = IF enabled /\ escalation THEN crossed ELSE crossed \cup kernel
  /\ UNCHANGED <<blockRows, offences, white, escalation, enabled, expired, blocks, shieldAsked>>

ShieldNext ==
  \/ \E k \in Keys : \/ ProcessRules(k) \/ Middleware(k) \/ AdminUnblocks(k) \/ SeeExpired(k)
                     \/ WhitelistAdd(k) \/ WhitelistRemove(k) \/ Sweep(k)
  \/ \E t \in Goroutines, k \in Keys :
       \/ DeleteRows(t, k) \/ InsertRow(t, k) \/ RecordBlock(t, k) \/ MaybeEscalate(t, k)
       \/ AddElement(t, k) \/ MarkActive(t, k) \/ ForgetBlock(t, k) \/ ForgetRows(t, k)
       \/ Unmark(t, k) \/ RemoveElement(t, k)
  \/ CleanUp \/ EscalationOn \/ BuildTable \/ EmptyRecord \/ Resync \/ EscalationOff \/ DisableShield
  \/ TearDown \/ Torn \/ EnableShield \/ ShieldTime \/ ShieldRestart
ShieldSpec == ShieldInit /\ [][ShieldNext]_shieldVars

ShieldTypeOK ==
  /\ memory \in [Keys -> 0..blocks] /\ \A k \in Keys : blockRows[k] \in Seq(1..blocks)
  /\ kernel \cup active \cup white \subseteq Keys /\ DOMAIN job = Goroutines

\* A packet is dropped by the kernel only for a key that has a block, that is of the internet
\* and that was blocked before; unless something crossed, or it is on its way out.
DropsHaveBlocks ==
  \A k \in kernel : /\ k \in PublicKeys /\ offences[k] >= 2
                    /\ memory[k] # 0 \/ Unblocking(k) \/ k \in crossed
                    /\ k \notin white \/ Unblocking(k) \/ k \in crossed
\* A block that is in force survives a restart, and one that was lifted does not come back.
BlocksSurvive ==
  \A k \in Keys : \/ Blocking(k) \/ Unblocking(k) \/ k \in crossed \/ ~engine
                  \/ Loaded[k] = (IF memory[k] \in expired THEN 0 ELSE memory[k])
\* Without escalation nothing is dropped, once the switch is done; nor with the shield off, unless the
\* escalation was switched on meanwhile.
DisarmedDropsNothing ==
  (~escalation \/ (~enabled /\ ~armedOff)) /\ job["admin"].pc = "idle" => kernel \subseteq crossed
ShieldConsistent == DropsHaveBlocks /\ BlocksSurvive /\ DisarmedDropsNothing
==============================================================================
