-------------------------------- MODULE Links --------------------------------
(***************************************************************************)
(* What is handed out of a shared folder: a temporary link with its limit   *)
(* of simultaneous downloads, and the token of one download.  A visit goes  *)
(* on with the row it read, whatever the owner does to it meanwhile.        *)
(***************************************************************************)
EXTENDS Naturals, FiniteSets
CONSTANTS
  Visitors, Owners,   \* requests of strangers, and of who may change the link
  Limits,             \* simultaneous downloads allowed, 0 for any number
  MaxLinkEdits, MaxLinkTime

ASSUME LinkAssumption ==
  Limits \subseteq Nat /\ Visitors \subseteq Nat /\ Owners \subseteq Nat /\ MaxLinkEdits \in Nat \ {0}
  /\ MaxLinkTime \in Nat

VARIABLES
  link,               \* the row of temp_shares
  slots,              \* tempShareSlots: downloads that are counted
  visit,              \* each visitor: where the request is, and the row it read
  edit,               \* each reconfiguration under way: the row it read, what it changes
  pass,               \* the row of download_tokens: fresh, stale or none
  bearer,             \* each request with that token
  linkEdits, linkTime,
  withdrawn,            \* history: the link was taken away
  shared              \* history: two requests read the token before one deleted it

linkVars == <<link, slots, visit, edit, pass, bearer, linkEdits, linkTime, withdrawn, shared>>

NoLink == [exp |-> 0, scope |-> "lan", lock |-> 0, max |-> 0]
LinkRow == [exp : 0..MaxLinkTime + 1, scope : {"lan", "public"}, lock : 0..2, max : Limits \cup {0}]
There == link.exp # 0
Expired == linkTime > link.exp
VisitAt(v, pc) == visit[v].pc = pc
VisitLeaves(v) == visit' = [visit EXCEPT ![v] = [pc |-> "out", row |-> NoLink]]
NotEditing == [pc |-> "idle", row |-> NoLink]

LinkInit ==
  /\ link = NoLink /\ slots = 0 /\ linkTime = 0 /\ withdrawn = FALSE
  /\ visit = [v \in Visitors |-> [pc |-> "away", row |-> NoLink]]
  /\ edit = [o \in Owners |-> NotEditing] /\ linkEdits = 0
  /\ pass = "none" /\ bearer = [v \in Visitors |-> "away"] /\ shared = FALSE

-----------------------------------------------------------------------------
(* Owners: create, list and sweep, reconfigure, revoke.                    *)

\* A run has a link or a token: they share nothing.
PassUnused == pass = "none" /\ \A v \in Visitors : bearer[v] = "away"
CreateLink ==
  /\ linkEdits = 0 /\ linkEdits' = 1 /\ PassUnused
  /\ \E m \in Limits, s \in {"lan", "public"}, k \in {0, 1} :
       link' = [exp |-> linkTime + 1, scope |-> s, lock |-> k, max |-> m]
  /\ UNCHANGED <<slots, visit, edit, pass, bearer, linkTime, withdrawn, shared>>
\* Revoked by its owner, cleared with the expired ones, or swept by a list a day later.
DeleteLink(guard) ==
  /\ There /\ guard /\ link' = NoLink /\ withdrawn' = TRUE
  /\ UNCHANGED <<slots, visit, edit, pass, bearer, linkEdits, linkTime, shared>>
Revoke == DeleteLink(TRUE)
DeleteExpired == DeleteLink(Expired)
SweepLinks == DeleteLink(linkTime > link.exp + 1)
\* tempShareReconfigure reads the row and changes what the request names; a new life
\* counts from now.
ReadToEdit(o) ==
  /\ There /\ edit[o].pc = "idle" /\ linkEdits < MaxLinkEdits /\ linkEdits' = linkEdits + 1
  /\ \E r \in {[link EXCEPT !.exp = linkTime + 1], [link EXCEPT !.lock = 2], [link EXCEPT !.lock = 0]}
              \cup {[link EXCEPT !.max = m] : m \in Limits} \cup {[link EXCEPT !.scope = s] : s \in {"lan", "public"}} :
       edit' = [edit EXCEPT ![o] = [pc |-> "update", row |-> r]]
  /\ UNCHANGED <<link, slots, visit, pass, bearer, linkTime, withdrawn, shared>>
\* The four fields are written back, those of another request with them, into a row that
\* may be gone.
UpdateLink(o) ==
  /\ edit[o].pc = "update" /\ edit' = [edit EXCEPT ![o] = NotEditing]
  /\ link' = IF There THEN edit[o].row ELSE link
  /\ UNCHANGED <<slots, visit, pass, bearer, linkEdits, linkTime, withdrawn, shared>>
LinkTimePasses ==
  /\ linkTime < MaxLinkTime /\ linkTime' = linkTime + 1
  /\ UNCHANGED <<link, slots, visit, edit, pass, bearer, linkEdits, withdrawn, shared>>

-----------------------------------------------------------------------------
(* Visitors: handleTempSharePublic and tempShareDownload.                  *)

\* The row is read once; an expired link, or one of the home for someone outside, ends here.
ReadLink(v) ==
  /\ VisitAt(v, "away") /\ There
  /\ \E admitted \in IF Expired THEN {FALSE} ELSE IF link.scope = "public" THEN {TRUE} ELSE BOOLEAN :
       visit' = [visit EXCEPT ![v] = IF admitted THEN [pc |-> "gate", row |-> link] ELSE [pc |-> "out", row |-> NoLink]]
  /\ UNCHANGED <<link, slots, edit, pass, bearer, linkEdits, linkTime, withdrawn, shared>>
\* After the password of that row, tempShareAcquireSlot: it counts when the row has a limit.
AcquireSlot(v) ==
  LET m == visit[v].row.max IN
  /\ VisitAt(v, "gate")
  /\ \/ /\ m = 0 \/ slots < m
        /\ slots' = IF m = 0 THEN slots ELSE slots + 1
        /\ visit' = [visit EXCEPT ![v].pc = "serving"]
     \/ /\ visit[v].row.lock # 0 \/ (m # 0 /\ slots >= m)
        /\ VisitLeaves(v) /\ UNCHANGED slots
  /\ UNCHANGED <<link, edit, pass, bearer, linkEdits, linkTime, withdrawn, shared>>
\* Mutant: the limit of the moment decides whether a slot is given back.
ReleaseByRow(v) ==
  /\ VisitAt(v, "serving") /\ VisitLeaves(v)
  /\ slots' = IF link.max = 0 \/ slots = 0 THEN slots ELSE slots - 1
  /\ UNCHANGED <<link, edit, pass, bearer, linkEdits, linkTime, withdrawn, shared>>
\* tempShareReleaseSlot, deferred: also when the folder or the file is gone.
ReleaseSlot(v) ==
  /\ VisitAt(v, "serving") /\ VisitLeaves(v)
  /\ slots' = IF visit[v].row.max = 0 \/ slots = 0 THEN slots ELSE slots - 1
  /\ UNCHANGED <<link, edit, pass, bearer, linkEdits, linkTime, withdrawn, shared>>

-----------------------------------------------------------------------------
(* The token of one download.                                              *)

CreatePass ==
  /\ linkEdits = 0 /\ PassUnused /\ pass' = "fresh"
  /\ UNCHANGED <<link, slots, visit, edit, bearer, linkEdits, linkTime, withdrawn, shared>>
PassExpires ==
  /\ pass = "fresh" /\ pass' = "stale"
  /\ UNCHANGED <<link, slots, visit, edit, bearer, linkEdits, linkTime, withdrawn, shared>>
\* dbDownloadTokenConsume: the row is read, deleted in any case, and then looked at.
SelectPass(v) ==
  /\ bearer[v] = "away" /\ pass # "none"
  /\ bearer' = [bearer EXCEPT ![v] = pass]
  /\ shared' = (shared \/ \E w \in Visitors : bearer[w] \in {"fresh", "stale"})
  /\ UNCHANGED <<link, slots, visit, edit, pass, linkEdits, linkTime, withdrawn>>
DeletePass(v) ==
  /\ bearer[v] \in {"fresh", "stale"} /\ pass' = "none"
  /\ bearer' = [bearer EXCEPT ![v] = IF @ = "fresh" THEN "given" ELSE "refused"]
  /\ UNCHANGED <<link, slots, visit, edit, linkEdits, linkTime, withdrawn, shared>>

\* The slots are in memory; the daemon takes its requests with it.
RestartLinks ==
  /\ \E v \in Visitors : visit[v].pc \in {"gate", "serving"}
  /\ slots' = 0 /\ visit' = [v \in Visitors |-> IF VisitAt(v, "away") THEN visit[v] ELSE [pc |-> "out", row |-> NoLink]]
  /\ edit' = [o \in Owners |-> NotEditing]
  /\ bearer' = [v \in Visitors |-> IF bearer[v] \in {"fresh", "stale"} THEN "refused" ELSE bearer[v]]
  /\ UNCHANGED <<link, pass, linkEdits, linkTime, withdrawn, shared>>

LinkNext ==
  \/ CreateLink \/ Revoke \/ DeleteExpired \/ SweepLinks \/ LinkTimePasses
  \/ \E o \in Owners : ReadToEdit(o) \/ UpdateLink(o)
  \/ \E v \in Visitors : ReadLink(v) \/ AcquireSlot(v) \/ ReleaseSlot(v) \/ SelectPass(v) \/ DeletePass(v)
  \/ CreatePass \/ PassExpires \/ RestartLinks
LinkSpec == LinkInit /\ [][LinkNext]_linkVars

-----------------------------------------------------------------------------
LinkTypeOK ==
  /\ link \in LinkRow /\ slots \in Nat /\ pass \in {"none", "fresh", "stale"}
  /\ visit \in [Visitors -> [pc : {"away", "gate", "serving", "out"}, row : LinkRow]]
  /\ edit \in [Owners -> [pc : {"idle", "update"}, row : LinkRow]]
  /\ bearer \in [Visitors -> {"away", "fresh", "stale", "given", "refused"}]
  /\ linkEdits \in 0..MaxLinkEdits /\ linkTime \in 0..MaxLinkTime /\ {withdrawn, shared} \subseteq BOOLEAN

Counted == {v \in Visitors : VisitAt(v, "serving") /\ visit[v].row.max # 0}
\* Whatever was changed during a download, each gives back what it took: as many slots are
\* taken as downloads hold one.
SlotsAreHeld == slots = Cardinality(Counted)
\* No more download at once than some of them were allowed.
LimitHolds == Counted = {} \/ \E v \in Counted : Cardinality(Counted) <= visit[v].row.max
\* An update that was under way does not bring a link back.
RevokedStays == withdrawn => ~There
\* One token, one download, unless two requests read it before one deleted it.
PassOnce == shared \/ Cardinality({v \in Visitors : bearer[v] = "given"}) <= 1
\* The limit of a link is that of its row when a visit began (tempshares_http.go:306), what
\* was revoked stays so, and a token is good for one download (db_sessions.go:83).
LinksConsistent == SlotsAreHeld /\ LimitHolds /\ RevokedStays /\ PassOnce
=============================================================================
