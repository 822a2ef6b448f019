---------------------------- MODULE Access_proofs ----------------------------
(***************************************************************************)
(* Who is let in, proved for every value of the constants: the slots of a   *)
(* temporary link and the token of one download, then the account with its  *)
(* password, its sessions, its second factor and its limit.  At the end the *)
(* types of all that the daemon keeps, from the invariants of every part.   *)
(***************************************************************************)
EXTENDS MCDaemon_proofs, Machinery_proofs, Folders_proofs, WellFoundedInduction

-----------------------------------------------------------------------------
(* Links.  The limit a download was let in under is that of its own row, so *)
(* LimitHolds does not survive the end of the download it names: it has to  *)
(* hold of every group of them, in which the last to come is the witness.   *)

GroupHolds(S) == \E v \in S : Cardinality(S) <= visit[v].row.max
SlotsInv ==
  /\ IsFiniteSet(Counted) /\ slots = Cardinality(Counted)
  /\ \A S \in SUBSET Counted : S # {} => GroupHolds(S)
\* A behaviour has a link or a token.
LinkAlone ==
  /\ There \/ withdrawn => linkEdits # 0
  /\ (\E v \in Visitors : ~VisitAt(v, "away")) => linkEdits # 0
  /\ linkEdits # 0 => PassUnused
\* Between the first to read the token and the one who deletes it, nobody else reads it.
Bearing(v) == bearer[v] \in {"fresh", "stale", "given"}
PassInv ==
  /\ (\E v \in Visitors : bearer[v] \in {"given", "refused"}) => pass = "none"
  /\ shared \/ \A v, w \in Visitors : Bearing(v) /\ Bearing(w) => v = w
LinkInv == LinkTypeOK /\ SlotsInv /\ LinkAlone /\ (withdrawn => ~There) /\ PassInv

LEMMA LimitsAreNumbers == \A m \in Limits \cup {0} : m \in Nat
  BY LinkAssumption
LEMMA EditsAreNumbers == MaxLinkEdits \in Nat /\ MaxLinkEdits # 0 /\ MaxLinkTime \in Nat
  BY LinkAssumption
\* What a visit goes on with.
VisitState == [pc : {"away", "gate", "serving", "out"}, row : LinkRow]
LEMMA VisitIs ==
  ASSUME LinkTypeOK, NEW v \in Visitors
  PROVE  visit[v] \in VisitState /\ visit[v].pc \in {"away", "gate", "serving", "out"} /\ visit[v].row \in LinkRow
                                 /\ visit[v].row.max \in Nat
  <1>1. visit[v] \in VisitState
    BY DEF LinkTypeOK, VisitState
  <1>2. visit[v].row \in LinkRow /\ visit[v].pc \in {"away", "gate", "serving", "out"}
    BY <1>1 DEF VisitState
  <1>3. visit[v].row.max \in Limits \cup {0}
    BY <1>2 DEF LinkRow
  <1>4. visit[v].row.max \in Nat
    BY <1>3, LimitsAreNumbers
  <1> QED
    BY <1>1, <1>2, <1>4
LEMMA NoLinkIs == NoLink \in LinkRow /\ NoLink.exp = 0 /\ NoLink.max = 0
  BY EditsAreNumbers DEF NoLink, LinkRow

\* The slots depend on visits only: a step that leaves those that hold one leaves them.
LEMMA SlotsStay ==
  ASSUME SlotsInv, slots' = slots, Counted' = Counted, \A v \in Counted : visit'[v].row = visit[v].row
  PROVE  SlotsInv'
  <1>1. \A S \in SUBSET Counted' : S # {} => \E v \in S : Cardinality(S) <= visit'[v].row.max
    BY DEF SlotsInv, GroupHolds
  <1> QED
    BY <1>1 DEF SlotsInv, GroupHolds
\* One more that holds a slot is the last to come in every group it is in.
LEMMA SlotTaken ==
  ASSUME SlotsInv, LinkTypeOK, NEW v \in Visitors, v \notin Counted, slots < visit'[v].row.max, visit'[v].row.max \in Nat,
         slots' = slots + 1, Counted' = Counted \cup {v}, \A w \in Counted : visit'[w].row = visit[w].row
  PROVE  SlotsInv'
  <1>1. IsFiniteSet(Counted') /\ slots' = Cardinality(Counted') /\ slots \in Nat
    BY FS_AddElement DEF SlotsInv, LinkTypeOK
  <1>2. ASSUME NEW S \in SUBSET Counted', S # {} PROVE \E w \in S : Cardinality(S) <= visit'[w].row.max
    <2>1. CASE v \in S
      <3>1. IsFiniteSet(S) /\ Cardinality(S) <= Cardinality(Counted') /\ Cardinality(S) \in Nat
        BY <1>1, <1>2, FS_Subset, FS_CardinalityType
      <3> QED
        BY <1>1, <2>1, <3>1
    <2>2. CASE v \notin S
      <3>1. S \in SUBSET Counted
        BY <2>2
      <3> QED
        BY <1>2, <3>1 DEF SlotsInv, GroupHolds
    <2> QED
      BY <2>1, <2>2
  <1> QED
    BY <1>1, <1>2 DEF SlotsInv, GroupHolds
\* One less, and every group is one that was there.
LEMMA SlotGiven ==
  ASSUME SlotsInv, LinkTypeOK, NEW v \in Counted, slots' = slots - 1, Counted' = Counted \ {v},
         \A w \in Counted \ {v} : visit'[w].row = visit[w].row
  PROVE  SlotsInv'
  <1>1. IsFiniteSet(Counted') /\ slots' = Cardinality(Counted')
    BY FS_RemoveElement DEF SlotsInv
  <1>2. \A S \in SUBSET Counted' : S # {} => \E w \in S : Cardinality(S) <= visit'[w].row.max
    BY DEF SlotsInv, GroupHolds
  <1> QED
    BY <1>1, <1>2 DEF SlotsInv, GroupHolds

LEMMA LinkInvInit == LinkInit => LinkInv
  <1> SUFFICES ASSUME LinkInit PROVE LinkInv
    OBVIOUS
  <1>1. LinkTypeOK
    <2>1. visit \in [Visitors -> [pc : {"away", "gate", "serving", "out"}, row : LinkRow]]
      BY NoLinkIs DEF LinkInit
    <2>2. edit \in [Owners -> [pc : {"idle", "update"}, row : LinkRow]]
      BY NoLinkIs DEF LinkInit, NotEditing
    <2>3. bearer \in [Visitors -> {"away", "fresh", "stale", "given", "refused"}]
      BY DEF LinkInit
    <2>4. linkEdits \in 0..MaxLinkEdits /\ linkTime \in 0..MaxLinkTime
      BY EditsAreNumbers DEF LinkInit
    <2> QED
      BY <2>1, <2>2, <2>3, <2>4, NoLinkIs DEF LinkInit, LinkTypeOK
  <1>2. Counted = {}
    BY DEF LinkInit, Counted, VisitAt
  <1>3. SlotsInv
    BY <1>2, FS_EmptySet DEF SlotsInv, LinkInit
  <1> QED
    BY <1>1, <1>3, NoLinkIs DEF LinkInv, LinkInit, LinkAlone, PassInv, Bearing, There, VisitAt

\* What moves neither visits nor the token.
LEMMA OwnerKeeps ==
  ASSUME LinkInv, UNCHANGED <<slots, visit, bearer, pass, shared>>, LinkTypeOK',
         linkEdits' = 0 => linkEdits = 0 /\ (There' => There) /\ (withdrawn' => withdrawn),
         linkEdits' # 0 => linkEdits # 0 \/ PassUnused,
         withdrawn' => ~There'
  PROVE  LinkInv'
  <1>1. Counted' = Counted
    BY DEF Counted, VisitAt
  <1>2. SlotsInv'
    BY <1>1, SlotsStay DEF LinkInv
  <1>3. LinkAlone'
    BY DEF LinkInv, LinkAlone, There, VisitAt, PassUnused
  <1>4. PassInv'
    BY DEF LinkInv, PassInv, Bearing
  <1> QED
    BY <1>2, <1>3, <1>4 DEF LinkInv

LEMMA LinkStep == LinkInv /\ [LinkNext]_linkVars => LinkInv'
<1> SUFFICES ASSUME LinkInv, [LinkNext]_linkVars PROVE LinkInv'
  OBVIOUS
<1>0. LinkTypeOK /\ SlotsInv /\ LinkAlone /\ (withdrawn => ~There) /\ PassInv
  BY DEF LinkInv
<1>1. CASE CreateLink
  <2>1. LinkTypeOK'
    <3>1. PICK m \in Limits, s \in {"lan", "public"}, k \in {0, 1} :
            link' = [exp |-> linkTime + 1, scope |-> s, lock |-> k, max |-> m]
      BY <1>1 DEF CreateLink
    <3>2. linkTime + 1 \in 0..MaxLinkTime + 1 /\ k \in 0..2 /\ m \in Limits \cup {0} /\ 1 \in 0..MaxLinkEdits
      BY <1>0, EditsAreNumbers DEF LinkTypeOK
    <3>3. link' \in LinkRow
      BY <3>1, <3>2 DEF LinkRow
    <3> QED
      BY <1>0, <1>1, <3>2, <3>3 DEF CreateLink, LinkTypeOK
  <2>2. ~withdrawn'
    BY <1>0, <1>1 DEF CreateLink, LinkAlone
  <2> QED
    BY <1>0, <1>1, <2>1, <2>2, OwnerKeeps DEF CreateLink
<1>2. ASSUME NEW guard, DeleteLink(guard) PROVE LinkInv'
  <2>1. LinkTypeOK'
    BY <1>0, <1>2, NoLinkIs DEF DeleteLink, LinkTypeOK
  <2>2. ~There' /\ linkEdits # 0
    BY <1>0, <1>2, NoLinkIs DEF DeleteLink, LinkAlone, There
  <2> QED
    BY <1>0, <1>2, <2>1, <2>2, OwnerKeeps DEF DeleteLink
<1>3. CASE LinkTimePasses
  <2>1. LinkTypeOK'
    BY <1>0, <1>3, EditsAreNumbers DEF LinkTimePasses, LinkTypeOK, LinkRow
  <2> QED
    BY <1>0, <1>3, <2>1, OwnerKeeps DEF LinkTimePasses, There
<1>4. ASSUME NEW o \in Owners, ReadToEdit(o) PROVE LinkInv'
  <2>1. PICK r : /\ r \in {[link EXCEPT !.exp = linkTime + 1], [link EXCEPT !.lock = 2], [link EXCEPT !.lock = 0]}
                          \cup {[link EXCEPT !.max = m] : m \in Limits} \cup {[link EXCEPT !.scope = s] : s \in {"lan", "public"}}
                 /\ edit' = [edit EXCEPT ![o] = [pc |-> "update", row |-> r]]
    BY <1>4 DEF ReadToEdit
  <2>2. r \in LinkRow
    BY <1>0, <2>1, EditsAreNumbers DEF LinkTypeOK, LinkRow
  <2>3. LinkTypeOK'
    BY <1>0, <1>4, <2>1, <2>2, EditsAreNumbers DEF ReadToEdit, LinkTypeOK
  <2>4. There /\ linkEdits # 0 /\ linkEdits' # 0 /\ UNCHANGED <<link, slots, visit, bearer, pass, shared, withdrawn>>
    BY <1>0, <1>4 DEF ReadToEdit, LinkAlone, LinkTypeOK
  <2> QED
    BY <1>0, <2>3, <2>4, OwnerKeeps DEF There
<1>5. ASSUME NEW o \in Owners, UpdateLink(o) PROVE LinkInv'
  <2>1. edit[o].row \in LinkRow /\ NotEditing \in [pc : {"idle", "update"}, row : LinkRow]
    BY <1>0, NoLinkIs DEF LinkTypeOK, NotEditing
  <2>2. LinkTypeOK'
    BY <1>0, <1>5, <2>1 DEF UpdateLink, LinkTypeOK
  <2>3. (There' => There) /\ UNCHANGED <<slots, visit, bearer, pass, shared, withdrawn, linkEdits>>
    BY <1>5 DEF UpdateLink, There
  <2> QED
    BY <1>0, <2>2, <2>3, OwnerKeeps
<1>6. ASSUME NEW v \in Visitors, ReadLink(v) PROVE LinkInv'
  <2>1. PICK r \in VisitState : visit' = [visit EXCEPT ![v] = r] /\ r.pc \in {"gate", "out"}
    <3>1. link \in LinkRow
      BY <1>0 DEF LinkTypeOK
    <3>2. \E a \in BOOLEAN : visit' = [visit EXCEPT ![v] = IF a THEN [pc |-> "gate", row |-> link] ELSE [pc |-> "out", row |-> NoLink]]
      BY <1>6 DEF ReadLink
    <3>3. [pc |-> "gate", row |-> link] \in VisitState /\ [pc |-> "out", row |-> NoLink] \in VisitState
      BY <3>1, NoLinkIs DEF VisitState
    <3> QED
      BY <3>2, <3>3
  <2>2. LinkTypeOK'
    BY <1>0, <1>6, <2>1 DEF ReadLink, LinkTypeOK, VisitState
  <2>3. There /\ VisitAt(v, "away") /\ UNCHANGED <<link, slots, edit, pass, bearer, linkEdits, withdrawn, shared>>
    BY <1>6 DEF ReadLink
  <2>4. \A w \in Visitors : visit'[w] = IF w = v THEN r ELSE visit[w]
    BY <1>0, <2>1 DEF LinkTypeOK
  <2>5. Counted' = Counted /\ v \notin Counted
    BY <2>1, <2>3, <2>4 DEF Counted, VisitAt
  <2>6. SlotsInv'
    BY <1>0, <2>3, <2>4, <2>5, SlotsStay DEF Counted
  <2>7. LinkAlone' /\ PassInv' /\ (withdrawn' => ~There')
    BY <1>0, <2>3 DEF LinkAlone, PassInv, Bearing, There, PassUnused
  <2> QED
    BY <2>2, <2>6, <2>7 DEF LinkInv
<1>7. ASSUME NEW v \in Visitors, AcquireSlot(v) PROVE LinkInv'
  <2>1. VisitAt(v, "gate") /\ v \notin Counted /\ linkEdits # 0 /\ UNCHANGED <<link, edit, pass, bearer, linkEdits, linkTime, withdrawn, shared>>
    BY <1>0, <1>7 DEF AcquireSlot, Counted, VisitAt, LinkAlone
  <2>2. LinkAlone' /\ PassInv' /\ (withdrawn' => ~There')
    BY <1>0, <2>1 DEF LinkAlone, PassInv, Bearing, There, PassUnused
  <2>3. visit[v] \in VisitState /\ visit[v].row \in LinkRow /\ visit[v].row.max \in Nat
    BY <1>0, VisitIs
  <2>4. CASE /\ visit[v].row.max = 0 \/ slots < visit[v].row.max
             /\ slots' = IF visit[v].row.max = 0 THEN slots ELSE slots + 1
             /\ visit' = [visit EXCEPT ![v].pc = "serving"]
    <3>1. \A w \in Visitors : visit'[w] = IF w = v THEN [visit[v] EXCEPT !.pc = "serving"] ELSE visit[w]
      BY <1>0, <2>4 DEF LinkTypeOK
    <3>2. /\ \A w \in Visitors : visit'[w].row = visit[w].row /\ (w # v => visit'[w].pc = visit[w].pc)
          /\ visit'[v].pc = "serving"
      BY <2>3, <3>1 DEF VisitState
    <3>3. LinkTypeOK'
      BY <1>0, <2>1, <2>3, <2>4 DEF LinkTypeOK, VisitState
    <3>4. CASE visit[v].row.max = 0
      <4>1. Counted' = Counted
        BY <2>1, <3>2, <3>4 DEF Counted, VisitAt
      <4>2. SlotsInv'
        BY <1>0, <2>4, <3>2, <3>4, <4>1, SlotsStay DEF Counted
      <4> QED
        BY <2>2, <3>3, <4>2 DEF LinkInv
    <3>5. CASE visit[v].row.max # 0
      <4>1. Counted' = Counted \cup {v}
        BY <2>1, <3>2, <3>5 DEF Counted, VisitAt
      <4>2. slots' = slots + 1 /\ slots < visit'[v].row.max /\ visit'[v].row.max \in Nat /\ \A w \in Counted : visit'[w].row = visit[w].row
        BY <2>3, <2>4, <3>2, <3>5 DEF Counted
      <4>3. SlotsInv'
        BY <1>0, <2>1, <4>1, <4>2, SlotTaken
      <4> QED
        BY <2>2, <3>3, <4>3 DEF LinkInv
    <3> QED
      BY <3>4, <3>5
  <2>5. CASE VisitLeaves(v) /\ UNCHANGED slots
    <3>1. \A w \in Visitors : visit'[w] = IF w = v THEN [pc |-> "out", row |-> NoLink] ELSE visit[w]
      BY <1>0, <2>5 DEF LinkTypeOK, VisitLeaves
    <3>2. LinkTypeOK'
      BY <1>0, <2>1, <2>5, NoLinkIs DEF LinkTypeOK, VisitLeaves
    <3>3. Counted' = Counted
      <4>1. visit'[v].pc = "out" /\ visit[v].pc = "gate" /\ \A w \in Visitors : w # v => visit'[w] = visit[w]
        BY <2>1, <3>1 DEF VisitAt
      <4> QED
        BY <4>1 DEF Counted, VisitAt
    <3>4. SlotsInv'
      BY <1>0, <2>1, <2>5, <3>1, <3>3, SlotsStay DEF Counted
    <3> QED
      BY <2>2, <3>2, <3>4 DEF LinkInv
  <2> QED
    BY <1>7, <2>4, <2>5 DEF AcquireSlot
<1>8. ASSUME NEW v \in Visitors, ReleaseSlot(v) PROVE LinkInv'
  <2>1. VisitAt(v, "serving") /\ linkEdits # 0 /\ VisitLeaves(v) /\ UNCHANGED <<link, edit, pass, bearer, linkEdits, linkTime, withdrawn, shared>>
        /\ slots' = IF visit[v].row.max = 0 \/ slots = 0 THEN slots ELSE slots - 1
    BY <1>0, <1>8 DEF ReleaseSlot, VisitAt, LinkAlone
  <2>2. LinkAlone' /\ PassInv' /\ (withdrawn' => ~There')
    BY <1>0, <2>1 DEF LinkAlone, PassInv, Bearing, There, PassUnused
  <2>3. \A w \in Visitors : visit'[w] = IF w = v THEN [pc |-> "out", row |-> NoLink] ELSE visit[w]
    BY <1>0, <2>1 DEF LinkTypeOK, VisitLeaves
  <2>4. LinkTypeOK'
    BY <1>0, <2>1, NoLinkIs DEF LinkTypeOK, VisitLeaves
  <2>7. visit'[v].pc = "out" /\ visit[v].pc = "serving" /\ \A w \in Visitors : w # v => visit'[w] = visit[w]
    BY <2>1, <2>3 DEF VisitAt
  <2>5. CASE visit[v].row.max = 0
    <3>1. Counted' = Counted /\ v \notin Counted
      BY <2>5, <2>7 DEF Counted, VisitAt
    <3>2. SlotsInv'
      BY <1>0, <2>1, <2>3, <2>5, <3>1, SlotsStay DEF Counted
    <3> QED
      BY <2>2, <2>4, <3>2 DEF LinkInv
  <2>6. CASE visit[v].row.max # 0
    <3>1. Counted' = Counted \ {v} /\ v \in Counted
      BY <2>6, <2>7 DEF Counted, VisitAt
    <3>2. slots # 0
      BY <1>0, <3>1, FS_EmptySet DEF SlotsInv
    <3>3. slots' = slots - 1 /\ \A w \in Counted \ {v} : visit'[w].row = visit[w].row
      BY <2>1, <2>3, <2>6, <3>2 DEF Counted
    <3>4. SlotsInv'
      BY <1>0, <3>1, <3>3, SlotGiven
    <3> QED
      BY <2>2, <2>4, <3>4 DEF LinkInv
  <2> QED
    BY <2>5, <2>6
<1>9. ASSUME UNCHANGED <<link, slots, visit, edit, linkEdits, linkTime, withdrawn>>, linkEdits = 0,
             bearer' \in [Visitors -> {"away", "fresh", "stale", "given", "refused"}], pass' \in {"none", "fresh", "stale"},
             shared' \in BOOLEAN, PassInv'
      PROVE  LinkInv'
  <2>1. LinkTypeOK'
    BY <1>0, <1>9 DEF LinkTypeOK
  <2>2. Counted' = Counted
    BY <1>9 DEF Counted, VisitAt
  <2>3. SlotsInv'
    BY <1>0, <1>9, <2>2, SlotsStay
  <2>4. LinkAlone' /\ (withdrawn' => ~There')
    BY <1>0, <1>9 DEF LinkAlone, There, VisitAt
  <2> QED
    BY <1>9, <2>1, <2>3, <2>4 DEF LinkInv
<1>10. CASE CreatePass
  <2>1. PassInv'
    BY <1>0, <1>10 DEF CreatePass, PassInv, PassUnused, Bearing
  <2> QED
    BY <1>0, <1>9, <1>10, <2>1 DEF CreatePass, LinkTypeOK
<1>11. CASE PassExpires
  <2>1. PassInv' /\ linkEdits = 0
    BY <1>0, <1>11 DEF PassExpires, PassInv, Bearing, LinkAlone, PassUnused
  <2> QED
    BY <1>0, <1>9, <1>11, <2>1 DEF PassExpires, LinkTypeOK
<1>12. ASSUME NEW v \in Visitors, SelectPass(v) PROVE LinkInv'
  <2>1. /\ bearer[v] = "away" /\ pass # "none" /\ pass' = pass /\ bearer' = [bearer EXCEPT ![v] = pass] /\ linkEdits = 0
        /\ shared' = (shared \/ \E w \in Visitors : bearer[w] \in {"fresh", "stale"})
    BY <1>0, <1>12 DEF SelectPass, LinkAlone, PassUnused
  <2>2. bearer' \in [Visitors -> {"away", "fresh", "stale", "given", "refused"}] /\ shared' \in BOOLEAN
        /\ \A w \in Visitors : bearer'[w] = IF w = v THEN pass ELSE bearer[w]
    BY <1>0, <2>1 DEF LinkTypeOK
  <2>3. PassInv'
    BY <1>0, <2>1, <2>2, Zenon DEF PassInv, Bearing, LinkTypeOK
  <2> QED
    BY <1>0, <1>9, <1>12, <2>1, <2>2, <2>3 DEF SelectPass, LinkTypeOK
<1>13. ASSUME NEW v \in Visitors, DeletePass(v) PROVE LinkInv'
  <2>1. /\ bearer[v] \in {"fresh", "stale"} /\ pass' = "none" /\ shared' = shared /\ linkEdits = 0
        /\ bearer' = [bearer EXCEPT ![v] = IF bearer[v] = "fresh" THEN "given" ELSE "refused"]
    BY <1>0, <1>13 DEF DeletePass, LinkAlone, PassUnused
  <2>2. bearer' \in [Visitors -> {"away", "fresh", "stale", "given", "refused"}]
        /\ \A w \in Visitors : bearer'[w] = IF w = v THEN (IF bearer[v] = "fresh" THEN "given" ELSE "refused") ELSE bearer[w]
    BY <1>0, <2>1 DEF LinkTypeOK
  <2>3. PassInv'
    BY <1>0, <2>1, <2>2 DEF PassInv, Bearing
  <2> QED
    BY <1>0, <1>9, <1>13, <2>1, <2>2, <2>3 DEF DeletePass, LinkTypeOK
<1>14. CASE RestartLinks
  <2>1. /\ slots' = 0 /\ linkEdits # 0 /\ PassUnused
        /\ visit' = [v \in Visitors |-> IF VisitAt(v, "away") THEN visit[v] ELSE [pc |-> "out", row |-> NoLink]]
        /\ edit' = [o \in Owners |-> NotEditing] /\ UNCHANGED <<link, pass, linkEdits, linkTime, withdrawn, shared>>
        /\ bearer' = [v \in Visitors |-> IF bearer[v] \in {"fresh", "stale"} THEN "refused" ELSE bearer[v]]
    BY <1>0, <1>14 DEF RestartLinks, LinkAlone, VisitAt
  <2>2. \A v \in Visitors : visit'[v].pc # "serving" /\ bearer'[v] = "away"
    BY <2>1 DEF VisitAt, PassUnused
  <2>3. LinkTypeOK'
    <3>1. visit' \in [Visitors -> [pc : {"away", "gate", "serving", "out"}, row : LinkRow]]
          /\ edit' \in [Owners -> [pc : {"idle", "update"}, row : LinkRow]]
          /\ bearer' \in [Visitors -> {"away", "fresh", "stale", "given", "refused"}]
      BY <1>0, <2>1, NoLinkIs DEF LinkTypeOK, NotEditing
    <3> QED
      BY <1>0, <2>1, <3>1 DEF LinkTypeOK
  <2>4. Counted' = {}
    BY <2>2 DEF Counted, VisitAt
  <2>5. SlotsInv'
    BY <2>1, <2>4, FS_EmptySet DEF SlotsInv
  <2>6. LinkAlone' /\ PassInv' /\ (withdrawn' => ~There')
    BY <1>0, <2>1, <2>2 DEF LinkAlone, PassInv, Bearing, There, PassUnused
  <2> QED
    BY <2>3, <2>5, <2>6 DEF LinkInv
<1>15. CASE UNCHANGED linkVars
  <2>1. LinkTypeOK' /\ UNCHANGED <<slots, visit, bearer, pass, shared, link, withdrawn, linkEdits>>
    BY <1>0, <1>15 DEF linkVars, LinkTypeOK, LinkRow
  <2> QED
    BY <1>0, <2>1, OwnerKeeps DEF There
<1> QED
  BY <1>1, <1>2, <1>3, <1>4, <1>5, <1>6, <1>7, <1>8, <1>10, <1>11, <1>12, <1>13, <1>14, <1>15
  DEF LinkNext, Revoke, DeleteExpired, SweepLinks

\* The invariant says what the run checks.
LEMMA LinkInvConsistent == LinkInv => LinksConsistent
  <1> SUFFICES ASSUME LinkInv PROVE LinksConsistent
    OBVIOUS
  <1>1. SlotsAreHeld /\ LimitHolds
    BY DEF LinkInv, SlotsInv, SlotsAreHeld, LimitHolds, GroupHolds
  <1>2. RevokedStays
    BY DEF LinkInv, RevokedStays
  <1>3. PassOnce
    <2> DEFINE takers == {v \in Visitors : bearer[v] = "given"}
    <2>1. CASE ~shared
      <3>1. \A v, w \in takers : v = w
        BY <2>1 DEF LinkInv, PassInv, Bearing
      <3>2. takers = {} \/ \E v : takers = {v}
        BY <3>1
      <3>3. Cardinality(takers) \in {0, 1}
        BY <3>2, FS_EmptySet, FS_Singleton
      <3> QED
        BY <3>3 DEF PassOnce
    <2> QED
      BY <2>1 DEF PassOnce
  <1> QED
    BY <1>1, <1>2, <1>3 DEF LinksConsistent

-----------------------------------------------------------------------------
(* Accounts.  What a request has in its hand is true of the user as long as *)
(* no other of its group overlaps it, which is on record; the count of      *)
(* refused logins leaves room for those that are past the limit.            *)

CodeState == Nat \X {1, 2}
UserState == [pw : Nat, secret : Nat, on : BOOLEAN, codes : SUBSET CodeState]
SessionState == [pw : Nat, late : BOOLEAN]
LimitState == [count : Nat, until : {"none", "ahead", "past"}, recent : BOOLEAN]
CounterSteps == {"free", "insert", "mirror", "samba", "drop", "unmirror", "hash", "smb", "rollback", "expel",
                 "check", "fetch", "second", "session", "secret", "enable", "disable"}
CounterKinds == {"none", "create", "first", "delete", "password", "login", "setup", "verify", "disable"}
CounterState == [pc : CounterSteps, kind : CounterKinds, was : Nat, left : SUBSET CodeState, pw : Nat, made : BOOLEAN]

\* The steps of each kind of request, and the numbers it brings.
AtWork(r) ==
  /\ r.pc = "free" <=> r.kind = "none"
  /\ r.pc \in {"insert", "mirror", "samba"} <=> r.kind \in {"create", "first"}
  /\ r.pc \in {"drop", "unmirror"} <=> r.kind = "delete"
  /\ r.pc \in {"hash", "smb", "rollback", "expel"} <=> r.kind = "password"
  /\ r.pc \in {"check", "fetch", "second", "session"} <=> r.kind = "login"
  /\ r.pc = "secret" <=> r.kind = "setup"
  /\ r.pc = "enable" <=> r.kind = "verify"
  /\ r.pc = "disable" <=> r.kind = "disable"
  /\ r.pc # "second" => r.left = {}
  /\ r.kind \in {"create", "first", "password"} => r.pw # 0
  /\ r.kind = "password" => r.was # 0

AccountTypes ==
  /\ user \in UserState /\ (user.pw = 0 => user = NoUser) /\ (user = NoUser => sessions = {})
  /\ linux \in {"none", "ours", "person"} /\ smbPw \in Nat /\ sessions \subseteq SessionState
  /\ limit \in LimitState /\ spent \subseteq CodeState /\ proven \in Nat /\ tries \in Nat /\ apart \in BOOLEAN
  /\ counter \in [Counters -> CounterState] /\ \A c \in Counters : AtWork(counter[c])

\* Numbers in use are bounded, so that there is one that is not.
NumbersBelow(n) ==
  /\ user.pw <= n /\ user.secret <= n /\ smbPw <= n /\ proven <= n /\ \A s \in sessions : s.pw <= n
  /\ \A c \in Counters : counter[c].pw <= n /\ counter[c].was <= n /\ \A k \in counter[c].left : k[1] <= n
  /\ \A k \in user.codes \cup spent : k[1] <= n
NumbersInv == \E n \in Nat : NumbersBelow(n)

\* Requests of a group are one at a time, unless it is on record.
Groups == {Identity, Factor, Login}
Alone == \A g \in Groups : g \in crowd \/ \A c, d \in UnderWay(g) : c = d

\* One password: at rest, and at each step of the request that changes it.
Mirrored == IF user = NoUser THEN smbPw = 0 \/ linux = "person" ELSE smbPw = user.pw /\ linux # "none"
OfToday == \A s \in sessions : s.pw = user.pw \/ s.late
Halfway(c) == LET r == counter[c] IN
  /\ r.pc \in {"insert", "drop", "hash"} => Mirrored /\ OfToday
  /\ r.pc \in {"mirror", "samba"} => user.pw = r.pw /\ (smbPw = 0 \/ linux = "person") /\ OfToday
  /\ r.pc = "samba" => linux # "none" /\ (r.made => linux = "ours")
  /\ r.pc = "unmirror" => user = NoUser
  /\ r.pc = "hash" => user # NoUser /\ r.was = user.pw
  /\ r.pc \in {"smb", "rollback"} => user.pw = r.pw /\ smbPw = r.was /\ linux # "none" /\ \A s \in sessions : s.late \/ s.pw = r.was
  /\ r.pc = "expel" => Mirrored
CredentialInv ==
  apart \/ Identity \in crowd \/ /\ UnderWay(Identity) = {} => Mirrored /\ OfToday
                                 /\ \A c \in UnderWay(Identity) : Halfway(c)

\* A count that is recent is exact; the lock leaves room for the logins that are past it.
TriesInv ==
  /\ limit.recent => tries = limit.count
  /\ limit.recent /\ limit.until # "ahead" => limit.count < MaxLoginAttempts
  /\ limit.until = "ahead" => limit.recent /\ tries + Cardinality(UnderWay(Login)) < MaxLoginAttempts + Cardinality(Counters)
  /\ tries < MaxLoginAttempts + Cardinality(Counters)

\* Whoever verifies has the secret that the user has.
FactorInv ==
  Factor \in crowd \/ /\ user.on => user.secret # 0 /\ proven = user.secret
                      /\ \A c \in Counters : CAt(c, "enable") => counter[c].was = user.secret /\ counter[c].was # 0

\* Backup codes that a login read were not spent, and those of a verification are new.
NewCodes(c) ==
  /\ \A k \in user.codes \cup spent : k[1] # counter[c].pw
  /\ \A d \in Counters : \A k \in counter[d].left : k[1] # counter[c].pw
  /\ \A d \in Counters : d # c /\ CAt(d, "enable") => counter[d].pw # counter[c].pw
CodesInv ==
  /\ \A c \in Counters : CAt(c, "enable") => NewCodes(c)
  /\ Login \in crowd \/ /\ user.codes \cap spent = {}
                        /\ \A c \in Counters : counter[c].left \cap spent = {}

AccountInv == AccountTypes /\ NumbersInv /\ Alone /\ CredentialInv /\ TriesInv /\ FactorInv /\ CodesInv

-----------------------------------------------------------------------------
LEMMA CountersAreFinite ==
  /\ IsFiniteSet(Counters) /\ Cardinality(Counters) \in Nat /\ MaxLoginAttempts \in Nat /\ MaxLoginAttempts # 0
  BY AccountAssumption, FS_CardinalityType

LEMMA CounterIs ==
  ASSUME AccountTypes, NEW c \in Counters
  PROVE  /\ counter[c] \in CounterState /\ AtWork(counter[c]) /\ counter[c].pc \in CounterSteps /\ counter[c].kind \in CounterKinds
         /\ counter[c].was \in Nat /\ counter[c].pw \in Nat /\ counter[c].left \subseteq CodeState /\ counter[c].made \in BOOLEAN
  <1>1. counter[c] \in CounterState /\ AtWork(counter[c])
    BY DEF AccountTypes
  <1> QED
    BY <1>1 DEF CounterState
LEMMA UserIs ==
  ASSUME AccountTypes
  PROVE  user \in UserState /\ user.pw \in Nat /\ user.secret \in Nat /\ user.on \in BOOLEAN /\ user.codes \subseteq CodeState
  <1>1. user \in UserState
    BY DEF AccountTypes
  <1> QED
    BY <1>1 DEF UserState
LEMMA NoUserIs ==
  /\ NoUser \in UserState /\ NoUser.pw = 0 /\ NoUser.secret = 0 /\ NoUser.on = FALSE /\ NoUser.codes = {}
  BY DEF NoUser, UserState
LEMMA VacantIs ==
  /\ Vacant \in CounterState /\ AtWork(Vacant) /\ Vacant.pc = "free" /\ Vacant.kind = "none" /\ Vacant.was = 0 /\ Vacant.left = {}
  /\ Vacant.pw = 0 /\ Vacant.made = FALSE
  <1>1. /\ Vacant.pc = "free" /\ Vacant.kind = "none" /\ Vacant.was = 0 /\ Vacant.left = {} /\ Vacant.pw = 0 /\ Vacant.made = FALSE
    BY DEF Vacant
  <1>2. Vacant \in CounterState
    BY DEF Vacant, CounterState, CounterSteps, CounterKinds
  <1> QED
    BY <1>1, <1>2 DEF AtWork
LEMMA NoLimitIs == NoLimit \in LimitState /\ NoLimit.count = 0 /\ NoLimit.until = "none" /\ NoLimit.recent = FALSE
  BY DEF NoLimit, LimitState
LEMMA CodesOfIs == ASSUME NEW n \in Nat PROVE CodesOf(n) \subseteq CodeState /\ \A k \in CodesOf(n) : k[1] = n
  BY DEF CodesOf, CodeState
\* A number that is new is none that is in use.
LEMMA NewNumberIs ==
  ASSUME AccountTypes, NumbersInv
  PROVE  NewNumber \in Nat /\ NewNumber # 0 /\ NewNumber \notin Known
  <1>1. PICK n \in Nat : NumbersBelow(n)
    BY DEF NumbersInv
  <1>2. \A x \in Known : x \in Nat /\ x <= n
    <2>1. /\ user.pw \in Nat /\ user.secret \in Nat /\ smbPw \in Nat /\ proven \in Nat
          /\ user.pw <= n /\ user.secret <= n /\ smbPw <= n /\ proven <= n
      BY <1>1, UserIs DEF NumbersBelow, AccountTypes
    <2>2. \A s \in sessions : s.pw \in Nat /\ s.pw <= n
      BY <1>1 DEF NumbersBelow, AccountTypes, SessionState
    <2>3. \A c \in Counters : counter[c].pw \in Nat /\ counter[c].pw <= n /\ counter[c].was \in Nat /\ counter[c].was <= n
      BY <1>1, CounterIs DEF NumbersBelow
    <2>4. \A k \in user.codes \cup spent \cup UNION {counter[c].left : c \in Counters} : k[1] \in Nat /\ k[1] <= n
      <3>1. \A k \in CodeState : k[1] \in Nat
        BY DEF CodeState
      <3>2. user.codes \cup spent \subseteq CodeState /\ \A c \in Counters : counter[c].left \subseteq CodeState
        BY UserIs, CounterIs DEF AccountTypes
      <3> QED
        BY <1>1, <3>1, <3>2 DEF NumbersBelow
    <2> DEFINE fixed == {user.pw, user.secret, smbPw, proven}
               opened == {s.pw : s \in sessions}
               brought == UNION {{counter[c].pw, counter[c].was} : c \in Counters}
               codes == user.codes \cup spent \cup UNION {counter[c].left : c \in Counters}
               listed == {k[1] : k \in codes}
    <2>5. Known = fixed \cup opened \cup brought \cup listed
      BY DEF Known
    <2>6. \A x \in fixed : x \in Nat /\ x <= n
      BY <2>1
    <2>7. \A x \in opened : x \in Nat /\ x <= n
      BY <2>2
    <2>8. \A x \in brought : x \in Nat /\ x <= n
      BY <2>3
    <2>9. \A x \in listed : x \in Nat /\ x <= n
      BY <2>4
    <2> HIDE DEF fixed, opened, brought, listed
    <2> QED
      BY <2>5, <2>6, <2>7, <2>8, <2>9
  <1>3. IsFiniteSet(Known) /\ Cardinality(Known) \in Nat
    <2>1. Known \in SUBSET Nat
      BY <1>2
    <2> QED
      BY <1>2, <2>1, FS_BoundedSetOfNaturals, FS_CardinalityType
  <1> DEFINE top == Cardinality(Known) + 1
             unused == {m \in 1..top : m \notin Known}
             Less == {ss \in Nat \X Nat : ss[1] < ss[2]}
  <1>4. unused # {}
    <2> SUFFICES ASSUME unused = {} PROVE FALSE
      OBVIOUS
    <2>1. 1..top \in SUBSET Known
      OBVIOUS
    <2>2. Cardinality(1..top) = top
      BY <1>3, FS_Interval
    <2>3. Cardinality(1..top) <= Cardinality(Known)
      BY <1>3, <2>1, FS_Subset
    <2> QED
      BY <1>3, <2>2, <2>3
  <1>5. \E m \in unused : \A i \in unused : ~(i < m)
    <2>1. IsWellFoundedOn(Less, Nat)
      BY NatLessThanWellFounded DEF OpToRel
    <2>2. unused \subseteq Nat
      BY <1>3
    <2> HIDE DEF Less, unused
    <2>3. PICK m \in unused : \A i \in unused : ~(<<i, m>> \in Less)
      BY <1>4, <2>1, <2>2, WFMin
    <2>4. \A i \in unused : ~(i < m)
      BY <2>2, <2>3 DEF Less
    <2> QED
      BY <2>3, <2>4
  <1>6. \E m \in 1..top : m \notin Known /\ \A i \in 1..m - 1 : i \in Known
    <2>1. PICK m \in unused : \A i \in unused : ~(i < m)
      BY <1>5
    <2>2. \A i \in 1..m - 1 : i \in 1..top /\ i < m
      BY <1>3, <2>1
    <2> QED
      BY <2>1, <2>2
  <1>7. NewNumber \in 1..top /\ NewNumber \notin Known
    BY <1>6 DEF NewNumber
  <1> QED
    BY <1>3, <1>7

-----------------------------------------------------------------------------
(* What a request of an account does to the records.                       *)

\* Request c goes from the record it has to "new", and no other moves.
Advances(c, new) ==
  /\ new \in CounterState /\ AtWork(new) /\ counter' \in [Counters -> CounterState]
  /\ counter'[c] = new /\ \A d \in Counters : d # c => counter'[d] = counter[d]
\* It works on: what it has in its hand comes from what it had.
WorksOn(c, new) ==
  /\ Advances(c, new) /\ new.kind \in {counter[c].kind, "none"} /\ crowd' = crowd /\ counter[c].pc # "free"
  /\ new.pc # "enable" /\ new.pw \in {counter[c].pw, 0} /\ new.was \in {counter[c].was, 0}
  /\ new.left \subseteq counter[c].left \cup user.codes

LEMMA AdvancesIs ==
  ASSUME AccountTypes, NEW c \in Counters, NEW new \in CounterState, AtWork(new), counter' = [counter EXCEPT ![c] = new]
  PROVE  Advances(c, new)
  BY DEF Advances, AccountTypes
LEMMA LeavesOn ==
  ASSUME AccountTypes, NEW c \in Counters, CLeaves(c), crowd' = crowd, counter[c].pc # "free"
  PROVE  WorksOn(c, Vacant) /\ Advances(c, Vacant)
  <1>1. Advances(c, Vacant)
    BY AdvancesIs, VacantIs DEF CLeaves
  <1> QED
    BY <1>1, VacantIs DEF WorksOn
\* A record whose step changes.
LEMMA StepIs ==
  ASSUME NEW r \in CounterState, NEW pc \in CounterSteps
  PROVE  LET s == [r EXCEPT !.pc = pc] IN
         /\ s \in CounterState /\ s.pc = pc /\ s.kind = r.kind /\ s.was = r.was /\ s.left = r.left /\ s.pw = r.pw /\ s.made = r.made
  BY DEF CounterState
\* The steps a request of one kind may go to.
LEMMA NextStepIs ==
  ASSUME NEW r \in CounterState, AtWork(r), NEW pc \in CounterSteps, r.left = {},
         \/ {r.pc, pc} \subseteq {"insert", "mirror", "samba"}
         \/ {r.pc, pc} \subseteq {"drop", "unmirror"}
         \/ {r.pc, pc} \subseteq {"hash", "smb", "rollback", "expel"}
         \/ {r.pc, pc} \subseteq {"check", "fetch", "second", "session"}
  PROVE  AtWork([r EXCEPT !.pc = pc])
  <1> DEFINE s == [r EXCEPT !.pc = pc]
  <1>1. s.pc = pc /\ s.kind = r.kind /\ s.was = r.was /\ s.left = r.left /\ s.pw = r.pw
    BY StepIs
  <1>2. /\ r.pc = "free" <=> r.kind = "none"
        /\ r.pc \in {"insert", "mirror", "samba"} <=> r.kind \in {"create", "first"}
        /\ r.pc \in {"drop", "unmirror"} <=> r.kind = "delete"
        /\ r.pc \in {"hash", "smb", "rollback", "expel"} <=> r.kind = "password"
        /\ r.pc \in {"check", "fetch", "second", "session"} <=> r.kind = "login"
        /\ r.pc = "secret" <=> r.kind = "setup"
        /\ r.pc = "enable" <=> r.kind = "verify"
        /\ r.pc = "disable" <=> r.kind = "disable"
        /\ r.kind \in {"create", "first", "password"} => r.pw # 0
        /\ r.kind = "password" => r.was # 0
    BY DEF AtWork
  <1> HIDE DEF s
  <1>3. AtWork(s)
    BY <1>1, <1>2 DEF AtWork
  <1> QED
    BY <1>3 DEF s

LEMMA GoesOn ==
  ASSUME AccountTypes, NEW c \in Counters, NEW pc \in CounterSteps, CGoes(c, pc), crowd' = crowd, counter[c].left = {},
         \/ {counter[c].pc, pc} \subseteq {"insert", "mirror", "samba"}
         \/ {counter[c].pc, pc} \subseteq {"drop", "unmirror"}
         \/ {counter[c].pc, pc} \subseteq {"hash", "smb", "rollback", "expel"}
         \/ {counter[c].pc, pc} \subseteq {"check", "fetch", "second", "session"}
  PROVE  \E new \in CounterState :
           /\ WorksOn(c, new) /\ Advances(c, new) /\ new.pc = pc /\ new.kind = counter[c].kind /\ new.was = counter[c].was
           /\ new.left = counter[c].left /\ new.pw = counter[c].pw /\ new.made = counter[c].made
  <1> DEFINE new == [counter[c] EXCEPT !.pc = pc]
  <1>1. /\ new \in CounterState /\ new.pc = pc /\ new.kind = counter[c].kind /\ new.was = counter[c].was
        /\ new.left = counter[c].left /\ new.pw = counter[c].pw /\ new.made = counter[c].made
    BY CounterIs, StepIs
  <1>2. counter' = [counter EXCEPT ![c] = new]
    BY DEF CGoes, AccountTypes
  <1>3. AtWork(new)
    BY CounterIs, NextStepIs
  <1>4. pc # "enable" /\ counter[c].pc # "free"
    OBVIOUS
  <1> HIDE DEF new
  <1>5. Advances(c, new)
    BY <1>1, <1>2, <1>3, AdvancesIs
  <1>6. WorksOn(c, new)
    BY <1>1, <1>4, <1>5 DEF WorksOn
  <1> QED
    BY <1>1, <1>5, <1>6
LEMMA CounterStepsAre == {"mirror", "samba", "unmirror", "smb", "rollback", "expel", "fetch", "second", "session"} \subseteq CounterSteps
  BY DEF CounterSteps

\* The row of the user, as the statements change it.
LEMMA PasswordIs ==
  ASSUME NEW u \in UserState, NEW n \in Nat
  PROVE  LET v == [u EXCEPT !.pw = n] IN v \in UserState /\ v.pw = n /\ v.secret = u.secret /\ v.on = u.on /\ v.codes = u.codes
  BY DEF UserState
LEMMA SecretIs ==
  ASSUME NEW u \in UserState, NEW n \in Nat
  PROVE  LET v == [u EXCEPT !.secret = n, !.on = FALSE] IN
         v \in UserState /\ v.pw = u.pw /\ v.secret = n /\ v.on = FALSE /\ v.codes = u.codes
  BY DEF UserState
LEMMA EnabledIs ==
  ASSUME NEW u \in UserState, NEW K \in SUBSET CodeState
  PROVE  LET v == [u EXCEPT !.on = TRUE, !.codes = K] IN
         v \in UserState /\ v.pw = u.pw /\ v.secret = u.secret /\ v.on = TRUE /\ v.codes = K
  BY DEF UserState
LEMMA RowCodesAre ==
  ASSUME NEW u \in UserState, NEW K \in SUBSET CodeState
  PROVE  LET v == [u EXCEPT !.codes = K] IN
         v \in UserState /\ v.pw = u.pw /\ v.secret = u.secret /\ v.on = u.on /\ v.codes = K
  BY DEF UserState
LEMMA OpenedIs ==
  ASSUME AccountTypes, NEW c \in Counters
  PROVE  /\ Opened(c) \subseteq SessionState /\ (user = NoUser => Opened(c) = sessions)
         /\ \A s \in Opened(c) : s \in sessions \/ (s.pw = counter[c].pw
              /\ (s.pw # user.pw => s.late) /\ (UnderWay({"password"}) # {} => s.late))
  <1> DEFINE lag == user.pw # counter[c].pw \/ UnderWay({"password"}) # {}
             new == [pw |-> counter[c].pw, late |-> lag]
  <1>1. counter[c].pw \in Nat /\ sessions \subseteq SessionState
    BY CounterIs DEF AccountTypes
  <1>2. lag \in BOOLEAN
    OBVIOUS
  <1>3. new.pw = counter[c].pw /\ new.late = lag
    OBVIOUS
  <1>4. (lag = TRUE) <=> (user.pw # counter[c].pw \/ UnderWay({"password"}) # {})
    OBVIOUS
  <1>5. Opened(c) = (IF user = NoUser THEN sessions ELSE sessions \cup {new})
    BY DEF Opened
  <1> HIDE DEF lag
  <1>6. new \in SessionState
    BY <1>1, <1>2 DEF SessionState
  <1> HIDE DEF new
  <1> QED
    BY <1>1, <1>3, <1>4, <1>5, <1>6

-----------------------------------------------------------------------------
(* What of the invariant a step of a request keeps.                        *)

LEMMA CountersMoved ==
  ASSUME AccountTypes, NEW c \in Counters, NEW new \in CounterState, Advances(c, new)
  PROVE  counter' \in [Counters -> CounterState] /\ \A d \in Counters : AtWork(counter'[d])
  <1>1. \A d \in Counters : AtWork(counter[d])
    BY DEF AccountTypes
  <1> QED
    BY <1>1 DEF Advances
LEMMA UnderWayMoves ==
  ASSUME AccountTypes, NEW c \in Counters, NEW new \in CounterState, Advances(c, new), NEW kinds
  PROVE  /\ \A d \in Counters : d # c => (d \in UnderWay(kinds)' <=> d \in UnderWay(kinds))
         /\ c \in UnderWay(kinds)' <=> new.kind \in kinds
  BY DEF Advances, UnderWay
LEMMA UnderWayShrinks ==
  ASSUME AccountTypes, NEW c \in Counters, NEW new \in CounterState, WorksOn(c, new), NEW kinds, "none" \notin kinds
  PROVE  /\ UnderWay(kinds)' \subseteq UnderWay(kinds) /\ UnderWay(kinds) \subseteq Counters
         /\ \A d \in UnderWay(kinds) : d # c => d \in UnderWay(kinds)'
  <1>1. Advances(c, new) /\ new.kind \in {counter[c].kind, "none"}
    BY DEF WorksOn
  <1>2. UnderWay(kinds) \subseteq Counters /\ UnderWay(kinds)' \subseteq Counters
    BY DEF UnderWay
  <1>3. c \in UnderWay(kinds) <=> counter[c].kind \in kinds
    BY DEF UnderWay
  <1> QED
    BY <1>1, <1>2, <1>3, UnderWayMoves
LEMMA AloneKept ==
  ASSUME AccountTypes, Alone, NEW c \in Counters, NEW new \in CounterState, WorksOn(c, new)
  PROVE  Alone'
  <1>1. \A g \in Groups : "none" \notin g
    BY DEF Groups, Identity, Factor, Login
  <1>2. \A g \in Groups : UnderWay(g)' \subseteq UnderWay(g)
    BY <1>1, UnderWayShrinks
  <1>3. crowd' = crowd
    BY DEF WorksOn
  <1> QED
    BY <1>2, <1>3 DEF Alone
LEMMA TriesKept ==
  ASSUME AccountTypes, TriesInv, NEW c \in Counters, NEW new \in CounterState, WorksOn(c, new), limit' = limit, tries' = tries
  PROVE  TriesInv'
  <1>1. UnderWay(Login)' \subseteq UnderWay(Login) /\ UnderWay(Login) \subseteq Counters
    BY UnderWayShrinks DEF Login
  <1>2. IsFiniteSet(UnderWay(Login)) /\ Cardinality(UnderWay(Login)) \in Nat /\ Cardinality(Counters) \in Nat /\ IsFiniteSet(Counters)
    BY <1>1, CountersAreFinite, AccountAssumption, FS_Subset, FS_CardinalityType
  <1>3. Cardinality(UnderWay(Login)') <= Cardinality(UnderWay(Login)) /\ Cardinality(UnderWay(Login)') \in Nat
    BY <1>1, <1>2, FS_Subset, FS_CardinalityType
  <1>4. tries \in Nat /\ MaxLoginAttempts \in Nat
    BY CountersAreFinite DEF AccountTypes
  <1> DEFINE k == Cardinality(UnderWay(Login))
             l == Cardinality(UnderWay(Login)')
  <1>5. limit.until = "ahead" => limit.recent /\ tries + l < MaxLoginAttempts + Cardinality(Counters)
    <2>1. limit.until = "ahead" => limit.recent /\ tries + k < MaxLoginAttempts + Cardinality(Counters)
      BY DEF TriesInv
    <2> QED
      BY <1>2, <1>3, <1>4, <2>1
  <1>6. l = Cardinality(UnderWay(Login))'
    OBVIOUS
  <1> QED
    BY <1>5, <1>6 DEF TriesInv
LEMMA FactorKept ==
  ASSUME AccountTypes, FactorInv, NEW c \in Counters, NEW new \in CounterState, WorksOn(c, new),
         user'.secret = user.secret, user'.on = user.on, proven' = proven
  PROVE  FactorInv'
  BY DEF FactorInv, CAt, WorksOn, Advances
\* A request that writes the factor finds nobody else who verifies.
LEMMA FactorTurns ==
  ASSUME AccountTypes, Alone, FactorInv, NEW c \in Counters, NEW new \in CounterState, WorksOn(c, new), counter[c].kind \in Factor,
         Factor \notin crowd => (user'.on => user'.secret # 0 /\ proven' = user'.secret)
  PROVE  FactorInv'
  <1>1. crowd' = crowd /\ Advances(c, new) /\ new.pc # "enable"
    BY DEF WorksOn
  <1>2. CASE Factor \notin crowd
    <2>1. \A d \in Counters : d # c => counter[d].pc # "enable"
      <3>1. \A d \in Counters : counter[d].pc = "enable" => counter[d].kind = "verify"
        BY DEF AccountTypes, AtWork
      <3>2. \A d \in Counters : counter[d].kind \in Factor => d = c
        BY <1>2 DEF Alone, Groups, UnderWay
      <3> QED
        BY <3>1, <3>2 DEF Factor
    <2>2. \A d \in Counters : counter'[d].pc # "enable"
      BY <1>1, <2>1 DEF Advances
    <2> QED
      BY <1>2, <2>2 DEF FactorInv, CAt
  <1> QED
    BY <1>1, <1>2 DEF FactorInv
LEMMA CodesKept ==
  ASSUME AccountTypes, CodesInv, NEW c \in Counters, NEW new \in CounterState, WorksOn(c, new),
         spent' = spent, user'.codes \subseteq user.codes
  PROVE  CodesInv'
  <1>1. crowd' = crowd /\ Advances(c, new) /\ new.pc # "enable" /\ new.left \subseteq counter[c].left \cup user.codes
    BY DEF WorksOn
  <1>2. \A d \in Counters : counter'[d].left \subseteq counter[d].left \cup user.codes
    BY <1>1 DEF Advances
  <1>3. \A d \in Counters : counter'[d].pc = "enable" => d # c /\ counter'[d] = counter[d]
    BY <1>1 DEF Advances
  <1>4. \A d \in Counters : counter'[d].pc = "enable" => NewCodes(d)'
    <2> SUFFICES ASSUME NEW d \in Counters, counter'[d].pc = "enable" PROVE NewCodes(d)'
      OBVIOUS
    <2>1. counter'[d].pw = counter[d].pw /\ NewCodes(d)
      BY <1>3 DEF CodesInv, CAt
    <2>2. \A k \in user'.codes \cup spent' : k[1] # counter[d].pw
      BY <2>1 DEF NewCodes
    <2>3. \A e \in Counters : \A k \in counter'[e].left : k[1] # counter[d].pw
      BY <1>2, <2>1 DEF NewCodes
    <2>4. \A e \in Counters : e # d /\ counter'[e].pc = "enable" => counter'[e].pw # counter[d].pw
      BY <1>3, <2>1 DEF NewCodes, CAt
    <2> QED
      BY <2>1, <2>2, <2>3, <2>4 DEF NewCodes, CAt
  <1>5. Login \in crowd \/ (user'.codes \cap spent' = {} /\ \A d \in Counters : counter'[d].left \cap spent' = {})
    <2> SUFFICES ASSUME Login \notin crowd PROVE user'.codes \cap spent' = {} /\ \A d \in Counters : counter'[d].left \cap spent' = {}
      OBVIOUS
    <2>1. user.codes \cap spent = {} /\ \A d \in Counters : counter[d].left \cap spent = {}
      BY DEF CodesInv
    <2> QED
      BY <1>2, <2>1
  <1> QED
    BY <1>1, <1>4, <1>5 DEF CodesInv, CAt
LEMMA NumbersKept ==
  ASSUME AccountTypes, NumbersInv, NEW c \in Counters, NEW new \in CounterState, WorksOn(c, new),
         user'.pw \in {0, user.pw, counter[c].pw, counter[c].was}, user'.secret \in {0, user.secret, counter[c].pw},
         smbPw' \in {0, smbPw, counter[c].pw}, proven' \in {proven, counter[c].was},
         \A s \in sessions' : s \in sessions \/ s.pw = counter[c].pw,
         \A k \in user'.codes \cup spent' : k \in user.codes \cup spent \cup counter[c].left \/ k[1] = counter[c].pw
  PROVE  NumbersInv'
  <1>1. PICK n \in Nat : NumbersBelow(n)
    BY DEF NumbersInv
  <1>2. /\ Advances(c, new) /\ new.pw \in {counter[c].pw, 0} /\ new.was \in {counter[c].was, 0}
        /\ new.left \subseteq counter[c].left \cup user.codes
    BY DEF WorksOn
  <1>3. /\ user.pw <= n /\ user.secret <= n /\ smbPw <= n /\ proven <= n /\ \A s \in sessions : s.pw <= n
        /\ \A d \in Counters : counter[d].pw <= n /\ counter[d].was <= n /\ \A k \in counter[d].left : k[1] <= n
        /\ \A k \in user.codes \cup spent : k[1] <= n
    BY <1>1 DEF NumbersBelow
  <1>4. user'.pw <= n /\ user'.secret <= n /\ smbPw' <= n /\ proven' <= n /\ \A s \in sessions' : s.pw <= n
    BY <1>3
  <1>5. new.pw <= n /\ new.was <= n /\ \A k \in new.left : k[1] <= n
    BY <1>2, <1>3
  <1>6. \A d \in Counters : counter'[d].pw <= n /\ counter'[d].was <= n /\ \A k \in counter'[d].left : k[1] <= n
    BY <1>2, <1>3, <1>5 DEF Advances
  <1>7. \A k \in user'.codes \cup spent' : k[1] <= n
    BY <1>3
  <1>8. NumbersBelow(n)'
    BY <1>4, <1>6, <1>7 DEF NumbersBelow
  <1> QED
    BY <1>8 DEF NumbersInv
LEMMA CredentialKept ==
  ASSUME AccountTypes, CredentialInv, NEW c \in Counters, NEW new \in CounterState, WorksOn(c, new), counter[c].kind \notin Identity,
         apart' = apart, user'.pw = user.pw, user' = NoUser <=> user = NoUser, linux' = linux, smbPw' = smbPw,
         \A s \in sessions' : s \in sessions \/ ((s.pw # user.pw => s.late) /\ (UnderWay({"password"}) # {} => s.late))
  PROVE  CredentialInv'
  <1>1. Advances(c, new) /\ new.kind \notin Identity /\ crowd' = crowd
    BY DEF WorksOn, Identity
  <1> SUFFICES ASSUME ~apart, Identity \notin crowd
               PROVE  (UnderWay(Identity)' = {} => (Mirrored /\ OfToday)') /\ \A d \in UnderWay(Identity)' : Halfway(d)'
    BY <1>1 DEF CredentialInv
  <1>2. UnderWay(Identity)' = UnderWay(Identity) /\ UnderWay(Identity) \subseteq Counters
    <2>1. UnderWay(Identity)' \subseteq Counters /\ UnderWay(Identity) \subseteq Counters /\ c \notin UnderWay(Identity)
      BY DEF UnderWay
    <2>2. \A d \in Counters : d \in UnderWay(Identity)' <=> d \in UnderWay(Identity)
      BY <1>1, <2>1, UnderWayMoves
    <2> QED
      BY <2>1, <2>2
  <1>3. Mirrored => Mirrored'
    BY DEF Mirrored
  <1>4. OfToday => OfToday'
    BY DEF OfToday
  <1>5. \A d \in UnderWay(Identity) : Halfway(d)'
    <2> SUFFICES ASSUME NEW d \in UnderWay(Identity) PROVE Halfway(d)'
      OBVIOUS
    <2>1. Halfway(d) /\ d \in Counters /\ d # c
      BY <1>2 DEF CredentialInv, UnderWay
    <2>2. counter'[d] = counter[d]
      BY <1>1, <2>1 DEF Advances
    <2>3. counter[d].pc \in {"smb", "rollback"} => UnderWay({"password"}) # {}
      BY <2>1 DEF AccountTypes, AtWork, UnderWay
    <2>4. counter[d].pc \in {"smb", "rollback"} => \A s \in sessions' : s.late \/ s.pw = counter[d].was
      BY <2>1, <2>3 DEF Halfway
    <2> QED
      BY <1>3, <1>4, <2>1, <2>2, <2>4 DEF Halfway
  <1> QED
    BY <1>2, <1>3, <1>4, <1>5 DEF CredentialInv
LEMMA CredentialTurns ==
  ASSUME AccountTypes, Alone, CredentialInv, NEW c \in Counters, NEW new \in CounterState, WorksOn(c, new), counter[c].kind \in Identity,
         apart => apart',
         ~apart' /\ Identity \notin crowd /\ Halfway(c) => IF new.kind = "none" THEN Mirrored' /\ OfToday' ELSE Halfway(c)'
  PROVE  CredentialInv'
  <1>1. Advances(c, new) /\ new.kind \in {counter[c].kind, "none"} /\ crowd' = crowd
    BY DEF WorksOn
  <1> SUFFICES ASSUME ~apart', Identity \notin crowd
               PROVE  (UnderWay(Identity)' = {} => (Mirrored /\ OfToday)') /\ \A d \in UnderWay(Identity)' : Halfway(d)'
    BY <1>1 DEF CredentialInv
  <1>2. c \in UnderWay(Identity) /\ Halfway(c)
    BY DEF UnderWay, CredentialInv
  <1>3. \A d \in UnderWay(Identity) : d = c
    BY <1>2 DEF Alone, Groups
  <1>4. \A d \in UnderWay(Identity)' : d = c
    <2>1. UnderWay(Identity)' \subseteq UnderWay(Identity)
      BY UnderWayShrinks DEF Identity
    <2> QED
      BY <1>3, <2>1
  <1>5. c \in UnderWay(Identity)' <=> new.kind # "none"
    <2>1. c \in UnderWay(Identity)' <=> new.kind \in Identity
      BY <1>1, UnderWayMoves
    <2> QED
      BY <1>1, <2>1 DEF Identity
  <1> QED
    BY <1>2, <1>4, <1>5

\* The invariant after a step of a request that writes the user, by what the step does.
LEMMA IdentityStep ==
  ASSUME AccountInv, NEW c \in Counters, NEW new \in CounterState, WorksOn(c, new), counter[c].kind \in Identity,
         user' \in UserState, (user'.pw = 0 => user' = NoUser), (user' = NoUser => sessions' = {}),
         linux' \in {"none", "ours", "person"}, sessions' \subseteq SessionState, apart' \in BOOLEAN,
         limit' = limit, tries' = tries, spent' = spent, proven' = proven, apart => apart',
         user'.pw \in {0, user.pw, counter[c].pw, counter[c].was}, smbPw' \in {0, smbPw, counter[c].pw},
         \/ user'.secret = user.secret /\ user'.on = user.on /\ user'.codes = user.codes
         \/ counter[c].kind \in Factor /\ user'.secret = 0 /\ user'.on = FALSE /\ user'.codes = {},
         \A s \in sessions' : s \in sessions \/ s.pw = counter[c].pw,
         ~apart' /\ Identity \notin crowd /\ Halfway(c) => IF new.kind = "none" THEN Mirrored' /\ OfToday' ELSE Halfway(c)'
  PROVE  AccountInv'
  <1>0. AccountTypes /\ NumbersInv /\ Alone /\ CredentialInv /\ TriesInv /\ FactorInv /\ CodesInv
    BY DEF AccountInv
  <1>1. counter[c].pw \in Nat /\ Advances(c, new) /\ smbPw \in Nat
    BY <1>0, CounterIs DEF AccountTypes, WorksOn
  <1>2. AccountTypes'
    <2>1. smbPw' \in Nat
      BY <1>1
    <2> QED
      BY <1>0, <1>1, <2>1, CountersMoved DEF AccountTypes
  <1>3. NumbersInv'
    <2>1. user'.secret \in {0, user.secret, counter[c].pw}
      OBVIOUS
    <2>2. \A k \in user'.codes \cup spent' : k \in user.codes \cup spent \cup counter[c].left \/ k[1] = counter[c].pw
      OBVIOUS
    <2> QED
      BY <1>0, <2>1, <2>2, NumbersKept
  <1>4. Alone'
    BY <1>0, AloneKept
  <1>5. CredentialInv'
    BY <1>0, CredentialTurns
  <1>6. TriesInv'
    BY <1>0, TriesKept
  <1>7. FactorInv'
    <2>1. CASE user'.secret = user.secret /\ user'.on = user.on
      BY <1>0, <2>1, FactorKept
    <2>2. CASE counter[c].kind \in Factor /\ user'.on = FALSE
      BY <1>0, <2>2, FactorTurns
    <2> QED
      BY <2>1, <2>2
  <1>8. CodesInv'
    BY <1>0, CodesKept
  <1> QED
    BY <1>2, <1>3, <1>4, <1>5, <1>6, <1>7, <1>8 DEF AccountInv
\* And of one that does not: a login, or a request about the second factor.
LEMMA OtherStep ==
  ASSUME AccountInv, NEW c \in Counters, NEW new \in CounterState, WorksOn(c, new), counter[c].kind \notin Identity,
         user' \in UserState, user'.pw = user.pw, user' = NoUser <=> user = NoUser, linux' = linux, smbPw' = smbPw, apart' = apart,
         sessions' \subseteq SessionState, user = NoUser => sessions' = sessions, limit' \in LimitState, tries' \in Nat,
         user'.secret \in {0, user.secret, counter[c].pw}, proven' \in {proven, counter[c].was}, spent' \subseteq CodeState,
         \A s \in sessions' : s \in sessions \/ (s.pw = counter[c].pw
              /\ (s.pw # user.pw => s.late) /\ (UnderWay({"password"}) # {} => s.late)),
         \A k \in user'.codes \cup spent' : k \in user.codes \cup spent \cup counter[c].left \/ k[1] = counter[c].pw,
         TriesInv', FactorInv', CodesInv'
  PROVE  AccountInv'
  <1>0. AccountTypes /\ NumbersInv /\ Alone /\ CredentialInv /\ TriesInv /\ FactorInv /\ CodesInv
    BY DEF AccountInv
  <1>1. counter[c].pw \in Nat /\ counter[c].was \in Nat /\ Advances(c, new) /\ user.pw \in Nat /\ proven \in Nat
    BY <1>0, CounterIs, UserIs DEF AccountTypes, WorksOn
  <1>2. AccountTypes'
    <2>1. user'.pw = 0 => user' = NoUser
      BY <1>0 DEF AccountTypes
    <2>2. user' = NoUser => sessions' = {}
      BY <1>0 DEF AccountTypes
    <2>3. proven' \in Nat
      BY <1>1
    <2> QED
      BY <1>0, <1>1, <2>1, <2>2, <2>3, CountersMoved DEF AccountTypes
  <1>3. NumbersInv'
    BY <1>0, NumbersKept
  <1>4. Alone'
    BY <1>0, AloneKept
  <1>5. CredentialInv'
    BY <1>0, CredentialKept
  <1> QED
    BY <1>2, <1>3, <1>4, <1>5 DEF AccountInv

-----------------------------------------------------------------------------
(* Creation, deletion and change of the password.                          *)

LEMMA HandIs ==
  ASSUME AccountTypes, NEW c \in Counters
  PROVE  LET r == counter[c] IN
         /\ r \in CounterState /\ AtWork(r)
         /\ r.pc \in {"insert", "mirror", "samba"} => r.kind \in {"create", "first"} /\ r.kind \in Identity /\ r.kind \in Factor /\ r.pw # 0
         /\ r.pc \in {"drop", "unmirror"} => r.kind = "delete" /\ r.kind \in Identity /\ r.kind \in Factor
         /\ r.pc \in {"hash", "smb", "rollback", "expel"} => r.kind = "password" /\ r.kind \in Identity /\ r.pw # 0 /\ r.was # 0
         /\ r.pc \in {"check", "fetch", "second", "session"} => r.kind = "login" /\ r.kind \notin Identity
         /\ r.pc \in {"secret", "enable", "disable"} => r.kind \in Factor /\ r.kind \notin Identity
         /\ r.pc # "second" => r.left = {}
  BY CounterIs DEF AtWork, Identity, Factor
\* What the invariant says of the user and its mirrors.
LEMMA AccountIs ==
  ASSUME AccountInv
  PROVE  /\ AccountTypes /\ user \in UserState /\ (user.pw = 0 => user = NoUser) /\ (user = NoUser => sessions = {})
         /\ linux \in {"none", "ours", "person"} /\ smbPw \in Nat /\ sessions \subseteq SessionState
         /\ limit \in LimitState /\ spent \subseteq CodeState /\ proven \in Nat /\ tries \in Nat /\ apart \in BOOLEAN
  BY DEF AccountInv, AccountTypes

LEMMA InsertKeeps ==
  ASSUME AccountInv, NEW c \in Counters, InsertUser(c)
  PROVE  AccountInv'
  <1>0. /\ counter[c].pc = "insert" /\ crowd' = crowd /\ apart' = apart /\ linux' = linux /\ smbPw' = smbPw /\ sessions' = sessions
        /\ limit' = limit /\ tries' = tries /\ spent' = spent /\ proven' = proven
    BY DEF InsertUser, CAt, accountHistory
  <1>1. counter[c].kind \in Identity /\ counter[c].kind \in Factor /\ counter[c].pw # 0 /\ counter[c].left = {} /\ counter[c].pw \in Nat
    BY <1>0, AccountIs, HandIs, CounterIs
  <1>2. CASE user = NoUser /\ user' = [NoUser EXCEPT !.pw = counter[c].pw] /\ CGoes(c, "mirror")
    <2>2. PICK new \in CounterState : WorksOn(c, new) /\ Advances(c, new) /\ new.pc = "mirror" /\ new.kind = counter[c].kind /\ new.pw = counter[c].pw
      BY <1>0, <1>1, <1>2, AccountIs, CounterStepsAre, GoesOn
    <2>3. user' \in UserState /\ user'.pw = counter[c].pw /\ user'.secret = 0 /\ user'.on = FALSE /\ user'.codes = {}
      BY <1>1, <1>2, NoUserIs, PasswordIs
    <2>4. user' # NoUser /\ sessions' = {}
      BY <1>0, <1>1, <1>2, <2>3, NoUserIs, AccountIs
    <2>5. ~apart' /\ Identity \notin crowd /\ Halfway(c) => Halfway(c)'
      <3>1. Halfway(c) => Mirrored
        BY <1>0 DEF Halfway
      <3>2. counter'[c] = new
        BY <2>2 DEF Advances
      <3> QED
        BY <1>0, <1>2, <2>2, <2>3, <2>4, <3>1, <3>2 DEF Halfway, Mirrored, OfToday
    <2>6. new.kind # "none"
      BY <1>1, <2>2 DEF Identity
    <2> QED
      BY <1>0, <1>1, <2>2, <2>3, <2>4, <2>5, <2>6, AccountIs, IdentityStep
  <1>3. CASE user' = user /\ CLeaves(c)
    <2>1. WorksOn(c, Vacant)
      BY <1>0, <1>3, AccountIs, LeavesOn
    <2>2. Halfway(c) => Mirrored' /\ OfToday'
      BY <1>0, <1>3 DEF Halfway, Mirrored, OfToday
    <2> QED
      BY <1>0, <1>1, <1>3, <2>1, <2>2, AccountIs, VacantIs, IdentityStep
  <1> QED
    BY <1>2, <1>3 DEF InsertUser
LEMMA MirrorKeeps ==
  ASSUME AccountInv, NEW c \in Counters, MirrorUser(c)
  PROVE  AccountInv'
  <1>0. /\ counter[c].pc = "mirror" /\ crowd' = crowd /\ apart' = apart /\ smbPw' = smbPw
        /\ limit' = limit /\ tries' = tries /\ spent' = spent /\ proven' = proven
    BY DEF MirrorUser, CAt
  <1>1. counter[c].kind \in Identity /\ counter[c].kind \in Factor /\ counter[c].pw # 0 /\ counter[c].left = {} /\ counter[c].pw \in Nat
    BY <1>0, AccountIs, HandIs, CounterIs
  <1>2. CASE /\ linux' = (IF linux = "none" THEN "ours" ELSE linux) /\ user' = user /\ sessions' = sessions
             /\ counter' = [counter EXCEPT ![c].pc = "samba", ![c].made = linux = "none"]
    <2> DEFINE new == [counter[c] EXCEPT !.pc = "samba", !.made = linux = "none"]
    <2>1. /\ new \in CounterState /\ new.pc = "samba" /\ new.kind = counter[c].kind /\ new.was = counter[c].was
          /\ new.left = counter[c].left /\ new.pw = counter[c].pw /\ (new.made => linux = "none")
      BY AccountIs, CounterIs DEF CounterState, CounterSteps
    <2>2. counter' = [counter EXCEPT ![c] = new]
      BY <1>2
    <2> HIDE DEF new
    <2>3. AtWork(new)
      <3>1. AtWork(counter[c]) /\ counter[c].kind \in {"create", "first"}
        BY <1>0, AccountIs, HandIs
      <3> QED
        BY <1>1, <2>1, <3>1 DEF AtWork
    <2>4. Advances(c, new)
      BY <2>1, <2>2, <2>3, AccountIs, AdvancesIs
    <2>5. WorksOn(c, new)
      BY <1>0, <2>1, <2>4 DEF WorksOn
    <2>6. ~apart' /\ Identity \notin crowd /\ Halfway(c) => Halfway(c)'
      <3>1. counter'[c] = new
        BY <2>4 DEF Advances
      <3> QED
        BY <1>0, <1>2, <2>1, <3>1, AccountIs DEF Halfway, OfToday
    <2>7. new.kind # "none" /\ linux' \in {"none", "ours", "person"}
      BY <1>1, <1>2, <2>1, AccountIs DEF Identity
    <2> QED
      BY <1>0, <1>1, <1>2, <2>1, <2>5, <2>6, <2>7, AccountIs, IdentityStep
  <1>3. CASE linux = "none" /\ linux' = linux /\ Dropped /\ CLeaves(c)
    <2>1. WorksOn(c, Vacant)
      BY <1>0, <1>3, AccountIs, LeavesOn
    <2>2. user' = NoUser /\ sessions' = {}
      BY <1>3 DEF Dropped
    <2>3. Halfway(c) => Mirrored' /\ OfToday'
      BY <1>0, <1>3, <2>2 DEF Halfway, Mirrored, OfToday
    <2> QED
      BY <1>0, <1>1, <1>3, <2>1, <2>2, <2>3, AccountIs, VacantIs, NoUserIs, IdentityStep
  <1> QED
    BY <1>2, <1>3 DEF MirrorUser
LEMMA SambaKeeps ==
  ASSUME AccountInv, NEW c \in Counters, SambaUser(c)
  PROVE  AccountInv'
  <1>0. /\ counter[c].pc = "samba" /\ crowd' = crowd /\ apart' = apart /\ CLeaves(c)
        /\ limit' = limit /\ tries' = tries /\ spent' = spent /\ proven' = proven
    BY DEF SambaUser, CAt
  <1>1. counter[c].kind \in Identity /\ counter[c].kind \in Factor /\ counter[c].pw # 0 /\ counter[c].left = {} /\ counter[c].pw \in Nat
    BY <1>0, AccountIs, HandIs, CounterIs
  <1>2. WorksOn(c, Vacant)
    BY <1>0, AccountIs, LeavesOn
  <1>3. Halfway(c) => user.pw = counter[c].pw /\ (smbPw = 0 \/ linux = "person") /\ OfToday /\ linux # "none" /\ (counter[c].made => linux = "ours")
    BY <1>0 DEF Halfway
  <1>4. CASE /\ smbPw' = counter[c].pw /\ linux' = (IF linux = "none" THEN "ours" ELSE linux) /\ user' = user
             /\ sessions' = (IF counter[c].kind = "first" THEN Opened(c) ELSE sessions)
    <2>1. sessions' \subseteq SessionState /\ (user = NoUser => sessions' = sessions)
      BY <1>4, AccountIs, OpenedIs
    <2>2. \A s \in sessions' : s \in sessions \/ (s.pw = counter[c].pw /\ (s.pw # user.pw => s.late))
      BY <1>4, AccountIs, OpenedIs
    <2>3. Halfway(c) => Mirrored' /\ OfToday'
      <3>1. user.pw = counter[c].pw => user # NoUser
        BY <1>1, NoUserIs
      <3> QED
        BY <1>1, <1>3, <1>4, <2>2, <3>1 DEF Mirrored, OfToday
    <2>4. linux' \in {"none", "ours", "person"}
      BY <1>4, AccountIs
    <2> QED
      BY <1>0, <1>1, <1>2, <1>4, <2>1, <2>2, <2>3, <2>4, AccountIs, VacantIs, IdentityStep
  <1>5. CASE Dropped /\ IF counter[c].made THEN Unmirrored ELSE UNCHANGED <<linux, smbPw>>
    <2>1. user' = NoUser /\ sessions' = {}
      BY <1>5 DEF Dropped
    <2>2. linux' \in {"none", "ours", "person"} /\ smbPw' \in {0, smbPw}
      BY <1>5, AccountIs DEF Unmirrored
    <2>3. Halfway(c) => Mirrored' /\ OfToday'
      BY <1>3, <1>5, <2>1 DEF Mirrored, OfToday, Unmirrored
    <2> QED
      BY <1>0, <1>1, <1>2, <2>1, <2>2, <2>3, AccountIs, VacantIs, NoUserIs, IdentityStep
  <1> QED
    BY <1>4, <1>5 DEF SambaUser
LEMMA DropUserKeeps ==
  ASSUME AccountInv, NEW c \in Counters, DropUser(c)
  PROVE  AccountInv'
  <1>0. /\ counter[c].pc = "drop" /\ crowd' = crowd /\ apart' = apart /\ CGoes(c, "unmirror") /\ linux' = linux /\ smbPw' = smbPw
        /\ limit' = limit /\ tries' = tries /\ spent' = spent /\ proven' = proven /\ user' = NoUser /\ sessions' = {}
    BY DEF DropUser, CAt, accountHistory, Dropped
  <1>1. counter[c].kind \in Identity /\ counter[c].kind \in Factor /\ counter[c].left = {}
    BY <1>0, AccountIs, HandIs
  <1>3. PICK new \in CounterState : WorksOn(c, new) /\ Advances(c, new) /\ new.pc = "unmirror" /\ new.kind = counter[c].kind
    BY <1>0, <1>1, AccountIs, CounterStepsAre, GoesOn
  <1>4. Halfway(c)'
    <2>1. counter'[c] = new
      BY <1>3 DEF Advances
    <2> QED
      BY <1>0, <1>3, <2>1 DEF Halfway
  <1>5. new.kind # "none"
    BY <1>1, <1>3 DEF Identity
  <1> QED
    BY <1>0, <1>1, <1>3, <1>4, <1>5, AccountIs, NoUserIs, IdentityStep
LEMMA UnmirrorKeeps ==
  ASSUME AccountInv, NEW c \in Counters, UnmirrorUser(c)
  PROVE  AccountInv'
  <1>0. /\ counter[c].pc = "unmirror" /\ crowd' = crowd /\ CLeaves(c) /\ user' = user /\ sessions' = sessions
        /\ limit' = limit /\ tries' = tries /\ spent' = spent /\ proven' = proven
    BY DEF UnmirrorUser, CAt
  <1>1. counter[c].kind \in Identity
    BY <1>0, AccountIs, HandIs
  <1>2. WorksOn(c, Vacant)
    BY <1>0, AccountIs, LeavesOn
  <1>3. /\ apart' \in BOOLEAN /\ (apart => apart') /\ linux' \in {"none", "ours", "person"} /\ smbPw' \in {0, smbPw}
    <2>1. apart' = apart \/ apart' = TRUE
      BY DEF UnmirrorUser
    <2>2. linux' \in {"none", linux} /\ smbPw' \in {0, smbPw}
      BY DEF UnmirrorUser, Unmirrored
    <2>3. apart \in BOOLEAN /\ linux \in {"none", "ours", "person"}
      BY AccountIs
    <2>4. apart' \in BOOLEAN /\ (apart => apart')
      BY <2>1, <2>3, Zenon
    <2>5. linux' \in {"none", "ours", "person"}
      BY <2>2, <2>3
    <2> QED
      BY <2>2, <2>4, <2>5
  <1>4. ~apart' /\ Halfway(c) => Mirrored' /\ OfToday'
    <2>1. Halfway(c) => user = NoUser
      BY <1>0 DEF Halfway
    <2> QED
      BY <1>0, <2>1, AccountIs DEF UnmirrorUser, Unmirrored, Mirrored, OfToday
  <1> QED
    BY <1>0, <1>1, <1>2, <1>3, <1>4, AccountIs, VacantIs, IdentityStep
LEMMA HashKeeps ==
  ASSUME AccountInv, NEW c \in Counters, WriteHash(c)
  PROVE  AccountInv'
  <1>0. /\ counter[c].pc = "hash" /\ crowd' = crowd /\ apart' = apart /\ CGoes(c, "smb") /\ linux' = linux /\ smbPw' = smbPw
        /\ sessions' = sessions /\ limit' = limit /\ tries' = tries /\ spent' = spent /\ proven' = proven
        /\ user' = IF user = NoUser THEN user ELSE [user EXCEPT !.pw = counter[c].pw]
    BY DEF WriteHash, CAt, accountHistory
  <1>1. /\ counter[c].kind \in Identity /\ counter[c].kind = "password" /\ counter[c].left = {} /\ counter[c].pw \in Nat /\ counter[c].pw # 0
        /\ counter[c].was # 0
    BY <1>0, AccountIs, HandIs, CounterIs
  <1>2. PICK new \in CounterState : /\ WorksOn(c, new) /\ Advances(c, new) /\ new.pc = "smb" /\ new.kind = counter[c].kind
                                    /\ new.pw = counter[c].pw /\ new.was = counter[c].was
    BY <1>0, <1>1, AccountIs, CounterStepsAre, GoesOn
  <1>3. /\ user' \in UserState /\ user'.pw \in {0, user.pw, counter[c].pw} /\ user'.secret = user.secret /\ user'.on = user.on
        /\ user'.codes = user.codes /\ (user'.pw = 0 => user' = NoUser) /\ (user' = NoUser => sessions' = {})
        /\ (user # NoUser => user'.pw = counter[c].pw)
    <2>1. CASE user = NoUser
      BY <1>0, <2>1, AccountIs, NoUserIs
    <2>2. CASE user # NoUser
      <3>1. user' = [user EXCEPT !.pw = counter[c].pw]
        BY <1>0, <2>2
      <3>2. /\ user' \in UserState /\ user'.pw = counter[c].pw /\ user'.secret = user.secret /\ user'.on = user.on
            /\ user'.codes = user.codes
        BY <1>1, <3>1, AccountIs, PasswordIs
      <3> QED
        BY <1>1, <3>2, NoUserIs
    <2> QED
      BY <2>1, <2>2
  <1>4. ~apart' /\ Identity \notin crowd /\ Halfway(c) => Halfway(c)'
    <2>1. counter'[c] = new
      BY <1>2 DEF Advances
    <2>2. Halfway(c) => Mirrored /\ OfToday /\ user # NoUser /\ counter[c].was = user.pw
      BY <1>0 DEF Halfway
    <2> QED
      BY <1>0, <1>2, <1>3, <2>1, <2>2 DEF Halfway, Mirrored, OfToday
  <1>5. new.kind # "none"
    BY <1>1, <1>2
  <1> QED
    BY <1>0, <1>1, <1>2, <1>3, <1>4, <1>5, AccountIs, IdentityStep
LEMMA SmbKeeps ==
  ASSUME AccountInv, NEW c \in Counters, SetSmb(c)
  PROVE  AccountInv'
  <1>0. /\ counter[c].pc = "smb" /\ crowd' = crowd /\ apart' = apart /\ user' = user
        /\ sessions' = sessions /\ limit' = limit /\ tries' = tries /\ spent' = spent /\ proven' = proven
    BY DEF SetSmb, CAt, accountHistory
  <1>1. /\ counter[c].kind \in Identity /\ counter[c].kind = "password" /\ counter[c].left = {} /\ counter[c].pw \in Nat /\ counter[c].pw # 0
    BY <1>0, AccountIs, HandIs, CounterIs
  <1>2. Halfway(c) => /\ user.pw = counter[c].pw /\ smbPw = counter[c].was /\ linux # "none"
                      /\ \A s \in sessions : s.late \/ s.pw = counter[c].was
    BY <1>0 DEF Halfway
  <1>3. ASSUME NEW pc \in {"expel", "rollback"}, CGoes(c, pc), linux' \in {"none", "ours", "person"},
               \/ pc = "expel" /\ smbPw' = counter[c].pw /\ linux' # "none"
               \/ pc = "rollback" /\ smbPw' = smbPw /\ linux' = linux
        PROVE  AccountInv'
    <2>1. PICK new \in CounterState : /\ WorksOn(c, new) /\ Advances(c, new) /\ new.pc = pc /\ new.kind = counter[c].kind
                                      /\ new.pw = counter[c].pw /\ new.was = counter[c].was
      BY <1>0, <1>1, <1>3, AccountIs, CounterStepsAre, GoesOn
    <2>2. ~apart' /\ Identity \notin crowd /\ Halfway(c) => Halfway(c)'
      <3>1. counter'[c] = new
        BY <2>1 DEF Advances
      <3>2. user.pw = counter[c].pw => user # NoUser
        BY <1>1, NoUserIs
      <3> QED
        BY <1>0, <1>2, <1>3, <2>1, <3>1, <3>2 DEF Halfway, Mirrored
    <2>3. new.kind # "none"
      BY <1>1, <2>1
    <2> QED
      BY <1>0, <1>1, <1>3, <2>1, <2>2, <2>3, AccountIs, IdentityStep
  <1>4. \/ CGoes(c, "expel") /\ smbPw' = counter[c].pw /\ linux' = (IF linux = "none" THEN "ours" ELSE linux)
        \/ CGoes(c, "rollback") /\ smbPw' = smbPw /\ linux' = linux
    BY DEF SetSmb
  <1>5. linux' \in {"none", "ours", "person"}
    BY <1>4, AccountIs
  <1> QED
    BY <1>3, <1>4, <1>5
LEMMA RestoreKeeps ==
  ASSUME AccountInv, NEW c \in Counters, RestoreHash(c)
  PROVE  AccountInv'
  <1>0. /\ counter[c].pc = "rollback" /\ crowd' = crowd /\ CLeaves(c) /\ linux' = linux /\ smbPw' = smbPw
        /\ sessions' = sessions /\ limit' = limit /\ tries' = tries /\ spent' = spent /\ proven' = proven
    BY DEF RestoreHash, CAt
  <1>1. /\ counter[c].kind \in Identity /\ counter[c].was \in Nat /\ counter[c].was # 0
    BY <1>0, AccountIs, HandIs, CounterIs
  <1>2. WorksOn(c, Vacant)
    BY <1>0, AccountIs, LeavesOn
  <1>3. CASE apart' = apart /\ user' = IF user = NoUser THEN user ELSE [user EXCEPT !.pw = counter[c].was]
    <2>1. /\ user' \in UserState /\ user'.pw \in {0, user.pw, counter[c].was} /\ user'.secret = user.secret /\ user'.on = user.on
          /\ user'.codes = user.codes /\ (user'.pw = 0 => user' = NoUser) /\ (user' = NoUser => sessions' = {})
          /\ (user # NoUser => user'.pw = counter[c].was /\ user' # NoUser)
      <3>1. CASE user = NoUser
        BY <1>0, <1>3, <3>1, AccountIs, NoUserIs
      <3>2. CASE user # NoUser
        <4>1. user' = [user EXCEPT !.pw = counter[c].was]
          BY <1>3, <3>2
        <4>2. /\ user' \in UserState /\ user'.pw = counter[c].was /\ user'.secret = user.secret /\ user'.on = user.on
              /\ user'.codes = user.codes
          BY <1>1, <4>1, AccountIs, PasswordIs
        <4> QED
          BY <1>1, <4>2, NoUserIs
      <3> QED
        BY <3>1, <3>2
    <2>2. ~apart' /\ Identity \notin crowd /\ Halfway(c) => Mirrored' /\ OfToday'
      <3>1. Halfway(c) => /\ user.pw = counter[c].pw /\ smbPw = counter[c].was /\ linux # "none"
                          /\ \A s \in sessions : s.late \/ s.pw = counter[c].was
        BY <1>0 DEF Halfway
      <3>2. user.pw = counter[c].pw => user # NoUser
        BY <1>0, AccountIs, HandIs, NoUserIs
      <3> QED
        BY <1>0, <2>1, <3>1, <3>2 DEF Mirrored, OfToday
    <2> QED
      BY <1>0, <1>1, <1>2, <1>3, <2>1, <2>2, AccountIs, VacantIs, IdentityStep
  <1>4. CASE apart' = TRUE /\ user' = user
    BY <1>0, <1>1, <1>2, <1>4, AccountIs, VacantIs, IdentityStep
  <1> QED
    BY <1>3, <1>4 DEF RestoreHash
LEMMA ExpelKeeps ==
  ASSUME AccountInv, NEW c \in Counters, Expel(c)
  PROVE  AccountInv'
  <1>0. /\ counter[c].pc = "expel" /\ crowd' = crowd /\ apart' = apart /\ CLeaves(c) /\ linux' = linux /\ smbPw' = smbPw /\ user' = user
        /\ sessions' = {} /\ limit' = limit /\ tries' = tries /\ spent' = spent /\ proven' = proven
    BY DEF Expel, CAt, accountHistory
  <1>1. counter[c].kind \in Identity
    BY <1>0, AccountIs, HandIs
  <1>2. WorksOn(c, Vacant)
    BY <1>0, AccountIs, LeavesOn
  <1>3. Halfway(c) => Mirrored' /\ OfToday'
    BY <1>0 DEF Halfway, Mirrored, OfToday
  <1> QED
    BY <1>0, <1>1, <1>2, <1>3, AccountIs, VacantIs, IdentityStep

-----------------------------------------------------------------------------
(* Logins and the second factor.                                           *)

LEMMA TriesReset ==
  ASSUME AccountTypes, limit' = NoLimit, tries' = 0
  PROVE  TriesInv'
  <1>1. limit'.recent = FALSE /\ limit'.until = "none"
    BY NoLimitIs
  <1>2. tries' < MaxLoginAttempts + Cardinality(Counters)
    BY CountersAreFinite
  <1> QED
    BY <1>1, <1>2 DEF TriesInv
\* One that is past the lock counts one more, and is past it no longer.
LEMMA TriesRefused ==
  ASSUME AccountTypes, TriesInv, NEW c \in Counters, counter[c].kind = "login", Advances(c, Vacant), Refused
  PROVE  TriesInv' /\ limit' \in LimitState /\ tries' \in Nat
  <1> DEFINE L == UnderWay(Login)
             k == Cardinality(L)
             l == Cardinality(L')
             N == Cardinality(Counters)
             n == IF limit.recent THEN limit.count + 1 ELSE 1
  <1>1. L' = L \ {c} /\ c \in L /\ L \subseteq Counters
    <2>1. L \subseteq Counters /\ L' \subseteq Counters /\ c \in L
      BY DEF UnderWay, Login
    <2>2. c \notin L'
      BY UnderWayMoves, VacantIs DEF Login
    <2>3. \A d \in Counters : d # c => (d \in L' <=> d \in L)
      BY UnderWayMoves, VacantIs
    <2> QED
      BY <2>1, <2>2, <2>3
  <1>2. k \in Nat /\ l \in Nat /\ l = k - 1 /\ k <= N /\ N \in Nat
    <2>1. IsFiniteSet(L) /\ k <= N /\ N \in Nat
      BY <1>1, CountersAreFinite, FS_Subset
    <2>2. IsFiniteSet(L \ {c}) /\ Cardinality(L \ {c}) = k - 1
      BY <1>1, <2>1, FS_RemoveElement
    <2> QED
      BY <1>1, <2>1, <2>2, FS_CardinalityType
  <1>3. /\ limit.count \in Nat /\ limit.recent \in BOOLEAN /\ limit.until \in {"none", "ahead", "past"} /\ tries \in Nat
        /\ MaxLoginAttempts \in Nat /\ MaxLoginAttempts # 0
    BY CountersAreFinite DEF AccountTypes, LimitState
  <1>4. /\ limit.recent => tries = limit.count
        /\ limit.recent /\ limit.until # "ahead" => limit.count < MaxLoginAttempts
        /\ limit.until = "ahead" => limit.recent /\ tries + k < MaxLoginAttempts + N
    BY DEF TriesInv
  <1>5. /\ limit' = [count |-> n, recent |-> TRUE, until |-> IF n >= MaxLoginAttempts THEN "ahead" ELSE limit.until]
        /\ tries' = (IF limit.recent THEN tries + 1 ELSE 1)
    BY DEF Refused
  <1>6. /\ limit'.count = n /\ limit'.recent = TRUE /\ limit'.until = (IF n >= MaxLoginAttempts THEN "ahead" ELSE limit.until)
        /\ limit' \in LimitState /\ tries' = n /\ n \in Nat
    BY <1>3, <1>4, <1>5 DEF LimitState
  <1>7. limit'.until # "ahead" => n < MaxLoginAttempts
    BY <1>3, <1>6
  <1>8. limit'.until = "ahead" => n + l < MaxLoginAttempts + N
    <2>1. CASE limit.until = "ahead"
      BY <1>2, <1>3, <1>4, <2>1
    <2>2. CASE limit.until # "ahead"
      BY <1>2, <1>3, <1>4, <1>6, <2>2
    <2> QED
      BY <2>1, <2>2
  <1>9. n < MaxLoginAttempts + N
    BY <1>2, <1>3, <1>6, <1>7, <1>8
  <1> HIDE DEF n
  <1> QED
    BY <1>6, <1>7, <1>8, <1>9 DEF TriesInv

LEMMA CheckKeeps ==
  ASSUME AccountInv, NEW c \in Counters, CheckPassword(c)
  PROVE  AccountInv'
  <1>0. /\ counter[c].pc = "check" /\ crowd' = crowd /\ apart' = apart /\ linux' = linux /\ smbPw' = smbPw /\ user' = user
        /\ sessions' = sessions /\ spent' = spent /\ proven' = proven
    BY DEF CheckPassword, CAt
  <1>1. counter[c].kind = "login" /\ counter[c].kind \notin Identity /\ counter[c].left = {}
    BY <1>0, AccountIs, HandIs
  <1>2. TriesInv /\ FactorInv /\ CodesInv
    BY DEF AccountInv
  <1>3. ASSUME NEW new \in CounterState, WorksOn(c, new), limit' \in LimitState, tries' \in Nat, TriesInv'
        PROVE  AccountInv'
    <2>1. FactorInv' /\ CodesInv'
      BY <1>0, <1>2, <1>3, AccountIs, FactorKept, CodesKept
    <2> QED
      BY <1>0, <1>1, <1>3, <2>1, AccountIs, OtherStep
  <1>4. CASE CGoes(c, "fetch") /\ limit' = limit /\ tries' = tries
    <2>1. PICK new \in CounterState : WorksOn(c, new)
      BY <1>0, <1>1, <1>4, AccountIs, CounterStepsAre, GoesOn
    <2> QED
      BY <1>2, <1>3, <1>4, <2>1, AccountIs, TriesKept
  <1>5. CASE CLeaves(c) /\ Refused
    <2>1. WorksOn(c, Vacant) /\ Advances(c, Vacant)
      BY <1>0, <1>5, AccountIs, LeavesOn
    <2> QED
      BY <1>1, <1>2, <1>3, <1>5, <2>1, AccountIs, VacantIs, TriesRefused
  <1> QED
    BY <1>4, <1>5 DEF CheckPassword
LEMMA FetchKeeps ==
  ASSUME AccountInv, NEW c \in Counters, FetchUser(c)
  PROVE  AccountInv'
  <1>0. /\ counter[c].pc = "fetch" /\ crowd' = crowd /\ apart' = apart /\ linux' = linux /\ smbPw' = smbPw /\ user' = user
        /\ sessions' = sessions /\ spent' = spent /\ proven' = proven /\ limit' = limit /\ tries' = tries
    BY DEF FetchUser, CAt, accountHistory
  <1>1. counter[c].kind = "login" /\ counter[c].kind \notin Identity /\ counter[c].left = {} /\ AtWork(counter[c]) /\ counter[c] \in CounterState
    BY <1>0, AccountIs, HandIs
  <1>2. TriesInv /\ FactorInv /\ CodesInv
    BY DEF AccountInv
  <1> DEFINE withCodes == [counter[c] EXCEPT !.pc = "second", !.left = user.codes]
             without == [counter[c] EXCEPT !.pc = "session"]
  <1>3. ASSUME NEW new \in CounterState, counter' = [counter EXCEPT ![c] = new], AtWork(new), new.kind \in {counter[c].kind, "none"}, new.pc # "enable",
               new.pw \in {counter[c].pw, 0}, new.was \in {counter[c].was, 0}, new.left \subseteq user.codes
        PROVE  AccountInv'
    <2>1. WorksOn(c, new)
      BY <1>0, <1>3, AccountIs, AdvancesIs DEF WorksOn
    <2>2. TriesInv' /\ FactorInv' /\ CodesInv'
      BY <1>0, <1>2, <2>1, AccountIs, TriesKept, FactorKept, CodesKept
    <2> QED
      BY <1>0, <1>1, <2>1, <2>2, AccountIs, OtherStep
  <1>4. counter' = [counter EXCEPT ![c] = IF user = NoUser THEN Vacant ELSE IF user.secret # 0 /\ user.on THEN withCodes ELSE without]
    BY DEF FetchUser
  <1>5. /\ withCodes \in CounterState /\ withCodes.pc = "second" /\ withCodes.kind = counter[c].kind /\ withCodes.was = counter[c].was
        /\ withCodes.left = user.codes /\ withCodes.pw = counter[c].pw
    BY <1>1, AccountIs, UserIs DEF CounterState, CounterSteps
  <1>6. /\ without \in CounterState /\ without.pc = "session" /\ without.kind = counter[c].kind /\ without.was = counter[c].was
        /\ without.left = {} /\ without.pw = counter[c].pw
    BY <1>1, StepIs, CounterStepsAre
  <1> HIDE DEF withCodes, without
  <1>7. AtWork(withCodes) /\ AtWork(without)
    BY <1>1, <1>5, <1>6 DEF AtWork
  <1>8. CASE user = NoUser
    <2>1. counter' = [counter EXCEPT ![c] = Vacant]
      BY <1>4, <1>8
    <2> QED
      BY <1>3, <2>1, VacantIs
  <1>9. CASE user # NoUser /\ user.secret # 0 /\ user.on
    <2>1. counter' = [counter EXCEPT ![c] = withCodes]
      BY <1>4, <1>9
    <2> QED
      BY <1>3, <1>5, <1>7, <2>1
  <1>10. CASE user # NoUser /\ ~(user.secret # 0 /\ user.on)
    <2>1. counter' = [counter EXCEPT ![c] = without]
      BY <1>4, <1>10
    <2> QED
      BY <1>3, <1>6, <1>7, <2>1
  <1> QED
    BY <1>8, <1>9, <1>10
LEMMA SessionKeeps ==
  ASSUME AccountInv, NEW c \in Counters, OpenSession(c)
  PROVE  AccountInv'
  <1>0. /\ counter[c].pc = "session" /\ crowd' = crowd /\ apart' = apart /\ linux' = linux /\ smbPw' = smbPw /\ user' = user
        /\ sessions' = Opened(c) /\ spent' = spent /\ proven' = proven /\ limit' = NoLimit /\ tries' = 0 /\ CLeaves(c)
    BY DEF OpenSession, CAt
  <1>1. counter[c].kind \notin Identity
    BY <1>0, AccountIs, HandIs
  <1>2. WorksOn(c, Vacant)
    BY <1>0, AccountIs, LeavesOn
  <1>3. FactorInv /\ CodesInv
    BY DEF AccountInv
  <1>4. TriesInv' /\ FactorInv' /\ CodesInv'
    BY <1>0, <1>2, <1>3, AccountIs, TriesReset, VacantIs, FactorKept, CodesKept
  <1>5. limit' \in LimitState /\ tries' \in Nat
    BY <1>0, NoLimitIs
  <1>6. /\ sessions' \subseteq SessionState /\ (user = NoUser => sessions' = sessions)
        /\ \A s \in sessions' : s \in sessions \/ (s.pw = counter[c].pw
              /\ (s.pw # user.pw => s.late) /\ (UnderWay({"password"}) # {} => s.late))
    BY <1>0, AccountIs, OpenedIs
  <1> QED
    BY <1>0, <1>1, <1>2, <1>4, <1>5, <1>6, AccountIs, VacantIs, OtherStep
LEMMA SecondKeeps ==
  ASSUME AccountInv, NEW c \in Counters, SecondFactor(c)
  PROVE  AccountInv'
  <1>0. /\ counter[c].pc = "second" /\ crowd' = crowd /\ apart' = apart /\ linux' = linux /\ smbPw' = smbPw
        /\ sessions' = sessions /\ proven' = proven
    BY DEF SecondFactor, CAt
  <1>1. /\ counter[c].kind = "login" /\ counter[c].kind \notin Identity /\ AtWork(counter[c]) /\ counter[c] \in CounterState
        /\ counter[c].left \subseteq CodeState
    BY <1>0, AccountIs, HandIs, CounterIs
  <1>2. TriesInv /\ FactorInv /\ CodesInv /\ Alone
    BY DEF AccountInv
  <1> DEFINE next == [counter[c] EXCEPT !.pc = "session", !.left = {}]
  <1>3. /\ next \in CounterState /\ next.pc = "session" /\ next.kind = counter[c].kind /\ next.was = counter[c].was
        /\ next.left = {} /\ next.pw = counter[c].pw
    BY <1>1 DEF CounterState, CounterSteps
  <1>4. counter' = [counter EXCEPT ![c].pc = "session", ![c].left = {}] => counter' = [counter EXCEPT ![c] = next]
    OBVIOUS
  <1> HIDE DEF next
  <1>5. ASSUME counter' = [counter EXCEPT ![c] = next]
        PROVE  WorksOn(c, next) /\ Advances(c, next)
    <2>1. AtWork(next)
      BY <1>1, <1>3 DEF AtWork
    <2> QED
      BY <1>0, <1>3, <1>5, <2>1, AccountIs, AdvancesIs DEF WorksOn
  <1>6. ASSUME NEW new \in CounterState, WorksOn(c, new), user' = user, spent' = spent, limit' \in LimitState, tries' \in Nat, TriesInv'
        PROVE  AccountInv'
    <2>1. FactorInv' /\ CodesInv'
      BY <1>0, <1>2, <1>6, AccountIs, FactorKept, CodesKept
    <2> QED
      BY <1>0, <1>1, <1>6, <2>1, AccountIs, OtherStep
  <1>7. CASE counter' = [counter EXCEPT ![c] = next] /\ user' = user /\ limit' = limit /\ spent' = spent /\ tries' = tries
    <2>1. WorksOn(c, next)
      BY <1>5, <1>7
    <2>2. TriesInv'
      BY <1>2, <1>3, <1>7, <2>1, AccountIs, TriesKept
    <2> QED
      BY <1>3, <1>6, <1>7, <2>1, <2>2, AccountIs
  <1>8. CASE CLeaves(c) /\ user' = user /\ spent' = spent /\ (Refused \/ (limit' = limit /\ tries' = tries))
    <2>1. WorksOn(c, Vacant) /\ Advances(c, Vacant)
      BY <1>0, <1>8, AccountIs, LeavesOn
    <2>2. TriesInv' /\ limit' \in LimitState /\ tries' \in Nat
      BY <1>1, <1>2, <1>8, <2>1, AccountIs, VacantIs, TriesKept, TriesRefused
    <2> QED
      BY <1>6, <1>8, <2>1, <2>2, VacantIs
  <1>9. ASSUME NEW k \in counter[c].left, user' = IF user = NoUser THEN user ELSE [user EXCEPT !.codes = counter[c].left \ {k}],
               spent' = spent \cup {k}, counter' = [counter EXCEPT ![c] = next], limit' = limit, tries' = tries
        PROVE  AccountInv'
    <2>1. WorksOn(c, next) /\ Advances(c, next)
      BY <1>5, <1>9
    <2>2. /\ user' \in UserState /\ user'.pw = user.pw /\ user'.secret = user.secret /\ user'.on = user.on /\ (user' = NoUser <=> user = NoUser)
          /\ user'.codes \subseteq counter[c].left \ {k}
      <3>1. CASE user = NoUser
        BY <1>9, <3>1, AccountIs, NoUserIs
      <3>2. CASE user # NoUser
        <4>1. user' = [user EXCEPT !.codes = counter[c].left \ {k}]
          BY <1>9, <3>2
        <4>2. /\ user' \in UserState /\ user'.pw = user.pw /\ user'.secret = user.secret /\ user'.on = user.on
              /\ user'.codes = counter[c].left \ {k}
          BY <1>1, <4>1, AccountIs, RowCodesAre
        <4> QED
          BY <3>2, <4>2, AccountIs, NoUserIs
      <3> QED
        BY <3>1, <3>2
    <2>3. TriesInv' /\ FactorInv'
      BY <1>0, <1>2, <1>3, <1>9, <2>1, <2>2, AccountIs, TriesKept, FactorKept
    <2>4. \A d \in Counters : counter'[d].pc = "enable" => NewCodes(d)'
      <3> SUFFICES ASSUME NEW d \in Counters, counter'[d].pc = "enable" PROVE NewCodes(d)'
        OBVIOUS
      <3>1. d # c /\ counter'[d] = counter[d] /\ NewCodes(d)
        BY <1>2, <1>3, <2>1 DEF Advances, CodesInv, CAt
      <3>2. \A e \in Counters : counter'[e].left \subseteq counter[e].left /\ (counter'[e].pc = "enable" => counter'[e] = counter[e])
        BY <1>3, <2>1 DEF Advances
      <3>3. \A j \in user'.codes \cup spent' : j \in counter[c].left \cup spent
        BY <1>9, <2>2
      <3> QED
        BY <3>1, <3>2, <3>3 DEF NewCodes, CAt
    <2>5. Login \in crowd \/ (user'.codes \cap spent' = {} /\ \A d \in Counters : counter'[d].left \cap spent' = {})
      <3> SUFFICES ASSUME Login \notin crowd PROVE user'.codes \cap spent' = {} /\ \A d \in Counters : counter'[d].left \cap spent' = {}
        OBVIOUS
      <3>1. user.codes \cap spent = {} /\ \A d \in Counters : counter[d].left \cap spent = {}
        BY <1>2 DEF CodesInv
      <3>2. \A d \in Counters : d # c => counter[d].left = {}
        <4>1. \A d \in Counters : d # c => counter[d].kind # "login"
          BY <1>1, <1>2 DEF Alone, Groups, Login, UnderWay
        <4> QED
          BY <4>1, AccountIs, HandIs
      <3>3. \A d \in Counters : counter'[d].left = {}
        BY <1>3, <2>1, <3>2 DEF Advances
      <3>4. user'.codes \cap spent' = {}
        BY <1>9, <2>2, <3>1
      <3> QED
        BY <3>3, <3>4
    <2>6. CodesInv'
      BY <1>0, <2>4, <2>5 DEF CodesInv, CAt
    <2>7. spent' \subseteq CodeState /\ \A j \in user'.codes \cup spent' : j \in user.codes \cup spent \cup counter[c].left
      BY <1>1, <1>9, <2>2, AccountIs
    <2> QED
      BY <1>0, <1>1, <1>3, <1>9, <2>1, <2>2, <2>3, <2>6, <2>7, AccountIs, OtherStep
  <1> QED
    BY <1>4, <1>7, <1>8, <1>9 DEF SecondFactor

LEMMA SecretKeeps ==
  ASSUME AccountInv, NEW c \in Counters, WriteSecret(c) \/ ClearFactor(c)
  PROVE  AccountInv'
  <1>0. /\ counter[c].pc \in {"secret", "disable"} /\ crowd' = crowd /\ apart' = apart /\ linux' = linux /\ smbPw' = smbPw
        /\ sessions' = sessions /\ spent' = spent /\ proven' = proven /\ limit' = limit /\ tries' = tries /\ CLeaves(c)
    BY DEF WriteSecret, ClearFactor, CAt, accountHistory
  <1>1. counter[c].kind \in Factor /\ counter[c].kind \notin Identity /\ counter[c].pw \in Nat
    BY <1>0, AccountIs, HandIs, CounterIs
  <1>2. WorksOn(c, Vacant)
    BY <1>0, AccountIs, LeavesOn
  <1>3. PICK n \in {0, counter[c].pw} : user' = IF user = NoUser THEN user ELSE [user EXCEPT !.secret = n, !.on = FALSE]
    BY DEF WriteSecret, ClearFactor
  <1>4. /\ user' \in UserState /\ user'.pw = user.pw /\ user'.secret \in {0, counter[c].pw} /\ user'.on = FALSE /\ user'.codes = user.codes
        /\ (user' = NoUser <=> user = NoUser)
    <2>1. CASE user = NoUser
      BY <1>3, <2>1, NoUserIs
    <2>2. CASE user # NoUser
      <3>1. user' = [user EXCEPT !.secret = n, !.on = FALSE] /\ n \in Nat
        BY <1>1, <1>3, <2>2
      <3>2. user' \in UserState /\ user'.pw = user.pw /\ user'.secret = n /\ user'.on = FALSE /\ user'.codes = user.codes
        BY <3>1, AccountIs, SecretIs, Zenon
      <3> QED
        BY <1>3, <2>2, <3>2, AccountIs, NoUserIs
    <2> QED
      BY <2>1, <2>2
  <1>5. TriesInv /\ FactorInv /\ CodesInv /\ Alone
    BY DEF AccountInv
  <1>6. TriesInv' /\ CodesInv'
    BY <1>0, <1>2, <1>4, <1>5, AccountIs, VacantIs, TriesKept, CodesKept
  <1>7. FactorInv'
    BY <1>1, <1>2, <1>4, <1>5, AccountIs, VacantIs, FactorTurns
  <1> QED
    BY <1>0, <1>1, <1>2, <1>4, <1>6, <1>7, AccountIs, VacantIs, OtherStep
LEMMA EnableKeeps ==
  ASSUME AccountInv, NEW c \in Counters, EnableFactor(c)
  PROVE  AccountInv'
  <1>0. /\ counter[c].pc = "enable" /\ crowd' = crowd /\ apart' = apart /\ linux' = linux /\ smbPw' = smbPw
        /\ sessions' = sessions /\ spent' = spent /\ proven' = counter[c].was /\ limit' = limit /\ tries' = tries /\ CLeaves(c)
        /\ user' = IF user = NoUser THEN user ELSE [user EXCEPT !.on = TRUE, !.codes = CodesOf(counter[c].pw)]
    BY DEF EnableFactor, CAt
  <1>1. counter[c].kind \in Factor /\ counter[c].kind \notin Identity /\ counter[c].pw \in Nat
    BY <1>0, AccountIs, HandIs, CounterIs
  <1>2. WorksOn(c, Vacant) /\ Advances(c, Vacant)
    BY <1>0, AccountIs, LeavesOn
  <1>3. CodesOf(counter[c].pw) \subseteq CodeState /\ \A k \in CodesOf(counter[c].pw) : k[1] = counter[c].pw
    BY <1>1, CodesOfIs
  <1>4. /\ user' \in UserState /\ user'.pw = user.pw /\ user'.secret = user.secret /\ user'.codes \subseteq CodesOf(counter[c].pw)
        /\ (user' = NoUser <=> user = NoUser)
    <2>1. CASE user = NoUser
      BY <1>0, <2>1, NoUserIs
    <2>2. CASE user # NoUser
      <3>1. user' = [user EXCEPT !.on = TRUE, !.codes = CodesOf(counter[c].pw)]
        BY <1>0, <2>2
      <3>2. /\ user' \in UserState /\ user'.pw = user.pw /\ user'.secret = user.secret /\ user'.codes = CodesOf(counter[c].pw)
        BY <1>3, <3>1, AccountIs, EnabledIs, Zenon
      <3> QED
        BY <2>2, <3>2, AccountIs, NoUserIs
    <2> QED
      BY <2>1, <2>2
  <1>5. TriesInv /\ FactorInv /\ CodesInv /\ Alone
    BY DEF AccountInv
  <1>6. TriesInv'
    BY <1>0, <1>2, <1>5, AccountIs, VacantIs, TriesKept
  <1>7. FactorInv'
    <2>1. Factor \notin crowd => user'.secret # 0 /\ proven' = user'.secret
      BY <1>0, <1>4, <1>5 DEF FactorInv, CAt
    <2> QED
      BY <1>1, <1>2, <1>5, <2>1, AccountIs, VacantIs, FactorTurns
  <1>8. CodesInv'
    <2>1. NewCodes(c)
      BY <1>0, <1>5 DEF CodesInv, CAt
    <2>2. \A d \in Counters : counter'[d].left \subseteq counter[d].left /\ (counter'[d].pc = "enable" => d # c /\ counter'[d] = counter[d])
      BY <1>2, VacantIs DEF Advances
    <2>3. \A d \in Counters : counter'[d].pc = "enable" => NewCodes(d)'
      <3> SUFFICES ASSUME NEW d \in Counters, counter'[d].pc = "enable" PROVE NewCodes(d)'
        OBVIOUS
      <3>1. d # c /\ counter'[d] = counter[d] /\ NewCodes(d)
        BY <1>5, <2>2 DEF CodesInv, CAt
      <3>2. counter[c].pw # counter[d].pw
        BY <1>0, <3>1 DEF NewCodes, CAt
      <3>3. \A k \in user'.codes : k[1] # counter[d].pw
        BY <1>3, <1>4, <3>2
      <3>4. \A k \in spent' : k[1] # counter[d].pw
        BY <1>0, <3>1 DEF NewCodes
      <3>5. \A e \in Counters : \A k \in counter'[e].left : k[1] # counter[d].pw
        BY <2>2, <3>1 DEF NewCodes
      <3>6. \A e \in Counters : e # d /\ counter'[e].pc = "enable" => counter'[e].pw # counter[d].pw
        BY <2>2, <3>1 DEF NewCodes, CAt
      <3> QED
        BY <3>1, <3>3, <3>4, <3>5, <3>6 DEF NewCodes, CAt
    <2>4. user'.codes \cap spent' = {}
      BY <1>0, <1>3, <1>4, <2>1 DEF NewCodes
    <2>5. Login \in crowd \/ \A d \in Counters : counter'[d].left \cap spent' = {}
      BY <1>0, <1>5, <2>2 DEF CodesInv
    <2> QED
      BY <1>0, <2>3, <2>4, <2>5 DEF CodesInv, CAt
  <1>9. /\ user'.secret \in {0, user.secret, counter[c].pw} /\ proven' \in {proven, counter[c].was}
        /\ \A k \in user'.codes \cup spent' : k \in user.codes \cup spent \cup counter[c].left \/ k[1] = counter[c].pw
    BY <1>0, <1>3, <1>4
  <1> QED
    BY <1>0, <1>1, <1>2, <1>4, <1>6, <1>7, <1>8, <1>9, AccountIs, VacantIs, OtherStep

-----------------------------------------------------------------------------
(* Requests that come, and what happens by itself.                         *)

LEMMA AskedKeeps ==
  ASSUME AccountInv, NEW c \in Counters, NEW r \in CounterState, AtWork(r), counter' = [counter EXCEPT ![c] = r], counter[c].pc = "free",
         r.left = {}, r.pc \in {"insert", "drop", "hash", "check", "secret", "enable", "disable"},
         crowd \subseteq crowd', \A g \in Groups : r.kind \in g /\ UnderWay(g) # {} => g \in crowd',
         user' = user, linux' = linux, smbPw' = smbPw, sessions' = sessions, spent' = spent, proven' = proven, apart' = apart,
         limit' \in LimitState, tries' \in Nat, TriesInv',
         r.pc = "hash" => user # NoUser /\ r.was = user.pw,
         r.pc = "enable" => r.was = user.secret /\ r.was # 0 /\ r.pw \notin Known
  PROVE  AccountInv'
  <1>0. AccountTypes /\ NumbersInv /\ Alone /\ CredentialInv /\ FactorInv /\ CodesInv
    BY DEF AccountInv
  <1>1. Advances(c, r) /\ counter'[c] = r /\ \A d \in Counters : d # c => counter'[d] = counter[d]
    BY <1>0, AdvancesIs DEF Advances
  <1>2. AccountTypes'
    BY <1>0, <1>1, CountersMoved DEF AccountTypes
  <1>3. r.pw \in Nat /\ r.was \in Nat
    BY DEF CounterState
  <1>4. NumbersInv'
    <2>1. PICK n \in Nat : NumbersBelow(n)
      BY <1>0 DEF NumbersInv
    <2> DEFINE m == n + r.pw + r.was
    <2>2. m \in Nat /\ n <= m /\ r.pw <= m /\ r.was <= m
      BY <1>3, <2>1
    <2> HIDE DEF m
    <2>3. /\ user.pw \in Nat /\ user.secret \in Nat /\ smbPw \in Nat /\ proven \in Nat /\ (\A s \in sessions : s.pw \in Nat)
          /\ (\A k \in user.codes \cup spent : k[1] \in Nat)
          /\ \A d \in Counters : counter[d].pw \in Nat /\ counter[d].was \in Nat /\ \A k \in counter[d].left : k[1] \in Nat
      <3>1. \A k \in CodeState : k[1] \in Nat
        BY DEF CodeState
      <3>2. \A s \in sessions : s.pw \in Nat
        BY <1>0 DEF AccountTypes, SessionState
      <3>3. smbPw \in Nat /\ proven \in Nat /\ spent \subseteq CodeState
        BY <1>0 DEF AccountTypes
      <3> QED
        BY <1>0, <3>1, <3>2, <3>3, UserIs, CounterIs
    <2>4. /\ user.pw <= n /\ user.secret <= n /\ smbPw <= n /\ proven <= n /\ (\A s \in sessions : s.pw <= n)
          /\ (\A d \in Counters : counter[d].pw <= n /\ counter[d].was <= n /\ \A k \in counter[d].left : k[1] <= n)
          /\ \A k \in user.codes \cup spent : k[1] <= n
      BY <2>1 DEF NumbersBelow
    <2>5. /\ user.pw <= m /\ user.secret <= m /\ smbPw <= m /\ proven <= m /\ (\A s \in sessions : s.pw <= m)
          /\ \A k \in user.codes \cup spent : k[1] <= m
      BY <2>1, <2>2, <2>3, <2>4
    <2>6. \A d \in Counters : d # c => counter'[d].pw <= m /\ counter'[d].was <= m /\ \A k \in counter'[d].left : k[1] <= m
      BY <1>1, <2>1, <2>2, <2>3, <2>4
    <2>7. NumbersBelow(m)'
      BY <1>1, <2>2, <2>5, <2>6 DEF NumbersBelow
    <2> QED
      BY <2>2, <2>7 DEF NumbersInv
  <1>5. Alone'
    <2> SUFFICES ASSUME NEW g \in Groups, g \notin crowd' PROVE \A d, e \in UnderWay(g)' : d = e
      BY DEF Alone
    <2>1. \A d, e \in UnderWay(g) : d = e
      BY <1>0 DEF Alone
    <2>2. \A d \in Counters : d # c => (d \in UnderWay(g)' <=> d \in UnderWay(g))
      BY <1>0, <1>1, UnderWayMoves
    <2>3. c \in UnderWay(g)' <=> r.kind \in g
      BY <1>0, <1>1, UnderWayMoves
    <2>4. UnderWay(g)' \subseteq Counters
      BY DEF UnderWay
    <2> QED
      BY <2>1, <2>2, <2>3, <2>4
  <1>6. CredentialInv'
    <2> SUFFICES ASSUME ~apart, Identity \notin crowd'
                 PROVE  (UnderWay(Identity)' = {} => Mirrored' /\ OfToday') /\ \A d \in UnderWay(Identity)' : Halfway(d)'
      BY DEF CredentialInv
    <2>1. (UnderWay(Identity) = {} => Mirrored /\ OfToday) /\ \A d \in UnderWay(Identity) : Halfway(d)
      BY <1>0 DEF CredentialInv
    <2>2. Mirrored' = Mirrored /\ OfToday' = OfToday
      BY DEF Mirrored, OfToday
    <2>3. \A d \in Counters : d # c => (d \in UnderWay(Identity)' <=> d \in UnderWay(Identity))
      BY <1>0, <1>1, UnderWayMoves
    <2>4. c \in UnderWay(Identity)' <=> r.kind \in Identity
      BY <1>0, <1>1, UnderWayMoves
    <2>5. c \notin UnderWay(Identity)
      <3>1. counter[c].kind = "none"
        BY <1>0 DEF AccountTypes, AtWork
      <3> QED
        BY <3>1 DEF UnderWay, Identity
    <2>6. UnderWay(Identity)' \subseteq Counters /\ UnderWay(Identity) \subseteq Counters
      BY DEF UnderWay
    <2>7. \A d \in Counters : d # c /\ Halfway(d) => Halfway(d)'
      BY <1>1, <2>2 DEF Halfway
    <2>8. r.kind \in Identity => Mirrored /\ OfToday /\ Halfway(c)'
      <3> SUFFICES ASSUME r.kind \in Identity PROVE Mirrored /\ OfToday /\ Halfway(c)'
        OBVIOUS
      <3>1. UnderWay(Identity) = {}
        BY DEF Groups
      <3> QED
        BY <1>1, <2>1, <2>2, <3>1 DEF Halfway
    <2> QED
      BY <2>1, <2>2, <2>3, <2>4, <2>5, <2>6, <2>7, <2>8
  <1>7. FactorInv'
    <2> SUFFICES ASSUME Factor \notin crowd'
                 PROVE  (user.on => user.secret # 0 /\ proven = user.secret)
                        /\ \A d \in Counters : counter'[d].pc = "enable" => counter'[d].was = user.secret /\ counter'[d].was # 0
      BY DEF FactorInv, CAt
    <2> QED
      BY <1>0, <1>1 DEF FactorInv, CAt
  <1>8. CodesInv'
    <2>1. r.pc = "enable" => /\ \A k \in user.codes \cup spent : k[1] # r.pw
                             /\ \A d \in Counters : counter[d].pw # r.pw /\ \A k \in counter[d].left : k[1] # r.pw
      BY DEF Known
    <2>2. \A d \in Counters : counter'[d].left \subseteq counter[d].left
      BY <1>1
    <2>3. ASSUME NEW d \in Counters, counter'[d].pc = "enable" PROVE NewCodes(d)'
      <3>1. CASE d = c
        <4>1. counter'[d].pw = r.pw /\ r.pc = "enable"
          BY <1>1, <2>3, <3>1
        <4>2. \A e \in Counters : e # d => counter'[e].pw # r.pw
          BY <1>1, <2>1, <3>1, <4>1
        <4>3. \A e \in Counters : \A k \in counter'[e].left : k[1] # r.pw
          BY <2>1, <2>2, <4>1
        <4> QED
          BY <2>1, <4>1, <4>2, <4>3 DEF NewCodes, CAt
      <3>2. CASE d # c
        <4>1. counter'[d] = counter[d] /\ NewCodes(d)
          BY <1>0, <1>1, <2>3, <3>2 DEF CodesInv, CAt
        <4>2. \A e \in Counters : \A k \in counter'[e].left : k[1] # counter[d].pw
          BY <2>2, <4>1 DEF NewCodes
        <4>3. \A e \in Counters : e # d /\ counter'[e].pc = "enable" => counter'[e].pw # counter[d].pw
          BY <1>1, <2>1, <4>1 DEF NewCodes, CAt
        <4> QED
          BY <4>1, <4>2, <4>3 DEF NewCodes, CAt
      <3> QED
        BY <3>1, <3>2
    <2>4. Login \in crowd' \/ (user.codes \cap spent = {} /\ \A d \in Counters : counter'[d].left \cap spent = {})
      <3> SUFFICES ASSUME Login \notin crowd' PROVE user.codes \cap spent = {} /\ \A d \in Counters : counter'[d].left \cap spent = {}
        OBVIOUS
      <3>1. user.codes \cap spent = {} /\ \A d \in Counters : counter[d].left \cap spent = {}
        BY <1>0 DEF CodesInv
      <3> QED
        BY <2>2, <3>1
    <2> QED
      BY <2>3, <2>4 DEF CodesInv, CAt
  <1> QED
    BY <1>2, <1>4, <1>5, <1>6, <1>7, <1>8 DEF AccountInv
\* A request that is no login leaves the limit alone.
LEMMA AsksKeeps ==
  ASSUME AccountInv, NEW c \in Counters, NEW r \in CounterState, AtWork(r), Asks(c, r),
         r.left = {}, r.pc \in {"insert", "drop", "hash", "secret", "enable", "disable"},
         r.pc = "hash" => user # NoUser /\ r.was = user.pw,
         r.pc = "enable" => r.was = user.secret /\ r.was # 0 /\ r.pw \notin Known
  PROVE  AccountInv'
  <1>1. /\ counter[c].pc = "free" /\ counter' = [counter EXCEPT ![c] = r] /\ limit' = limit /\ tries' = tries
        /\ crowd' = crowd \cup {g \in {Identity, Factor, Login} : r.kind \in g /\ UnderWay(g) # {}}
        /\ user' = user /\ linux' = linux /\ smbPw' = smbPw /\ sessions' = sessions /\ spent' = spent /\ proven' = proven /\ apart' = apart
    BY DEF Asks, CAt
  <1>2. crowd \subseteq crowd' /\ \A g \in Groups : r.kind \in g /\ UnderWay(g) # {} => g \in crowd'
    BY <1>1 DEF Groups
  <1>3. TriesInv'
    <2>1. Advances(c, r) /\ r.kind # "login"
      BY <1>1, AccountIs, AdvancesIs DEF AtWork
    <2>2. UnderWay(Login)' = UnderWay(Login)
      <3>1. UnderWay(Login)' \subseteq Counters /\ UnderWay(Login) \subseteq Counters
        BY DEF UnderWay
      <3>2. \A d \in Counters : d # c => (d \in UnderWay(Login)' <=> d \in UnderWay(Login))
        BY <2>1, AccountIs, UnderWayMoves
      <3>3. c \notin UnderWay(Login)'
        BY <2>1, AccountIs, UnderWayMoves DEF Login
      <3>4. c \notin UnderWay(Login)
        BY <1>1, AccountIs DEF UnderWay, Login, AccountTypes, AtWork
      <3> QED
        BY <3>1, <3>2, <3>3, <3>4
    <2>3. TriesInv
      BY DEF AccountInv
    <2> QED
      BY <1>1, <2>2, <2>3 DEF TriesInv
  <1>4. r.pc \in {"insert", "drop", "hash", "check", "secret", "enable", "disable"}
    OBVIOUS
  <1> QED
    BY <1>1, <1>2, <1>3, <1>4, AccountIs, AskedKeeps
LEMMA BroughtIs ==
  ASSUME NEW pc \in CounterSteps, NEW kind \in CounterKinds, NEW was \in Nat, NEW pw \in Nat
  PROVE  LET r == [Vacant EXCEPT !.pc = pc, !.kind = kind, !.was = was, !.pw = pw] IN
         r \in CounterState /\ r.pc = pc /\ r.kind = kind /\ r.was = was /\ r.pw = pw /\ r.left = {}
  BY VacantIs DEF CounterState
LEMMA AskedIs ==
  ASSUME NEW pc \in CounterSteps, NEW kind \in CounterKinds
  PROVE  LET r == [Vacant EXCEPT !.pc = pc, !.kind = kind] IN
         r \in CounterState /\ r.pc = pc /\ r.kind = kind /\ r.was = 0 /\ r.pw = 0 /\ r.left = {}
  BY VacantIs DEF CounterState
LEMMA BringsKeeps ==
  ASSUME AccountInv, NEW c \in Counters, NEW kind, NEW pc, NEW was \in Nat, BringsFor(c, kind, pc, was),
         \/ pc = "insert" /\ kind \in {"first", "create"}
         \/ pc = "hash" /\ kind = "password" /\ user # NoUser /\ was = user.pw
         \/ pc = "secret" /\ kind = "setup"
         \/ pc = "enable" /\ kind = "verify" /\ was = user.secret /\ was # 0
  PROVE  AccountInv'
  <1> DEFINE r == [Vacant EXCEPT !.pc = pc, !.kind = kind, !.was = was, !.pw = NewNumber]
  <1>1. NewNumber \in Nat /\ NewNumber # 0 /\ NewNumber \notin Known
    BY NewNumberIs DEF AccountInv
  <1>2. pc \in CounterSteps /\ kind \in CounterKinds
    BY DEF CounterSteps, CounterKinds
  <1>3. r \in CounterState /\ r.pc = pc /\ r.kind = kind /\ r.was = was /\ r.pw = NewNumber /\ r.left = {}
    BY <1>1, <1>2, BroughtIs, Zenon
  <1>4. Asks(c, r)
    BY DEF BringsFor
  <1> HIDE DEF r
  <1>5. pc = "hash" => was # 0
    BY AccountIs
  <1>6. AtWork(r)
    BY <1>1, <1>3, <1>5 DEF AtWork
  <1>7. /\ r.pc \in {"insert", "drop", "hash", "secret", "enable", "disable"}
        /\ r.pc = "hash" => user # NoUser /\ r.was = user.pw
        /\ r.pc = "enable" => r.was = user.secret /\ r.was # 0 /\ r.pw \notin Known
    BY <1>1, <1>3
  <1> QED
    BY <1>3, <1>4, <1>6, <1>7, AsksKeeps
LEMMA AsksForKeeps ==
  ASSUME AccountInv, NEW c \in Counters, NEW kind, NEW pc, AsksFor(c, kind, pc),
         (pc = "drop" /\ kind = "delete") \/ (pc = "disable" /\ kind = "disable")
  PROVE  AccountInv'
  <1> DEFINE r == [Vacant EXCEPT !.pc = pc, !.kind = kind]
  <1>1. pc \in CounterSteps /\ kind \in CounterKinds
    BY DEF CounterSteps, CounterKinds
  <1>2. r \in CounterState /\ r.pc = pc /\ r.kind = kind /\ r.was = 0 /\ r.pw = 0 /\ r.left = {}
    BY <1>1, AskedIs, Zenon
  <1>3. Asks(c, r)
    BY DEF AsksFor
  <1> HIDE DEF r
  <1>4. AtWork(r)
    BY <1>2 DEF AtWork
  <1>5. /\ r.pc \in {"insert", "drop", "hash", "secret", "enable", "disable"} /\ r.pc # "hash" /\ r.pc # "enable"
    BY <1>2
  <1> QED
    BY <1>2, <1>3, <1>4, <1>5, AsksKeeps
LEMMA AttemptKeeps ==
  ASSUME AccountInv, NEW c \in Counters, NEW pw \in {0, user.pw}, Attempt(c, pw)
  PROVE  AccountInv'
  <1> DEFINE r == [Vacant EXCEPT !.pc = "check", !.kind = "login", !.pw = pw]
  <1>1. pw \in Nat
    BY AccountIs, UserIs
  <1>2. r \in CounterState /\ r.pc = "check" /\ r.kind = "login" /\ r.left = {}
    BY <1>1, VacantIs DEF CounterState, CounterSteps, CounterKinds
  <1>3. /\ counter[c].pc = "free" /\ counter' = [counter EXCEPT ![c] = r] /\ limit.until # "ahead"
        /\ limit' = (IF limit.until = "past" THEN NoLimit ELSE limit) /\ tries' = (IF limit.until = "past" THEN 0 ELSE tries)
        /\ crowd' = crowd \cup (IF UnderWay(Login) # {} THEN {Login} ELSE {})
        /\ user' = user /\ linux' = linux /\ smbPw' = smbPw /\ sessions' = sessions /\ spent' = spent /\ proven' = proven /\ apart' = apart
    BY DEF Attempt, CAt
  <1> HIDE DEF r
  <1>4. AtWork(r)
    BY <1>2 DEF AtWork
  <1>5. crowd \subseteq crowd' /\ \A g \in Groups : r.kind \in g /\ UnderWay(g) # {} => g \in crowd'
    BY <1>2, <1>3 DEF Groups, Identity, Factor, Login
  <1>6. TriesInv' /\ limit' \in LimitState /\ tries' \in Nat
    <2>1. CASE limit.until = "past"
      BY <1>3, <2>1, AccountIs, TriesReset, NoLimitIs
    <2>2. CASE limit.until # "past"
      <3>1. limit' = limit /\ tries' = tries /\ TriesInv
        BY <1>3, <2>2 DEF AccountInv
      <3> QED
        BY <1>3, <3>1, AccountIs DEF TriesInv
    <2> QED
      BY <2>1, <2>2
  <1>7. /\ r.pc \in {"insert", "drop", "hash", "check", "secret", "enable", "disable"} /\ r.pc # "hash" /\ r.pc # "enable"
    BY <1>2
  <1> QED
    BY <1>2, <1>3, <1>4, <1>5, <1>6, <1>7, AskedKeeps

LEMMA CloseKeeps ==
  ASSUME AccountInv, CloseSession
  PROVE  AccountInv'
  <1>1. /\ sessions' \subseteq sessions /\ counter' = counter /\ user' = user /\ linux' = linux /\ smbPw' = smbPw /\ limit' = limit
        /\ spent' = spent /\ proven' = proven /\ tries' = tries /\ apart' = apart /\ crowd' = crowd
    BY DEF CloseSession, accountHistory
  <1>2. AccountTypes'
    BY <1>1, AccountIs DEF AccountTypes
  <1>3. NumbersInv'
    <2>1. PICK n \in Nat : NumbersBelow(n)
      BY DEF AccountInv, NumbersInv
    <2>2. NumbersBelow(n)'
      BY <1>1, <2>1 DEF NumbersBelow
    <2> QED
      BY <2>2 DEF NumbersInv
  <1>4. Alone' /\ TriesInv' /\ FactorInv' /\ CodesInv'
    BY <1>1 DEF AccountInv, Alone, TriesInv, FactorInv, CodesInv, NewCodes, CAt, UnderWay
  <1>5. CredentialInv'
    <2>1. UnderWay(Identity)' = UnderWay(Identity) /\ Mirrored' = Mirrored /\ (OfToday => OfToday')
      BY <1>1 DEF UnderWay, Mirrored, OfToday
    <2>2. \A c \in Counters : Halfway(c) => Halfway(c)'
      BY <1>1, <2>1 DEF Halfway
    <2>3. CredentialInv /\ UnderWay(Identity) \subseteq Counters
      BY DEF AccountInv, UnderWay
    <2> QED
      BY <1>1, <2>1, <2>2, <2>3 DEF CredentialInv
  <1> QED
    BY <1>2, <1>3, <1>4, <1>5 DEF AccountInv
LEMMA AgesKeeps ==
  ASSUME AccountInv, LimitAges
  PROVE  AccountInv'
  <1>1. /\ sessions' = sessions /\ counter' = counter /\ user' = user /\ linux' = linux /\ smbPw' = smbPw
        /\ spent' = spent /\ proven' = proven /\ apart' = apart /\ crowd' = crowd
    BY DEF LimitAges
  <1>2. CASE limit' = NoLimit /\ tries' = 0
    <2>1. TriesInv' /\ limit' \in LimitState /\ tries' \in Nat
      BY <1>2, AccountIs, TriesReset, NoLimitIs
    <2>2. AccountTypes' /\ NumbersInv' /\ Alone' /\ CredentialInv' /\ FactorInv' /\ CodesInv'
      BY <1>1, <2>1 DEF AccountInv, AccountTypes, NumbersInv, NumbersBelow, Alone, CredentialInv, FactorInv, CodesInv, NewCodes, CAt,
                        UnderWay, Halfway, Mirrored, OfToday
    <2> QED
      BY <2>1, <2>2 DEF AccountInv
  <1>3. CASE limit.recent /\ tries' = tries /\ limit' = [limit EXCEPT !.recent = FALSE, !.until = IF @ = "ahead" THEN "past" ELSE @]
    <2>1. limit' \in LimitState /\ limit'.recent = FALSE /\ limit'.until # "ahead"
      BY <1>3, AccountIs DEF LimitState
    <2>2. TriesInv'
      BY <1>3, <2>1 DEF AccountInv, TriesInv
    <2>3. AccountTypes' /\ NumbersInv' /\ Alone' /\ CredentialInv' /\ FactorInv' /\ CodesInv'
      BY <1>1, <1>3, <2>1 DEF AccountInv, AccountTypes, NumbersInv, NumbersBelow, Alone, CredentialInv, FactorInv, CodesInv, NewCodes, CAt,
                        UnderWay, Halfway, Mirrored, OfToday
    <2> QED
      BY <2>2, <2>3 DEF AccountInv
  <1> QED
    BY <1>2, <1>3 DEF LimitAges
LEMMA CrashKeeps ==
  ASSUME AccountInv, CrashAccounts
  PROVE  AccountInv'
  <1>1. /\ sessions' = sessions /\ counter' = [c \in Counters |-> Vacant] /\ user' = user /\ linux' = linux /\ smbPw' = smbPw
        /\ spent' = spent /\ proven' = proven /\ crowd' = crowd /\ limit' = NoLimit /\ tries' = 0
        /\ apart' = (apart \/ UnderWay(Identity) # {})
    BY DEF CrashAccounts
  <1>2. \A c \in Counters : counter'[c] = Vacant
    BY <1>1
  <1>3. AccountTypes'
    <2>1. apart' \in BOOLEAN
      BY <1>1
    <2>2. counter' \in [Counters -> CounterState]
      BY <1>1, VacantIs
    <2> QED
      BY <1>1, <1>2, <2>1, <2>2, AccountIs, VacantIs, NoLimitIs DEF AccountTypes
  <1>4. NumbersInv'
    <2>1. PICK n \in Nat : NumbersBelow(n)
      BY DEF AccountInv, NumbersInv
    <2>2. NumbersBelow(n)'
      BY <1>1, <1>2, <2>1, VacantIs DEF NumbersBelow
    <2> QED
      BY <2>2 DEF NumbersInv
  <1>5. TriesInv'
    BY <1>1, AccountIs, TriesReset
  <1>6. Alone' /\ UnderWay(Identity)' = {}
    <2>1. \A g \in Groups : UnderWay(g)' = {}
      BY <1>2, VacantIs DEF UnderWay, Groups, Identity, Factor, Login
    <2> QED
      BY <2>1 DEF Alone, Groups
  <1>7. FactorInv' /\ CodesInv'
    BY <1>1, <1>2, VacantIs DEF AccountInv, FactorInv, CodesInv, CAt
  <1>8. CredentialInv'
    <2> SUFFICES ASSUME ~apart', Identity \notin crowd PROVE Mirrored' /\ OfToday'
      BY <1>1, <1>6 DEF CredentialInv
    <2>1. ~apart /\ UnderWay(Identity) = {}
      BY <1>1
    <2>2. Mirrored /\ OfToday
      BY <2>1 DEF AccountInv, CredentialInv
    <2> QED
      BY <1>1, <2>2 DEF Mirrored, OfToday
  <1> QED
    BY <1>3, <1>4, <1>5, <1>6, <1>7, <1>8 DEF AccountInv

LEMMA AccountStep ==
  ASSUME AccountInv, AccountNext \/ UNCHANGED accountVars
  PROVE  AccountInv'
  <1>1. ASSUME NEW c \in Counters, SetupFirst(c) \/ CreateAccount(c) \/ ChangePassword(c) \/ SetupFactor(c) \/ VerifyFactor(c)
        PROVE  AccountInv'
    <2>1. user.pw \in Nat /\ user.secret \in Nat /\ 0 \in Nat
      BY AccountIs, UserIs
    <2>2. CASE SetupFirst(c)
      BY <2>1, <2>2, BringsKeeps DEF SetupFirst
    <2>3. CASE CreateAccount(c)
      BY <2>1, <2>3, BringsKeeps DEF CreateAccount
    <2>4. CASE ChangePassword(c)
      BY <2>1, <2>4, BringsKeeps DEF ChangePassword
    <2>5. CASE SetupFactor(c)
      BY <2>1, <2>5, BringsKeeps DEF SetupFactor
    <2>6. CASE VerifyFactor(c)
      BY <2>1, <2>6, BringsKeeps DEF VerifyFactor
    <2> QED
      BY <1>1, <2>2, <2>3, <2>4, <2>5, <2>6
  <1>2. ASSUME NEW c \in Counters, DeleteAccount(c) \/ DisableFactor(c)
        PROVE  AccountInv'
    <2>1. CASE DeleteAccount(c)
      BY <2>1, AsksForKeeps DEF DeleteAccount
    <2>2. CASE DisableFactor(c)
      BY <2>2, AsksForKeeps DEF DisableFactor
    <2> QED
      BY <1>2, <2>1, <2>2
  <1>3. ASSUME NEW c \in Counters,
               \/ InsertUser(c) \/ MirrorUser(c) \/ SambaUser(c) \/ DropUser(c) \/ UnmirrorUser(c)
               \/ WriteHash(c) \/ SetSmb(c) \/ RestoreHash(c) \/ Expel(c)
        PROVE  AccountInv'
    BY <1>3, InsertKeeps, MirrorKeeps, SambaKeeps, DropUserKeeps, UnmirrorKeeps, HashKeeps, SmbKeeps, RestoreKeeps, ExpelKeeps
  <1>4. ASSUME NEW c \in Counters, (\E pw \in {0, user.pw} : Attempt(c, pw))
        PROVE  AccountInv'
    BY <1>4, AttemptKeeps
  <1>5. ASSUME NEW c \in Counters,
               \/ CheckPassword(c) \/ FetchUser(c) \/ SecondFactor(c) \/ OpenSession(c)
               \/ WriteSecret(c) \/ EnableFactor(c) \/ ClearFactor(c)
        PROVE  AccountInv'
    BY <1>5, CheckKeeps, FetchKeeps, SecondKeeps, SessionKeeps, SecretKeeps, EnableKeeps
  <1>6. ASSUME UNCHANGED accountVars PROVE AccountInv'
    BY <1>6 DEF AccountInv, AccountTypes, NumbersInv, NumbersBelow, Alone, CredentialInv, TriesInv, FactorInv, CodesInv, NewCodes, CAt,
                UnderWay, Halfway, Mirrored, OfToday, accountVars
  <1> QED
    BY <1>1, <1>2, <1>3, <1>4, <1>5, <1>6, CloseKeeps, AgesKeeps, CrashKeeps DEF AccountNext

LEMMA AccountStarts == AccountInit => AccountInv
  <1> SUFFICES ASSUME AccountInit PROVE AccountInv
    OBVIOUS
  <1>1. /\ sessions = {} /\ limit = NoLimit /\ counter = [c \in Counters |-> Vacant] /\ spent = {} /\ tries = 0 /\ apart = FALSE /\ crowd = {}
        /\ \/ user = NoUser /\ linux \in {"none", "person"} /\ smbPw = 0 /\ proven = 0
           \/ user = Member /\ linux = "ours" /\ smbPw = 1 /\ proven = 1
    BY DEF AccountInit
  <1>2. /\ Member \in UserState /\ Member.pw = 1 /\ Member.secret = 1 /\ Member.on = TRUE /\ \A k \in Member.codes : k[1] = 1
    <2>1. Member.pw = 1 /\ Member.secret = 1 /\ Member.on = TRUE /\ Member.codes = CodesOf(1)
      BY DEF Member
    <2> QED
      BY <2>1, CodesOfIs DEF Member, UserState
  <1>3. \A c \in Counters : counter[c] = Vacant
    BY <1>1
  <1>4. AccountTypes
    <2>1. counter \in [Counters -> CounterState] /\ \A c \in Counters : AtWork(counter[c])
      BY <1>1, <1>3, VacantIs
    <2>2. user \in UserState /\ (user.pw = 0 => user = NoUser) /\ linux \in {"none", "ours", "person"} /\ smbPw \in Nat /\ proven \in Nat
      BY <1>1, <1>2, NoUserIs
    <2>3. limit \in LimitState /\ tries \in Nat /\ apart \in BOOLEAN
      BY <1>1, NoLimitIs
    <2> QED
      BY <1>1, <2>1, <2>2, <2>3 DEF AccountTypes
  <1>5. NumbersInv
    <2>1. user.pw <= 1 /\ user.secret <= 1 /\ smbPw <= 1 /\ proven <= 1 /\ \A k \in user.codes : k[1] <= 1
      BY <1>1, <1>2, NoUserIs
    <2>2. NumbersBelow(1)
      BY <1>1, <1>3, <2>1, VacantIs DEF NumbersBelow
    <2> QED
      BY <2>2 DEF NumbersInv
  <1>6. \A g \in Groups : UnderWay(g) = {}
    BY <1>3, VacantIs DEF UnderWay, Groups, Identity, Factor, Login
  <1>7. Alone /\ UnderWay(Identity) = {}
    BY <1>6 DEF Alone, Groups
  <1>8. CredentialInv
    <2>1. Mirrored /\ OfToday
      <3>1. Member # NoUser
        BY <1>2, NoUserIs
      <3> QED
        BY <1>1, <1>2, <3>1 DEF Mirrored, OfToday
    <2> QED
      BY <1>7, <2>1 DEF CredentialInv
  <1>9. TriesInv
    BY <1>1, NoLimitIs, CountersAreFinite DEF TriesInv
  <1>10. FactorInv /\ CodesInv
    BY <1>1, <1>2, <1>3, NoUserIs, VacantIs DEF FactorInv, CodesInv, CAt
  <1> QED
    BY <1>4, <1>5, <1>7, <1>8, <1>9, <1>10 DEF AccountInv
LEMMA AccountStaysConsistent == AccountInv => AccountsConsistent
  BY DEF AccountInv, CredentialInv, TriesInv, FactorInv, CodesInv, Mirrored, OfToday,
         AccountsConsistent, OneCredential, SessionsAreOfToday, TriesAreLimited, FactorIsProven, CodesAreSpent

-----------------------------------------------------------------------------
\* Who is let in stays consistent (auth.go, auth_users.go, auth_totp.go, tempshares_db.go): a
\* link lets no more in than its limit, its time and its owner do, and an account has one
\* password in all places, no more tries than its limit and those that were past it, a factor
\* that was shown and codes that open once; for any number of requests, faults and crashes.
THEOREM AccessAgrees == DaemonSpec => []AccessConsistent
<1> DEFINE Inv == (part = "links" => LinkInv) /\ (part = "accounts" => AccountInv)
<1>1. DaemonStart => Inv
  BY LinkInvInit, AccountStarts DEF DaemonStart
<1>2. Inv /\ [DaemonNext]_daemonVars => Inv'
  <2>1. ASSUME Inv, [DaemonNext]_daemonVars, part' = "links" PROVE LinkInv'
    <3>1. part = "links" /\ LinkInv /\ [LinkNext]_linkVars
      BY <2>1 DEF DaemonNext, daemonVars
    <3> QED
      BY <3>1, LinkStep
  <2>2. ASSUME Inv, [DaemonNext]_daemonVars, part' = "accounts" PROVE AccountInv'
    <3>1. part = "accounts" /\ AccountInv /\ (AccountNext \/ UNCHANGED accountVars)
      BY <2>2 DEF DaemonNext, daemonVars
    <3> QED
      BY <3>1, AccountStep
  <2> QED
    BY <2>1, <2>2
<1>3. Inv => AccessConsistent
  BY LinkInvConsistent, AccountStaysConsistent DEF AccessConsistent
<1> QED
  BY <1>1, <1>2, <1>3, PTL DEF DaemonSpec

-----------------------------------------------------------------------------
(* The types of the shield: a block is known by a number that was given.    *)

NumbersGiven ==
  /\ \A k \in Keys : memory[k] <= blocks /\ \A i \in DOMAIN blockRows[k] : blockRows[k][i] \in 1..blocks
  /\ \A t \in Goroutines : job[t].block <= blocks
\* The goroutines keep the number they have, or drop it.
HandsGoOn == \A t \in Goroutines : job'[t].block \in {0, job[t].block}

LEMMA HandGoesOn ==
  ASSUME ShieldTypes, NEW t \in Goroutines, NEW r, job' = [job EXCEPT ![t] = r], r.block \in {0, job[t].block}
  PROVE  HandsGoOn
BY DEF ShieldTypes, HandsGoOn
LEMMA StepGoesOn ==
  ASSUME ShieldTypes, NEW t \in Goroutines, (\E pc : Becomes(t, pc)) \/ Rests(t) \/ Proceeds(t)
  PROVE  HandsGoOn
<1>1. ASSUME NEW pc, Becomes(t, pc) PROVE HandsGoOn
  <2>1. PICK r : r = [job[t] EXCEPT !.pc = pc]
    OBVIOUS
  <2>2. job[t] \in JobState
    BY DEF ShieldTypes
  <2>3. r.block = job[t].block
    BY <2>1, <2>2 DEF JobState
  <2>4. job' = [job EXCEPT ![t] = r]
    BY <1>1, <2>1 DEF Becomes
  <2> QED
    BY <2>3, <2>4, HandGoesOn
<1>2. ASSUME Rests(t) PROVE HandsGoOn
  BY <1>2, HandGoesOn DEF Rests, Resting
<1> QED
  BY <1>1, <1>2 DEF Proceeds
LEMMA NumbersStand ==
  ASSUME ShieldTypes, NumbersGiven, HandsGoOn, blocks' = blocks,
         \A k \in Keys : memory'[k] \in {0, memory[k]} /\ blockRows'[k] \in {<<>>, blockRows[k]}
  PROVE  NumbersGiven'
<1>1. blocks \in Nat
  BY DEF ShieldTypes
<1>2. ASSUME NEW k \in Keys PROVE memory'[k] <= blocks /\ \A i \in DOMAIN blockRows'[k] : blockRows'[k][i] \in 1..blocks
  BY <1>1 DEF NumbersGiven
<1>3. ASSUME NEW t \in Goroutines PROVE job'[t].block <= blocks
  BY <1>1 DEF NumbersGiven, HandsGoOn
<1> QED
  BY <1>2, <1>3 DEF NumbersGiven
LEMMA LoadedGiven ==
  ASSUME ShieldInv, NumbersGiven
  PROVE  \A k \in Keys : Loaded[k] \in Nat /\ Loaded[k] <= blocks
<1> DEFINE left(k) == {i \in DOMAIN blockRows[k] : blockRows[k][i] \notin expired}
           last(k) == CHOOSE i \in left(k) : \A j \in left(k) : j <= i
<1> SUFFICES ASSUME NEW k \in Keys PROVE Loaded[k] \in Nat /\ Loaded[k] <= blocks
  OBVIOUS
<1>1. Loaded[k] = IF left(k) = {} THEN 0 ELSE blockRows[k][last(k)]
  BY DEF Loaded
<1>2. blockRows[k] \in Seq(Nat) /\ Len(blockRows[k]) \in Nat /\ DOMAIN blockRows[k] = 1..Len(blockRows[k]) /\ blocks \in Nat
  BY DEF ShieldInv, ShieldTypes
<1>3. ASSUME left(k) # {} PROVE last(k) \in DOMAIN blockRows[k]
  <2>1. left(k) \subseteq 1..Len(blockRows[k])
    BY <1>2
  <2>2. \E i \in left(k) : \A j \in left(k) : j <= i
    BY <1>2, <1>3, <2>1, LastOf
  <2> QED
    BY <2>2
<1> HIDE DEF left, last
<1>4. CASE left(k) = {}
  BY <1>1, <1>2, <1>4
<1>5. CASE left(k) # {}
  <2>1. blockRows[k][last(k)] \in 1..blocks
    BY <1>3, <1>5 DEF NumbersGiven
  <2> QED
    BY <1>1, <1>2, <1>5, <2>1
<1> QED
  BY <1>4, <1>5

LEMMA BlockGivesNumber ==
  ASSUME ShieldInv, NumbersGiven, NEW t \in Goroutines, NEW k \in Keys, BlockIP(t, k)
  PROVE  NumbersGiven'
<1> PICK r : r = [Resting EXCEPT !.pc = "delete", !.key = k, !.block = blocks + 1]
  OBVIOUS
<1>1. /\ blocks \in Nat /\ memory \in [Keys -> Nat] /\ job \in [Goroutines -> JobState]
      /\ \A s \in Goroutines : job[s].block \in Nat
  BY DEF ShieldInv, ShieldTypes, JobState
<1>2. /\ blocks' = blocks + 1 /\ memory' = [memory EXCEPT ![k] = blocks + 1] /\ blockRows' = blockRows
      /\ job' = [job EXCEPT ![t] = r] /\ r.block = blocks + 1
  BY DEF BlockIP, Resting
<1>3. ASSUME NEW j \in Keys PROVE memory'[j] <= blocks'
  BY <1>1, <1>2 DEF NumbersGiven
<1>4. ASSUME NEW j \in Keys, NEW i \in DOMAIN blockRows'[j] PROVE blockRows'[j][i] \in 1..blocks'
  <2>1. blockRows[j][i] \in 1..blocks
    BY <1>2, <1>4 DEF NumbersGiven
  <2> QED
    BY <1>1, <1>2, <2>1
<1>5. ASSUME NEW s \in Goroutines PROVE job'[s].block <= blocks'
  <2>1. job[s].block <= blocks /\ job[s].block \in Nat
    BY <1>1 DEF NumbersGiven
  <2>2. job'[s].block = IF s = t THEN blocks + 1 ELSE job[s].block
    BY <1>1, <1>2
  <2> QED
    BY <1>1, <1>2, <2>1, <2>2
<1> QED
  BY <1>3, <1>4, <1>5 DEF NumbersGiven
LEMMA InsertGivesNumber ==
  ASSUME ShieldInv, NumbersGiven, NEW t \in Goroutines, NEW k \in Keys, InsertRow(t, k)
  PROVE  NumbersGiven'
<1> PICK r : r = [job[t] EXCEPT !.pc = "count", !.block = 0]
  OBVIOUS
<1>1. /\ blocks \in Nat /\ job \in [Goroutines -> JobState] /\ job[t] \in JobState /\ job[t].block \in Nat
      /\ blockRows \in [Keys -> Seq(Nat)] /\ memory' = memory /\ blocks' = blocks
  BY DEF ShieldInv, ShieldTypes, JobState, InsertRow, shieldBounds
<1>2. job[t].block \in 1..blocks
  <2>1. job[t].block # 0
    BY DEF ShieldInv, JobOK, InsertRow, Now
  <2> QED
    BY <1>1, <2>1 DEF NumbersGiven
<1>3. HandsGoOn
  <2>1. r.block = 0 /\ job' = [job EXCEPT ![t] = r]
    BY <1>1 DEF InsertRow, JobState
  <2> QED
    BY <2>1, HandGoesOn DEF ShieldInv
<1>4. ASSUME NEW j \in Keys, NEW i \in DOMAIN blockRows'[j] PROVE blockRows'[j][i] \in 1..blocks
  <2>1. blockRows' = [blockRows EXCEPT ![k] = Append(blockRows[k], job[t].block)]
    BY DEF InsertRow
  <2>2. \A n \in DOMAIN blockRows[j] : blockRows[j][n] \in 1..blocks
    BY DEF NumbersGiven
  <2>3. blockRows[j] \in Seq(Nat)
    BY <1>1
  <2> QED
    BY <1>1, <1>2, <1>4, <2>1, <2>2, <2>3
<1>5. ASSUME NEW s \in Goroutines PROVE job'[s].block <= blocks
  BY <1>1, <1>3 DEF NumbersGiven, HandsGoOn
<1> QED
  BY <1>1, <1>4, <1>5 DEF NumbersGiven
LEMMA LoadsNumbers ==
  ASSUME ShieldInv, NumbersGiven, EnableShield \/ ShieldRestart
  PROVE  NumbersGiven'
<1>1. /\ blocks \in Nat /\ memory \in [Keys -> Nat] /\ blocks' = blocks /\ blockRows' = blockRows /\ job \in [Goroutines -> JobState]
  BY DEF ShieldInv, ShieldTypes, EnableShield, ShieldRestart, shieldBounds
<1>2. ASSUME NEW k \in Keys PROVE memory'[k] <= blocks
  <2>1. memory[k] \in Nat /\ memory[k] <= blocks /\ Loaded[k] \in Nat /\ Loaded[k] <= blocks
    BY <1>1, LoadedGiven DEF NumbersGiven
  <2>2. Loaded = [j \in Keys |-> Loaded[j]]
    BY DEF Loaded
  <2> HIDE DEF Loaded
  <2>3. memory'[k] \in {0, memory[k], Loaded[k]}
    <3>1. CASE EnableShield
      BY <3>1 DEF EnableShield
    <3>2. CASE ShieldRestart
      BY <3>2 DEF ShieldRestart
    <3> QED
      BY <3>1, <3>2
  <2> QED
    BY <1>1, <2>1, <2>3
<1>3. HandsGoOn
  <2>1. CASE ShieldRestart
    BY <2>1 DEF ShieldRestart, Resting, HandsGoOn
  <2>2. CASE EnableShield /\ UNCHANGED job
    BY <2>2 DEF HandsGoOn
  <2>3. CASE job' = [job EXCEPT !["admin"] = [Resting EXCEPT !.pc = "build"]]
    <3>1. "admin" \in Goroutines /\ [Resting EXCEPT !.pc = "build"].block = 0
      BY DEF Goroutines, Resting
    <3> QED
      BY <2>3, <3>1, HandGoesOn DEF ShieldInv
  <2> QED
    BY <2>1, <2>2, <2>3 DEF EnableShield
<1>4. ASSUME NEW s \in Goroutines PROVE job'[s].block <= blocks
  BY <1>1, <1>3 DEF NumbersGiven, HandsGoOn
<1> QED
  BY <1>1, <1>2, <1>4 DEF NumbersGiven
LEMMA RequestsGoOn ==
  ASSUME ShieldInv, NEW k \in Keys, AdminUnblocks(k) \/ SeeExpired(k) \/ WhitelistAdd(k) \/ Sweep(k)
  PROVE  HandsGoOn /\ UNCHANGED <<memory, blockRows, blocks>>
<1>1. UNCHANGED <<memory, blockRows, blocks>>
  BY DEF AdminUnblocks, SeeExpired, WhitelistAdd, Sweep, stores, shieldBounds
<1>2. ASSUME NEW t \in {"admin", "request"}, Unblocks(t, k) PROVE HandsGoOn
  <2>1. t \in Goroutines /\ [Resting EXCEPT !.pc = "forget", !.key = k].block = 0
    BY DEF Goroutines, Resting
  <2> QED
    BY <1>2, <2>1, HandGoesOn DEF Unblocks, ShieldInv
<1>3. ASSUME Sweep(k) PROVE HandsGoOn
  <2>0. PICK r : r = [job["cleanup"] EXCEPT !.pc = "unmark", !.key = k, !.todo = job["cleanup"].todo \ {k}]
    OBVIOUS
  <2>1. "cleanup" \in Goroutines /\ job["cleanup"] \in JobState
    BY DEF Goroutines, ShieldInv, ShieldTypes
  <2>2. r.block = job["cleanup"].block /\ job' = [job EXCEPT !["cleanup"] = r]
    BY <1>3, <2>0, <2>1 DEF JobState, Sweep
  <2> QED
    BY <2>1, <2>2, HandGoesOn DEF ShieldInv
<1> QED
  BY <1>1, <1>2, <1>3 DEF AdminUnblocks, SeeExpired, WhitelistAdd
LEMMA StepsGoOn ==
  ASSUME ShieldInv, NEW t \in Goroutines, NEW k \in Keys,
         \/ DeleteRows(t, k) \/ RecordBlock(t, k) \/ MaybeEscalate(t, k) \/ AddElement(t, k) \/ MarkActive(t, k)
         \/ ForgetBlock(t, k) \/ ForgetRows(t, k) \/ Unmark(t, k) \/ RemoveElement(t, k)
  PROVE  /\ HandsGoOn /\ blocks' = blocks
         /\ \A j \in Keys : memory'[j] \in {0, memory[j]} /\ blockRows'[j] \in {<<>>, blockRows[j]}
<1>0. ShieldTypes /\ memory \in [Keys -> Nat] /\ blockRows \in [Keys -> Seq(Nat)]
  BY DEF ShieldInv, ShieldTypes
<1>1. ASSUME Unmark(t, k) \/ RemoveElement(t, k) PROVE HandsGoOn
  <2>1. \/ Becomes(t, "unnft")
        \/ job' = [job EXCEPT ![t] = IF job[t].todo = {} THEN Resting ELSE [job[t] EXCEPT !.pc = "sweep"]]
    BY <1>1 DEF Unmark, RemoveElement
  <2>2. PICK r : r = IF job[t].todo = {} THEN Resting ELSE [job[t] EXCEPT !.pc = "sweep"]
    OBVIOUS
  <2>3. job[t] \in JobState
    BY <1>0 DEF ShieldTypes
  <2>4. r.block \in {0, job[t].block}
    BY <2>2, <2>3 DEF JobState, Resting
  <2>5. CASE Becomes(t, "unnft")
    BY <1>0, <2>5, StepGoesOn
  <2>6. CASE job' = [job EXCEPT ![t] = r]
    BY <1>0, <2>4, <2>6, HandGoesOn
  <2> QED
    BY <2>1, <2>2, <2>5, <2>6
<1>2. ASSUME ~(Unmark(t, k) \/ RemoveElement(t, k)) PROVE (\E pc : Becomes(t, pc)) \/ Rests(t) \/ Proceeds(t)
  BY <1>2, Zenon DEF DeleteRows, RecordBlock, MaybeEscalate, AddElement, MarkActive, ForgetBlock, ForgetRows
<1>3. HandsGoOn
  BY <1>0, <1>1, <1>2, StepGoesOn
<1>4. blocks' = blocks
  BY DEF DeleteRows, RecordBlock, MaybeEscalate, AddElement, MarkActive, ForgetBlock, ForgetRows, Unmark,
         RemoveElement, shieldBounds
<1>5. /\ memory' = memory \/ memory' = [memory EXCEPT ![k] = 0]
      /\ blockRows' = blockRows \/ blockRows' = [blockRows EXCEPT ![k] = <<>>]
  BY DEF DeleteRows, RecordBlock, MaybeEscalate, AddElement, MarkActive, ForgetBlock, ForgetRows, Unmark,
         RemoveElement, stores
<1> QED
  BY <1>0, <1>3, <1>4, <1>5

LEMMA SwitchesGoOn ==
  ASSUME ShieldInv, EscalationOn \/ BuildTable \/ EmptyRecord \/ Resync \/ EscalationOff \/ DisableShield \/ TearDown \/ Torn
  PROVE  HandsGoOn /\ UNCHANGED <<memory, blockRows, blocks>>
<1>1. UNCHANGED <<memory, blockRows, blocks>>
  BY DEF EscalationOn, BuildTable, EmptyRecord, Resync, EscalationOff, DisableShield, TearDown, Torn, stores, shieldBounds
<1>2. "admin" \in Goroutines /\ job["admin"] \in JobState /\ ShieldTypes
  BY DEF Goroutines, ShieldInv, ShieldTypes
<1>3. ASSUME NEW pc, NEW todo, job' = [job EXCEPT !["admin"] = [Resting EXCEPT !.pc = pc, !.todo = todo]] PROVE HandsGoOn
  <2>1. [Resting EXCEPT !.pc = pc, !.todo = todo].block = 0
    BY DEF Resting
  <2> QED
    BY <1>2, <1>3, <2>1, HandGoesOn
<1>4. ASSUME NEW pc, job' = [job EXCEPT !["admin"] = [Resting EXCEPT !.pc = pc]] PROVE HandsGoOn
  <2>1. [Resting EXCEPT !.pc = pc].block = 0
    BY DEF Resting
  <2> QED
    BY <1>2, <1>4, <2>1, HandGoesOn
<1>5. ASSUME Resync PROVE HandsGoOn
  <2>1. ASSUME NEW k \in Keys, NEW pc, NEW todo,
               job' = [job EXCEPT !["admin"] = [job["admin"] EXCEPT !.key = k, !.todo = todo, !.pc = pc]]
        PROVE  HandsGoOn
    <3>1. PICK r : r = [job["admin"] EXCEPT !.key = k, !.todo = todo, !.pc = pc]
      OBVIOUS
    <3>2. r.block = job["admin"].block /\ job' = [job EXCEPT !["admin"] = r]
      BY <1>2, <2>1, <3>1 DEF JobState
    <3> QED
      BY <1>2, <3>2, HandGoesOn
  <2>2. job["admin"].todo \subseteq Keys
    BY <1>2 DEF JobState
  <2>3. CASE Rests("admin")
    BY <1>2, <2>3, StepGoesOn
  <2> QED
    BY <1>5, <2>1, <2>2, <2>3 DEF Resync
<1>6. ASSUME EscalationOn \/ EscalationOff \/ DisableShield PROVE HandsGoOn
  BY <1>4, <1>6 DEF EscalationOn, EscalationOff, DisableShield
<1>7. ASSUME EmptyRecord PROVE HandsGoOn
  BY <1>3, <1>7 DEF EmptyRecord
<1>8. ASSUME BuildTable \/ TearDown \/ Torn PROVE HandsGoOn
  BY <1>2, <1>8, StepGoesOn DEF BuildTable, TearDown, Torn
<1> QED
  BY <1>1, <1>5, <1>6, <1>7, <1>8
LEMMA NumbersStep ==
  ASSUME ShieldInv, NumbersGiven, [ShieldNext]_shieldVars
  PROVE  NumbersGiven'
<1>0. ShieldTypes /\ memory \in [Keys -> Nat] /\ blockRows \in [Keys -> Seq(Nat)]
  BY DEF ShieldInv, ShieldTypes
<1>1. ASSUME HandsGoOn, UNCHANGED <<memory, blockRows, blocks>> PROVE NumbersGiven'
  BY <1>0, <1>1, NumbersStand
<1>2. ASSUME NEW k \in Keys, ProcessRules(k) \/ Middleware(k) PROVE NumbersGiven'
  <2>1. "loop" \in Goroutines /\ "request" \in Goroutines
    BY DEF Goroutines
  <2> QED
    BY <1>2, <2>1, BlockGivesNumber DEF ProcessRules, Middleware
<1>3. ASSUME NEW k \in Keys, AdminUnblocks(k) \/ SeeExpired(k) \/ WhitelistAdd(k) \/ Sweep(k) PROVE NumbersGiven'
  BY <1>1, <1>3, RequestsGoOn
<1>4. ASSUME NEW k \in Keys, WhitelistRemove(k) PROVE NumbersGiven'
  BY <1>1, <1>4 DEF WhitelistRemove, stores, shieldBounds, HandsGoOn
<1>5. ASSUME NEW t \in Goroutines, NEW k \in Keys,
             \/ DeleteRows(t, k) \/ InsertRow(t, k) \/ RecordBlock(t, k) \/ MaybeEscalate(t, k) \/ AddElement(t, k)
             \/ MarkActive(t, k) \/ ForgetBlock(t, k) \/ ForgetRows(t, k) \/ Unmark(t, k) \/ RemoveElement(t, k)
      PROVE  NumbersGiven'
  <2>1. CASE InsertRow(t, k)
    BY <2>1, InsertGivesNumber
  <2>2. CASE ~InsertRow(t, k)
    <3>1. /\ HandsGoOn /\ blocks' = blocks
          /\ \A j \in Keys : memory'[j] \in {0, memory[j]} /\ blockRows'[j] \in {<<>>, blockRows[j]}
      BY <1>5, <2>2, StepsGoOn
    <3> QED
      BY <1>0, <3>1, NumbersStand
  <2> QED
    BY <2>1, <2>2
<1>6. CASE CleanUp
  <2>1. blocks' = blocks /\ blockRows' = blockRows /\ \A k \in Keys : memory'[k] \in {0, memory[k]}
    BY <1>6 DEF CleanUp, shieldBounds
  <2>2. HandsGoOn
    <3>1. PICK todo : job' = [job EXCEPT !["cleanup"] = [Resting EXCEPT !.pc = "sweep", !.todo = todo]]
      BY <1>6 DEF CleanUp
    <3>2. [Resting EXCEPT !.pc = "sweep", !.todo = todo].block = 0 /\ "cleanup" \in Goroutines
      BY DEF Resting, Goroutines
    <3> QED
      BY <1>0, <3>1, <3>2, HandGoesOn
  <2> QED
    BY <1>0, <2>1, <2>2, NumbersStand
<1>7. CASE EscalationOn \/ BuildTable \/ EmptyRecord \/ Resync \/ EscalationOff \/ DisableShield \/ TearDown \/ Torn
  BY <1>1, <1>7, SwitchesGoOn
<1>8. CASE EnableShield \/ ShieldRestart
  BY <1>8, LoadsNumbers
<1>9. CASE ShieldTime \/ UNCHANGED shieldVars
  BY <1>1, <1>9 DEF ShieldTime, stores, shieldVars, HandsGoOn
<1> QED
  BY <1>2, <1>3, <1>4, <1>5, <1>6, <1>7, <1>8, <1>9 DEF ShieldNext
LEMMA NumbersStart == ShieldInit => NumbersGiven
<1> SUFFICES ASSUME ShieldInit PROVE NumbersGiven
  OBVIOUS
<1>1. ASSUME NEW k \in Keys PROVE memory[k] <= blocks /\ \A i \in DOMAIN blockRows[k] : blockRows[k][i] \in 1..blocks
  BY DEF ShieldInit
<1>2. ASSUME NEW t \in Goroutines PROVE job[t].block <= blocks
  BY DEF ShieldInit, Resting
<1> QED
  BY <1>1, <1>2 DEF NumbersGiven
LEMMA SequenceWithin ==
  ASSUME NEW s \in Seq(Nat), NEW S, \A i \in DOMAIN s : s[i] \in S
  PROVE  s \in Seq(S)
OBVIOUS
LEMMA ShieldTyped ==
  ASSUME ShieldInv, NumbersGiven
  PROVE  ShieldTypeOK
<1>0. /\ blocks \in Nat /\ memory \in [Keys -> Nat] /\ blockRows \in [Keys -> Seq(Nat)] /\ job \in [Goroutines -> JobState]
      /\ kernel \cup active \cup white \subseteq Keys
  BY DEF ShieldInv, ShieldTypes
<1>1. memory \in [Keys -> 0..blocks]
  BY <1>0 DEF NumbersGiven
<1>2. ASSUME NEW k \in Keys PROVE blockRows[k] \in Seq(1..blocks)
  BY <1>0, SequenceWithin DEF NumbersGiven
<1> QED
  BY <1>0, <1>1, <1>2 DEF ShieldTypeOK

-----------------------------------------------------------------------------
(* The types of what leads to a block.                                      *)

StanceTypes ==
  /\ seen \in Nat /\ turns \in Nat /\ cold \in BOOLEAN /\ barred \in BOOLEAN /\ armed \in BOOLEAN /\ trusted \in BOOLEAN
  /\ judging \in BOOLEAN /\ window \in [Rules -> Nat] /\ attack \subseteq {Category[r] : r \in Rules}
  /\ policy \in SanePolicies

LEMMA EventsHaveRules ==
  /\ \A e \in Events : e.rule \in Rules
  /\ RepInv => \A q \in {channel} : q # <<>> => Head(q) \in Events
<1>1. \A e \in Events : e.rule \in Rules
  BY ReputationAssumption
<1>2. RepInv => channel \in Seq(Events)
  BY DEF RepInv, RepTypes
<1>3. ASSUME NEW q \in Seq(Events), q # <<>> PROVE Head(q) \in Events
  BY <1>3
<1> QED
  BY <1>1, <1>2, <1>3
LEMMA LimitsCount ==
  ASSUME window \in [Rules -> Nat], NEW r \in Rules
  PROVE  [window EXCEPT ![r] = @ + 1] \in [Rules -> Nat]
<1>1. window[r] + 1 \in Nat
  OBVIOUS
<1> QED
  BY <1>1
LEMMA WindowTypes ==
  ASSUME RepInv, StanceTypes, [ReputationNext]_reputationVars
  PROVE  window' \in [Rules -> Nat]
<1>0. window \in [Rules -> Nat]
  BY DEF StanceTypes
<1>1. CASE UNCHANGED window
  BY <1>0, <1>1
<1>2. CASE CountEvent
  <2>1. judge.event.rule \in Rules
    <3>1. judge.event \in Events \cup {NoEvent} /\ NoEvent.rule = "honeypot"
      BY DEF RepInv, RepTypes, Loops, NoEvent
    <3> QED
      BY <3>1, EventsHaveRules DEF Rules, InstantRules
  <2> QED
    BY <1>0, <1>2, <2>1, LimitsCount DEF CountEvent
<1>3. CASE Decide
  <2>1. "login_fail" \in Rules
    BY DEF Rules
  <2> QED
    BY <1>0, <1>3, <2>1, LimitsCount DEF Decide
<1>4. CASE RepRestart
  BY <1>4 DEF RepRestart
<1>5. ASSUME NEW m \in {2, 5, 10, 15}, Pass(m) PROVE window' \in [Rules -> Nat]
  BY <1>0, <1>5 DEF Pass
<1>6. CASE \/ \E e \in Events : Emit(e)
           \/ AuthSuccess \/ Forget \/ Take \/ ReadScore \/ WriteScore \/ AnswerFall \/ ReadStreak \/ RecordFail
           \/ \E p \in Policies : SetPolicy(p)
           \/ Arm \/ Trust \/ StartEngine \/ Unbar \/ UNCHANGED reputationVars
  <2>1. UNCHANGED window
    BY <1>6 DEF Emit, AuthSuccess, Forget, Take, ReadScore, WriteScore, AnswerFall, ReadStreak, RecordFail, SetPolicy, Arm,
                Trust, StartEngine, Unbar, reputationVars, recent
  <2> QED
    BY <1>1, <2>1
<1> QED
  BY <1>2, <1>3, <1>4, <1>5, <1>6 DEF ReputationNext
LEMMA AttackTypes ==
  ASSUME RepInv, StanceTypes, [ReputationNext]_reputationVars
  PROVE  attack' \subseteq {Category[r] : r \in Rules} /\ policy' \in SanePolicies
<1>0. attack \subseteq {Category[r] : r \in Rules} /\ policy \in SanePolicies
  BY DEF StanceTypes
<1>1. attack' \subseteq {Category[r] : r \in Rules}
  <2>1. CASE Take
    <3>1. Head(channel) \in Events
      BY <2>1, EventsHaveRules DEF Take
    <3>2. Head(channel).rule \in Rules
      BY <3>1, EventsHaveRules
    <3>3. attack' = attack \cup {Category[Head(channel).rule]}
      BY <2>1 DEF Take
    <3> QED
      BY <1>0, <3>2, <3>3
  <2>2. CASE ~Take
    <3>1. attack' = attack \/ attack' = {}
      BY <2>2 DEF ReputationNext, Emit, AuthSuccess, Forget, ReadScore, WriteScore, AnswerFall, CountEvent, ReadStreak,
                  RecordFail, Decide, SetPolicy, Arm, Trust, StartEngine, Unbar, Pass, RepRestart, reputationVars, recent
    <3> QED
      BY <1>0, <3>1
  <2> QED
    BY <2>1, <2>2
<1>2. policy' \in SanePolicies
  <2>1. ASSUME NEW p \in Policies, SetPolicy(p) PROVE policy' \in SanePolicies
    BY <2>1 DEF SetPolicy, SanePolicies
  <2>2. CASE ~\E p \in Policies : SetPolicy(p)
    <3>1. policy' = policy
      BY <2>2 DEF ReputationNext, Emit, AuthSuccess, Forget, Take, ReadScore, WriteScore, AnswerFall, CountEvent, ReadStreak,
                  RecordFail, Decide, Arm, Trust, StartEngine, Unbar, Pass, RepRestart, reputationVars, stance
    <3> QED
      BY <1>0, <3>1
  <2> QED
    BY <2>1, <2>2
<1> QED
  BY <1>1, <1>2
LEMMA StanceStep ==
  ASSUME RepInv, StanceTypes, [ReputationNext]_reputationVars
  PROVE  StanceTypes'
<1>0. /\ seen \in Nat /\ turns \in Nat /\ cold \in BOOLEAN /\ barred \in BOOLEAN /\ armed \in BOOLEAN /\ trusted \in BOOLEAN
      /\ judging \in BOOLEAN
  BY DEF StanceTypes
<1>1. seen' \in {seen, seen + 1} /\ turns' \in {turns, turns + 1}
  BY DEF ReputationNext, Emit, AuthSuccess, Forget, Take, ReadScore, WriteScore, AnswerFall, CountEvent, ReadStreak, RecordFail,
         Decide, SetPolicy, Arm, Trust, StartEngine, Unbar, Pass, RepRestart, reputationVars, AdminTurn, counted
<1>2. cold' \in BOOLEAN
  BY <1>0, Zenon DEF ReputationNext, Emit, AuthSuccess, Forget, Take, ReadScore, WriteScore, AnswerFall, CountEvent, ReadStreak,
         RecordFail, Decide, SetPolicy, Arm, Trust, StartEngine, Unbar, Pass, RepRestart, reputationVars, rowOfKey
<1>3. barred' \in BOOLEAN
  BY <1>0, Zenon DEF ReputationNext, Emit, AuthSuccess, Forget, Take, ReadScore, WriteScore, AnswerFall, CountEvent, ReadStreak,
         RecordFail, Decide, SetPolicy, Arm, Trust, StartEngine, Unbar, Pass, RepRestart, reputationVars
<1>4. armed' \in BOOLEAN /\ trusted' \in BOOLEAN
  BY <1>0, Zenon DEF ReputationNext, Emit, AuthSuccess, Forget, Take, ReadScore, WriteScore, AnswerFall, CountEvent, ReadStreak,
         RecordFail, Decide, SetPolicy, Arm, Trust, StartEngine, Unbar, Pass, RepRestart, reputationVars, stance
<1>5. judging' \in BOOLEAN
  BY <1>0, Zenon DEF ReputationNext, Emit, AuthSuccess, Forget, Take, ReadScore, WriteScore, AnswerFall, CountEvent, ReadStreak,
         RecordFail, Decide, SetPolicy, Arm, Trust, StartEngine, Unbar, Pass, RepRestart, reputationVars
<1>6. seen' \in Nat /\ turns' \in Nat
  BY <1>0, <1>1
<1> QED
  BY <1>2, <1>3, <1>4, <1>5, <1>6, WindowTypes, AttackTypes, Zenon DEF StanceTypes
LEMMA StanceStarts == ReputationInit => StanceTypes
<1> SUFFICES ASSUME ReputationInit PROVE StanceTypes
  OBVIOUS
<1>1. window \in [Rules -> Nat] /\ attack \subseteq {Category[r] : r \in Rules} /\ seen \in Nat /\ turns \in Nat
  BY DEF ReputationInit
<1> QED
  BY <1>1, Zenon DEF ReputationInit, StanceTypes
LEMMA ReputationTyped ==
  ASSUME RepInv, StanceTypes
  PROVE  ReputationTypeOK
<1>1. {success, streak, score, seen, turns, failed, dues} \subseteq Nat
  BY DEF RepInv, RepTypes, StanceTypes
<1>2. {cold, barred, armed, trusted, judging, late, undone, answered, cut} \subseteq BOOLEAN
  BY Zenon DEF RepInv, RepTypes, StanceTypes
<1> QED
  BY <1>1, <1>2 DEF ReputationTypeOK, RepInv, RepTypes, StanceTypes

-----------------------------------------------------------------------------
(* The types of sessions: who has one had a password.                       *)

LoginSteps == {"fetch", "second", "session"}
PasswordsInv ==
  /\ \A s \in sessions : s.pw # 0
  /\ \A c \in Counters : counter[c].pc \in LoginSteps => counter[c].pw # 0
  /\ crowd \subseteq Groups

LEMMA OpenedHasPassword ==
  ASSUME AccountInv, PasswordsInv, NEW c \in Counters, counter[c].pw # 0, sessions' \in {sessions, Opened(c), {}} \/ sessions' \subseteq sessions
  PROVE  \A s \in sessions' : s.pw # 0
<1>1. \A s \in Opened(c) : s.pw # 0
  BY DEF Opened, PasswordsInv
<1> QED
  BY <1>1 DEF PasswordsInv
LEMMA CrowdIsGroups ==
  ASSUME PasswordsInv, AccountNext \/ UNCHANGED accountVars
  PROVE  crowd' \subseteq Groups
<1>0. crowd \subseteq Groups
  BY DEF PasswordsInv
<1>1. ASSUME NEW c \in Counters, NEW r, Asks(c, r) PROVE crowd' \subseteq Groups
  BY <1>0, <1>1 DEF Asks, Groups
<1>2. ASSUME NEW c \in Counters, NEW pw, Attempt(c, pw) PROVE crowd' \subseteq Groups
  BY <1>0, <1>2 DEF Attempt, Groups
<1>3. ASSUME NEW c \in Counters, \/ SetupFirst(c) \/ CreateAccount(c) \/ DeleteAccount(c) \/ ChangePassword(c) \/ SetupFactor(c)
                                 \/ VerifyFactor(c) \/ DisableFactor(c)
      PROVE  crowd' \subseteq Groups
  BY <1>1, <1>3, Zenon DEF SetupFirst, CreateAccount, DeleteAccount, ChangePassword, SetupFactor, VerifyFactor, DisableFactor, AsksFor, BringsFor
<1>4. ASSUME \/ UNCHANGED accountVars \/ CloseSession \/ LimitAges \/ CrashAccounts
             \/ \E c \in Counters : \/ InsertUser(c) \/ MirrorUser(c) \/ SambaUser(c) \/ DropUser(c) \/ UnmirrorUser(c) \/ WriteHash(c)
                                    \/ SetSmb(c) \/ RestoreHash(c) \/ Expel(c) \/ CheckPassword(c) \/ FetchUser(c) \/ SecondFactor(c)
                                    \/ OpenSession(c) \/ WriteSecret(c) \/ EnableFactor(c) \/ ClearFactor(c)
      PROVE  crowd' = crowd
  BY <1>4 DEF accountVars, accountHistory, CloseSession, LimitAges, CrashAccounts, InsertUser, MirrorUser, SambaUser, DropUser, UnmirrorUser,
              WriteHash, SetSmb, RestoreHash, Expel, CheckPassword, FetchUser, SecondFactor, OpenSession, WriteSecret, EnableFactor, ClearFactor
<1> QED
  BY <1>0, <1>2, <1>3, <1>4 DEF AccountNext
\* At the steps of a login that follow the check, the password is still in hand.
LEMMA PasswordStays ==
  ASSUME AccountInv, PasswordsInv, NEW c \in Counters, NEW r, counter' = [counter EXCEPT ![c] = r],
         r.pc \in LoginSteps => r.pw # 0
  PROVE  \A d \in Counters : counter'[d].pc \in LoginSteps => counter'[d].pw # 0
<1>1. counter \in [Counters -> CounterState]
  BY DEF AccountInv, AccountTypes
<1> QED
  BY <1>1 DEF PasswordsInv
LEMMA GoesStays ==
  ASSUME AccountInv, PasswordsInv, NEW c \in Counters, NEW pc, (CGoes(c, pc) /\ pc \notin LoginSteps) \/ CLeaves(c)
  PROVE  \A d \in Counters : counter'[d].pc \in LoginSteps => counter'[d].pw # 0
<1>1. CASE CLeaves(c)
  BY <1>1, PasswordStays DEF CLeaves, Vacant, LoginSteps
<1>2. CASE CGoes(c, pc) /\ pc \notin LoginSteps
  <2>1. PICK r : r = [counter[c] EXCEPT !.pc = pc]
    OBVIOUS
  <2>2. counter[c] \in CounterState
    BY DEF AccountInv, AccountTypes
  <2>3. r.pc = pc /\ counter' = [counter EXCEPT ![c] = r]
    BY <1>2, <2>1, <2>2 DEF CGoes, CounterState
  <2> QED
    BY <1>2, <2>3, PasswordStays
<1> QED
  BY <1>1, <1>2

LEMMA AskedOutside ==
  ASSUME NEW pc, NEW kind, NEW was, NEW pw
  PROVE  /\ [Vacant EXCEPT !.pc = pc, !.kind = kind].pc = pc
         /\ [Vacant EXCEPT !.pc = pc, !.kind = kind, !.was = was, !.pw = pw].pc = pc
         /\ [Vacant EXCEPT !.pc = pc, !.kind = kind, !.pw = pw].pc = pc
  BY DEF Vacant
LEMMA AskingStays ==
  ASSUME AccountInv, PasswordsInv, NEW c \in Counters,
         \/ SetupFirst(c) \/ CreateAccount(c) \/ DeleteAccount(c) \/ ChangePassword(c) \/ SetupFactor(c)
         \/ VerifyFactor(c) \/ DisableFactor(c) \/ \E pw \in {0, user.pw} : Attempt(c, pw)
  PROVE  \A d \in Counters : counter'[d].pc \in LoginSteps => counter'[d].pw # 0
<1>1. ASSUME NEW r, Asks(c, r), r.pc \notin LoginSteps
      PROVE  \A d \in Counters : counter'[d].pc \in LoginSteps => counter'[d].pw # 0
  BY <1>1, PasswordStays DEF Asks
<1>2. ASSUME NEW kind, NEW pc, pc \notin LoginSteps, AsksFor(c, kind, pc)
      PROVE  \A d \in Counters : counter'[d].pc \in LoginSteps => counter'[d].pw # 0
  <2>1. PICK r : r = [Vacant EXCEPT !.pc = pc, !.kind = kind]
    OBVIOUS
  <2>2. Asks(c, r) /\ r.pc = pc
    BY <1>2, <2>1, AskedOutside DEF AsksFor
  <2> QED
    BY <1>1, <1>2, <2>2
<1>3. ASSUME NEW kind, NEW pc, NEW was, pc \notin LoginSteps, BringsFor(c, kind, pc, was)
      PROVE  \A d \in Counters : counter'[d].pc \in LoginSteps => counter'[d].pw # 0
  <2>1. PICK r : r = [Vacant EXCEPT !.pc = pc, !.kind = kind, !.was = was, !.pw = NewNumber]
    OBVIOUS
  <2>2. Asks(c, r) /\ r.pc = pc
    BY <1>3, <2>1, AskedOutside DEF BringsFor
  <2> QED
    BY <1>1, <1>3, <2>2
<1>4. ASSUME NEW pw, Attempt(c, pw)
      PROVE  \A d \in Counters : counter'[d].pc \in LoginSteps => counter'[d].pw # 0
  <2>1. PICK r : r = [Vacant EXCEPT !.pc = "check", !.kind = "login", !.pw = pw]
    OBVIOUS
  <2>2. r.pc = "check" /\ counter' = [counter EXCEPT ![c] = r]
    BY <1>4, <2>1, AskedOutside DEF Attempt
  <2> QED
    BY <2>2, PasswordStays DEF LoginSteps
<1>5. {"insert", "drop", "hash", "secret", "enable", "disable"} \cap LoginSteps = {}
  BY DEF LoginSteps
<1>6. CASE SetupFirst(c) \/ CreateAccount(c) \/ ChangePassword(c) \/ SetupFactor(c) \/ VerifyFactor(c)
  BY <1>3, <1>5, <1>6 DEF SetupFirst, CreateAccount, ChangePassword, SetupFactor, VerifyFactor
<1>7. CASE DeleteAccount(c) \/ DisableFactor(c)
  BY <1>2, <1>5, <1>7 DEF DeleteAccount, DisableFactor
<1> QED
  BY <1>4, <1>6, <1>7
\* A password that was found right is no empty one.
LEMMA LoginStays ==
  ASSUME AccountInv, PasswordsInv, NEW c \in Counters, CheckPassword(c) \/ FetchUser(c) \/ SecondFactor(c) \/ OpenSession(c)
  PROVE  \A d \in Counters : counter'[d].pc \in LoginSteps => counter'[d].pw # 0
<1>0. counter[c] \in CounterState /\ "fetch" \in CounterSteps
  BY DEF AccountInv, AccountTypes, CounterSteps
<1>1. ASSUME CLeaves(c) PROVE \A d \in Counters : counter'[d].pc \in LoginSteps => counter'[d].pw # 0
  BY <1>1, GoesStays
<1>2. CASE CheckPassword(c)
  <2>1. CASE user # NoUser /\ user.pw = counter[c].pw
    <3>1. PICK r : r = [counter[c] EXCEPT !.pc = "fetch"]
      OBVIOUS
    <3>2. r.pw = counter[c].pw
      BY <1>0, <3>1 DEF CounterState
    <3>3. counter' = [counter EXCEPT ![c] = r]
      BY <1>2, <2>1, <3>1 DEF CheckPassword, CGoes
    <3>4. r.pw # 0
      BY <2>1, <3>2 DEF AccountInv, AccountTypes
    <3> QED
      BY <3>3, <3>4, PasswordStays
  <2>2. CASE ~(user # NoUser /\ user.pw = counter[c].pw)
    BY <1>1, <1>2, <2>2 DEF CheckPassword
  <2> QED
    BY <2>1, <2>2
<1>3. ASSUME CAt(c, "fetch") \/ CAt(c, "second") PROVE counter[c].pw # 0
  BY <1>3 DEF CAt, PasswordsInv, LoginSteps
<1>4. CASE FetchUser(c)
  <2>1. PICK second : second = [counter[c] EXCEPT !.pc = "second", !.left = user.codes]
    OBVIOUS
  <2>2. PICK open : open = [counter[c] EXCEPT !.pc = "session"]
    OBVIOUS
  <2>3. second.pw = counter[c].pw /\ open.pw = counter[c].pw
    BY <1>0, <2>1, <2>2 DEF CounterState
  <2>4. PICK r : r = (IF user = NoUser THEN Vacant ELSE IF user.secret # 0 /\ user.on THEN second ELSE open)
    OBVIOUS
  <2>5. counter' = [counter EXCEPT ![c] = r]
    BY <1>4, <2>1, <2>2, <2>4 DEF FetchUser
  <2>6. counter[c].pw # 0
    BY <1>3, <1>4 DEF FetchUser
  <2>7. r \in {Vacant, second, open}
    BY <2>4
  <2>8. Vacant.pc \notin LoginSteps
    BY DEF Vacant, LoginSteps
  <2>9. r.pc \in LoginSteps => r.pw # 0
    BY <2>3, <2>6, <2>7, <2>8
  <2> QED
    BY <2>5, <2>9, PasswordStays
<1>5. CASE SecondFactor(c)
  <2>1. PICK r : r = [counter[c] EXCEPT !.pc = "session", !.left = {}]
    OBVIOUS
  <2>2. r.pw = counter[c].pw
    BY <1>0, <2>1 DEF CounterState
  <2>3. counter[c].pw # 0
    BY <1>3, <1>5 DEF SecondFactor
  <2>4. counter' = [counter EXCEPT ![c] = r] \/ CLeaves(c)
    <3>1. counter \in [Counters -> CounterState]
      BY DEF AccountInv, AccountTypes
    <3>2. [counter EXCEPT ![c].pc = "session", ![c].left = {}] = [counter EXCEPT ![c] = r]
      BY <1>0, <2>1, <3>1 DEF CounterState
    <3> QED
      BY <1>5, <3>2 DEF SecondFactor
  <2> QED
    BY <1>1, <2>2, <2>3, <2>4, PasswordStays
<1>6. CASE OpenSession(c)
  BY <1>1, <1>6 DEF OpenSession
<1> QED
  BY <1>2, <1>4, <1>5, <1>6
LEMMA WritingStays ==
  ASSUME AccountInv, PasswordsInv, NEW c \in Counters,
         \/ InsertUser(c) \/ MirrorUser(c) \/ SambaUser(c) \/ DropUser(c) \/ UnmirrorUser(c) \/ WriteHash(c)
         \/ SetSmb(c) \/ RestoreHash(c) \/ Expel(c) \/ WriteSecret(c) \/ EnableFactor(c) \/ ClearFactor(c)
  PROVE  \A d \in Counters : counter'[d].pc \in LoginSteps => counter'[d].pw # 0
<1>1. {"mirror", "samba", "unmirror", "smb", "expel", "rollback"} \cap LoginSteps = {}
  BY DEF LoginSteps
<1>2. ASSUME MirrorUser(c), ~CLeaves(c) PROVE \A d \in Counters : counter'[d].pc \in LoginSteps => counter'[d].pw # 0
  <2>1. PICK r : r = [counter[c] EXCEPT !.pc = "samba", !.made = linux = "none"]
    OBVIOUS
  <2>2. counter[c] \in CounterState /\ counter \in [Counters -> CounterState]
    BY DEF AccountInv, AccountTypes
  <2>3. r.pc = "samba"
    BY <2>1, <2>2 DEF CounterState
  <2>4. [counter EXCEPT ![c].pc = "samba", ![c].made = linux = "none"] = [counter EXCEPT ![c] = r]
    BY <2>1, <2>2 DEF CounterState
  <2>5. counter' = [counter EXCEPT ![c] = r]
    BY <1>2, <2>4 DEF MirrorUser
  <2> QED
    BY <1>1, <2>3, <2>5, PasswordStays
<1>3. CASE InsertUser(c) \/ DropUser(c) \/ WriteHash(c) \/ SetSmb(c)
  BY <1>1, <1>3, GoesStays DEF InsertUser, DropUser, WriteHash, SetSmb
<1>4. CASE \/ MirrorUser(c) \/ SambaUser(c) \/ UnmirrorUser(c) \/ RestoreHash(c) \/ Expel(c) \/ WriteSecret(c)
           \/ EnableFactor(c) \/ ClearFactor(c)
  <2>1. CLeaves(c) \/ MirrorUser(c)
    BY <1>4 DEF SambaUser, UnmirrorUser, RestoreHash, Expel, WriteSecret, EnableFactor, ClearFactor
  <2> QED
    BY <1>2, <2>1, GoesStays
<1> QED
  BY <1>3, <1>4
\* A session is opened with the password that the request came with, or was checked with.
LEMMA SessionsStay ==
  ASSUME AccountInv, PasswordsInv, AccountNext \/ UNCHANGED accountVars
  PROVE  \A s \in sessions' : s.pw # 0
<1>1. ASSUME sessions' \subseteq sessions PROVE \A s \in sessions' : s.pw # 0
  BY <1>1 DEF PasswordsInv
<1>2. ASSUME NEW c \in Counters, SambaUser(c) PROVE \A s \in sessions' : s.pw # 0
  <2>1. counter[c].pw # 0
    <3>1. counter[c].pc = "samba"
      BY <1>2 DEF SambaUser, CAt
    <3> QED
      BY <3>1, HandIs DEF AccountInv
  <2>2. sessions' \in {sessions, Opened(c), {}}
    BY <1>2 DEF SambaUser, Dropped
  <2> QED
    BY <2>1, <2>2, OpenedHasPassword
<1>3. ASSUME NEW c \in Counters, OpenSession(c) PROVE \A s \in sessions' : s.pw # 0
  <2>1. counter[c].pw # 0
    BY <1>3 DEF OpenSession, CAt, PasswordsInv, LoginSteps
  <2>2. sessions' = Opened(c)
    BY <1>3 DEF OpenSession
  <2> QED
    BY <2>1, <2>2, OpenedHasPassword
<1>4. ASSUME NEW c \in Counters, NEW r, Asks(c, r) PROVE sessions' = sessions
  BY <1>4 DEF Asks
<1>5. ASSUME NEW c \in Counters, \/ SetupFirst(c) \/ CreateAccount(c) \/ DeleteAccount(c) \/ ChangePassword(c) \/ SetupFactor(c)
                                 \/ VerifyFactor(c) \/ DisableFactor(c)
      PROVE  sessions' = sessions
  BY <1>4, <1>5, Zenon DEF SetupFirst, CreateAccount, DeleteAccount, ChangePassword, SetupFactor, VerifyFactor, DisableFactor, AsksFor, BringsFor
<1>6. ASSUME NEW c \in Counters, \/ InsertUser(c) \/ MirrorUser(c) \/ DropUser(c) \/ UnmirrorUser(c) \/ WriteHash(c) \/ SetSmb(c)
                                 \/ RestoreHash(c) \/ Expel(c) \/ CheckPassword(c) \/ FetchUser(c) \/ SecondFactor(c)
                                 \/ WriteSecret(c) \/ EnableFactor(c) \/ ClearFactor(c) \/ \E pw \in {0, user.pw} : Attempt(c, pw)
      PROVE  sessions' = sessions \/ sessions' = {}
  BY <1>6 DEF InsertUser, MirrorUser, DropUser, UnmirrorUser, WriteHash, SetSmb, RestoreHash, Expel, CheckPassword, FetchUser,
              SecondFactor, WriteSecret, EnableFactor, ClearFactor, Attempt, Dropped
<1>7. CASE UNCHANGED accountVars \/ CloseSession \/ LimitAges \/ CrashAccounts
  BY <1>1, <1>7 DEF accountVars, CloseSession, LimitAges, CrashAccounts
<1>8. CASE AccountNext
  BY <1>1, <1>2, <1>3, <1>5, <1>6, <1>7, <1>8 DEF AccountNext
<1> QED
  BY <1>7, <1>8
LEMMA CountersStay ==
  ASSUME AccountInv, PasswordsInv, AccountNext \/ UNCHANGED accountVars
  PROVE  \A d \in Counters : counter'[d].pc \in LoginSteps => counter'[d].pw # 0
<1>1. CASE UNCHANGED accountVars \/ CloseSession \/ LimitAges
  <2>1. counter' = counter
    BY <1>1 DEF accountVars, CloseSession, LimitAges
  <2> QED
    BY <2>1 DEF PasswordsInv
<1>2. CASE CrashAccounts
  <2>1. counter' = [c \in Counters |-> Vacant]
    BY <1>2 DEF CrashAccounts
  <2>2. Vacant.pc \notin LoginSteps
    BY DEF Vacant, LoginSteps
  <2> QED
    BY <2>1, <2>2
<1>3. CASE AccountNext
  BY <1>1, <1>2, <1>3, AskingStays, LoginStays, WritingStays DEF AccountNext
<1> QED
  BY <1>1, <1>3
LEMMA PasswordsStep ==
  ASSUME AccountInv, PasswordsInv, AccountNext \/ UNCHANGED accountVars
  PROVE  PasswordsInv'
  BY SessionsStay, CountersStay, CrowdIsGroups DEF PasswordsInv
LEMMA PasswordsStart == AccountInit => PasswordsInv
  BY DEF AccountInit, PasswordsInv, Vacant, LoginSteps
LEMMA AccountTyped ==
  ASSUME AccountInv, PasswordsInv
  PROVE  AccountTypeOK
<1>1. user \in UserState /\ linux \in {"none", "ours", "person"} /\ smbPw \in Nat /\ sessions \subseteq SessionState
      /\ limit \in LimitState /\ (user = NoUser => sessions = {}) /\ counter \in [Counters -> CounterState]
  BY DEF AccountInv, AccountTypes
<1>2. {user.pw, user.secret} \subseteq Nat /\ user.on \in BOOLEAN
  BY <1>1 DEF UserState
<1>3. \A s \in sessions : s.pw \in Nat \ {0} /\ s.late \in BOOLEAN
  <2>1. ASSUME NEW s \in sessions PROVE s.pw \in Nat /\ s.late \in BOOLEAN
    <3>1. s \in SessionState
      BY <1>1
    <3> QED
      BY <3>1 DEF SessionState
  <2> QED
    BY <2>1 DEF PasswordsInv
<1>4. limit \in [count : Nat, until : {"none", "ahead", "past"}, recent : BOOLEAN]
  BY <1>1, Zenon DEF LimitState
<1>5. DOMAIN counter = Counters /\ crowd \subseteq {Identity, Factor, Login}
  BY <1>1 DEF PasswordsInv, Groups
<1> QED
  BY <1>1, <1>2, <1>3, <1>4, <1>5, Zenon DEF AccountTypeOK

-----------------------------------------------------------------------------
\* Every table, file and counter of the daemon's requests has the values that its columns and
\* structs are declared with, in whichever part requests are under way (db.go, shield.go,
\* shares.go, files.go, tempshares_db.go, service_registry.go); for any number of requests,
\* passes, faults and crashes.
THEOREM DaemonTypes == DaemonSpec => []DaemonTypesOK
<1> DEFINE Typed == /\ part = "pairing" => PairInv
                    /\ part = "shield" => ShieldInv /\ NumbersGiven
                    /\ part = "reputation" => RepInv /\ StanceTypes
                    /\ part = "shares" => ShareInv
                    /\ part = "files" => FilesInv
                    /\ part = "links" => LinkInv
                    /\ part = "accounts" => AccountInv /\ PasswordsInv
                    /\ part = "services" => ServiceInv
                    /\ part = "identity" => UidInv
                    /\ part = "chores" => ChoreInv
                    /\ part = "updates" => UpdInv
                    /\ part = "intel" => FeedInv
<1>1. DaemonStart => Typed
  BY PairingStarts, ShieldStarts, NumbersStart, ReputationStarts, StanceStarts, SharesStart, FilesStart, LinkInvInit, AccountStarts,
     PasswordsStart, ServiceStarts, UidStarts, ChoresStart, UpdatesStart, IntelStarts DEF DaemonStart
<1>2. Typed /\ [DaemonNext]_daemonVars => Typed'
  <2> SUFFICES ASSUME Typed, [DaemonNext]_daemonVars PROVE Typed'
    OBVIOUS
  <2>1. /\ part' = "pairing" => part = "pairing" /\ (PairingNext \/ UNCHANGED pairingVars)
        /\ part' = "shield" => part = "shield" /\ [ShieldNext]_shieldVars
        /\ part' = "reputation" => part = "reputation" /\ [ReputationNext]_reputationVars
        /\ part' = "shares" => part = "shares" /\ (ShareNext \/ UNCHANGED shareVars)
        /\ part' = "files" => part = "files" /\ (FileNext \/ UNCHANGED fileVars)
        /\ part' = "links" => part = "links" /\ [LinkNext]_linkVars
    BY DEF DaemonNext, daemonVars
  <2>2. /\ part' = "accounts" => part = "accounts" /\ (AccountNext \/ UNCHANGED accountVars)
        /\ part' = "services" => part = "services" /\ (ServiceNext \/ UNCHANGED serviceVars)
        /\ part' = "identity" => part = "identity" /\ (AppUidNext \/ UNCHANGED appUidVars)
        /\ part' = "chores" => part = "chores" /\ (MaintenanceNext \/ UNCHANGED maintenanceVars)
        /\ part' = "updates" => part = "updates" /\ (UpdateNext \/ UNCHANGED updateVars)
        /\ part' = "intel" => part = "intel" /\ [IntelNext]_feedVars
    BY DEF DaemonNext, daemonVars
  <2>3. /\ part' = "pairing" => PairInv'
        /\ part' = "shield" => ShieldInv' /\ NumbersGiven'
        /\ part' = "reputation" => RepInv' /\ StanceTypes'
    BY <2>1, PairingKeeps, PairingRests, ShieldStep, NumbersStep, ReputationStep, StanceStep
  <2>4. /\ part' = "shares" => ShareInv'
        /\ part' = "files" => FilesInv'
        /\ part' = "links" => LinkInv'
        /\ part' = "accounts" => AccountInv' /\ PasswordsInv'
    BY <2>1, <2>2, ShareStep, FilesStep, LinkStep, AccountStep, PasswordsStep
  <2>5. /\ part' = "services" => ServiceInv'
        /\ part' = "identity" => UidInv'
        /\ part' = "chores" => ChoreInv'
        /\ part' = "updates" => UpdInv'
        /\ part' = "intel" => FeedInv'
    BY <2>2, ServiceStep, UidStep, ChoreStep, UpdateStep, FeedStep
  <2> QED
    BY <2>3, <2>4, <2>5
<1>3. Typed => DaemonTypesOK
  <2>1. LinkInv => LinkTypeOK
    BY DEF LinkInv
  <2> QED
    BY <2>1, PairingStaysConsistent, ShieldTyped, ReputationTyped, ShareInvSays, FilesInvSays, AccountTyped, ServicesStayConsistent,
       IdentitiesStayConsistent, ChoresStayConsistent, UpdatesStayConsistent, FeedInvSays DEF DaemonTypesOK
<1> HIDE DEF Typed
<1> QED
  BY <1>1, <1>2, <1>3, PTL DEF DaemonSpec
=============================================================================
