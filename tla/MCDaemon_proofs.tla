-------------------------- MODULE MCDaemon_proofs --------------------------
(***************************************************************************)
(* What TLC checks of the parts of the daemon on small instances, proved    *)
(* for every value of their constants.  Each part has an inductive          *)
(* invariant of its own; the parts share nothing.                           *)
(***************************************************************************)
EXTENDS MCDaemon, TLAPS, WellFoundedInduction, FiniteSetTheorems

-----------------------------------------------------------------------------
(* Pairing.  Rows of devices are never given a new id or owner, and a token *)
(* is the id of the row that holds its hash: whatever a pairing has in its  *)
(* hand stays true of the rows until they are deleted, which is on record.  *)

MountNames == {NameOf[n] : n \in Nas}
RemoteState == [records : SUBSET [dev : Nat, at : MountNames, of : Nas],
                mounted : SUBSET [at : MountNames, of : Nas]]
PairSteps == {"idle", "token", "register", "store", "wireguard", "exchange", "assigned", "peer", "addr", "notify"}
PairState == [pc : PairSteps, to : Nas \cup {Absent}, id : Nat \cup {Absent}, got : Nat \cup {Absent},
              wg : WgState \cup {Absent}, mine : Nat \cup {Absent}, theirs : Nat \cup {Absent}]

PairTypes ==
  /\ devices \in [Nas -> SUBSET Device] /\ wg \in [Nas -> WgState \cup {Absent}]
  /\ pairing \in [Nas -> PairState] /\ remote \in [Nas -> RemoteState]
  /\ exports \in [Nas -> SUBSET Nas] /\ stray \in [Nas -> SUBSET MountNames]
  /\ issued \in Nat /\ revoked \subseteq 1..issued
  /\ pairAsked \in Nat /\ pairFaults \in Nat

Hashed(m, t) == (\E e \in devices[m] : e.hash = t) \/ t \in revoked
\* Ids are given once; a hash is that of the row's own token; what a row sends is known.
RowsOK == \A n \in Nas :
  /\ \A d \in devices[n] : /\ d.id \in 1..issued /\ d.hash \in {Absent, d.id}
                           /\ d.out # Absent => d.out \in 1..issued /\ Hashed(d.who, d.out)
  /\ \A d, e \in devices[n] : d.id = e.id => d = e
\* What a pairing has so far.
HandOK(n) ==
  /\ pairing[n].pc # "idle" => /\ pairing[n].to \in Nas /\ pairing[n].id \in 1..issued
                              /\ \A d \in devices[n] : d.id = pairing[n].id => d.who = pairing[n].to
  /\ pairing[n].pc \in {"token", "register"} => pairing[n].got = Absent
  /\ pairing[n].pc = "token" => HasRow(n, pairing[n].id) \/ pairing[n].id \in revoked
  /\ pairing[n].pc = "register" => Hashed(n, pairing[n].id)
  /\ pairing[n].pc = "store" /\ pairing[n].got # Absent
       => pairing[n].got \in 1..issued /\ Hashed(pairing[n].to, pairing[n].got)
HandsOK == \A n \in Nas : HandOK(n)
\* Peers of a state of the tunnel have keys and addresses of their own, below the next.
Sound(s) == /\ \A p, q \in s.peers : p.ip = q.ip \/ p.key = q.key => p = q
            /\ \A p \in s.peers : p.ip < s.next
TunnelsOK == \A n \in Nas :
  /\ wg[n] # Absent => Sound(wg[n])
  /\ pairing[n].pc \in {"exchange", "assigned"} => pairing[n].wg \in WgState /\ Sound(pairing[n].wg)
  /\ pairing[n].pc \in {"assigned", "peer", "addr", "notify"} => pairing[n].mine \in Nat /\ pairing[n].theirs \in Nat
\* A record is mounted at the name of the device of its row.
MountsOK == \A n \in Nas :
  /\ MountPoints(remote[n].mounted) \subseteq MountPoints(remote[n].records) \cup stray[n]
  /\ \A r \in remote[n].records : /\ r.dev <= issued
                                  /\ \A d \in devices[n] : d.id = r.dev => r.at = NameOf[d.who]
PairInv == PairTypes /\ RowsOK /\ HandsOK /\ TunnelsOK /\ MountsOK

LEMMA PairingStarts == PairingInit => PairInv
<1> SUFFICES ASSUME PairingInit PROVE PairInv
  OBVIOUS
<1> USE PairingAssumption DEF PairingInit
<1>1. Unpaired \in PairState /\ Unpaired.pc = "idle"
  BY DEF Unpaired, PairState, PairSteps
<1>2. PairTypes
  BY <1>1 DEF PairTypes, RemoteState
<1>3. RowsOK /\ HandsOK /\ TunnelsOK /\ MountsOK
  BY <1>1 DEF RowsOK, HandsOK, HandOK, TunnelsOK, MountsOK, MountPoints
<1> QED
  BY <1>2, <1>3 DEF PairInv

\* How the rows may change: each that was there is there with its id, its owner and its
\* hash, or is revoked; the others are new.
Succeed ==
  /\ revoked \subseteq revoked' /\ issued <= issued'
  /\ \A n \in Nas : \A d \in devices[n] :
       d.id \in revoked' \/ \E e \in devices'[n] : e.id = d.id /\ (d.hash = Absent \/ e.hash = d.hash)
  /\ \A n \in Nas : \A e \in devices'[n] :
       e.id > issued \/ \E d \in devices[n] : e.id = d.id /\ e.who = d.who

LEMMA HashedStays == ASSUME PairInv, Succeed, NEW m \in Nas, NEW t \in 1..issued, Hashed(m, t)
                     PROVE  Hashed(m, t)'
<1>1. CASE t \in revoked
  BY <1>1 DEF Succeed, Hashed
<1>2. CASE t \notin revoked
  <2>1. PICK e \in devices[m] : e.hash = t
    BY <1>2 DEF Hashed
  <2>2. e.id = t /\ e.hash # Absent
    BY <2>1, PairingAssumption DEF PairInv, RowsOK
  <2> QED
    BY <2>1, <2>2 DEF Succeed, Hashed
<1> QED
  BY <1>1, <1>2

LEMMA RowFound == ASSUME PairInv, NEW n \in Nas, NEW id \in Nat, HasRow(n, id)
                  PROVE  PairRow(n, id) \in devices[n] /\ PairRow(n, id).id = id /\ PairRow(n, id) \in Device
  BY DEF HasRow, PairRow, PairInv, PairTypes

\* A row is written with its own id, owner and hash, or with the hash of its token.
LEMMA Replacing ==
  ASSUME PairInv, NEW n \in Nas, NEW id \in 1..issued, NEW new,
         HasRow(n, id) => /\ new \in Device /\ new.id = id /\ new.who = PairRow(n, id).who
                          /\ new.hash = PairRow(n, id).hash \/ new.hash = id
                          /\ new.out # Absent => new.out \in 1..issued /\ Hashed(new.who, new.out),
         devices' = Replaced(n, id, new), UNCHANGED <<issued, revoked>>
  PROVE  /\ devices' \in [Nas -> SUBSET Device] /\ Succeed /\ RowsOK'
         /\ HasRow(n, id) => new \in devices'[n]
         /\ \A m \in Nas : \A e \in devices'[m] : \E d \in devices[m] : e.id = d.id /\ e.who = d.who
<1> DEFINE old == PairRow(n, id)
<1> HIDE DEF old
<1>0. devices \in [Nas -> SUBSET Device] /\ issued \in Nat /\ revoked \subseteq 1..issued /\ id \in Nat
  BY DEF PairInv, PairTypes
<1>1. CASE ~HasRow(n, id)
  <2>1. devices' = devices
    BY <1>1 DEF Replaced
  <2>2. \A m \in Nas : \A t : Hashed(m, t) => Hashed(m, t)'
    BY <2>1 DEF Hashed
  <2>3. RowsOK'
    BY <2>1, <2>2 DEF PairInv, RowsOK, Hashed
  <2>4. Succeed
    BY <1>0, <2>1 DEF Succeed
  <2> QED
    BY <1>0, <1>1, <2>1, <2>3, <2>4
<1>2. CASE HasRow(n, id)
  <2>1. old \in devices[n] /\ old.id = id /\ old \in Device
    BY <1>2, <1>0, RowFound DEF old
  <2>2. new \in Device /\ new.id = id /\ new.who = old.who /\ (new.hash = old.hash \/ new.hash = id)
    BY <1>2 DEF old
  <2>3. devices' = [devices EXCEPT ![n] = (devices[n] \ {old}) \cup {new}]
    BY <1>2 DEF Replaced, old
  <2>4. /\ devices'[n] = (devices[n] \ {old}) \cup {new}
        /\ \A m \in Nas : m # n => devices'[m] = devices[m]
        /\ devices' \in [Nas -> SUBSET Device]
    BY <2>2, <2>3, <1>0
  <2>5. old.hash \in {Absent, id} /\ (\A d \in devices[n] : d.id = id => d = old)
    BY <2>1 DEF PairInv, RowsOK
  <2>6. Succeed
    <3>1. \A m \in Nas : \A d \in devices[m] : \E e \in devices'[m] : e.id = d.id /\ (d.hash = Absent \/ e.hash = d.hash)
      BY <2>1, <2>2, <2>4, <2>5
    <3>2. \A m \in Nas : \A e \in devices'[m] : \E d \in devices[m] : e.id = d.id /\ e.who = d.who
      BY <2>1, <2>2, <2>4
    <3> QED
      BY <1>0, <3>1, <3>2 DEF Succeed
  <2>7. \A m \in Nas : \A e \in devices'[m] : \E d \in devices[m] : e.id = d.id /\ e.who = d.who
    BY <2>1, <2>2, <2>4
  <2>8. ASSUME NEW m \in Nas, NEW t \in 1..issued, Hashed(m, t) PROVE Hashed(m, t)'
    BY <2>6, <2>8, HashedStays
  <2>9. RowsOK'
    <3>1. \A d \in devices'[n] : /\ d.id \in 1..issued /\ d.hash \in {Absent, d.id}
                                 /\ d.out # Absent => d.out \in 1..issued /\ Hashed(d.who, d.out)
      BY <1>2, <2>2, <2>4, <2>5 DEF PairInv, RowsOK
    <3>2. \A m \in Nas : \A d \in devices'[m] : d.out # Absent => d.out \in 1..issued /\ Hashed(d.who, d.out)
      BY <3>1, <2>4 DEF PairInv, RowsOK
    <3>3. \A m \in Nas : \A d \in devices'[m] : d.who \in Nas
      BY <2>4 DEF Device
    <3>4. \A m \in Nas : \A d \in devices'[m] : d.out # Absent => d.out \in 1..issued /\ Hashed(d.who, d.out)'
      BY <3>2, <3>3, <2>8
    <3>5. \A m \in Nas : \A d, e \in devices'[m] : d.id = e.id => d = e
      BY <2>4, <2>5, <2>2 DEF PairInv, RowsOK
    <3>6. \A m \in Nas : \A d \in devices'[m] : d.id \in 1..issued /\ d.hash \in {Absent, d.id}
      BY <3>1, <2>4 DEF PairInv, RowsOK
    <3> QED
      BY <3>4, <3>5, <3>6 DEF RowsOK
  <2> QED
    BY <2>2, <2>4, <2>6, <2>7, <2>9
<1> QED
  BY <1>1, <1>2

\* What hands hold and records say stays true when the rows succeed one another.
LEMMA HandStays ==
  ASSUME PairInv, Succeed, NEW n \in Nas, pairing'[n] = pairing[n], issued' \in Nat
  PROVE  HandOK(n)'
<1> DEFINE p == pairing[n]
<1>0. issued \in Nat /\ 1..issued \subseteq 1..issued' /\ HandOK(n)
  BY DEF PairInv, PairTypes, HandsOK, Succeed
<1>1. ASSUME p.pc # "idle"
      PROVE  p.to \in Nas /\ p.id \in 1..issued' /\ \A d \in devices'[n] : d.id = p.id => d.who = p.to
  BY <1>0, <1>1 DEF HandOK, Succeed
<1>2. p.pc \in {"token", "register"} => p.got = Absent
  BY <1>0 DEF HandOK
<1>3. ASSUME p.pc = "token" PROVE (\E e \in devices'[n] : e.id = p.id) \/ p.id \in revoked'
  BY <1>0, <1>3 DEF HandOK, HasRow, Succeed
<1>4. ASSUME NEW m \in Nas, NEW t \in 1..issued, Hashed(m, t)
      PROVE  (\E e \in devices'[m] : e.hash = t) \/ t \in revoked'
  BY <1>4, HashedStays DEF Hashed
<1>5. ASSUME p.pc = "register" PROVE (\E e \in devices'[n] : e.hash = p.id) \/ p.id \in revoked'
  BY <1>0, <1>5, <1>4 DEF HandOK
<1>6. ASSUME p.pc = "store", p.got # Absent
      PROVE  p.got \in 1..issued' /\ ((\E e \in devices'[p.to] : e.hash = p.got) \/ p.got \in revoked')
  BY <1>0, <1>6, <1>4 DEF HandOK
<1> QED
  BY <1>1, <1>2, <1>3, <1>5, <1>6 DEF HandOK, HasRow, Hashed

LEMMA RecordsStay ==
  ASSUME PairInv, Succeed, issued' \in Nat, UNCHANGED <<remote, stray>>
  PROVE  MountsOK'
<1>1. remote' = remote /\ stray' = stray
  OBVIOUS
<1>2. ASSUME NEW n \in Nas, NEW r \in remote[n].records
      PROVE  r.dev <= issued' /\ \A d \in devices'[n] : d.id = r.dev => r.at = NameOf[d.who]
  <2>1. r.dev \in Nat /\ issued \in Nat
    BY DEF PairInv, PairTypes, RemoteState
  <2>2. r.dev <= issued /\ \A d \in devices[n] : d.id = r.dev => r.at = NameOf[d.who]
    BY DEF PairInv, MountsOK
  <2> QED
    BY <2>1, <2>2 DEF Succeed
<1> QED
  BY <1>1, <1>2 DEF PairInv, MountsOK, MountPoints

LEMMA NothingOfRows ==
  ASSUME PairInv, UNCHANGED <<devices, issued, revoked>>
  PROVE  /\ Succeed /\ RowsOK' /\ issued' \in Nat /\ devices' \in [Nas -> SUBSET Device] /\ revoked' \subseteq 1..issued'
         /\ \A n \in Nas : pairing'[n] = pairing[n] => HandOK(n)'
<1>1. devices' = devices /\ issued' = issued /\ revoked' = revoked /\ issued \in Nat
  BY DEF PairInv, PairTypes
<1>2. Succeed
  BY <1>1 DEF Succeed
<1>3. RowsOK'
  BY <1>1 DEF PairInv, RowsOK, Hashed
<1> QED
  BY <1>1, <1>2, <1>3, HandStays DEF PairInv, PairTypes

\* What is kept of a tunnel when neither its states nor the hand of a NAS change.
LEMMA TunnelStays ==
  ASSUME PairInv, NEW n \in Nas, pairing'[n] = pairing[n], wg'[n] = wg[n]
  PROVE  /\ wg'[n] # Absent => Sound(wg'[n])
         /\ pairing'[n].pc \in {"exchange", "assigned"} => pairing'[n].wg \in WgState /\ Sound(pairing'[n].wg)
         /\ pairing'[n].pc \in {"assigned", "peer", "addr", "notify"} => pairing'[n].mine \in Nat /\ pairing'[n].theirs \in Nat
  BY DEF PairInv, TunnelsOK

\* A hand takes one more step, or is put down.
LEMMA HandSteps ==
  ASSUME PairInv, NEW n \in Nas, NEW pc \in PairSteps, pairing' = [pairing EXCEPT ![n].pc = pc]
  PROVE  /\ pairing' \in [Nas -> PairState] /\ pairing'[n].pc = pc
         /\ pairing'[n].to = pairing[n].to /\ pairing'[n].id = pairing[n].id /\ pairing'[n].got = pairing[n].got
         /\ pairing'[n].wg = pairing[n].wg /\ pairing'[n].mine = pairing[n].mine
         /\ pairing'[n].theirs = pairing[n].theirs
         /\ \A m \in Nas : m # n => pairing'[m] = pairing[m]
<1>1. pairing \in [Nas -> PairState] /\ pairing[n] \in PairState
  BY DEF PairInv, PairTypes
<1>2. pairing'[n] = [pairing[n] EXCEPT !.pc = pc]
  BY <1>1
<1>3. [pairing[n] EXCEPT !.pc = pc] \in PairState
  BY <1>1 DEF PairState
<1> QED
  BY <1>1, <1>2, <1>3 DEF PairState
LEMMA HandPutDown ==
  ASSUME PairInv, NEW n \in Nas, pairing' = [pairing EXCEPT ![n] = Unpaired]
  PROVE  /\ pairing' \in [Nas -> PairState] /\ pairing'[n] = Unpaired /\ Unpaired.pc = "idle"
         /\ \A m \in Nas : m # n => pairing'[m] = pairing[m]
<1>1. Unpaired \in PairState /\ Unpaired.pc = "idle"
  BY DEF Unpaired, PairState, PairSteps
<1> QED
  BY <1>1 DEF PairInv, PairTypes

LEMMA PairWithRemoteKeeps ==
  ASSUME PairInv, NEW n \in Nas, NEW m \in Nas, PairWithRemote(n, m) PROVE PairInv'
<1> USE DEF PairWithRemote, PairRequest
<1> DEFINE row == [id |-> issued + 1, who |-> m, addr |-> Reach(n, m), hash |-> Absent, out |-> Absent]
           hand == [Unpaired EXCEPT !.pc = "token", !.to = m, !.id = issued + 1]
<1>0. PairTypes /\ RowsOK /\ HandsOK /\ TunnelsOK /\ MountsOK
  BY DEF PairInv
<1>1. issued \in Nat /\ issued' = issued + 1 /\ revoked' = revoked /\ devices \in [Nas -> SUBSET Device]
  BY <1>0 DEF PairTypes
<1>2. Reach(n, m) \in Addr
  BY DEF Reach, Private, Public, Addr
<1>3. row \in Device /\ row.id = issued + 1 /\ row.who = m /\ row.hash = Absent /\ row.out = Absent
  BY <1>1, <1>2 DEF Device
<1>4. devices' = [devices EXCEPT ![n] = devices[n] \cup {row}]
  OBVIOUS
<1>5. /\ hand \in PairState /\ hand.pc = "token" /\ hand.to = m /\ hand.id = issued + 1 /\ hand.got = Absent
  <2>1. Unpaired \in PairState /\ Unpaired.got = Absent
    BY DEF Unpaired, PairState, PairSteps
  <2>2. issued + 1 \in Nat /\ "token" \in PairSteps
    BY <1>1 DEF PairSteps
  <2> QED
    BY <2>1, <2>2 DEF PairState
<1>6. pairing' = [pairing EXCEPT ![n] = hand]
  OBVIOUS
<1> HIDE DEF row, hand
<1>7. /\ devices'[n] = devices[n] \cup {row} /\ devices' \in [Nas -> SUBSET Device]
      /\ \A k \in Nas : k # n => devices'[k] = devices[k]
  BY <1>1, <1>3, <1>4
<1>8. pairing'[n] = hand /\ \A k \in Nas : k # n => pairing'[k] = pairing[k]
  BY <1>0, <1>6 DEF PairTypes
<1>9. Succeed
  BY <1>1, <1>3, <1>7 DEF Succeed
<1>10. PairTypes'
  BY <1>0, <1>1, <1>5, <1>6, <1>7 DEF PairTypes
<1>11. RowsOK'
  <2>1. \A k \in Nas : \A d \in devices[k] : d.id \in 1..issued /\ d.who \in Nas
    BY <1>0, <1>1 DEF RowsOK, Device
  <2>2. ASSUME NEW k \in Nas, NEW d \in devices[k]
        PROVE  d.id \in 1..issued' /\ d.hash \in {Absent, d.id} /\ (d.out # Absent => d.out \in 1..issued' /\ Hashed(d.who, d.out)')
    BY <1>0, <1>1, <1>9, <2>1, HashedStays DEF RowsOK
  <2>3. \A k \in Nas : \A d, e \in devices'[k] : d.id = e.id => d = e
    BY <1>0, <1>1, <1>3, <1>7, <2>1 DEF RowsOK
  <2>4. \A d \in devices'[n] : d \in devices[n] \/ (d.id \in 1..issued' /\ d.hash = Absent /\ d.out = Absent)
    BY <1>1, <1>3, <1>7
  <2> QED
    BY <1>7, <2>2, <2>3, <2>4 DEF RowsOK
<1>12. HandsOK'
  <2>1. HandOK(n)'
    <3>1. \A d \in devices[n] : d.id \in 1..issued
      BY <1>0 DEF RowsOK
    <3>2. \A d \in devices'[n] : d.id = issued + 1 => d.who = m
      BY <1>1, <1>3, <1>7, <3>1
    <3>3. row \in devices'[n] /\ issued + 1 \in 1..issued'
      BY <1>1, <1>7
    <3> QED
      BY <1>3, <1>5, <1>8, <3>2, <3>3 DEF HandOK, HasRow
  <2>2. \A k \in Nas : k # n => HandOK(k)'
    BY <1>1, <1>8, <1>9, HandStays
  <2> QED
    BY <2>1, <2>2 DEF HandsOK
<1>13. TunnelsOK'
  BY <1>5, <1>8, TunnelStays, <1>0 DEF TunnelsOK
<1>14. MountsOK'
  BY <1>1, <1>9, RecordsStay
<1> QED
  BY <1>10, <1>11, <1>12, <1>13, <1>14 DEF PairInv

\* The token of a row is kept: the row exists, or was deleted.
LEMMA SetPairTokenKeeps ==
  ASSUME PairInv, NEW n \in Nas, SetPairToken(n) PROVE PairInv'
<1> USE DEF SetPairToken, PairAt, PairStep
<1> DEFINE id == pairing[n].id  new == [PairRow(n, id) EXCEPT !.hash = id]
<1>0. PairTypes /\ RowsOK /\ HandsOK /\ TunnelsOK /\ MountsOK /\ HandOK(n) /\ issued' = issued /\ revoked' = revoked
  BY DEF PairInv, HandsOK
<1>1. id \in 1..issued /\ id \in Nat /\ id # Absent /\ issued \in Nat
  BY <1>0, PairingAssumption DEF HandOK, PairTypes
<1>2. HasRow(n, id) => /\ new \in Device /\ new.id = id /\ new.who = PairRow(n, id).who /\ new.hash = id
                       /\ new.out = PairRow(n, id).out /\ PairRow(n, id) \in devices[n]
  BY <1>1, RowFound DEF Device
<1>3. HasRow(n, id) => (new.out # Absent => new.out \in 1..issued /\ Hashed(new.who, new.out))
  BY <1>0, <1>2 DEF RowsOK
<1>4. devices' = Replaced(n, id, new) /\ pairing' = [pairing EXCEPT ![n].pc = "register"]
  OBVIOUS
<1> HIDE DEF new
<1>5. /\ devices' \in [Nas -> SUBSET Device] /\ Succeed /\ RowsOK' /\ (HasRow(n, id) => new \in devices'[n])
  BY <1>0, <1>1, <1>2, <1>3, <1>4, Replacing
<1>6. /\ pairing' \in [Nas -> PairState] /\ pairing'[n].pc = "register" /\ pairing'[n].to = pairing[n].to
      /\ pairing'[n].id = id /\ pairing'[n].got = pairing[n].got
      /\ \A k \in Nas : k # n => pairing'[k] = pairing[k]
  BY <1>4, HandSteps, Zenon DEF PairSteps
<1>7. PairTypes'
  BY <1>0, <1>5, <1>6 DEF PairTypes
<1>8. HandOK(n)'
  <2>1. \A d \in devices'[n] : d.id = id => d.who = pairing[n].to
    BY <1>0, <1>1, <1>5 DEF HandOK, Succeed
  <2>2. Hashed(n, id)'
    BY <1>0, <1>2, <1>5 DEF Hashed, HandOK
  <2> QED
    BY <1>0, <1>1, <1>6, <2>1, <2>2 DEF HandOK
<1>9. HandsOK'
  BY <1>0, <1>1, <1>5, <1>6, <1>8, HandStays DEF HandsOK
<1>10. TunnelsOK'
  BY <1>0, <1>6, TunnelStays DEF TunnelsOK
<1>11. MountsOK'
  BY <1>0, <1>1, <1>5, RecordsStay
<1> QED
  BY <1>5, <1>7, <1>9, <1>10, <1>11 DEF PairInv

\* A row that is written only in part.
LEMMA PartOfRow ==
  ASSUME NEW r \in Device, NEW w,
         w = r \/ w = [r EXCEPT !.out = Absent] \/ w = [r EXCEPT !.out = Absent, !.hash = Absent]
  PROVE  /\ w \in Device /\ w.id = r.id /\ w.who = r.who /\ w.hash \in {Absent, r.hash} /\ w.out \in {Absent, r.out}
<1>1. CASE w = r
  BY <1>1
<1>2. CASE w = [r EXCEPT !.out = Absent]
  BY <1>2 DEF Device
<1>3. CASE w = [r EXCEPT !.out = Absent, !.hash = Absent]
  BY <1>3 DEF Device
<1> QED
  BY <1>1, <1>2, <1>3

LEMMA RegisterDeviceKeeps ==
  ASSUME PairInv, NEW n \in Nas, RegisterDevice(n) PROVE PairInv'
<1> USE DEF RegisterDevice, PairAt, PairStep
<1> DEFINE m == pairing[n].to
           new == issued + 1
           row == [id |-> new, who |-> n, addr |-> Private(n), hash |-> new, out |-> pairing[n].id]
<1>0. PairTypes /\ RowsOK /\ HandsOK /\ TunnelsOK /\ MountsOK /\ HandOK(n)
  BY DEF PairInv, HandsOK
<1>1. /\ issued \in Nat /\ revoked' = revoked /\ devices \in [Nas -> SUBSET Device] /\ remote' = remote /\ stray' = stray
      /\ pairing \in [Nas -> PairState] /\ pairing[n].pc = "register" /\ pairing[n].got = Absent
  BY <1>0 DEF PairTypes, HandOK
<1>2. m \in Nas /\ pairing[n].id \in 1..issued /\ Hashed(n, pairing[n].id) /\ Private(n) \in Addr /\ pairing[n].id # Absent
  BY <1>0, <1>1, PairingAssumption DEF HandOK, Private, Addr
<1>3. row \in Device /\ row.id = new /\ row.who = n /\ row.hash = new /\ row.out = pairing[n].id
  BY <1>1, <1>2 DEF Device
<1> DEFINE Partly == {row, [row EXCEPT !.out = Absent], [row EXCEPT !.out = Absent, !.hash = Absent]}
<1>4. \A w \in Partly : /\ w \in Device /\ w.id = new /\ w.who = n /\ w.hash \in {Absent, new}
                         /\ w.out \in {Absent, pairing[n].id}
  <2> HIDE DEF row
  <2>2. ASSUME NEW w \in Partly
        PROVE  w = row \/ w = [row EXCEPT !.out = Absent] \/ w = [row EXCEPT !.out = Absent, !.hash = Absent]
    OBVIOUS
  <2> HIDE DEF Partly
  <2>3. ASSUME NEW w \in Partly
        PROVE  /\ w \in Device /\ w.id = row.id /\ w.who = row.who /\ w.hash \in {Absent, row.hash}
               /\ w.out \in {Absent, row.out}
    BY <1>3, <2>2, PartOfRow, Zenon
  <2> QED
    BY <1>3, <2>3
<1> DEFINE Added(w) == issued' = new /\ devices' = [devices EXCEPT ![m] = devices[m] \cup {w}]
<1>5. \/ /\ Added(row) /\ pairing' = [pairing EXCEPT ![n].pc = "store", ![n].got = new] /\ pairFaults' = pairFaults
      \/ /\ PairFault /\ pairing' = [pairing EXCEPT ![n].pc = "store"]
         /\ (issued' = issued /\ devices' = devices) \/ \E w \in Partly : Added(w)
  BY Zenon
<1>6. pairFaults' \in Nat /\ pairAsked' \in Nat
  BY <1>0, <1>5 DEF PairTypes, PairFault
<1> HIDE DEF row, m, new, Partly
<1>7. ASSUME NEW w \in Partly, Added(w)
      PROVE  /\ issued' = issued + 1 /\ devices' \in [Nas -> SUBSET Device]
             /\ devices'[m] = devices[m] \cup {w} /\ \A k \in Nas : k # m => devices'[k] = devices[k]
             /\ Succeed /\ RowsOK'
  <2>0. new = issued + 1
    BY DEF new
  <2>1. /\ issued' = issued + 1 /\ devices' \in [Nas -> SUBSET Device]
        /\ devices'[m] = devices[m] \cup {w} /\ \A k \in Nas : k # m => devices'[k] = devices[k]
    BY <1>1, <1>2, <1>4, <1>7, <2>0
  <2>2. Succeed
    BY <1>1, <1>4, <1>7, <2>0, <2>1 DEF Succeed
  <2>3. \A k \in Nas : \A d \in devices[k] : d.id \in 1..issued /\ d.who \in Nas
    BY <1>0, <1>1 DEF RowsOK, Device
  <2>4. ASSUME NEW k \in Nas, NEW d \in devices[k]
        PROVE  d.id \in 1..issued' /\ d.hash \in {Absent, d.id} /\ (d.out # Absent => d.out \in 1..issued' /\ Hashed(d.who, d.out)')
    BY <1>0, <1>1, <2>1, <2>2, <2>3, HashedStays DEF RowsOK
  <2>5. /\ w.id \in 1..issued' /\ w.hash \in {Absent, w.id}
        /\ (w.out # Absent => w.out \in 1..issued' /\ Hashed(w.who, w.out)')
    BY <1>1, <1>2, <1>4, <2>0, <2>1, <2>2, HashedStays
  <2>6. \A k \in Nas : \A d, e \in devices'[k] : d.id = e.id => d = e
    BY <1>0, <1>1, <1>4, <2>0, <2>1, <2>3 DEF RowsOK
  <2>7. RowsOK'
    BY <2>1, <2>4, <2>5, <2>6 DEF RowsOK
  <2> QED
    BY <2>1, <2>2, <2>7
<1>8. row \in Partly /\ (issued' = issued /\ devices' = devices => Succeed /\ RowsOK')
  BY <1>1, NothingOfRows DEF Partly
<1>9. /\ issued' \in Nat /\ issued <= issued' /\ devices' \in [Nas -> SUBSET Device] /\ Succeed /\ RowsOK'
  <2>1. CASE issued' = issued /\ devices' = devices
    BY <1>1, <1>8, <2>1
  <2>2. CASE \E w \in Partly : Added(w)
    <3>1. PICK w \in Partly : Added(w)
      BY <2>2
    <3> HIDE DEF Added
    <3> QED
      BY <1>1, <1>7, <3>1
  <2> QED
    BY <1>5, <1>8, <2>1, <2>2
<1>10. /\ pairing' \in [Nas -> PairState] /\ \A k \in Nas : k # n => pairing'[k] = pairing[k]
       /\ pairing'[n].pc = "store" /\ pairing'[n].to = m /\ pairing'[n].id = pairing[n].id
       /\ pairing'[n].got = Absent \/ (Added(row) /\ pairing'[n].got = new)
  <2>1. CASE pairing' = [pairing EXCEPT ![n].pc = "store"]
    BY <1>1, <2>1, HandSteps, Zenon DEF PairSteps, m
  <2>2. CASE Added(row) /\ pairing' = [pairing EXCEPT ![n].pc = "store", ![n].got = new]
    <3>1. pairing[n] \in PairState /\ new \in Nat /\ "store" \in PairSteps
      BY <1>1 DEF new, PairSteps
    <3>2. pairing' = [pairing EXCEPT ![n] = [pairing[n] EXCEPT !.pc = "store", !.got = new]]
      BY <1>1, <2>2, Zenon
    <3>3. /\ [pairing[n] EXCEPT !.pc = "store", !.got = new] \in PairState
          /\ [pairing[n] EXCEPT !.pc = "store", !.got = new].pc = "store"
          /\ [pairing[n] EXCEPT !.pc = "store", !.got = new].to = m
          /\ [pairing[n] EXCEPT !.pc = "store", !.got = new].id = pairing[n].id
          /\ [pairing[n] EXCEPT !.pc = "store", !.got = new].got = new
      BY <3>1 DEF PairState, m
    <3> QED
      BY <1>1, <2>2, <3>2, <3>3
  <2> QED
    BY <1>5, <2>1, <2>2
<1>11. HandOK(n)'
  <2>1. \A d \in devices'[n] : d.id = pairing[n].id => d.who = m
    BY <1>0, <1>1, <1>2, <1>9 DEF HandOK, Succeed, m
  <2>2. Added(row) => (\E e \in devices'[m] : e.hash = new) /\ new \in 1..issued'
    <3>1. ASSUME Added(row) PROVE row \in devices'[m] /\ issued' = issued + 1
      <4> HIDE DEF Added
      <4>1. issued' = issued + 1 /\ devices'[m] = devices[m] \cup {row}
        BY <1>8, <1>7, <3>1
      <4> QED
        BY <4>1
    <3> HIDE DEF Added
    <3> QED
      BY <1>1, <1>3, <3>1 DEF new
  <2>3. pairing[n].id \in 1..issued'
    BY <1>1, <1>2, <1>9
  <2> HIDE DEF Added
  <2> QED
    BY <1>2, <1>10, <2>1, <2>2, <2>3 DEF HandOK, Hashed
<1>12. HandsOK'
  BY <1>9, <1>10, <1>11, HandStays DEF HandsOK
<1>13. TunnelsOK'
  <2>1. wg' = wg
    OBVIOUS
  <2> QED
    BY <1>0, <1>10, <2>1, TunnelStays DEF TunnelsOK
<1>14. MountsOK'
  BY <1>1, <1>9, RecordsStay
<1>15. PairTypes'
  BY <1>0, <1>1, <1>6, <1>9, <1>10 DEF PairTypes
<1> QED
  BY <1>9, <1>12, <1>13, <1>14, <1>15 DEF PairInv

\* What is left to show when one hand moves, and rows at most succeed one another.
TunnelOK(n) ==
  /\ wg[n] # Absent => Sound(wg[n])
  /\ pairing[n].pc \in {"exchange", "assigned"} => pairing[n].wg \in WgState /\ Sound(pairing[n].wg)
  /\ pairing[n].pc \in {"assigned", "peer", "addr", "notify"} => pairing[n].mine \in Nat /\ pairing[n].theirs \in Nat
LEMMA OneHandMoves ==
  ASSUME PairInv, NEW n \in Nas, Succeed, RowsOK', devices' \in [Nas -> SUBSET Device],
         UNCHANGED <<issued, revoked, remote, exports, stray>>, pairAsked' \in Nat, pairFaults' \in Nat,
         wg' \in [Nas -> WgState \cup {Absent}], pairing' \in [Nas -> PairState],
         \A k \in Nas : k # n => pairing'[k] = pairing[k],
         HandOK(n)', TunnelOK(n)', \A k \in Nas : k # n => wg'[k] = wg[k] \/ Sound(wg'[k])
  PROVE  PairInv'
<1>1. PairTypes'
  BY DEF PairInv, PairTypes
<1>2. HandsOK'
  BY <1>1, HandStays DEF HandsOK, PairTypes
<1>3. TunnelsOK'
  BY DEF PairInv, TunnelsOK, TunnelOK
<1>4. MountsOK'
  BY <1>1, RecordsStay DEF PairTypes
<1> QED
  BY <1>1, <1>2, <1>3, <1>4 DEF PairInv

LEMMA StoreOutboundKeeps ==
  ASSUME PairInv, NEW n \in Nas, StoreOutbound(n) PROVE PairInv'
<1> USE DEF StoreOutbound, PairAt, PairStep, PairFinish
<1> DEFINE id == pairing[n].id  got == pairing[n].got  new == [PairRow(n, id) EXCEPT !.out = got]
<1>0. /\ PairTypes /\ RowsOK /\ HandOK(n) /\ issued' = issued /\ revoked' = revoked /\ remote' = remote
      /\ exports' = exports /\ stray' = stray /\ wg' = wg /\ pairAsked' = pairAsked /\ pairFaults' = pairFaults
  BY DEF PairInv, HandsOK
<1>1. id \in 1..issued /\ id \in Nat /\ issued \in Nat /\ pairing[n].pc = "store" /\ got \in Nat \cup {Absent}
  BY <1>0 DEF HandOK, PairTypes, PairState
<1>2. /\ devices' \in [Nas -> SUBSET Device] /\ Succeed /\ RowsOK'
  <2>1. CASE got = Absent
    BY <1>0, <2>1, NothingOfRows
  <2>2. CASE got # Absent
    <3>1. got \in 1..issued /\ Hashed(pairing[n].to, got)
      BY <1>0, <1>1, <2>2 DEF HandOK
    <3>2. HasRow(n, id) => PairRow(n, id) \in devices[n] /\ PairRow(n, id).id = id /\ PairRow(n, id) \in Device
      BY <1>1, RowFound
    <3>3. HasRow(n, id) => PairRow(n, id).who = pairing[n].to
      BY <1>0, <1>1, <3>2 DEF HandOK
    <3>4. HasRow(n, id) => /\ new \in Device /\ new.id = id /\ new.who = PairRow(n, id).who
                           /\ new.hash = PairRow(n, id).hash /\ new.out = got
      BY <1>1, <3>2 DEF Device
    <3>5. devices' = Replaced(n, id, new)
      BY <2>2
    <3> HIDE DEF new, id, got
    <3> QED
      BY <1>0, <1>1, <3>1, <3>3, <3>4, <3>5, Replacing
  <2> QED
    BY <2>1, <2>2
<1>3. CASE IsLocalAddr(Reach(n, pairing[n].to))
  <2>1. /\ pairing' \in [Nas -> PairState] /\ pairing'[n] = Unpaired /\ Unpaired.pc = "idle"
        /\ \A k \in Nas : k # n => pairing'[k] = pairing[k]
    BY <1>3, HandPutDown
  <2>2. HandOK(n)' /\ TunnelOK(n)'
    BY <1>0, <2>1 DEF HandOK, TunnelOK, PairInv, TunnelsOK
  <2> QED
    BY <1>0, <1>2, <2>1, <2>2, OneHandMoves DEF PairTypes
<1>4. CASE ~IsLocalAddr(Reach(n, pairing[n].to))
  <2>1. /\ pairing' \in [Nas -> PairState] /\ pairing'[n].pc = "wireguard" /\ pairing'[n].to = pairing[n].to
        /\ pairing'[n].id = id /\ \A k \in Nas : k # n => pairing'[k] = pairing[k]
    BY <1>4, HandSteps DEF PairSteps
  <2>2. HandOK(n)'
    <3>1. \A d \in devices'[n] : d.id = id => d.who = pairing[n].to
      BY <1>0, <1>1, <1>2 DEF HandOK, Succeed
    <3> QED
      BY <1>0, <1>1, <2>1, <3>1 DEF HandOK
  <2>3. TunnelOK(n)'
    BY <1>0, <2>1 DEF TunnelOK, PairInv, TunnelsOK
  <2> QED
    BY <1>0, <1>2, <2>1, <2>2, <2>3, OneHandMoves DEF PairTypes
<1> QED
  BY <1>3, <1>4

\* The owner's row has the address of the tunnel.
LEMMA AddressWritten ==
  ASSUME PairInv, NEW m \in Nas, NEW d \in devices[m], NEW k \in Nat,
         devices' = Replaced(m, d.id, [d EXCEPT !.addr = Tunnel(k)]), UNCHANGED <<issued, revoked>>
  PROVE  devices' \in [Nas -> SUBSET Device] /\ Succeed /\ RowsOK'
<1> DEFINE new == [d EXCEPT !.addr = Tunnel(k)]
<1>0. PairTypes /\ RowsOK
  BY DEF PairInv
<1>1. d \in Device /\ d.id \in 1..issued /\ d.id \in Nat
  BY <1>0 DEF PairTypes, RowsOK
<1>2. HasRow(m, d.id) /\ PairRow(m, d.id) = d
  BY <1>0, <1>1, RowFound DEF HasRow, RowsOK
<1>3. Tunnel(k) \in Addr
  BY DEF Tunnel, Addr
<1>4. /\ new \in Device /\ new.id = d.id /\ new.who = d.who /\ new.hash = d.hash /\ new.out = d.out
  BY <1>1, <1>3 DEF Device
<1>5. new.out # Absent => new.out \in 1..issued /\ Hashed(new.who, new.out)
  BY <1>0, <1>4 DEF RowsOK
<1> HIDE DEF new
<1> QED
  BY <1>1, <1>2, <1>4, <1>5, Replacing DEF new

LEMMA UpdateAddrKeeps ==
  ASSUME PairInv, NEW n \in Nas, UpdateAddr(n) PROVE PairInv'
<1> USE DEF UpdateAddr, PairAt, PairStep
<1> DEFINE id == pairing[n].id
<1>0. /\ PairTypes /\ RowsOK /\ HandOK(n) /\ issued' = issued /\ revoked' = revoked /\ remote' = remote
      /\ exports' = exports /\ stray' = stray /\ wg' = wg /\ pairAsked' = pairAsked /\ pairFaults' = pairFaults
  BY DEF PairInv, HandsOK
<1>1. id \in 1..issued /\ id \in Nat /\ issued \in Nat /\ pairing[n].pc = "addr"
  BY <1>0 DEF HandOK, PairTypes
<1>2. pairing[n].theirs \in Nat /\ pairing[n].mine \in Nat
  BY <1>1 DEF PairInv, TunnelsOK
<1>3. devices' \in [Nas -> SUBSET Device] /\ Succeed /\ RowsOK'
  <2>1. CASE HasRow(n, id)
    <3>1. PairRow(n, id) \in devices[n] /\ PairRow(n, id).id = id
      BY <1>1, <2>1, RowFound
    <3> QED
      BY <1>0, <1>2, <3>1, AddressWritten
  <2>2. CASE ~HasRow(n, id)
    BY <1>0, <2>2, NothingOfRows DEF Replaced
  <2> QED
    BY <2>1, <2>2
<1>4. /\ pairing' \in [Nas -> PairState] /\ pairing'[n].pc = "notify" /\ pairing'[n].to = pairing[n].to
      /\ pairing'[n].mine = pairing[n].mine /\ pairing'[n].theirs = pairing[n].theirs
      /\ pairing'[n].id = id /\ \A k \in Nas : k # n => pairing'[k] = pairing[k]
  BY HandSteps, Zenon DEF PairSteps
<1>5. HandOK(n)'
  <2>1. \A d \in devices'[n] : d.id = id => d.who = pairing[n].to
    BY <1>0, <1>1, <1>3 DEF HandOK, Succeed
  <2> QED
    BY <1>0, <1>1, <1>4, <2>1 DEF HandOK
<1>6. TunnelOK(n)'
  BY <1>0, <1>2, <1>4 DEF TunnelOK, PairInv, TunnelsOK
<1> QED
  BY <1>0, <1>3, <1>4, <1>5, <1>6, OneHandMoves DEF PairTypes

\* Of some rows, one is the oldest.
LEMMA OldestRow ==
  ASSUME NEW S \in SUBSET Device, S # {}
  PROVE  \E x \in S : \A y \in S : x.id <= y.id
<1> DEFINE T == {d.id : d \in S}
<1>1. T \subseteq Nat /\ T # {}
  BY DEF Device
<1> DEFINE Less == {ss \in Nat \X Nat : ss[1] < ss[2]}
<1>2. IsWellFoundedOn(Less, Nat)
  BY NatLessThanWellFounded DEF OpToRel
<1> HIDE DEF Less
<1>3. PICK i \in T : \A j \in T : ~ (<<j, i>> \in Less)
  BY <1>1, <1>2, WFMin
<1>4. ASSUME NEW j \in T PROVE i <= j
  <2>1. i \in Nat /\ j \in Nat
    BY <1>1
  <2>2. ~ (j < i)
    BY <2>1, <1>3 DEF Less
  <2> QED
    BY <2>1, <2>2
<1> QED
  BY <1>3, <1>4

LEMMA NotifyKeeps ==
  ASSUME PairInv, NEW n \in Nas, Notify(n) PROVE PairInv'
<1> USE DEF Notify, PairAt, PairFinish
<1> DEFINE m == pairing[n].to  tunnel == Tunnel(pairing[n].mine)  found == Asker(m, n, tunnel)
           d == CHOOSE x \in found : \A y \in found : x.id <= y.id
<1>0. /\ PairTypes /\ RowsOK /\ HandOK(n) /\ issued' = issued /\ revoked' = revoked /\ remote' = remote
      /\ exports' = exports /\ stray' = stray /\ wg' = wg /\ pairAsked' = pairAsked
  BY DEF PairInv, HandsOK
<1>1. pairing[n].pc = "notify" /\ m \in Nas /\ pairing[n].mine \in Nat
  BY <1>0 DEF HandOK, PairInv, TunnelsOK
<1>2. found \subseteq devices[m] /\ devices[m] \subseteq Device
  BY <1>0, <1>1, Zenon DEF Asker, PairTypes
<1>3. pairFaults' \in Nat
  BY <1>0 DEF PairTypes, PairFault
<1>4. devices' = devices \/ (found # {} /\ devices' = Replaced(m, d.id, [d EXCEPT !.addr = tunnel]))
  OBVIOUS
<1>5. devices' \in [Nas -> SUBSET Device] /\ Succeed /\ RowsOK'
  <2>1. CASE devices' = devices
    BY <1>0, <2>1, NothingOfRows
  <2>2. CASE found # {} /\ devices' = Replaced(m, d.id, [d EXCEPT !.addr = tunnel])
    <3> HIDE DEF found
    <3>1. \E x \in found : \A y \in found : x.id <= y.id
      BY <1>2, <2>2, OldestRow
    <3>2. d \in devices[m]
      BY <1>2, <3>1
    <3> HIDE DEF d, m
    <3> QED
      BY <1>0, <1>1, <2>2, <3>2, AddressWritten
  <2> QED
    BY <1>4, <2>1, <2>2
<1>6. /\ pairing' \in [Nas -> PairState] /\ pairing'[n] = Unpaired /\ Unpaired.pc = "idle"
      /\ \A k \in Nas : k # n => pairing'[k] = pairing[k]
  BY HandPutDown
<1>7. HandOK(n)' /\ TunnelOK(n)'
  BY <1>0, <1>6 DEF HandOK, TunnelOK, PairInv, TunnelsOK
<1> QED
  BY <1>0, <1>3, <1>5, <1>6, <1>7, OneHandMoves DEF PairTypes

LEMMA InitialTunnel == ASSUME PairInv, NEW n \in Nas
                       PROVE  InitWGState(n) \in WgState /\ Sound(InitWGState(n))
<1>1. Fresh \in WgState /\ Sound(Fresh)
  BY DEF Fresh, WgState, Sound
<1>2. wg[n] # Absent => wg[n] \in WgState /\ Sound(wg[n])
  BY DEF PairInv, PairTypes, TunnelsOK
<1> QED
  BY <1>1, <1>2 DEF InitWGState

\* An exchange of keys keeps the peers apart.
LEMMA ExchangeIsSound ==
  ASSUME NEW s \in WgState, Sound(s), NEW n \in Nas PROVE Exchanged(s, n) \in WgState /\ Sound(Exchanged(s, n))
<1> DEFINE others == {p \in s.peers : p.key # n}
           known == s.peers \ others
           dev == IF known = {} THEN Absent ELSE (CHOOSE p \in known : TRUE).dev
           new == [key |-> n, ip |-> s.next, dev |-> dev]
<1>1. s.next \in Nat /\ s.peers \subseteq Peer /\ s.ip \in Nat
  BY DEF WgState
<1>2. dev \in Nat \cup {Absent}
  <2>1. CASE known = {}
    BY <2>1
  <2>2. CASE known # {}
    <3>1. (CHOOSE p \in known : TRUE) \in Peer
      BY <1>1, <2>2
    <3> QED
      BY <2>2, <3>1 DEF Peer
  <2> QED
    BY <2>1, <2>2
<1>3. Exchanged(s, n) = [s EXCEPT !.next = s.next + 1, !.peers = others \cup {new}]
  BY DEF Exchanged
<1> HIDE DEF dev
<1>4. new \in Peer /\ new.key = n /\ new.ip = s.next
  BY <1>1, <1>2 DEF Peer
<1> HIDE DEF new
<1>5. others \subseteq Peer /\ \A p \in others : p \in s.peers /\ p.key # n /\ p.ip < s.next /\ p.ip \in Nat
  BY <1>1 DEF Sound, Peer
<1> DEFINE all == others \cup {new}
<1>6. all \in SUBSET Peer /\ s.next + 1 \in Nat
  BY <1>1, <1>4, <1>5
<1>7. \A p \in all : p.ip < s.next + 1
  BY <1>1, <1>4, <1>5
<1>8. \A p, q \in all : p.ip = q.ip \/ p.key = q.key => p = q
  <2>1. \A p, q \in others : p.ip = q.ip \/ p.key = q.key => p = q
    BY <1>5 DEF Sound
  <2>2. \A p \in others : p.ip # new.ip /\ p.key # new.key
    BY <1>1, <1>4, <1>5
  <2> HIDE DEF others
  <2> QED
    BY <2>1, <2>2
<1> HIDE DEF all
<1>9. /\ [s EXCEPT !.next = s.next + 1, !.peers = all] \in WgState
      /\ [s EXCEPT !.next = s.next + 1, !.peers = all].next = s.next + 1
      /\ [s EXCEPT !.next = s.next + 1, !.peers = all].peers = all
  BY <1>6 DEF WgState
<1>10. Exchanged(s, n) = [s EXCEPT !.next = s.next + 1, !.peers = all]
  BY <1>3 DEF all
<1> QED
  BY <1>7, <1>8, <1>9, <1>10 DEF Sound

LEMMA PeerAdded ==
  ASSUME NEW s \in WgState, Sound(s), NEW m \in Nas, NEW dev \in Nat \cup {Absent}, \A p \in s.peers : p.key # m
  PROVE  LET t == [s EXCEPT !.next = @ + 1, !.peers = @ \cup {[key |-> m, ip |-> s.next, dev |-> dev]}]
         IN t \in WgState /\ Sound(t)
<1> DEFINE new == [key |-> m, ip |-> s.next, dev |-> dev]  all == s.peers \cup {new}
           t == [s EXCEPT !.next = s.next + 1, !.peers = all]
<1>1. s.next \in Nat /\ s.peers \subseteq Peer
  BY DEF WgState
<1>2. new \in Peer /\ new.key = m /\ new.ip = s.next
  BY <1>1 DEF Peer
<1>3. \A p \in s.peers : p.ip < s.next /\ p.ip \in Nat
  BY <1>1 DEF Sound, Peer
<1> HIDE DEF new
<1>4. all \in SUBSET Peer /\ s.next + 1 \in Nat /\ \A p \in all : p.ip < s.next + 1
  BY <1>1, <1>2, <1>3
<1>5. \A p, q \in all : p.ip = q.ip \/ p.key = q.key => p = q
  <2>1. \A p \in s.peers : p.ip # new.ip /\ p.key # new.key
    BY <1>1, <1>2, <1>3
  <2> QED
    BY <2>1 DEF Sound
<1> HIDE DEF all
<1>6. t \in WgState /\ t.next = s.next + 1 /\ t.peers = all
  BY <1>4 DEF WgState
<1>7. Sound(t)
  BY <1>4, <1>5, <1>6 DEF Sound
<1> QED
  BY <1>6, <1>7 DEF all, new

\* A step of the tunnel changes no row.
LEMMA TunnelMoves ==
  ASSUME PairInv, NEW n \in Nas, UNCHANGED <<devices, issued, revoked, remote, exports, stray, pairAsked>>,
         pairFaults' \in Nat, wg' \in [Nas -> WgState \cup {Absent}], pairing' \in [Nas -> PairState],
         \A k \in Nas : k # n => pairing'[k] = pairing[k], \A k \in Nas : wg'[k] = wg[k] \/ Sound(wg'[k]),
         pairing'[n].pc \in {"idle", "exchange", "assigned", "peer", "addr"},
         pairing'[n].pc # "idle" => /\ pairing[n].pc # "idle" /\ pairing'[n].to = pairing[n].to
                                    /\ pairing'[n].id = pairing[n].id,
         pairing'[n].pc \in {"exchange", "assigned"} => pairing'[n].wg \in WgState /\ Sound(pairing'[n].wg),
         pairing'[n].pc \in {"assigned", "peer", "addr"} => pairing'[n].mine \in Nat /\ pairing'[n].theirs \in Nat
  PROVE  PairInv'
<1>1. Succeed /\ RowsOK' /\ devices' \in [Nas -> SUBSET Device] /\ pairAsked' \in Nat
  BY NothingOfRows DEF PairInv, PairTypes
<1>2. HandOK(n) /\ devices' = devices /\ issued' = issued
  BY DEF PairInv, HandsOK
<1>3. HandOK(n)'
  BY <1>2 DEF HandOK
<1>4. TunnelOK(n)'
  BY DEF PairInv, TunnelsOK, TunnelOK
<1> QED
  BY <1>1, <1>3, <1>4, OneHandMoves

LEMMA LoadWGKeeps == ASSUME PairInv, NEW n \in Nas, LoadWG(n) PROVE PairInv'
<1> USE DEF LoadWG, PairAt
<1> DEFINE s == InitWGState(n)
<1>0. wg \in [Nas -> WgState \cup {Absent}] /\ pairing \in [Nas -> PairState] /\ pairFaults \in Nat
  BY DEF PairInv, PairTypes
<1>1. s \in WgState /\ Sound(s)
  BY InitialTunnel
<1>2. wg' = [wg EXCEPT ![n] = s] /\ wg'[n] = s
  BY <1>0
<1> HIDE DEF s
<1>3. pairing' = [pairing EXCEPT ![n] = [pairing[n] EXCEPT !.pc = "exchange", !.wg = s]]
  BY <1>0, <1>2
<1>4. pairing[n] \in PairState /\ "exchange" \in PairSteps
  BY <1>0 DEF PairSteps
<1>5. LET p == [pairing[n] EXCEPT !.pc = "exchange", !.wg = s] IN
      p \in PairState /\ p.pc = "exchange" /\ p.wg = s /\ p.to = pairing[n].to /\ p.id = pairing[n].id
  BY <1>1, <1>4 DEF PairState
<1>6. /\ wg' \in [Nas -> WgState \cup {Absent}] /\ pairing' \in [Nas -> PairState]
      /\ \A k \in Nas : k # n => pairing'[k] = pairing[k] /\ wg'[k] = wg[k]
  BY <1>0, <1>1, <1>2, <1>3, <1>5
<1>7. pairing'[n].pc = "exchange" /\ pairing'[n].wg = s /\ pairing'[n].to = pairing[n].to /\ pairing'[n].id = pairing[n].id
  BY <1>0, <1>3, <1>5
<1> QED
  BY <1>0, <1>1, <1>2, <1>6, <1>7, TunnelMoves

LEMMA WgExchangeKeeps == ASSUME PairInv, NEW n \in Nas, WgExchange(n) PROVE PairInv'
<1> USE DEF WgExchange, PairAt, PairFinish
<1> DEFINE m == pairing[n].to  s == InitWGState(m)
<1>0. /\ wg \in [Nas -> WgState \cup {Absent}] /\ pairing \in [Nas -> PairState] /\ pairFaults \in Nat
      /\ pairing[n].pc = "exchange" /\ pairing[n].wg \in WgState /\ Sound(pairing[n].wg) /\ HandOK(n)
  BY DEF PairInv, PairTypes, TunnelsOK, HandsOK
<1>1. m \in Nas
  BY <1>0 DEF HandOK
<1>2. s \in WgState /\ Sound(s) /\ s.next \in Nat /\ s.ip \in Nat
  BY <1>1, InitialTunnel DEF WgState
<1>3. Exchanged(s, n) \in WgState /\ Sound(Exchanged(s, n))
  BY <1>2, ExchangeIsSound
<1>4. wg' \in {wg, [wg EXCEPT ![m] = Exchanged(s, n)]} /\ pairFaults' \in Nat
  BY <1>0 DEF PairFault
<1>5. \/ pairing' = [pairing EXCEPT ![n].pc = "assigned", ![n].mine = s.next, ![n].theirs = s.ip]
      \/ pairing' = [pairing EXCEPT ![n] = Unpaired]
  OBVIOUS
<1> HIDE DEF s
<1>6. wg' \in [Nas -> WgState \cup {Absent}] /\ \A k \in Nas : wg'[k] = wg[k] \/ Sound(wg'[k])
  <2> HIDE DEF m
  <2> QED
    BY <1>0, <1>1, <1>3, <1>4
<1>7. CASE pairing' = [pairing EXCEPT ![n].pc = "assigned", ![n].mine = s.next, ![n].theirs = s.ip]
  <2>1. pairing[n] \in PairState /\ "assigned" \in PairSteps
    BY <1>0 DEF PairSteps
  <2>2. LET p == [pairing[n] EXCEPT !.pc = "assigned", !.mine = s.next, !.theirs = s.ip] IN
        /\ p \in PairState /\ p.pc = "assigned" /\ p.mine = s.next /\ p.theirs = s.ip
        /\ p.to = pairing[n].to /\ p.id = pairing[n].id /\ p.wg = pairing[n].wg
    BY <1>2, <2>1 DEF PairState
  <2>3. pairing' = [pairing EXCEPT ![n] = [pairing[n] EXCEPT !.pc = "assigned", !.mine = s.next, !.theirs = s.ip]]
    BY <1>0, <1>7
  <2>4. /\ pairing' \in [Nas -> PairState] /\ \A k \in Nas : k # n => pairing'[k] = pairing[k]
        /\ pairing'[n].pc = "assigned" /\ pairing'[n].mine = s.next /\ pairing'[n].theirs = s.ip
        /\ pairing'[n].to = pairing[n].to /\ pairing'[n].id = pairing[n].id /\ pairing'[n].wg = pairing[n].wg
    BY <1>0, <2>2, <2>3
  <2> QED
    BY <1>0, <1>2, <1>4, <1>6, <2>4, TunnelMoves
<1>8. CASE pairing' = [pairing EXCEPT ![n] = Unpaired]
  <2>1. /\ pairing' \in [Nas -> PairState] /\ pairing'[n].pc = "idle"
        /\ \A k \in Nas : k # n => pairing'[k] = pairing[k]
    BY <1>8, HandPutDown
  <2> QED
    BY <1>0, <1>4, <1>6, <2>1, TunnelMoves
<1> QED
  BY <1>5, <1>7, <1>8

LEMMA SaveAssignedKeeps == ASSUME PairInv, NEW n \in Nas, SaveAssigned(n) PROVE PairInv'
<1> USE DEF SaveAssigned, PairAt, PairStep
<1> DEFINE s == [pairing[n].wg EXCEPT !.ip = pairing[n].mine]
<1>0. /\ wg \in [Nas -> WgState \cup {Absent}] /\ pairing \in [Nas -> PairState] /\ pairFaults' \in Nat
      /\ pairing[n].pc = "assigned" /\ pairing[n].wg \in WgState /\ Sound(pairing[n].wg)
      /\ pairing[n].mine \in Nat /\ pairing[n].theirs \in Nat
  BY DEF PairInv, PairTypes, TunnelsOK
<1>1. s \in WgState /\ s.peers = pairing[n].wg.peers /\ s.next = pairing[n].wg.next
  BY <1>0 DEF WgState
<1>2. Sound(s)
  BY <1>0, <1>1 DEF Sound
<1>3. wg' = [wg EXCEPT ![n] = s]
  OBVIOUS
<1> HIDE DEF s
<1>4. wg' \in [Nas -> WgState \cup {Absent}] /\ \A k \in Nas : wg'[k] = wg[k] \/ Sound(wg'[k])
  BY <1>0, <1>1, <1>2, <1>3
<1>5. /\ pairing' \in [Nas -> PairState] /\ pairing'[n].pc = "peer" /\ pairing'[n].to = pairing[n].to
      /\ pairing'[n].id = pairing[n].id /\ pairing'[n].mine = pairing[n].mine /\ pairing'[n].theirs = pairing[n].theirs
      /\ \A k \in Nas : k # n => pairing'[k] = pairing[k]
  BY HandSteps, Zenon DEF PairSteps
<1> QED
  BY <1>0, <1>4, <1>5, TunnelMoves

LEMMA AddWGPeerKeeps == ASSUME PairInv, NEW n \in Nas, AddWGPeer(n) PROVE PairInv'
<1> USE DEF AddWGPeer, PairAt, PairStep
<1> DEFINE s == InitWGState(n)  m == pairing[n].to
           t == [s EXCEPT !.next = @ + 1, !.peers = @ \cup {[key |-> m, ip |-> s.next, dev |-> pairing[n].id]}]
<1>0. /\ wg \in [Nas -> WgState \cup {Absent}] /\ pairing \in [Nas -> PairState] /\ pairFaults' \in Nat
      /\ pairing[n].pc = "peer" /\ pairing[n].mine \in Nat /\ pairing[n].theirs \in Nat /\ HandOK(n)
  BY DEF PairInv, PairTypes, TunnelsOK, HandsOK
<1>1. m \in Nas /\ pairing[n].id \in Nat \cup {Absent}
  BY <1>0 DEF HandOK, PairState
<1>2. s \in WgState /\ Sound(s)
  BY InitialTunnel
<1>3. wg' = IF \E p \in s.peers : p.key = m THEN [wg EXCEPT ![n] = s] ELSE [wg EXCEPT ![n] = t]
  OBVIOUS
<1>4. (\A p \in s.peers : p.key # m) => t \in WgState /\ Sound(t)
  <2> HIDE DEF s, m
  <2> QED
    BY <1>1, <1>2, PeerAdded, Zenon
<1> HIDE DEF s, m, t
<1>5. wg' \in [Nas -> WgState \cup {Absent}] /\ \A k \in Nas : wg'[k] = wg[k] \/ Sound(wg'[k])
  BY <1>0, <1>2, <1>3, <1>4
<1>6. /\ pairing' \in [Nas -> PairState] /\ pairing'[n].pc = "addr" /\ pairing'[n].to = pairing[n].to
      /\ pairing'[n].id = pairing[n].id /\ pairing'[n].mine = pairing[n].mine /\ pairing'[n].theirs = pairing[n].theirs
      /\ \A k \in Nas : k # n => pairing'[k] = pairing[k]
  BY HandSteps, Zenon DEF PairSteps
<1> QED
  BY <1>0, <1>5, <1>6, TunnelMoves

LEMMA DeleteDeviceKeeps == ASSUME PairInv, NEW n \in Nas, NEW d \in devices[n], DeleteDevice(n, d) PROVE PairInv'
<1> USE DEF DeleteDevice, PairRequest
<1>0. PairTypes /\ RowsOK /\ HandsOK /\ TunnelsOK /\ MountsOK
  BY DEF PairInv
<1>1. /\ devices \in [Nas -> SUBSET Device] /\ wg \in [Nas -> WgState \cup {Absent}] /\ issued \in Nat
      /\ issued' = issued /\ pairing' = pairing /\ remote' = remote /\ stray' = stray /\ revoked \subseteq 1..issued
  BY <1>0 DEF PairTypes
<1>2. d.id \in 1..issued /\ revoked' = revoked \cup {d.id}
  BY <1>0 DEF RowsOK
<1>3. /\ devices' = [devices EXCEPT ![n] = devices[n] \ {d}] /\ devices' \in [Nas -> SUBSET Device]
      /\ devices'[n] = devices[n] \ {d} /\ \A k \in Nas : k # n => devices'[k] = devices[k]
  BY <1>1
<1>4. Succeed
  BY <1>1, <1>2, <1>3 DEF Succeed
<1>5. ASSUME NEW k \in Nas, NEW e \in devices'[k]
      PROVE  /\ e \in devices[k] /\ e.who \in Nas /\ e.id \in 1..issued /\ e.hash \in {Absent, e.id}
             /\ e.out # Absent => e.out \in 1..issued /\ Hashed(e.who, e.out)'
  <2>1. e \in devices[k] /\ e.who \in Nas
    BY <1>1, <1>3 DEF Device
  <2> QED
    BY <1>0, <1>4, <2>1, HashedStays DEF RowsOK
<1>6. RowsOK'
  <2>1. \A k \in Nas : \A e, f \in devices'[k] : e.id = f.id => e = f
    BY <1>0, <1>5 DEF RowsOK
  <2> QED
    BY <1>1, <1>5, <2>1 DEF RowsOK
<1>7. HandsOK'
  BY <1>1, <1>4, HandStays DEF HandsOK
<1>8. /\ wg' \in [Nas -> WgState \cup {Absent}] /\ \A k \in Nas : wg'[k] # Absent => Sound(wg'[k])
  <2>1. CASE wg[n] = Absent
    BY <1>0, <1>1, <2>1 DEF TunnelsOK
  <2>2. CASE wg[n] # Absent
    <3> DEFINE left == {p \in wg[n].peers : p.dev # d.id}  s == [wg[n] EXCEPT !.peers = left]
    <3>1. wg[n] \in WgState /\ Sound(wg[n])
      BY <1>0, <1>1, <2>2 DEF TunnelsOK
    <3>2. left \subseteq wg[n].peers /\ left \in SUBSET Peer
      BY <3>1 DEF WgState
    <3> HIDE DEF left
    <3>3. s \in WgState /\ s.peers = left /\ s.next = wg[n].next
      BY <3>1, <3>2 DEF WgState
    <3>4. Sound(s)
      BY <3>1, <3>2, <3>3 DEF Sound
    <3>5. wg' = [wg EXCEPT ![n] = s]
      BY <1>1, <2>2 DEF left
    <3> HIDE DEF s
    <3> QED
      BY <1>0, <1>1, <3>3, <3>4, <3>5 DEF TunnelsOK
  <2> QED
    BY <2>1, <2>2
<1>9. TunnelsOK'
  BY <1>0, <1>1, <1>8 DEF TunnelsOK
<1>10. MountsOK'
  BY <1>1, <1>4, RecordsStay
<1>11. PairTypes'
  BY <1>0, <1>1, <1>2, <1>3, <1>8 DEF PairTypes
<1> QED
  BY <1>6, <1>7, <1>9, <1>10, <1>11 DEF PairInv

\* A step that changes neither rows nor tunnels.
LEMMA OnlyMounts ==
  ASSUME PairInv, UNCHANGED <<devices, wg, issued, revoked>>, pairAsked' \in Nat, pairFaults' \in Nat,
         exports' \in [Nas -> SUBSET Nas], remote' \in [Nas -> RemoteState], stray' \in [Nas -> SUBSET MountNames],
         pairing' = pairing \/ \E n \in Nas : pairing' = [pairing EXCEPT ![n] = Unpaired],
         MountsOK'
  PROVE  PairInv'
<1>1. RowsOK' /\ wg' = wg
  BY NothingOfRows
<1>2. /\ pairing' \in [Nas -> PairState]
      /\ \A k \in Nas : pairing'[k] = pairing[k] \/ pairing'[k].pc = "idle"
  BY HandPutDown DEF PairInv, PairTypes
<1>3. PairTypes'
  BY <1>2 DEF PairInv, PairTypes
<1>4. HandsOK'
  <2>1. ASSUME NEW k \in Nas PROVE HandOK(k)'
    <3>1. CASE pairing'[k] = pairing[k]
      BY <3>1, NothingOfRows
    <3>2. CASE pairing'[k].pc = "idle"
      BY <3>2 DEF HandOK
    <3> QED
      BY <1>2, <3>1, <3>2
  <2> QED
    BY <2>1 DEF HandsOK
<1>5. TunnelsOK'
  BY <1>1, <1>2 DEF PairInv, TunnelsOK
<1> QED
  BY <1>1, <1>3, <1>4, <1>5 DEF PairInv

LEMMA MountRemoteShareKeeps ==
  ASSUME PairInv, NEW n \in Nas, NEW d \in devices[n], MountRemoteShare(n, d) PROVE PairInv'
<1> USE DEF MountRemoteShare, PairRequest
<1> DEFINE at == NameOf[d.who]  m == d.addr[2]
           mount == [at |-> at, of |-> m]  record == [dev |-> d.id, at |-> at, of |-> m]
           kept == {r \in remote[n].records : r.dev # d.id}
<1>0. PairTypes /\ RowsOK /\ MountsOK /\ devices' = devices /\ issued' = issued
  BY DEF PairInv
<1>1. /\ d \in Device /\ d.id \in 1..issued /\ d.id \in Nat /\ d.who \in Nas
      /\ remote \in [Nas -> RemoteState] /\ stray \in [Nas -> SUBSET MountNames] /\ issued \in Nat
      /\ exports \in [Nas -> SUBSET Nas]
  BY <1>0 DEF PairTypes, RowsOK, Device
<1>2. m \in Nas /\ at \in MountNames
  BY <1>1 DEF Device, Addr, MountNames
<1>3. exports' \in [Nas -> SUBSET Nas] /\ pairAsked' \in Nat /\ pairFaults' \in Nat
  <2>1. exports' = [exports EXCEPT ![m] = exports[m] \cup {n}] \/ exports' = exports
    BY DEF Exported
  <2>2. exports' \in [Nas -> SUBSET Nas]
    <3>1. exports[m] \cup {n} \in SUBSET Nas
      BY <1>1, <1>2
    <3>2. \A S \in SUBSET Nas : [exports EXCEPT ![m] = S] \in [Nas -> SUBSET Nas]
      BY <1>1
    <3> QED
      BY <1>1, <2>1, <3>1, <3>2, Zenon
  <2>3. pairAsked' \in Nat /\ pairFaults' \in Nat
    BY <1>0 DEF PairTypes, PairFault
  <2> QED
    BY <2>2, <2>3
<1>4. /\ remote[n].records \subseteq [dev : Nat, at : MountNames, of : Nas]
      /\ remote[n].mounted \subseteq [at : MountNames, of : Nas] /\ remote[n] \in RemoteState
  BY <1>1 DEF RemoteState
<1> DEFINE both == [mounted |-> remote[n].mounted \cup {mount}, records |-> kept \cup {record}]
           half == [remote[n] EXCEPT !.mounted = remote[n].mounted \cup {mount}]
<1>5. \/ remote' = [remote EXCEPT ![n] = both] /\ stray' = stray
      \/ stray' = [stray EXCEPT ![n] = stray[n] \cup {at}] /\ remote' = [remote EXCEPT ![n] = half]
      \/ remote' = remote /\ stray' = stray
  <2>1. remote[n].mounted \cup {mount} = remote[n].mounted \cup {mount}
    OBVIOUS
  <2> QED
    BY <1>1
<1>6. mount \in [at : MountNames, of : Nas] /\ record \in [dev : Nat, at : MountNames, of : Nas]
  BY <1>1, <1>2
<1> HIDE DEF mount, record
<1>7. both \in RemoteState /\ both.mounted = remote[n].mounted \cup {mount} /\ both.records = kept \cup {record}
  BY <1>4, <1>6 DEF RemoteState
<1>8. half \in RemoteState /\ half.mounted = remote[n].mounted \cup {mount} /\ half.records = remote[n].records
  BY <1>4, <1>6 DEF RemoteState
<1> HIDE DEF both, half
<1>9. remote' \in [Nas -> RemoteState] /\ stray' \in [Nas -> SUBSET MountNames]
  BY <1>1, <1>2, <1>5, <1>7, <1>8
<1>10. mount.at = at /\ record.at = at /\ record.dev = d.id
  BY DEF mount, record
<1>11. ASSUME NEW r \in remote[n].records, r.dev = d.id PROVE r.at = at
  BY <1>0, <1>11 DEF MountsOK
<1>12. MountsOK'
  <2>1. ASSUME NEW k \in Nas, k # n
        PROVE  remote'[k] = remote[k] /\ stray'[k] = stray[k]
    BY <1>1, <1>5, <2>1
  <2>2. /\ \A x \in remote'[n].mounted : (\E r \in remote'[n].records : r.at = x.at) \/ x.at \in stray'[n]
        /\ \A r \in remote'[n].records : r.dev <= issued /\ \A e \in devices[n] : e.id = r.dev => r.at = NameOf[e.who]
    <3>0. /\ \A x \in remote[n].mounted : (\E r \in remote[n].records : r.at = x.at) \/ x.at \in stray[n]
          /\ \A r \in remote[n].records : r.dev <= issued /\ \A e \in devices[n] : e.id = r.dev => r.at = NameOf[e.who]
      BY <1>0 DEF MountsOK, MountPoints
    <3>1. CASE remote' = [remote EXCEPT ![n] = both] /\ stray' = stray
      <4>1. remote'[n].mounted = remote[n].mounted \cup {mount} /\ remote'[n].records = kept \cup {record}
        BY <1>1, <1>7, <3>1
      <4>2. ASSUME NEW r \in remote[n].records PROVE \E q \in remote'[n].records : q.at = r.at
        BY <1>10, <1>11, <4>1
      <4>3. \A e \in devices[n] : e.id = d.id => e = d
        BY <1>0 DEF RowsOK
      <4>4. record.dev <= issued
        BY <1>1, <1>10
      <4> QED
        BY <1>10, <3>0, <3>1, <4>1, <4>2, <4>3, <4>4
    <3>2. CASE stray' = [stray EXCEPT ![n] = stray[n] \cup {at}] /\ remote' = [remote EXCEPT ![n] = half]
      <4>1. /\ remote'[n].mounted = remote[n].mounted \cup {mount} /\ remote'[n].records = remote[n].records
            /\ stray'[n] = stray[n] \cup {at}
        BY <1>1, <1>8, <3>2
      <4> QED
        BY <1>10, <3>0, <4>1
    <3>3. CASE remote' = remote /\ stray' = stray
      BY <3>0, <3>3
    <3> QED
      BY <1>5, <3>1, <3>2, <3>3
  <2> QED
    BY <1>0, <2>1, <2>2 DEF MountsOK, MountPoints
<1> QED
  BY <1>3, <1>9, <1>12, OnlyMounts

LEMMA UnmountRemoteShareKeeps ==
  ASSUME PairInv, NEW n \in Nas, NEW r \in remote[n].records, UnmountRemoteShare(n, r) PROVE PairInv'
<1> USE DEF UnmountRemoteShare
<1> DEFINE mine == {x \in remote[n].mounted : x.at = r.at}
           both == [records |-> remote[n].records \ {r}, mounted |-> remote[n].mounted \ mine]
           half == [remote[n] EXCEPT !.records = remote[n].records \ {r}]
<1>0. /\ PairTypes /\ MountsOK /\ devices' = devices /\ issued' = issued /\ remote \in [Nas -> RemoteState]
      /\ stray \in [Nas -> SUBSET MountNames] /\ remote[n] \in RemoteState
  BY DEF PairInv, PairTypes
<1>1. exports' \in [Nas -> SUBSET Nas] /\ pairAsked' \in Nat /\ pairFaults' \in Nat
  BY <1>0 DEF PairTypes, PairFault
<1>2. \/ remote' = [remote EXCEPT ![n] = both] /\ stray' = stray
      \/ remote' = [remote EXCEPT ![n] = half] /\ stray' = [stray EXCEPT ![n] = stray[n] \cup MountPoints(mine)]
  BY <1>0
<1>3. MountPoints(mine) \subseteq MountNames
  BY <1>0 DEF MountPoints, RemoteState
<1>4. both \in RemoteState /\ both.mounted = remote[n].mounted \ mine /\ both.records = remote[n].records \ {r}
  BY <1>0 DEF RemoteState
<1>5. half \in RemoteState /\ half.mounted = remote[n].mounted /\ half.records = remote[n].records \ {r}
  BY <1>0 DEF RemoteState
<1> HIDE DEF both, half
<1>6. remote' \in [Nas -> RemoteState] /\ stray' \in [Nas -> SUBSET MountNames]
  <2>1. remote' \in [Nas -> RemoteState]
    BY <1>0, <1>2, <1>4, <1>5
  <2>2. stray' \in [Nas -> SUBSET MountNames]
    BY <1>0, <1>2, <1>3, Zenon
  <2> QED
    BY <2>1, <2>2
<1>7. MountsOK'
  <2>0. /\ \A x \in remote[n].mounted : (\E q \in remote[n].records : q.at = x.at) \/ x.at \in stray[n]
        /\ \A q \in remote[n].records : q.dev <= issued /\ \A e \in devices[n] : e.id = q.dev => q.at = NameOf[e.who]
    BY <1>0 DEF MountsOK, MountPoints
  <2>1. \A k \in Nas : k # n => remote'[k] = remote[k] /\ stray'[k] = stray[k]
    BY <1>0, <1>2
  <2>2. /\ \A x \in remote'[n].mounted : (\E q \in remote'[n].records : q.at = x.at) \/ x.at \in stray'[n]
        /\ remote'[n].records \subseteq remote[n].records
    <3>1. CASE remote' = [remote EXCEPT ![n] = both] /\ stray' = stray
      <4>1. remote'[n].mounted = remote[n].mounted \ mine /\ remote'[n].records = remote[n].records \ {r}
        BY <1>0, <1>4, <3>1
      <4> QED
        BY <2>0, <3>1, <4>1
    <3>2. CASE remote' = [remote EXCEPT ![n] = half] /\ stray' = [stray EXCEPT ![n] = stray[n] \cup MountPoints(mine)]
      <4>1. /\ remote'[n].mounted = remote[n].mounted /\ remote'[n].records = remote[n].records \ {r}
            /\ stray'[n] = stray[n] \cup {x.at : x \in mine}
        BY <1>0, <1>5, <3>2 DEF MountPoints
      <4> QED
        BY <2>0, <4>1
    <3> QED
      BY <1>2, <3>1, <3>2
  <2> QED
    BY <1>0, <2>0, <2>1, <2>2 DEF MountsOK, MountPoints
<1> QED
  BY <1>1, <1>6, <1>7, OnlyMounts

LEMMA RestartNasKeeps == ASSUME PairInv, NEW n \in Nas, RestartNas(n) PROVE PairInv'
<1> USE DEF RestartNas, PairFault, PairFinish
<1>0. /\ PairTypes /\ MountsOK /\ devices' = devices /\ issued' = issued /\ remote \in [Nas -> RemoteState]
      /\ stray \in [Nas -> SUBSET MountNames] /\ remote[n] \in RemoteState
      /\ exports' \in [Nas -> SUBSET Nas] /\ pairAsked' \in Nat /\ pairFaults' \in Nat
  BY DEF PairInv, PairTypes
<1>1. PICK found \in SUBSET remote[n].records :
        remote' = [remote EXCEPT ![n] = [remote[n] EXCEPT !.mounted = {[at |-> r.at, of |-> r.of] : r \in found}]]
  BY <1>0
<1> DEFINE again == {[at |-> r.at, of |-> r.of] : r \in found}
           new == [remote[n] EXCEPT !.mounted = again]
<1>2. again \subseteq [at : MountNames, of : Nas] /\ \A x \in again : \E r \in remote[n].records : r.at = x.at
  BY <1>0 DEF RemoteState
<1>3. remote' = [remote EXCEPT ![n] = new]
  BY <1>1
<1> HIDE DEF again
<1>4. new \in RemoteState /\ new.mounted = again /\ new.records = remote[n].records
  BY <1>0, <1>2 DEF RemoteState
<1> HIDE DEF new
<1>5. /\ remote' \in [Nas -> RemoteState] /\ stray' \in [Nas -> SUBSET MountNames]
      /\ remote'[n] = new /\ \A k \in Nas : k # n => remote'[k] = remote[k] /\ stray'[k] = stray[k]
  BY <1>0, <1>3, <1>4
<1>6. MountsOK'
  BY <1>0, <1>2, <1>4, <1>5 DEF MountsOK, MountPoints
<1> QED
  BY <1>0, <1>5, <1>6, OnlyMounts

\* The three properties follow: a token that is sent is the hash of a row, or revoked.
LEMMA PairingStaysConsistent == PairInv => PairingTypeOK /\ PairingConsistent
<1> SUFFICES ASSUME PairInv PROVE PairingTypeOK /\ PairingConsistent
  OBVIOUS
<1>1. PairTypes /\ RowsOK /\ TunnelsOK /\ MountsOK
  BY DEF PairInv
<1>2. PairingTypeOK
  <2>1. DOMAIN Unpaired = {"pc", "to", "id", "got", "wg", "mine", "theirs"}
    BY DEF Unpaired
  <2>2. \A p \in PairState : DOMAIN p = {"pc", "to", "id", "got", "wg", "mine", "theirs"} /\ p.wg \in WgState \cup {Absent}
    BY DEF PairState
  <2> QED
    BY <1>1, <2>1, <2>2 DEF PairingTypeOK, PairTypes
<1>3. TokensAreAccepted
  BY <1>1 DEF TokensAreAccepted, Accepts, RowsOK, Hashed
<1>4. PeersHaveAddressesOfTheirOwn
  BY <1>1 DEF PeersHaveAddressesOfTheirOwn, TunnelsOK, Sound
<1>5. MountsAreRecorded
  BY <1>1 DEF MountsAreRecorded, MountsOK
<1> QED
  BY <1>2, <1>3, <1>4, <1>5 DEF PairingConsistent

LEMMA PairingKeeps == ASSUME PairInv, PairingNext PROVE PairInv'
<1>1. CASE \E n, m \in Nas : PairWithRemote(n, m)
  BY <1>1, PairWithRemoteKeeps
<1>2. CASE \E n \in Nas : SetPairToken(n) \/ RegisterDevice(n) \/ StoreOutbound(n)
  BY <1>2, SetPairTokenKeeps, RegisterDeviceKeeps, StoreOutboundKeeps
<1>3. CASE \E n \in Nas : LoadWG(n) \/ WgExchange(n) \/ SaveAssigned(n) \/ AddWGPeer(n)
  BY <1>3, LoadWGKeeps, WgExchangeKeeps, SaveAssignedKeeps, AddWGPeerKeeps
<1>4. CASE \E n \in Nas : UpdateAddr(n) \/ Notify(n) \/ RestartNas(n)
  BY <1>4, UpdateAddrKeeps, NotifyKeeps, RestartNasKeeps
<1>5. CASE \E n \in Nas : \E d \in devices[n] : DeleteDevice(n, d) \/ MountRemoteShare(n, d)
  BY <1>5, DeleteDeviceKeeps, MountRemoteShareKeeps
<1>6. CASE \E n \in Nas : \E r \in remote[n].records : UnmountRemoteShare(n, r)
  BY <1>6, UnmountRemoteShareKeeps
<1> QED
  BY <1>1, <1>2, <1>3, <1>4, <1>5, <1>6 DEF PairingNext

LEMMA PairingRests == ASSUME PairInv, UNCHANGED pairingVars PROVE PairInv'
<1> USE DEF pairingVars
<1>1. PairTypes' /\ RowsOK' /\ HandsOK' /\ MountsOK'
  BY DEF PairInv, PairTypes, RowsOK, HandsOK, HandOK, HasRow, Hashed, MountsOK, MountPoints
<1>2. TunnelsOK'
  BY DEF PairInv, TunnelsOK
<1> QED
  BY <1>1, <1>2 DEF PairInv

\* What two devices hold of each other stays consistent (backup.go, wireguard.go): the tokens
\* they send are accepted or were revoked, the peers of a tunnel have addresses of their own,
\* and what is mounted has its record; for any devices, requests and faults.
THEOREM PeersAgree == DaemonSpec => []PeersConsistent
<1> DEFINE Inv == part = "pairing" => PairInv
<1>1. DaemonStart => Inv
  BY PairingStarts DEF DaemonStart
<1>2. Inv /\ [DaemonNext]_daemonVars => Inv'
  <2> SUFFICES ASSUME Inv, [DaemonNext]_daemonVars, part' = "pairing" PROVE PairInv'
    OBVIOUS
  <2>1. part = "pairing" /\ PairInv /\ (PairingNext \/ UNCHANGED pairingVars)
    BY DEF DaemonNext, daemonVars
  <2> QED
    BY <2>1, PairingKeeps, PairingRests
<1>3. Inv => PeersConsistent
  BY PairingStaysConsistent DEF PeersConsistent
<1> QED
  BY <1>1, <1>2, <1>3, PTL DEF DaemonSpec

-----------------------------------------------------------------------------
(* The feed of listed addresses.  A refresh that nobody overtook is newer   *)
(* than all there is; one that somebody overtook is on record as crossed.   *)

Lists == {ListOf[v] : v \in Versions}
FetchSteps == {"idle", "manifest", "signature", "list", "swap", "store", "current", "cache", "cached", "back"}
FetchState == [at : FetchSteps, version : Versions \cup {0}, list : Lists \cup {0}, boot : BOOLEAN, over : BOOLEAN]
FeedTypes ==
  /\ latest \in Versions /\ activeFeed \in [version : Versions \cup {0}, list : Lists \cup {0}]
  /\ cached \subseteq [version : Versions, list : Lists] /\ IsFiniteSet(cached) /\ currentFeed \in Versions \cup {0}
  /\ fetch \in [Fetchers -> FetchState] /\ feedAsked \in Nat /\ feedMishaps \in Nat
  /\ newestActive \in Versions \cup {0} /\ goneBack \in BOOLEAN /\ feedsCrossed \in BOOLEAN

\* What a refresh, a load or a return has in its hand.
NewerThanCached(v) == \A c \in cached : c.version <= v
FetchOK(f) ==
  /\ fetch[f].at \in {"signature", "list", "swap", "store", "current", "cached", "back"}
       => fetch[f].version \in Versions /\ fetch[f].version <= latest
  /\ fetch[f].at \in {"swap", "store", "cached", "back"} => fetch[f].list = ListOf[fetch[f].version]
  /\ fetch[f].at \in {"list", "swap"} /\ ~fetch[f].over
       => /\ activeFeed.version <= fetch[f].version /\ NewerThanCached(fetch[f].version)
          /\ \A g \in Fetchers : fetch[g].at = "store" => fetch[g].version <= fetch[f].version
  /\ fetch[f].at = "cached" /\ ~fetch[f].over => fetch[f].version = currentFeed /\ ~Recording(f)
  /\ fetch[f].at = "back" => goneBack
  /\ fetch[f].at \in {"store", "current"}
       => IF fetch[f].over THEN feedsCrossed ELSE fetch[f].version = activeFeed.version
  /\ fetch[f].at = "store" /\ ~feedsCrossed => NewerThanCached(fetch[f].version)
  /\ fetch[f].at = "current" /\ ~feedsCrossed /\ ~goneBack
       => NewerThanCached(fetch[f].version) /\ \E c \in cached : c.version = fetch[f].version

\* Versions that were stored and are not the current one yet: one for each write that failed.
Ahead == {c \in cached : c.version > currentFeed}
BeingRecorded == \E f \in Fetchers : fetch[f].at = "current"
FeedsOK ==
  /\ \A c \in cached : c.list = ListOf[c.version] /\ c.version <= latest
  /\ activeFeed = NoFeed \/ (activeFeed.version \in Versions /\ activeFeed.list = ListOf[activeFeed.version])
  /\ activeFeed.version <= latest /\ currentFeed <= latest
  /\ ~feedsCrossed => \A f, g \in Fetchers : {fetch[f].at, fetch[g].at} \subseteq {"store", "current"} => f = g
  /\ \/ feedsCrossed \/ feedMishaps > 0 \/ currentFeed = activeFeed.version
     \/ \E g \in Fetchers : fetch[g].at \in {"store", "current"}
  /\ FeedGoesForward /\ CurrentIsCached
  /\ \/ feedsCrossed \/ goneBack
     \/ Cardinality(Ahead) <= feedMishaps + (IF BeingRecorded THEN 1 ELSE 0)
FeedInv == FeedTypes /\ FeedsOK /\ \A f \in Fetchers : FetchOK(f)

LEMMA NatVersions == Versions \subseteq Nat \ {0}
  BY IntelAssumption DEF Versions

LEMMA IdleIsState == /\ IdleFetch \in FetchState /\ IdleFetch.at = "idle" /\ ~IdleFetch.over
                     /\ \A at \in FetchSteps : LET r == [IdleFetch EXCEPT !.at = at] IN r \in FetchState /\ r.at = at
                     /\ LET r == [IdleFetch EXCEPT !.at = "manifest", !.boot = TRUE] IN r \in FetchState /\ r.at = "manifest"
<1>1. IdleFetch \in FetchState /\ IdleFetch.at = "idle" /\ ~IdleFetch.over
  BY DEF IdleFetch, FetchState, FetchSteps
<1>2. ASSUME NEW at \in FetchSteps, NEW s \in FetchState
      PROVE  [s EXCEPT !.at = at] \in FetchState /\ [s EXCEPT !.at = at].at = at
  BY DEF FetchState
<1>3. ASSUME NEW s \in FetchState
      PROVE  LET r == [s EXCEPT !.at = "manifest", !.boot = TRUE] IN r \in FetchState /\ r.at = "manifest"
  BY DEF FetchState, FetchSteps
<1> QED
  BY <1>1, <1>2, <1>3, Zenon

LEMMA IntelStarts == IntelInit => FeedInv
<1> SUFFICES ASSUME IntelInit PROVE FeedInv
  OBVIOUS
<1> USE DEF IntelInit
<1>1. 1 \in Versions /\ 1 \in Nat
  BY IntelAssumption DEF Versions
<1>2. NoFeed.version = 0 /\ NoFeed \in [version : Versions \cup {0}, list : Lists \cup {0}]
  BY DEF NoFeed
<1>3. fetch \in [Fetchers -> FetchState] /\ \A f \in Fetchers : fetch[f].at \in {"idle", "manifest"}
  BY IdleIsState
<1>4. IsFiniteSet(cached) /\ Ahead = {} /\ Cardinality(Ahead) = 0
  BY FS_EmptySet DEF Ahead
<1>5. FeedTypes
  BY <1>1, <1>2, <1>3, <1>4 DEF FeedTypes
<1>6. FeedsOK
  BY <1>1, <1>2, <1>3, <1>4 DEF FeedsOK, FeedGoesForward, CurrentIsCached, BeingRecorded
<1>7. \A f \in Fetchers : FetchOK(f)
  BY <1>3 DEF FetchOK
<1> QED
  BY <1>5, <1>6, <1>7 DEF FeedInv

\* A step of one way that activates and writes nothing.
LEMMA OnlyFetch ==
  ASSUME FeedInv, NEW f \in Fetchers, NEW new \in FetchState, fetch' = [fetch EXCEPT ![f] = new],
         UNCHANGED <<latest, activeFeed, cached, currentFeed, newestActive, feedsCrossed>>,
         goneBack' \in {goneBack, TRUE}, feedMishaps' \in Nat, feedMishaps <= feedMishaps', feedAsked' \in Nat,
         new.at \notin {"store", "current"}, fetch[f].at \notin {"store", "current"},
         FetchOK(f)'
  PROVE  FeedInv'
<1>0. FeedTypes /\ FeedsOK /\ (\A g \in Fetchers : FetchOK(g)) /\ goneBack \in BOOLEAN /\ goneBack' \in BOOLEAN
  BY DEF FeedInv, FeedTypes
<1>9. goneBack => goneBack'
  BY <1>0
<1>1. fetch' \in [Fetchers -> FetchState] /\ fetch'[f] = new /\ \A g \in Fetchers : g # f => fetch'[g] = fetch[g]
  BY <1>0 DEF FeedTypes
<1>2. FeedTypes'
  BY <1>0, <1>1 DEF FeedTypes
<1>3. \A g \in Fetchers : /\ fetch'[g].at \in {"store", "current"} => fetch[g].at \in {"store", "current"} /\ fetch'[g] = fetch[g]
                          /\ fetch[g].at \in {"store", "current"} => fetch'[g] = fetch[g]
  BY <1>1
<1>4. Ahead' = Ahead /\ BeingRecorded' = BeingRecorded
  BY <1>3 DEF Ahead, BeingRecorded
<1>5. Cardinality(Ahead) \in Nat
  BY <1>0, FS_Subset, FS_CardinalityType DEF FeedTypes, Ahead
<1>6. FeedsOK'
  <2>1. (FeedGoesForward /\ CurrentIsCached)'
    <3>1. FeedGoesForward'
      BY <1>0, <1>9 DEF FeedsOK, FeedTypes, FeedGoesForward
    <3>2. CurrentIsCached'
      BY <1>0, <1>9, IntelAssumption DEF FeedsOK, FeedTypes, CurrentIsCached
    <3> QED
      BY <3>1, <3>2
  <2>2. feedsCrossed' \/ goneBack' \/ Cardinality(Ahead') <= feedMishaps' + (IF BeingRecorded' THEN 1 ELSE 0)
    BY <1>0, <1>9, <1>4, <1>5 DEF FeedsOK, FeedTypes
  <2>3. ~feedsCrossed' => \A g, h \in Fetchers : {fetch'[g].at, fetch'[h].at} \subseteq {"store", "current"} => g = h
    BY <1>0, <1>3 DEF FeedsOK
  <2>4. \/ feedsCrossed' \/ feedMishaps' > 0 \/ currentFeed' = activeFeed'.version
        \/ \E g \in Fetchers : fetch'[g].at \in {"store", "current"}
    BY <1>0, <1>3 DEF FeedsOK, FeedTypes
  <2> QED
    BY <1>0, <2>1, <2>2, <2>3, <2>4 DEF FeedsOK
<1>7. ASSUME NEW g \in Fetchers, g # f PROVE FetchOK(g)'
  <2>1. FetchOK(g) /\ fetch'[g] = fetch[g]
    BY <1>0, <1>1, <1>7
  <2>2. \A h \in Fetchers : fetch'[h].at = "store" => fetch[h].at = "store" /\ fetch'[h] = fetch[h]
    BY <1>1
  <2>3. Recording(g)' => Recording(g)
    BY <1>3 DEF Recording
  <2> QED
    BY <1>0, <2>1, <2>2, <2>3, Zenon DEF FetchOK, NewerThanCached, FeedTypes
<1> QED
  BY <1>2, <1>6, <1>7 DEF FeedInv

\* A way that does not go on.
LEMMA WayEnds ==
  ASSUME FeedInv, NEW f \in Fetchers, NEW new \in FetchState, new.at \in {"idle", "manifest", "cache"},
         fetch' = [fetch EXCEPT ![f] = new], UNCHANGED <<latest, activeFeed, cached, currentFeed, newestActive, feedsCrossed, goneBack>>,
         feedMishaps' \in Nat, feedMishaps <= feedMishaps', feedAsked' \in Nat, fetch[f].at \notin {"store", "current"}
  PROVE  FeedInv'
<1>1. fetch'[f] = new /\ goneBack' = goneBack /\ goneBack \in BOOLEAN
  BY DEF FeedInv, FeedTypes
<1>2. FetchOK(f)'
  BY <1>1 DEF FetchOK
<1> QED
  BY <1>1, <1>2, OnlyFetch
LEMMA GivesUp ==
  ASSUME FeedInv, NEW f \in Fetchers, GiveUp(f),
         UNCHANGED <<latest, activeFeed, cached, currentFeed, newestActive, feedsCrossed, goneBack>>,
         feedMishaps' \in Nat, feedMishaps <= feedMishaps', feedAsked' \in Nat, fetch[f].at \notin {"store", "current"}
  PROVE  FeedInv'
<1> DEFINE new == IF fetch[f].boot THEN [IdleFetch EXCEPT !.at = "cache"] ELSE IdleFetch
<1>1. new \in FetchState /\ new.at \in {"idle", "cache"}
  BY IdleIsState DEF FetchSteps
<1>2. fetch' = [fetch EXCEPT ![f] = new]
  BY DEF GiveUp
<1> HIDE DEF new
<1> QED
  BY <1>1, <1>2, WayEnds

LEMMA FeedFaultCounts == ASSUME FeedInv, FeedFault PROVE feedMishaps' \in Nat /\ feedMishaps <= feedMishaps' /\ feedMishaps' > 0
                                                        /\ feedMishaps' = feedMishaps + 1
  BY DEF FeedFault, FeedInv, FeedTypes

LEMMA StartsRefreshKeeps == ASSUME FeedInv, NEW f \in Fetchers, StartsRefresh(f) PROVE FeedInv'
<1> USE DEF StartsRefresh
<1> DEFINE new == [fetch[f] EXCEPT !.at = "manifest"]
<1>1. fetch \in [Fetchers -> FetchState] /\ feedAsked \in Nat /\ feedMishaps \in Nat
  BY DEF FeedInv, FeedTypes
<1>2. new \in FetchState /\ new.at = "manifest" /\ fetch' = [fetch EXCEPT ![f] = new]
  BY <1>1 DEF FetchState, FetchSteps
<1>3. feedAsked' \in Nat
  BY <1>1 DEF FeedAsk
<1> HIDE DEF new
<1>4. feedMishaps' = feedMishaps /\ fetch[f].at = "idle" /\ UNCHANGED <<latest, activeFeed, cached, currentFeed, newestActive, feedsCrossed, goneBack>>
  OBVIOUS
<1> HIDE DEF StartsRefresh
<1>5. feedMishaps' \in Nat /\ feedMishaps <= feedMishaps'
  BY <1>1, <1>4
<1> QED
  BY <1>2, <1>3, <1>4, <1>5, WayEnds

LEMMA FetchManifestKeeps == ASSUME FeedInv, NEW f \in Fetchers, FetchManifest(f) PROVE FeedInv'
<1> USE DEF FetchManifest
<1>0. FeedTypes /\ fetch \in [Fetchers -> FetchState] /\ feedAsked' \in Nat /\ fetch[f].at = "manifest"
  BY DEF FeedInv, FeedTypes
<1>4. UNCHANGED <<latest, activeFeed, cached, currentFeed, newestActive, feedsCrossed, goneBack>>
  OBVIOUS
<1>5. \/ fetch' = [fetch EXCEPT ![f].at = "signature", ![f].version = latest] /\ UNCHANGED feedMishaps
      \/ FeedFault /\ GiveUp(f)
  OBVIOUS
<1>6. goneBack' \in {goneBack, TRUE}
  BY <1>4, Zenon
<1> HIDE DEF FetchManifest
<1>1. CASE fetch' = [fetch EXCEPT ![f].at = "signature", ![f].version = latest] /\ UNCHANGED feedMishaps
  <2> DEFINE new == [fetch[f] EXCEPT !.at = "signature", !.version = latest]
  <2>1. latest \in Versions /\ latest \in Nat /\ feedMishaps \in Nat /\ goneBack \in BOOLEAN
    BY <1>0, NatVersions DEF FeedTypes
  <2>2. new \in FetchState /\ new.at = "signature" /\ new.version = latest
    BY <1>0, <2>1 DEF FetchState, FetchSteps
  <2>3. fetch' = [fetch EXCEPT ![f] = new]
    BY <1>0, <1>1
  <2> HIDE DEF new
  <2>4. fetch'[f] = new
    BY <1>0, <2>3
  <2>5. FetchOK(f)'
    BY <1>4, <2>1, <2>2, <2>4 DEF FetchOK
  <2>9. /\ feedMishaps' \in Nat /\ feedMishaps <= feedMishaps' /\ new.at \notin {"store", "current"}
        /\ fetch[f].at \notin {"store", "current"}
    BY <1>0, <1>1, <2>1, <2>2
  <2> QED
    BY <1>0, <1>4, <1>1, <2>1, <2>2, <2>3, <2>5, <1>4, <1>6, <2>9, OnlyFetch
<1>2. CASE FeedFault /\ GiveUp(f)
  BY <1>0, <1>2, FeedFaultCounts, <1>4, GivesUp
<1> QED
  BY <1>5, <1>1, <1>2

LEMMA FetchSignatureKeeps == ASSUME FeedInv, NEW f \in Fetchers, FetchSignature(f) PROVE FeedInv'
<1> USE DEF FetchSignature
<1>0. FeedTypes /\ FeedsOK /\ fetch \in [Fetchers -> FetchState] /\ feedAsked' \in Nat /\ fetch[f].at = "signature"
      /\ (\A g \in Fetchers : FetchOK(g)) /\ feedMishaps \in Nat /\ goneBack \in BOOLEAN
  BY DEF FeedInv, FeedTypes
<1>4. UNCHANGED <<latest, activeFeed, cached, currentFeed, newestActive, feedsCrossed, goneBack>>
  OBVIOUS
<1>5. \/ /\ latest = fetch[f].version /\ fetch[f].version >= FloorOf
         /\ fetch' = [fetch EXCEPT ![f].at = "list", ![f].over = FALSE] /\ UNCHANGED feedMishaps
      \/ GiveUp(f) /\ UNCHANGED feedMishaps
      \/ FeedFault /\ GiveUp(f)
  OBVIOUS
<1>6. goneBack' \in {goneBack, TRUE}
  BY <1>4, Zenon
<1> HIDE DEF FetchSignature
<1>1. CASE /\ latest = fetch[f].version /\ fetch[f].version >= FloorOf
           /\ fetch' = [fetch EXCEPT ![f].at = "list", ![f].over = FALSE] /\ UNCHANGED feedMishaps
  <2> DEFINE new == [fetch[f] EXCEPT !.at = "list", !.over = FALSE]
  <2>1. /\ new \in FetchState /\ new.at = "list" /\ new.version = fetch[f].version
    BY <1>0 DEF FetchState, FetchSteps
  <2>2. fetch' = [fetch EXCEPT ![f] = new]
    BY <1>0, <1>1
  <2> HIDE DEF new
  <2>3. fetch'[f] = new /\ \A g \in Fetchers : g # f => fetch'[g] = fetch[g]
    BY <1>0, <2>2
  <2>4. /\ fetch[f].version \in Versions /\ fetch[f].version \in Nat /\ activeFeed.version \in Nat /\ currentFeed \in Nat
        /\ latest \in Nat
    <3>1. fetch[f].version \in Versions /\ latest \in Versions
      BY <1>0 DEF FetchOK, FeedTypes
    <3>2. activeFeed.version \in Versions \cup {0} /\ currentFeed \in Versions \cup {0}
      BY <1>0 DEF FeedTypes
    <3>3. Versions \cup {0} \subseteq Nat
      BY NatVersions
    <3> QED
      BY <3>1, <3>2, <3>3
  <2>5. activeFeed.version <= fetch[f].version
    BY <1>1, <2>4 DEF FloorOf
  <2>6. NewerThanCached(latest) /\ \A g \in Fetchers : fetch[g].at = "store" => fetch[g].version <= latest
    BY <1>0 DEF FeedsOK, FetchOK, NewerThanCached
  <2>7. FetchOK(f)'
    BY <1>0, <1>4, <1>1, <2>1, <2>3, <2>4, <2>5, <2>6 DEF FetchOK, NewerThanCached
  <2>9. /\ feedMishaps' \in Nat /\ feedMishaps <= feedMishaps' /\ new.at \notin {"store", "current"}
        /\ fetch[f].at \notin {"store", "current"}
    BY <1>0, <1>1, <2>1, <2>2
  <2> QED
    BY <1>0, <1>4, <1>1, <2>1, <2>2, <2>7, <1>4, <1>6, <2>9, OnlyFetch
<1>2. CASE GiveUp(f) /\ UNCHANGED feedMishaps
  BY <1>0, <1>2, <1>4, GivesUp
<1>3. CASE FeedFault /\ GiveUp(f)
  BY <1>0, <1>3, FeedFaultCounts, <1>4, GivesUp
<1> QED
  BY <1>5, <1>1, <1>2, <1>3

LEMMA FetchListKeeps == ASSUME FeedInv, NEW f \in Fetchers, FetchList(f) PROVE FeedInv'
<1> USE DEF FetchList
<1>0. FeedTypes /\ FeedsOK /\ fetch \in [Fetchers -> FetchState] /\ feedAsked' \in Nat /\ fetch[f].at = "list"
      /\ (\A g \in Fetchers : FetchOK(g)) /\ feedMishaps \in Nat /\ goneBack \in BOOLEAN
  BY DEF FeedInv, FeedTypes
<1>4. UNCHANGED <<latest, activeFeed, cached, currentFeed, newestActive, feedsCrossed, goneBack>>
  OBVIOUS
<1>5. \/ /\ HashAgrees(ListOf[latest], fetch[f].version) /\ UNCHANGED feedMishaps
         /\ fetch' = [fetch EXCEPT ![f].at = "swap", ![f].list = ListOf[latest]]
      \/ GiveUp(f) /\ UNCHANGED feedMishaps
      \/ FeedFault /\ GiveUp(f)
  OBVIOUS
<1>6. goneBack' \in {goneBack, TRUE}
  BY <1>4, Zenon
<1> HIDE DEF FetchList
<1>1. CASE /\ HashAgrees(ListOf[latest], fetch[f].version) /\ UNCHANGED feedMishaps
           /\ fetch' = [fetch EXCEPT ![f].at = "swap", ![f].list = ListOf[latest]]
  <2> DEFINE new == [fetch[f] EXCEPT !.at = "swap", !.list = ListOf[latest]]
  <2>0. ListOf[latest] \in Lists
    BY <1>0 DEF FeedTypes, Lists
  <2>1. /\ new \in FetchState /\ new.at = "swap" /\ new.version = fetch[f].version /\ new.list = ListOf[latest]
        /\ new.over = fetch[f].over
    BY <1>0, <2>0 DEF FetchState, FetchSteps
  <2>2. fetch' = [fetch EXCEPT ![f] = new]
    BY <1>0, <1>1
  <2> HIDE DEF new
  <2>3. fetch'[f] = new /\ \A g \in Fetchers : g # f => fetch'[g] = fetch[g]
    BY <1>0, <2>2
  <2>4. FetchOK(f)'
    BY <1>0, <1>4, <1>1, <2>1, <2>3 DEF FetchOK, NewerThanCached, HashAgrees
  <2>9. /\ feedMishaps' \in Nat /\ feedMishaps <= feedMishaps' /\ new.at \notin {"store", "current"}
        /\ fetch[f].at \notin {"store", "current"}
    BY <1>0, <1>1, <2>1, <2>2
  <2> QED
    BY <1>0, <1>4, <1>1, <2>1, <2>2, <2>4, <1>4, <1>6, <2>9, OnlyFetch
<1>2. CASE GiveUp(f) /\ UNCHANGED feedMishaps
  BY <1>0, <1>2, <1>4, GivesUp
<1>3. CASE FeedFault /\ GiveUp(f)
  BY <1>0, <1>3, FeedFaultCounts, <1>4, GivesUp
<1> QED
  BY <1>5, <1>1, <1>2, <1>3

\* What is read of the cache.
LEMMA ReadsCacheIs ==
  ASSUME FeedInv, NEW f \in Fetchers, NEW c \in cached, NEW at \in FetchSteps, ReadsCache(f, c, at)
  PROVE  \E new \in FetchState : /\ fetch' = [fetch EXCEPT ![f] = new] /\ fetch'[f] = new /\ new.at = at
                                 /\ new.version = c.version /\ new.list = c.list /\ new.over = Recording(f)
<1> DEFINE new == [IdleFetch EXCEPT !.at = at, !.version = c.version, !.list = c.list, !.over = Recording(f)]
<1>1. c.version \in Versions /\ c.list \in Lists /\ Recording(f) \in BOOLEAN
  BY DEF FeedInv, FeedTypes, Recording
<1>2. IdleFetch \in FetchState
  BY IdleIsState
<1>3. new \in FetchState /\ new.at = at /\ new.version = c.version /\ new.list = c.list /\ new.over = Recording(f)
  BY <1>1, <1>2 DEF FetchState
<1>4. fetch' = [fetch EXCEPT ![f] = new]
  BY DEF ReadsCache
<1> HIDE DEF new
<1>5. fetch'[f] = new
  BY <1>4 DEF FeedInv, FeedTypes
<1> QED
  BY <1>3, <1>4, <1>5

LEMMA LoadFromCacheKeeps == ASSUME FeedInv, NEW f \in Fetchers, LoadFromCache(f) PROVE FeedInv'
<1> USE DEF LoadFromCache, feedBounds
<1>0. FeedTypes /\ FeedsOK /\ fetch \in [Fetchers -> FetchState] /\ feedAsked' \in Nat /\ fetch[f].at = "cache"
      /\ feedMishaps \in Nat /\ goneBack \in BOOLEAN /\ feedMishaps' = feedMishaps /\ goneBack' = goneBack
  BY DEF FeedInv, FeedTypes
<1>4. UNCHANGED <<latest, activeFeed, cached, currentFeed, newestActive, feedsCrossed, goneBack>>
  OBVIOUS
<1>5. \/ \E c \in cached : c.version = currentFeed /\ HashAgrees(c.list, c.version) /\ ReadsCache(f, c, "cached")
      \/ fetch' = [fetch EXCEPT ![f] = IdleFetch]
  OBVIOUS
<1>6. goneBack' \in {goneBack, TRUE}
  BY <1>4, Zenon
<1> HIDE DEF LoadFromCache
<1>7. feedMishaps' \in Nat /\ feedMishaps <= feedMishaps'
  BY <1>0
<1>1. CASE \E c \in cached : c.version = currentFeed /\ HashAgrees(c.list, c.version) /\ ReadsCache(f, c, "cached")
  <2>1. PICK c \in cached : c.version = currentFeed /\ ReadsCache(f, c, "cached")
    BY <1>1
  <2>2. PICK new \in FetchState : /\ fetch' = [fetch EXCEPT ![f] = new] /\ fetch'[f] = new /\ new.at = "cached"
                                  /\ new.version = c.version /\ new.list = c.list /\ new.over = Recording(f)
    BY <2>1, ReadsCacheIs DEF FetchSteps
  <2>3. c.version \in Versions /\ c.version <= latest /\ c.list = ListOf[c.version]
    BY <1>0 DEF FeedTypes, FeedsOK
  <2>4. Recording(f)' = Recording(f)
    BY <1>0, <2>2 DEF Recording
  <2>5. FetchOK(f)'
    BY <1>4, <2>1, <2>2, <2>3, <2>4 DEF FetchOK
  <2>9. new.at \notin {"store", "current"} /\ fetch[f].at \notin {"store", "current"}
    BY <1>0, <2>2
  <2> QED
    BY <1>0, <2>2, <2>5, <1>4, <1>6, <1>7, <2>9, OnlyFetch
<1>2. CASE fetch' = [fetch EXCEPT ![f] = IdleFetch]
  BY <1>0, <1>2, IdleIsState, <1>4, <1>7, WayEnds
<1> QED
  BY <1>5, <1>1, <1>2

LEMMA RollbackKeeps == ASSUME FeedInv, NEW f \in Fetchers, Rollback(f) PROVE FeedInv'
<1> USE DEF Rollback
<1>0. FeedTypes /\ FeedsOK /\ fetch \in [Fetchers -> FetchState] /\ feedAsked' \in Nat /\ fetch[f].at = "idle"
      /\ feedMishaps \in Nat /\ goneBack \in BOOLEAN /\ feedMishaps' = feedMishaps /\ goneBack' = TRUE
  BY DEF FeedInv, FeedTypes, FeedAsk
<1>1. PICK c \in cached : ReadsCache(f, c, "back")
  OBVIOUS
<1>5. UNCHANGED <<latest, activeFeed, cached, currentFeed, newestActive, feedsCrossed>>
  OBVIOUS
<1>6. goneBack' \in {goneBack, TRUE}
  BY <1>0, Zenon
<1> HIDE DEF Rollback
<1>2. PICK new \in FetchState : /\ fetch' = [fetch EXCEPT ![f] = new] /\ fetch'[f] = new /\ new.at = "back"
                                /\ new.version = c.version /\ new.list = c.list /\ new.over = Recording(f)
  BY <1>1, ReadsCacheIs DEF FetchSteps
<1>3. c.version \in Versions /\ c.version <= latest /\ c.list = ListOf[c.version]
  BY <1>0 DEF FeedTypes, FeedsOK
<1>4. FetchOK(f)'
  BY <1>0, <1>2, <1>3, <1>5 DEF FetchOK
<1>7. /\ feedMishaps' \in Nat /\ feedMishaps <= feedMishaps' /\ new.at \notin {"store", "current"}
      /\ fetch[f].at \notin {"store", "current"}
  BY <1>0, <1>2
<1> QED
  BY <1>0, <1>2, <1>4, <1>5, <1>6, <1>7, OnlyFetch

\* What is activated was not overtaken, or the crossing is on record.
LEMMA Activated ==
  ASSUME FeedInv, NEW f \in Fetchers, NEW next \in FetchState, Activates(f, next),
         UNCHANGED <<latest, cached, currentFeed, feedBounds, goneBack>>,
         \/ fetch[f].at = "swap" /\ next.at = "store"
         \/ fetch[f].at = "cached" /\ next.at = "idle"
         \/ fetch[f].at = "back" /\ next.at = "current",
         next.at # "idle" => next.version = fetch[f].version /\ next.list = fetch[f].list /\ ~next.over
  PROVE  FeedInv'
<1> DEFINE v == fetch[f].version
<1>0. /\ FeedTypes /\ FeedsOK /\ (\A g \in Fetchers : FetchOK(g)) /\ goneBack \in BOOLEAN /\ goneBack' = goneBack
      /\ feedMishaps' = feedMishaps /\ feedMishaps \in Nat /\ feedAsked' \in Nat /\ fetch \in [Fetchers -> FetchState]
      /\ latest' = latest /\ cached' = cached /\ currentFeed' = currentFeed
  BY DEF FeedInv, FeedTypes, feedBounds
<1>1. /\ v \in Versions /\ v <= latest /\ v \in Nat /\ fetch[f].list = ListOf[v] /\ ListOf[v] \in Lists
      /\ newestActive \in Nat /\ activeFeed.version \in Nat /\ latest \in Nat /\ currentFeed \in Nat
  <2>1. v \in Versions /\ v <= latest /\ fetch[f].list = ListOf[v]
    BY <1>0 DEF FetchOK
  <2>2. ListOf[v] \in Lists /\ v \in Nat
    BY <2>1, NatVersions DEF Lists
  <2>3. newestActive \in Nat /\ latest \in Nat /\ currentFeed \in Nat
    BY <1>0, NatVersions DEF FeedTypes
  <2>4. activeFeed.version \in Nat
    <3>1. activeFeed.version \in Versions \cup {0}
      BY <1>0 DEF FeedTypes
    <3>2. Versions \cup {0} \subseteq Nat
      BY NatVersions
    <3> QED
      BY <3>1, <3>2, Zenon
  <2> QED
    BY <2>1, <2>2, <2>3, <2>4
<1>2. /\ activeFeed' = [version |-> v, list |-> ListOf[v]]
      /\ activeFeed'.version = v /\ activeFeed'.list = ListOf[v]
  BY <1>1 DEF Activates
<1>3. /\ fetch'[f] = next
      /\ \A g \in Fetchers : g # f => fetch'[g] = [fetch[g] EXCEPT !.over = TRUE]
  BY DEF Activates
<1>4. \A g \in Fetchers : g # f => /\ fetch'[g] \in FetchState /\ fetch'[g].at = fetch[g].at /\ fetch'[g].over
                                   /\ fetch'[g].version = fetch[g].version /\ fetch'[g].list = fetch[g].list
  <2>1. ASSUME NEW g \in Fetchers, g # f
        PROVE  /\ fetch'[g] \in FetchState /\ fetch'[g].at = fetch[g].at /\ fetch'[g].over
               /\ fetch'[g].version = fetch[g].version /\ fetch'[g].list = fetch[g].list
    <3> DEFINE r == fetch[g]
               s == fetch'[g]
    <3>1. r \in FetchState /\ s = [r EXCEPT !.over = TRUE]
      BY <1>0, <1>3, <2>1
    <3> HIDE DEF r, s
    <3>2. s \in FetchState /\ s.at = r.at /\ s.over /\ s.version = r.version /\ s.list = r.list
      BY <3>1 DEF FetchState
    <3> QED
      BY <3>2 DEF r, s
  <2> QED
    BY <2>1
<1>5. fetch' \in [Fetchers -> FetchState]
  <2>1. fetch' = [g \in Fetchers |-> fetch'[g]]
    BY DEF Activates
  <2> QED
    BY <1>3, <1>4, <2>1
<1>6. /\ newestActive' = (IF v > newestActive THEN v ELSE newestActive) /\ newestActive' \in Versions \cup {0}
      /\ feedsCrossed' = (feedsCrossed \/ fetch[f].over \/ Recording(f)) /\ feedsCrossed' \in BOOLEAN
  BY <1>0, <1>1 DEF Activates, FeedTypes, Recording
<1>7. ~feedsCrossed' => ~feedsCrossed /\ ~fetch[f].over /\ \A g \in Fetchers : g # f => fetch[g].at \notin {"store", "current"}
  BY <1>6 DEF Recording
<1>8. FeedTypes'
  BY <1>0, <1>1, <1>2, <1>5, <1>6 DEF FeedTypes
<1>9. ~feedsCrossed' /\ fetch[f].at = "cached" => v = currentFeed
  BY <1>0, <1>7 DEF FetchOK
<1>10. FeedsOK'
  <2>1. \A c \in cached' : c.list = ListOf[c.version] /\ c.version <= latest'
    BY <1>0 DEF FeedsOK
  <2>2. activeFeed'.version \in Versions /\ activeFeed'.list = ListOf[activeFeed'.version] /\ activeFeed'.version <= latest'
        /\ currentFeed' <= latest'
    BY <1>0, <1>1, <1>2 DEF FeedsOK
  <2>3. ~feedsCrossed' => \A g, h \in Fetchers : {fetch'[g].at, fetch'[h].at} \subseteq {"store", "current"} => g = h
    BY <1>4, <1>7
  <2>4. \/ feedsCrossed' \/ feedMishaps' > 0 \/ currentFeed' = activeFeed'.version
        \/ \E g \in Fetchers : fetch'[g].at \in {"store", "current"}
    BY <1>0, <1>2, <1>3, <1>9
  <2>5. FeedGoesForward'
    <3> SUFFICES ASSUME ~goneBack', ~feedsCrossed', ~(feedMishaps' > 0) PROVE activeFeed'.version >= newestActive'
      BY DEF FeedGoesForward
    <3>1. ~goneBack /\ ~feedsCrossed /\ ~(feedMishaps > 0) /\ ~fetch[f].over
      BY <1>0, <1>7
    <3>2. activeFeed.version >= newestActive
      BY <1>0, <3>1 DEF FeedsOK, FeedGoesForward
    <3>3. CASE fetch[f].at = "swap"
      <4>1. activeFeed.version <= v
        BY <1>0, <3>1, <3>3 DEF FetchOK
      <4> QED
        BY <1>1, <1>2, <1>6, <3>2, <4>1
    <3>4. CASE fetch[f].at = "cached"
      <4>1. \A g \in Fetchers : fetch[g].at \notin {"store", "current"}
        BY <1>7, <3>4
      <4>2. currentFeed = activeFeed.version
        BY <1>0, <3>1, <4>1 DEF FeedsOK
      <4> QED
        BY <1>1, <1>2, <1>6, <1>9, <3>2, <3>4, <4>2
    <3>5. fetch[f].at # "back"
      BY <1>0, <3>1 DEF FetchOK
    <3> QED
      BY <3>3, <3>4, <3>5
  <2>6. CurrentIsCached'
    BY <1>0, <1>7 DEF FeedsOK, CurrentIsCached
  <2>7. feedsCrossed' \/ goneBack' \/ Cardinality(Ahead)' <= feedMishaps' + (IF BeingRecorded' THEN 1 ELSE 0)
    <3> SUFFICES ASSUME ~goneBack', ~feedsCrossed' PROVE Cardinality(Ahead)' <= feedMishaps' + (IF BeingRecorded' THEN 1 ELSE 0)
      OBVIOUS
    <3>1. ~goneBack /\ ~feedsCrossed
      BY <1>0, <1>7
    <3>2. fetch[f].at # "back" /\ next.at # "current" /\ fetch[f].at # "current"
      BY <1>0, <3>1 DEF FetchOK
    <3>3. BeingRecorded' = BeingRecorded
      BY <1>3, <1>4, <3>2 DEF BeingRecorded
    <3>4. Ahead' = Ahead
      BY <1>0 DEF Ahead
    <3> QED
      BY <1>0, <3>1, <3>3, <3>4 DEF FeedsOK
  <2> QED
    BY <2>1, <2>2, <2>3, <2>4, <2>5, <2>6, <2>7 DEF FeedsOK
<1>11. ASSUME NEW g \in Fetchers, g # f PROVE FetchOK(g)'
  <2>1. FetchOK(g) /\ fetch'[g].over /\ fetch'[g].at = fetch[g].at /\ fetch'[g].version = fetch[g].version
        /\ fetch'[g].list = fetch[g].list
    BY <1>0, <1>4, <1>11
  <2>2. fetch[g].at \in {"store", "current"} => feedsCrossed'
    BY <1>7, <1>11
  <2> QED
    BY <1>0, <2>1, <2>2 DEF FetchOK
<1>12. FetchOK(f)'
  <2>1. CASE next.at = "idle"
    BY <1>3, <2>1 DEF FetchOK
  <2>2. CASE next.at = "store"
    <3>1. ~feedsCrossed' => NewerThanCached(v)
      BY <1>0, <1>7, <2>2 DEF FetchOK
    <3> QED
      BY <1>0, <1>1, <1>2, <1>3, <2>2, <3>1 DEF FetchOK, NewerThanCached
  <2>3. CASE next.at = "current"
    <3>1. goneBack'
      BY <1>0, <2>3 DEF FetchOK
    <3> QED
      BY <1>0, <1>1, <1>2, <1>3, <2>3, <3>1 DEF FetchOK
  <2> QED
    BY <2>1, <2>2, <2>3
<1> QED
  BY <1>8, <1>10, <1>11, <1>12 DEF FeedInv

LEMMA SwapsKeep == ASSUME FeedInv, NEW f \in Fetchers, SwapRefreshed(f) \/ SwapCached(f) \/ SwapBack(f) PROVE FeedInv'
<1>0. fetch[f] \in FetchState
  BY DEF FeedInv, FeedTypes
<1>1. CASE SwapRefreshed(f)
  <2> DEFINE next == [fetch[f] EXCEPT !.at = "store", !.boot = FALSE, !.over = FALSE]
  <2>1. /\ next \in FetchState /\ next.at = "store" /\ next.version = fetch[f].version /\ next.list = fetch[f].list
        /\ ~next.over
    BY <1>0 DEF FetchState, FetchSteps
  <2>2. fetch[f].at = "swap" /\ Activates(f, next) /\ UNCHANGED <<latest, cached, currentFeed, feedBounds, goneBack>>
    BY <1>1 DEF SwapRefreshed
  <2> HIDE DEF next
  <2> QED
    BY <2>1, <2>2, Activated
<1>2. CASE SwapCached(f)
  <2>1. IdleFetch \in FetchState /\ IdleFetch.at = "idle"
    BY IdleIsState
  <2>2. fetch[f].at = "cached" /\ Activates(f, IdleFetch) /\ UNCHANGED <<latest, cached, currentFeed, feedBounds, goneBack>>
    BY <1>2 DEF SwapCached
  <2> QED
    BY <2>1, <2>2, Activated
<1>3. CASE SwapBack(f)
  <2> DEFINE next == [fetch[f] EXCEPT !.at = "current", !.over = FALSE]
  <2>1. /\ next \in FetchState /\ next.at = "current" /\ next.version = fetch[f].version /\ next.list = fetch[f].list
        /\ ~next.over
    BY <1>0 DEF FetchState, FetchSteps
  <2>2. fetch[f].at = "back" /\ Activates(f, next) /\ UNCHANGED <<latest, cached, currentFeed, feedBounds, goneBack>>
    BY <1>3 DEF SwapBack
  <2> HIDE DEF next
  <2> QED
    BY <2>1, <2>2, Activated
<1> QED
  BY <1>1, <1>2, <1>3

\* What a store leaves: the rows of before and its own, and of those the last versions.
RowOf(f) == [version |-> fetch[f].version, list |-> fetch[f].list]
RowsWith(f) == {c \in cached : c.version # fetch[f].version} \cup {RowOf(f)}

LEMMA RowsWithTypes ==
  ASSUME FeedInv, NEW f \in Fetchers, fetch[f].at = "store"
  PROVE  /\ RowsWith(f) \subseteq [version : Versions, list : Lists] /\ IsFiniteSet(RowsWith(f))
         /\ \A c \in RowsWith(f) : c.list = ListOf[c.version] /\ c.version <= latest /\ c.version \in Nat
         /\ \A c \in RowsWith(f) : c \in cached \/ c = RowOf(f)
         /\ \A c \in cached : c.version # fetch[f].version => c \in RowsWith(f)
         /\ RowOf(f) \in RowsWith(f) /\ RowOf(f).version = fetch[f].version
<1>1. FeedTypes /\ FeedsOK /\ FetchOK(f)
  BY DEF FeedInv
<1>2. fetch[f].version \in Versions /\ fetch[f].version <= latest /\ fetch[f].list = ListOf[fetch[f].version]
  BY <1>1 DEF FetchOK
<1>3. RowOf(f) \in [version : Versions, list : Lists] /\ RowOf(f).version = fetch[f].version /\ RowOf(f).list = fetch[f].list
  BY <1>2 DEF RowOf, Lists
<1>4. IsFiniteSet(cached) /\ cached \subseteq [version : Versions, list : Lists]
  BY <1>1 DEF FeedTypes
<1>5. IsFiniteSet({c \in cached : c.version # fetch[f].version})
  <2>1. {c \in cached : c.version # fetch[f].version} \subseteq cached
    OBVIOUS
  <2> QED
    BY <1>4, <2>1, FS_Subset
<1>6. IsFiniteSet(RowsWith(f))
  BY <1>5, FS_AddElement DEF RowsWith
<1>7. \A c \in RowsWith(f) : c \in cached \/ c = RowOf(f)
  BY DEF RowsWith
<1>8. \A c \in cached : c.list = ListOf[c.version] /\ c.version <= latest
  BY <1>1 DEF FeedsOK
<1>9. \A c \in RowsWith(f) : c \in [version : Versions, list : Lists] /\ c.list = ListOf[c.version] /\ c.version <= latest
  BY <1>2, <1>3, <1>4, <1>7, <1>8
<1>10. \A c \in RowsWith(f) : c.version \in Nat
  BY <1>9, NatVersions
<1> QED
  BY <1>3, <1>6, <1>7, <1>9, <1>10 DEF RowsWith

\* A version that no row is newer than is not pruned.
LEMMA NewestStays ==
  ASSUME NEW rows, NEW c \in rows, ~\E d \in rows : d.version > c.version PROVE c \in Pruned(rows)
<1>1. {d \in rows : d.version > c.version} = {}
  OBVIOUS
<1>2. Cardinality({d \in rows : d.version > c.version}) = 0
  BY <1>1, FS_EmptySet
<1>3. 0 < CacheKept
  BY IntelAssumption
<1> QED
  BY <1>2, <1>3 DEF Pruned

\* A store that nobody crossed is the newest of the cache and adds one version at most to those ahead.
LEMMA StoreIsAhead ==
  ASSUME FeedInv, NEW f \in Fetchers, fetch[f].at = "store", ~feedsCrossed
  PROVE  /\ \A c \in RowsWith(f) : c.version <= fetch[f].version
         /\ RowOf(f) \in Pruned(RowsWith(f)) /\ ~BeingRecorded
         /\ ~goneBack => LET more == {c \in RowsWith(f) : c.version > currentFeed}
                         IN IsFiniteSet(more) /\ Cardinality(more) <= feedMishaps + 1
         /\ IsFiniteSet(Ahead)
<1>1. FeedTypes /\ FeedsOK /\ FetchOK(f)
  BY DEF FeedInv
<1>2. \A c \in RowsWith(f) : c.version <= fetch[f].version
  <2>1. \A c \in cached : c.version <= fetch[f].version
    BY <1>1 DEF FetchOK, NewerThanCached
  <2>2. \A c \in RowsWith(f) : (c \in cached \/ c = RowOf(f)) /\ c.version \in Nat
    BY RowsWithTypes
  <2>3. RowOf(f).version = fetch[f].version /\ RowOf(f) \in RowsWith(f)
    BY RowsWithTypes
  <2> QED
    BY <2>1, <2>2, <2>3
<1>3. RowOf(f) \in Pruned(RowsWith(f))
  <2>1. RowOf(f).version = fetch[f].version /\ RowOf(f) \in RowsWith(f) /\ \A c \in RowsWith(f) : c.version \in Nat
    BY RowsWithTypes
  <2>2. ~\E d \in RowsWith(f) : d.version > RowOf(f).version
    BY <1>2, <2>1
  <2> QED
    BY <2>1, <2>2, NewestStays
<1>4. ~BeingRecorded
  <2>1. \A g \in Fetchers : {fetch[f].at, fetch[g].at} \subseteq {"store", "current"} => f = g
    BY <1>1 DEF FeedsOK
  <2> QED
    BY <2>1 DEF BeingRecorded
<1>5. IsFiniteSet(Ahead) /\ Cardinality(Ahead) \in Nat
  <2>1. Ahead \subseteq cached /\ IsFiniteSet(cached)
    BY <1>1 DEF Ahead, FeedTypes
  <2> QED
    BY <2>1, FS_Subset, FS_CardinalityType
<1>6. ASSUME ~goneBack
      PROVE  LET more == {c \in RowsWith(f) : c.version > currentFeed}
             IN IsFiniteSet(more) /\ Cardinality(more) <= feedMishaps + 1
  <2> DEFINE more == {c \in RowsWith(f) : c.version > currentFeed}
             upper == Ahead \cup {RowOf(f)}
  <2>1. more \subseteq upper
    <3>1. \A c \in RowsWith(f) : c \in cached \/ c = RowOf(f)
      BY RowsWithTypes
    <3> QED
      BY <3>1 DEF Ahead
  <2>2. IsFiniteSet(upper) /\ Cardinality(upper) <= Cardinality(Ahead) + 1 /\ Cardinality(upper) \in Nat
    <3>1. IsFiniteSet(upper) /\ Cardinality(upper) = IF RowOf(f) \in Ahead THEN Cardinality(Ahead) ELSE Cardinality(Ahead) + 1
      BY <1>5, FS_AddElement
    <3> QED
      BY <1>5, <3>1
  <2>3. Cardinality(Ahead) <= feedMishaps
    BY <1>1, <1>4, <1>6 DEF FeedsOK, FeedTypes
  <2> HIDE DEF more, upper
  <2>4. IsFiniteSet(more) /\ Cardinality(more) <= Cardinality(upper) /\ Cardinality(more) \in Nat
    BY <2>1, <2>2, FS_Subset, FS_CardinalityType
  <2>5. feedMishaps \in Nat
    BY <1>1 DEF FeedTypes
  <2>6. Cardinality(more) <= feedMishaps + 1
    BY <1>5, <2>2, <2>3, <2>4, <2>5
  <2> QED
    BY <2>4, <2>6 DEF more
<1> QED
  BY <1>2, <1>3, <1>4, <1>5, <1>6

LEMMA DbIntelStoreKeeps == ASSUME FeedInv, NEW f \in Fetchers, DbIntelStore(f) PROVE FeedInv'
<1> DEFINE v == fetch[f].version
<1>0. /\ FeedTypes /\ FeedsOK /\ (\A g \in Fetchers : FetchOK(g)) /\ fetch \in [Fetchers -> FetchState] /\ feedMishaps \in Nat
  BY DEF FeedInv, FeedTypes
<1>1. /\ fetch[f].at = "store" /\ feedAsked' = feedAsked /\ latest' = latest /\ activeFeed' = activeFeed
      /\ currentFeed' = currentFeed /\ newestActive' = newestActive /\ goneBack' = goneBack /\ feedsCrossed' = feedsCrossed
  BY DEF DbIntelStore
<1>2. \/ cached' = Pruned(RowsWith(f)) /\ fetch' = [fetch EXCEPT ![f].at = "current"] /\ UNCHANGED feedMishaps
      \/ FeedFault /\ cached' = RowsWith(f) /\ fetch' = [fetch EXCEPT ![f].at = "current"]
      \/ FeedFault /\ UNCHANGED cached /\ fetch' = [fetch EXCEPT ![f] = IdleFetch]
  BY DEF DbIntelStore, RowsWith, RowOf
<1>3. feedMishaps' \in Nat /\ feedMishaps <= feedMishaps'
  BY <1>0, <1>2, FeedFaultCounts
<1>4. \A g \in Fetchers : g # f => fetch'[g] = fetch[g]
  BY <1>0, <1>2
<1>5. fetch' \in [Fetchers -> FetchState] /\ fetch'[f].at \in {"current", "idle"}
  <2>1. CASE fetch' = [fetch EXCEPT ![f] = IdleFetch]
    BY <1>0, <2>1, IdleIsState
  <2>2. CASE fetch' = [fetch EXCEPT ![f].at = "current"]
    <3> DEFINE new == [fetch[f] EXCEPT !.at = "current"]
    <3>1. new \in FetchState /\ new.at = "current"
      BY <1>0 DEF FetchState, FetchSteps
    <3>2. fetch' = [fetch EXCEPT ![f] = new]
      BY <1>0, <2>2
    <3> HIDE DEF new
    <3> QED
      BY <1>0, <3>1, <3>2
  <2> QED
    BY <1>2, <2>1, <2>2
<1>6. fetch'[f].at = "current" => /\ fetch'[f].version = v /\ fetch'[f].over = fetch[f].over
                                  /\ cached' \in {RowsWith(f), Pruned(RowsWith(f))}
  <2>1. CASE fetch' = [fetch EXCEPT ![f] = IdleFetch]
    BY <1>0, <2>1, IdleIsState
  <2>2. CASE fetch' = [fetch EXCEPT ![f].at = "current"]
    <3>1. fetch'[f] = [fetch[f] EXCEPT !.at = "current"] /\ fetch[f] \in FetchState
      BY <1>0, <2>2
    <3>2. fetch'[f].version = v /\ fetch'[f].over = fetch[f].over
      BY <3>1 DEF FetchState
    <3>3. cached' \in {RowsWith(f), Pruned(RowsWith(f))} \/ fetch'[f].at # "current"
      BY <1>0, <1>2, IdleIsState
    <3> QED
      BY <3>2, <3>3
  <2> QED
    BY <1>2, <2>1, <2>2
<1>7. fetch'[f].at = "idle" => cached' = cached /\ feedMishaps' > 0
  <2>1. fetch' = [fetch EXCEPT ![f].at = "current"] => fetch'[f].at = "current"
    <3>1. ASSUME NEW r \in FetchState PROVE [r EXCEPT !.at = "current"].at = "current"
      BY DEF FetchState
    <3> QED
      BY <1>0, <3>1
  <2> QED
    BY <1>0, <1>2, <2>1, FeedFaultCounts
<1>8. cached' \subseteq RowsWith(f) \/ cached' = cached
  BY <1>5, <1>6, <1>7 DEF Pruned
<1> HIDE DEF v
<1>9. FeedTypes' /\ IsFiniteSet(cached')
  <2>1. RowsWith(f) \subseteq [version : Versions, list : Lists] /\ IsFiniteSet(RowsWith(f))
    BY <1>1, RowsWithTypes
  <2>2. cached' \subseteq [version : Versions, list : Lists] /\ IsFiniteSet(cached')
    BY <1>0, <1>8, <2>1, FS_Subset DEF FeedTypes
  <2> QED
    BY <1>0, <1>1, <1>3, <1>5, <2>2 DEF FeedTypes
<1>10. \A g, h \in Fetchers : ~feedsCrossed' /\ {fetch'[g].at, fetch'[h].at} \subseteq {"store", "current"} => g = h
  <2>1. \A g \in Fetchers : fetch'[g].at \in {"store", "current"} => fetch[g].at \in {"store", "current"}
    BY <1>1, <1>4
  <2> QED
    BY <1>0, <1>1, <2>1 DEF FeedsOK
<1>11. \A c \in cached' : c.list = ListOf[c.version] /\ c.version <= latest'
  <2>1. \A c \in RowsWith(f) : c.list = ListOf[c.version] /\ c.version <= latest
    BY <1>1, RowsWithTypes
  <2> QED
    BY <1>0, <1>1, <1>8, <2>1 DEF FeedsOK
<1>12. CurrentIsCached'
  <2> SUFFICES ASSUME currentFeed # 0, ~goneBack, ~feedsCrossed, ~(feedMishaps' > CacheKept - 2)
               PROVE  \E c \in cached' : c.version = currentFeed
    BY <1>1 DEF CurrentIsCached
  <2>0. CacheKept \in Nat /\ ~(feedMishaps > CacheKept - 2) /\ feedMishaps + 1 < CacheKept /\ currentFeed \in Nat
    <3>1. CacheKept \in Nat /\ currentFeed \in Nat
      BY <1>0, IntelAssumption, NatVersions DEF FeedTypes
    <3> QED
      BY <1>0, <1>3, <3>1
  <2>1. PICK c \in cached : c.version = currentFeed
    BY <1>0, <2>0 DEF FeedsOK, CurrentIsCached
  <2>2. CASE cached' = cached
    BY <2>1, <2>2
  <2>3. CASE cached' # cached
    <3>1. cached' = RowsWith(f) \/ cached' = Pruned(RowsWith(f))
      BY <1>5, <1>6, <1>7, <2>3
    <3>2. CASE currentFeed = v
      <4>1. RowOf(f) \in Pruned(RowsWith(f)) /\ RowOf(f).version = currentFeed /\ RowOf(f) \in RowsWith(f)
        BY <1>1, <3>2, StoreIsAhead, RowsWithTypes DEF v
      <4> QED
        BY <3>1, <4>1
    <3>3. CASE currentFeed # v
      <4>1. c \in RowsWith(f)
        BY <1>1, <2>1, <3>3, RowsWithTypes DEF v
      <4> DEFINE more == {d \in RowsWith(f) : d.version > currentFeed}
      <4>2. IsFiniteSet(more) /\ Cardinality(more) <= feedMishaps + 1
        BY <1>1, StoreIsAhead
      <4>3. Cardinality(more) \in Nat
        BY <4>2, FS_CardinalityType
      <4>4. more = {d \in RowsWith(f) : d.version > c.version}
        BY <2>1
      <4> HIDE DEF more
      <4>5. Cardinality(more) < CacheKept
        BY <1>0, <2>0, <4>2, <4>3
      <4>6. c \in Pruned(RowsWith(f))
        BY <4>1, <4>4, <4>5 DEF Pruned
      <4> QED
        BY <2>1, <3>1, <4>1, <4>6
    <3> QED
      BY <3>2, <3>3
  <2> QED
    BY <2>2, <2>3
<1>13. \/ feedsCrossed' \/ goneBack'
       \/ Cardinality(Ahead') <= feedMishaps' + (IF BeingRecorded' THEN 1 ELSE 0)
  <2> SUFFICES ASSUME ~feedsCrossed, ~goneBack
               PROVE  Cardinality(Ahead') <= feedMishaps' + (IF BeingRecorded' THEN 1 ELSE 0)
    BY <1>1
  <2>1. CASE fetch'[f].at = "current"
    <3> DEFINE more == {c \in RowsWith(f) : c.version > currentFeed}
    <3>1. IsFiniteSet(more) /\ Cardinality(more) <= feedMishaps + 1
      BY <1>1, StoreIsAhead
    <3>2. Ahead' \subseteq more
      BY <1>1, <1>6, <2>1 DEF Ahead, Pruned
    <3> HIDE DEF more
    <3>3. BeingRecorded'
      BY <2>1 DEF BeingRecorded
    <3>4. IsFiniteSet(Ahead') /\ Cardinality(Ahead') <= Cardinality(more) /\ Cardinality(Ahead') \in Nat /\ Cardinality(more) \in Nat
      BY <3>1, <3>2, FS_Subset, FS_CardinalityType
    <3> QED
      BY <1>0, <1>3, <3>1, <3>3, <3>4
  <2>2. CASE fetch'[f].at = "idle"
    <3>1. Ahead' = Ahead
      BY <1>1, <1>7, <2>2 DEF Ahead
    <3>2. Cardinality(Ahead) <= feedMishaps /\ Cardinality(Ahead) \in Nat
      <4>1. ~BeingRecorded /\ IsFiniteSet(Ahead)
        BY <1>1, StoreIsAhead
      <4>2. Cardinality(Ahead) <= feedMishaps + (IF BeingRecorded THEN 1 ELSE 0)
        BY <1>0 DEF FeedsOK
      <4>3. Cardinality(Ahead) \in Nat
        BY <4>1, FS_CardinalityType
      <4> QED
        BY <1>0, <4>1, <4>2, <4>3
    <3> QED
      BY <1>0, <1>3, <3>1, <3>2
  <2> QED
    BY <1>5, <2>1, <2>2
<1>14. FeedsOK'
  <2>1. \/ feedsCrossed' \/ feedMishaps' > 0 \/ currentFeed' = activeFeed'.version
        \/ \E g \in Fetchers : fetch'[g].at \in {"store", "current"}
    BY <1>5, <1>7
  <2>2. FeedGoesForward'
    BY <1>0, <1>1, <1>3 DEF FeedsOK, FeedGoesForward
  <2>3. activeFeed' = NoFeed \/ (activeFeed'.version \in Versions /\ activeFeed'.list = ListOf[activeFeed'.version])
    BY <1>0, <1>1 DEF FeedsOK
  <2>4. activeFeed'.version <= latest' /\ currentFeed' <= latest'
    BY <1>0, <1>1 DEF FeedsOK
  <2> QED
    BY <1>10, <1>11, <1>12, <1>13, <2>1, <2>2, <2>3, <2>4 DEF FeedsOK
<1>15. ASSUME NEW g \in Fetchers, g # f PROVE FetchOK(g)'
  <2>1. FetchOK(g) /\ fetch'[g] = fetch[g]
    BY <1>0, <1>4, <1>15
  <2>2. fetch[g].at \in {"store", "current"} => feedsCrossed
    BY <1>0, <1>1, <1>15 DEF FeedsOK
  <2>3. Recording(g)
    BY <1>1, <1>15 DEF Recording
  <2>4. ASSUME fetch[g].at \in {"list", "swap"}, ~fetch[g].over
        PROVE  (\A c \in cached' : c.version <= fetch[g].version)
               /\ \A h \in Fetchers : fetch'[h].at = "store" => fetch'[h].version <= fetch[g].version
    <3>1. (\A c \in cached : c.version <= fetch[g].version)
          /\ \A h \in Fetchers : fetch[h].at = "store" => fetch[h].version <= fetch[g].version
      BY <2>1, <2>4 DEF FetchOK, NewerThanCached
    <3>2. \A c \in RowsWith(f) : c \in cached \/ (c = RowOf(f) /\ RowOf(f).version = fetch[f].version)
      BY <1>1, RowsWithTypes
    <3>3. \A c \in cached' : c.version <= fetch[g].version
      BY <1>1, <1>8, <3>1, <3>2
    <3>4. \A h \in Fetchers : fetch'[h].at = "store" => fetch[h].at = "store" /\ fetch'[h] = fetch[h]
      BY <1>4, <1>5
    <3> QED
      BY <3>1, <3>3, <3>4
  <2> QED
    BY <1>1, <2>1, <2>2, <2>3, <2>4 DEF FetchOK, NewerThanCached
<1>16. FetchOK(f)'
  <2>1. CASE fetch'[f].at = "idle"
    BY <2>1 DEF FetchOK
  <2>2. CASE fetch'[f].at = "current"
    <3>1. /\ v \in Versions /\ v <= latest
          /\ IF fetch[f].over THEN feedsCrossed ELSE v = activeFeed.version
      BY <1>0, <1>1 DEF FetchOK, v
    <3>2. ~feedsCrossed => (\A c \in RowsWith(f) : c.version <= v) /\ RowOf(f) \in Pruned(RowsWith(f))
                           /\ RowOf(f) \in RowsWith(f) /\ RowOf(f).version = v
      BY <1>1, StoreIsAhead, RowsWithTypes DEF v
    <3>3. ~feedsCrossed => (\A c \in cached' : c.version <= v) /\ \E c \in cached' : c.version = v
      BY <1>6, <2>2, <3>2 DEF Pruned
    <3> QED
      BY <1>1, <1>6, <2>2, <3>1, <3>3 DEF FetchOK, NewerThanCached
  <2> QED
    BY <1>5, <2>1, <2>2
<1> QED
  BY <1>9, <1>14, <1>15, <1>16 DEF FeedInv

LEMMA DbIntelSetCurrentVersionKeeps == ASSUME FeedInv, NEW f \in Fetchers, DbIntelSetCurrentVersion(f) PROVE FeedInv'
<1> DEFINE v == fetch[f].version
<1>0. /\ FeedTypes /\ FeedsOK /\ (\A g \in Fetchers : FetchOK(g)) /\ fetch \in [Fetchers -> FetchState] /\ feedMishaps \in Nat
      /\ IsFiniteSet(cached) /\ goneBack \in BOOLEAN /\ feedsCrossed \in BOOLEAN
  BY DEF FeedInv, FeedTypes
<1>1. /\ fetch[f].at = "current" /\ feedAsked' = feedAsked /\ latest' = latest /\ activeFeed' = activeFeed
      /\ cached' = cached /\ newestActive' = newestActive /\ goneBack' = goneBack
      /\ feedsCrossed' = (feedsCrossed \/ fetch[f].over) /\ fetch' = [fetch EXCEPT ![f] = IdleFetch]
  BY DEF DbIntelSetCurrentVersion
<1>2. \/ currentFeed' = v /\ feedMishaps' = feedMishaps
      \/ FeedFault /\ currentFeed' = currentFeed
  BY DEF DbIntelSetCurrentVersion
<1>3. feedMishaps' \in Nat /\ feedMishaps <= feedMishaps'
  BY <1>0, <1>2, FeedFaultCounts
<1>4. /\ v \in Versions /\ v <= latest /\ (~fetch[f].over => v = activeFeed.version)
      /\ (~feedsCrossed /\ ~goneBack => (\A c \in cached : c.version <= v) /\ \E c \in cached : c.version = v)
  BY <1>0, <1>1 DEF FetchOK, NewerThanCached
<1>5. fetch' \in [Fetchers -> FetchState] /\ fetch'[f] = IdleFetch /\ IdleFetch.at = "idle"
      /\ \A g \in Fetchers : g # f => fetch'[g] = fetch[g]
  BY <1>0, <1>1, IdleIsState
<1>6. \A g \in Fetchers : fetch'[g].at # "idle" => g # f /\ fetch'[g] = fetch[g]
  BY <1>5
<1>7. feedsCrossed' \in BOOLEAN /\ (~feedsCrossed' => ~feedsCrossed /\ ~fetch[f].over)
  <2>1. fetch[f].over \in BOOLEAN
    BY <1>0 DEF FetchState
  <2> QED
    BY <1>0, <1>1, <2>1
<1> HIDE DEF v
<1>8. currentFeed' \in Versions \cup {0} /\ FeedTypes'
  BY <1>0, <1>1, <1>2, <1>3, <1>4, <1>5, <1>7 DEF FeedTypes
<1>9. ~feedsCrossed' => \A g \in Fetchers : fetch'[g].at \notin {"store", "current"}
  <2>1. ~feedsCrossed => \A g, h \in Fetchers : {fetch[g].at, fetch[h].at} \subseteq {"store", "current"} => g = h
    BY <1>0 DEF FeedsOK
  <2> QED
    BY <1>1, <1>6, <1>7, <2>1
<1>10. FeedsOK'
  <2>1. \A c \in cached' : c.list = ListOf[c.version] /\ c.version <= latest'
    BY <1>0, <1>1 DEF FeedsOK
  <2>2. activeFeed' = NoFeed \/ (activeFeed'.version \in Versions /\ activeFeed'.list = ListOf[activeFeed'.version])
    BY <1>0, <1>1 DEF FeedsOK
  <2>3. activeFeed'.version <= latest' /\ currentFeed' <= latest'
    BY <1>0, <1>1, <1>2, <1>4 DEF FeedsOK
  <2>4. ~feedsCrossed' => \A g, h \in Fetchers : {fetch'[g].at, fetch'[h].at} \subseteq {"store", "current"} => g = h
    BY <1>9
  <2>5. feedsCrossed' \/ feedMishaps' > 0 \/ currentFeed' = activeFeed'.version
    BY <1>1, <1>2, <1>4, <1>7, FeedFaultCounts
  <2>6. FeedGoesForward'
    BY <1>0, <1>1, <1>3, <1>7 DEF FeedsOK, FeedGoesForward
  <2>7. CurrentIsCached'
    <3>0. CacheKept \in Nat
      BY IntelAssumption
    <3>1. CASE currentFeed' = v
      BY <1>1, <1>4, <1>7, <3>1 DEF CurrentIsCached
    <3>2. CASE currentFeed' = currentFeed
      BY <1>0, <1>1, <1>3, <1>7, <3>0, <3>2 DEF FeedsOK, CurrentIsCached
    <3> QED
      BY <1>2, <3>1, <3>2
  <2>8. feedsCrossed' \/ goneBack' \/ Cardinality(Ahead') <= feedMishaps' + (IF BeingRecorded' THEN 1 ELSE 0)
    <3> SUFFICES ASSUME ~feedsCrossed', ~goneBack
                 PROVE  Cardinality(Ahead') <= feedMishaps' + (IF BeingRecorded' THEN 1 ELSE 0)
      BY <1>1
    <3>1. ~BeingRecorded'
      BY <1>9 DEF BeingRecorded
    <3>2. CASE currentFeed' = v /\ feedMishaps' = feedMishaps
      <4>1. \A c \in cached : c.version <= v /\ c.version \in Nat /\ v \in Nat
        BY <1>0, <1>4, <1>7, NatVersions DEF FeedTypes
      <4>2. Ahead' = {}
        BY <1>1, <3>2, <4>1 DEF Ahead
      <4> QED
        BY <1>3, <3>1, <4>2, FS_EmptySet
    <3>3. CASE FeedFault /\ currentFeed' = currentFeed
      <4>1. Ahead' = Ahead
        BY <1>1, <3>3 DEF Ahead
      <4>2. IsFiniteSet(Ahead)
        <5>1. Ahead \subseteq cached
          BY DEF Ahead
        <5> QED
          BY <1>0, <5>1, FS_Subset
      <4>3. Cardinality(Ahead) \in Nat
        BY <4>2, FS_CardinalityType
      <4>4. Cardinality(Ahead) <= feedMishaps + (IF BeingRecorded THEN 1 ELSE 0)
        BY <1>0, <1>7 DEF FeedsOK
      <4>5. feedMishaps' = feedMishaps + 1
        BY <3>3, FeedFaultCounts
      <4> QED
        BY <1>0, <3>1, <4>1, <4>3, <4>4, <4>5
    <3> QED
      BY <1>2, <3>2, <3>3
  <2> QED
    BY <2>1, <2>2, <2>3, <2>4, <2>5, <2>6, <2>7, <2>8 DEF FeedsOK
<1>11. FetchOK(f)'
  BY <1>5 DEF FetchOK
<1>12. ASSUME NEW g \in Fetchers, g # f PROVE FetchOK(g)'
  <2>1. FetchOK(g) /\ fetch'[g] = fetch[g]
    BY <1>0, <1>5, <1>12
  <2>2. \A h \in Fetchers : fetch'[h].at = "store" => fetch'[h] = fetch[h]
    BY <1>6
  <2>3. Recording(g)
    BY <1>1, <1>12 DEF Recording
  <2>4. ~feedsCrossed' => fetch'[g].at \notin {"store", "current"}
    BY <1>9
  <2>5. feedsCrossed => feedsCrossed'
    BY <1>1
  <2> QED
    BY <1>1, <1>7, <2>1, <2>2, <2>3, <2>4, <2>5 DEF FetchOK, NewerThanCached
<1> QED
  BY <1>8, <1>10, <1>11, <1>12 DEF FeedInv

LEMMA FeedPublishedKeeps == ASSUME FeedInv, FeedPublished PROVE FeedInv'
<1>0. /\ FeedTypes /\ FeedsOK /\ (\A g \in Fetchers : FetchOK(g))
  BY DEF FeedInv, FeedTypes
<1>1. /\ activeFeed' = activeFeed /\ cached' = cached /\ currentFeed' = currentFeed /\ fetch' = fetch
      /\ feedAsked' = feedAsked /\ feedMishaps' = feedMishaps /\ newestActive' = newestActive
      /\ goneBack' = goneBack /\ feedsCrossed' = feedsCrossed
  BY DEF FeedPublished, feedBounds
<1>2. latest' = latest + 1 /\ latest' \in Versions /\ latest \in Nat
  BY <1>0, NatVersions DEF FeedPublished, FeedTypes
<1>3. \A n \in Nat : n <= latest => n <= latest'
  BY <1>2
<1>4. FeedTypes'
  BY <1>0, <1>1, <1>2 DEF FeedTypes
<1>5. Ahead' = Ahead /\ BeingRecorded' = BeingRecorded /\ FeedGoesForward' = FeedGoesForward
      /\ CurrentIsCached' = CurrentIsCached
  BY <1>1 DEF Ahead, BeingRecorded, FeedGoesForward, CurrentIsCached
<1>6. (\A c \in cached : c.version \in Nat) /\ activeFeed.version \in Nat /\ currentFeed \in Nat
      /\ \A g \in Fetchers : fetch[g].version \in Versions => fetch[g].version \in Nat
  <2>1. (\A c \in cached : c.version \in Versions) /\ activeFeed.version \in Versions \cup {0} /\ currentFeed \in Versions \cup {0}
    BY <1>0 DEF FeedTypes
  <2>2. Versions \cup {0} \subseteq Nat
    BY NatVersions
  <2> QED
    BY <2>1, <2>2
<1>7. FeedsOK'
  BY <1>0, <1>1, <1>3, <1>5, <1>6 DEF FeedsOK
<1>8. ASSUME NEW g \in Fetchers PROVE FetchOK(g)'
  <2>1. FetchOK(g)
    BY <1>0
  <2>2. Recording(g)' = Recording(g)
    BY <1>1 DEF Recording
  <2>3. NewerThanCached(fetch[g].version)' = NewerThanCached(fetch[g].version)
    BY <1>1 DEF NewerThanCached
  <2> QED
    BY <1>1, <1>3, <1>6, <2>1, <2>2, <2>3 DEF FetchOK
<1> QED
  BY <1>4, <1>7, <1>8 DEF FeedInv

LEMMA IntelCrashKeeps == ASSUME FeedInv, IntelCrash PROVE FeedInv'
<1>0. FeedTypes /\ FeedsOK /\ feedMishaps \in Nat /\ IsFiniteSet(cached)
  BY DEF FeedInv, FeedTypes
<1>1. /\ latest' = latest /\ cached' = cached /\ currentFeed' = currentFeed /\ feedAsked' = feedAsked
      /\ goneBack' = goneBack /\ feedsCrossed' = feedsCrossed /\ activeFeed' = NoFeed /\ newestActive' = 0
      /\ feedMishaps' = feedMishaps + 1
  BY FeedFaultCounts DEF IntelCrash
<1>2. fetch' \in [Fetchers -> FetchState] /\ \A f \in Fetchers : fetch'[f].at \in {"idle", "manifest"}
  BY IdleIsState DEF IntelCrash
<1>3. NoFeed.version = 0 /\ NoFeed \in [version : Versions \cup {0}, list : Lists \cup {0}]
  BY DEF NoFeed
<1>4. FeedTypes'
  BY <1>0, <1>1, <1>2, <1>3 DEF FeedTypes
<1>5. Ahead' = Ahead
  BY <1>1 DEF Ahead
<1>6. Cardinality(Ahead) \in Nat /\ latest \in Nat /\ CacheKept \in Nat
  <2>1. Ahead \subseteq cached
    BY DEF Ahead
  <2>2. IsFiniteSet(Ahead)
    BY <1>0, <2>1, FS_Subset
  <2> QED
    BY <1>0, <2>2, FS_CardinalityType, NatVersions, IntelAssumption DEF FeedTypes
<1>7. feedsCrossed' \/ goneBack' \/ Cardinality(Ahead') <= feedMishaps' + (IF BeingRecorded' THEN 1 ELSE 0)
  BY <1>0, <1>1, <1>5, <1>6 DEF FeedsOK
<1>8. CurrentIsCached'
  BY <1>0, <1>1, <1>6 DEF FeedsOK, CurrentIsCached
<1>9. FeedGoesForward'
  BY <1>1, <1>3 DEF FeedGoesForward
<1>10. FeedsOK'
  BY <1>0, <1>1, <1>2, <1>3, <1>6, <1>7, <1>8, <1>9 DEF FeedsOK
<1>11. \A f \in Fetchers : FetchOK(f)'
  BY <1>2 DEF FetchOK
<1> QED
  BY <1>4, <1>10, <1>11 DEF FeedInv

LEMMA FeedUntouched == ASSUME FeedInv, UNCHANGED feedVars PROVE FeedInv'
<1>1. /\ latest' = latest /\ activeFeed' = activeFeed /\ cached' = cached /\ currentFeed' = currentFeed /\ fetch' = fetch
      /\ feedAsked' = feedAsked /\ feedMishaps' = feedMishaps /\ newestActive' = newestActive
      /\ goneBack' = goneBack /\ feedsCrossed' = feedsCrossed
  BY DEF feedVars, feedBounds
<1> QED
  BY <1>1 DEF FeedInv, FeedTypes, FeedsOK, FetchOK, NewerThanCached, Recording, Ahead, BeingRecorded, FeedGoesForward, CurrentIsCached

LEMMA FeedStep == ASSUME FeedInv, [IntelNext]_feedVars PROVE FeedInv'
  BY StartsRefreshKeeps, FetchManifestKeeps, FetchSignatureKeeps, FetchListKeeps, SwapsKeep, DbIntelStoreKeeps,
     DbIntelSetCurrentVersionKeeps, LoadFromCacheKeeps, RollbackKeeps, FeedPublishedKeeps, IntelCrashKeeps, FeedUntouched
  DEF IntelNext

LEMMA FeedInvSays == FeedInv => IntelTypeOK /\ IntelConsistent
<1> SUFFICES ASSUME FeedInv PROVE IntelTypeOK /\ IntelConsistent
  OBVIOUS
<1>1. FeedTypes /\ FeedsOK
  BY DEF FeedInv
<1>2. IntelTypeOK
  BY <1>1 DEF IntelTypeOK, FeedTypes
<1>3. FeedsAreWhole
  <2>1. \A c \in cached : c = FeedOf(c.version)
    BY <1>1 DEF FeedsOK, FeedTypes, FeedOf
  <2>2. activeFeed = NoFeed \/ activeFeed = FeedOf(activeFeed.version)
    BY <1>1 DEF FeedsOK, FeedTypes, FeedOf
  <2> QED
    BY <2>1, <2>2 DEF FeedsAreWhole
<1>4. RestartFindsActive
  BY <1>1 DEF FeedsOK, RestartFindsActive
<1> QED
  BY <1>1, <1>2, <1>3, <1>4 DEF IntelConsistent, FeedsOK

-----------------------------------------------------------------------------
(* The shield.  Of a key that nothing crossed, one goroutine at most is at   *)
(* work with it; between one and the next, the block in memory is the row    *)
(* in the database, and the drop in the kernel is on record.                 *)

BlockSteps == {"delete", "insert", "count", "escalate", "nft", "mark"}
UnblockSteps == {"forget", "unrow", "unmark", "unnft"}
AdminSteps == {"idle", "forget", "unrow", "unmark", "unnft", "build", "empty", "resync", "nft", "mark", "teardown", "torn"}
StepsOf(t) == CASE t = "loop" -> {"idle"} \cup BlockSteps
                [] t = "request" -> {"idle"} \cup BlockSteps \cup UnblockSteps
                [] t = "admin" -> AdminSteps
                [] t = "cleanup" -> {"idle", "sweep", "unmark", "unnft"}
JobSteps == {"idle", "build", "empty", "resync", "teardown", "torn", "sweep"} \cup BlockSteps \cup UnblockSteps
JobState == [pc : JobSteps, key : Keys \cup {0}, block : Nat, todo : SUBSET Keys]
ShieldTypes ==
  /\ memory \in [Keys -> Nat] /\ blockRows \in [Keys -> Seq(Nat)] /\ expired \subseteq Nat /\ 0 \notin expired
  /\ offences \in [Keys -> Nat] /\ white \subseteq Keys /\ kernel \subseteq Keys /\ active \subseteq Keys
  /\ table \in BOOLEAN /\ armedOff \in BOOLEAN /\ escalation \in BOOLEAN /\ enabled \in BOOLEAN /\ engine \in BOOLEAN
  /\ job \in [Goroutines -> JobState] /\ blocks \in Nat /\ shieldAsked \in Nat /\ shieldFaults \in Nat
  /\ crossed \subseteq Keys
\* What each goroutine may be at, and with what in its hand.
JobOK(t) ==
  /\ job[t].pc \in StepsOf(t)
  /\ job[t].todo # {} => \/ t = "admin" /\ job[t].pc \in {"resync", "nft", "mark"}
                         \/ t = "cleanup" /\ job[t].pc \in {"sweep", "unmark", "unnft"}
  /\ job[t].pc \in BlockSteps \cup UnblockSteps => job[t].key \in Keys /\ job[t].key \notin job[t].todo
  /\ job[t].pc \in {"delete", "insert"} => job[t].block # 0
  /\ job[t].pc = "escalate" => offences[job[t].key] >= 2
  /\ job[t].pc = "nft" => offences[job[t].key] >= 2 /\ job[t].key \in PublicKeys
  /\ t = "admin" => \A k \in job[t].todo : offences[k] >= 2
\* A goroutine has the key in its hand, or on its list.
Holds(t, k) == job[t].key = k /\ job[t].pc \in BlockSteps \cup UnblockSteps
HasKey(t, k) == Holds(t, k) \/ k \in job[t].todo
OneRow(k) == blockRows[k] = <<>> \/ \E b \in Nat : b # 0 /\ blockRows[k] = <<b>>
\* The row is the block in memory, or is over, or waits for the shield to start.
RowAgrees(k) ==
  \/ blockRows[k] = <<>> /\ memory[k] = 0
  \/ blockRows[k] = <<memory[k]>>
  \/ \E b \in expired : blockRows[k] = <<b>> /\ memory[k] = 0
  \/ ~engine /\ memory[k] = 0
KeyOK(k) ==
  /\ OneRow(k)
  /\ \A s, t \in Goroutines : HasKey(s, k) /\ HasKey(t, k) => s = t
  /\ RowAgrees(k) \/ \E t \in Goroutines : Now(t, "delete", k) \/ Now(t, "insert", k) \/ Now(t, "unrow", k)
  /\ \A t \in Goroutines : /\ Now(t, "delete", k) => memory[k] = job[t].block
                           /\ Now(t, "insert", k) => memory[k] = job[t].block /\ blockRows[k] = <<>>
                           /\ Now(t, "unrow", k) => memory[k] = 0
                           /\ Now(t, "nft", k) \/ Now(t, "mark", k) => k \notin white
  /\ Blocking(k) => memory[k] # 0
  /\ k \in kernel => /\ k \in active \/ \E t \in Goroutines : Now(t, "mark", k) \/ Now(t, "unnft", k)
                     /\ memory[k] # 0 \/ Unblocking(k)
                     /\ k \notin white \/ Unblocking(k)
\* The two switches, and the engine that did not start.
WallOK ==
  /\ \A k \in kernel : k \in PublicKeys /\ offences[k] >= 2
  /\ (~table => kernel = {}) /\ (job["admin"].pc = "torn" => ~table)
  /\ ~engine => ~enabled /\ (\A k \in Keys : memory[k] = 0) /\ job["admin"].todo = {}
                /\ \A t \in Goroutines \ {"admin"} : job[t].pc = "idle"
  /\ job["admin"].pc \in {"resync", "nft", "mark"} => escalation /\ (enabled \/ armedOff)
  /\ ~escalation /\ job["admin"].pc \notin {"teardown", "empty"}
       => kernel \subseteq crossed /\ (~table \/ \A t \in Goroutines : job[t].pc # "nft")
  /\ ~enabled /\ ~armedOff /\ job["admin"].pc \notin {"teardown", "empty"}
       => kernel \subseteq crossed /\ (table => ~engine)
ShieldInv == ShieldTypes /\ (\A t \in Goroutines : JobOK(t)) /\ (\A k \in Keys \ crossed : KeyOK(k)) /\ WallOK

LEMMA JobIs == ASSUME NEW r \in JobState PROVE r.pc \in JobSteps /\ r.key \in Keys \cup {0} /\ r.block \in Nat /\ r.todo \subseteq Keys
  BY DEF JobState
LEMMA JobAt ==
  ASSUME NEW r \in JobState, NEW pc \in JobSteps, NEW s, s = [r EXCEPT !.pc = pc]
  PROVE  s \in JobState /\ s.pc = pc /\ s.key = r.key /\ s.block = r.block /\ s.todo = r.todo
  BY DEF JobState
JobWritten(r) == [r EXCEPT !.pc = "count", !.block = 0]
LEMMA JobWrote ==
  ASSUME NEW r \in JobState
  PROVE  JobWritten(r) \in JobState /\ JobWritten(r).pc = "count" /\ JobWritten(r).key = r.key /\ JobWritten(r).block = 0 /\ JobWritten(r).todo = r.todo
  BY DEF JobState, JobSteps, BlockSteps, UnblockSteps, JobWritten
LEMMA JobLists ==
  ASSUME NEW r \in JobState, NEW pc \in JobSteps, NEW todo \in SUBSET Keys, NEW s, s = [r EXCEPT !.pc = pc, !.todo = todo]
  PROVE  s \in JobState /\ s.pc = pc /\ s.key = r.key /\ s.block = r.block /\ s.todo = todo
  BY DEF JobState
LEMMA JobTakes ==
  ASSUME NEW r \in JobState, NEW pc \in JobSteps, NEW k \in Keys, NEW todo \in SUBSET Keys, NEW s,
         s = [r EXCEPT !.pc = pc, !.key = k, !.todo = todo]
  PROVE  s \in JobState /\ s.pc = pc /\ s.key = k /\ s.block = r.block /\ s.todo = todo
  BY DEF JobState

LEMMA RestingIs == /\ Resting \in JobState /\ Resting.pc = "idle" /\ Resting.key = 0 /\ Resting.block = 0 /\ Resting.todo = {}
                   /\ \A t \in Goroutines : "idle" \in StepsOf(t)
  BY DEF Resting, JobState, JobSteps, Goroutines, StepsOf, AdminSteps

\* A goroutine moves, the others stay.
LEMMA OneMoves ==
  ASSUME NEW t \in Goroutines, NEW new \in JobState, job \in [Goroutines -> JobState], job' = [job EXCEPT ![t] = new]
  PROVE  job' \in [Goroutines -> JobState] /\ job'[t] = new /\ \A s \in Goroutines : s # t => job'[s] = job[s]
  OBVIOUS

LEMMA JobStays ==
  ASSUME NEW t \in Goroutines, JobOK(t), job'[t] = job[t], \A k \in Keys : offences'[k] >= offences[k] /\ offences[k] \in Nat,
         offences' \in [Keys -> Nat], job[t] \in JobState
  PROVE  JobOK(t)'
<1>1. job[t].todo \subseteq Keys
  BY JobIs
<1>2. \A k \in Keys : offences[k] >= 2 => offences'[k] >= 2
  <2>1. ASSUME NEW k \in Keys, offences[k] >= 2 PROVE offences'[k] >= 2
    <3>1. offences[k] \in Nat /\ offences'[k] \in Nat /\ offences'[k] >= offences[k]
      OBVIOUS
    <3> QED
      BY <2>1, <3>1
  <2> QED
    BY <2>1
<1> QED
  BY <1>1, <1>2 DEF JobOK, BlockSteps, UnblockSteps

\* What a step with other keys leaves of a key.
SameFor(t, k) ==
  \/ job'[t] = job[t]
  \/ /\ job[t].key = k => job[t].pc \notin BlockSteps \cup UnblockSteps
     /\ job'[t].key = k => job'[t].pc \notin BlockSteps \cup UnblockSteps
     /\ k \in job'[t].todo <=> k \in job[t].todo
LEMMA OtherKey ==
  ASSUME NEW k \in Keys, KeyOK(k), memory'[k] = memory[k], blockRows'[k] = blockRows[k], expired \subseteq expired', engine' = engine,
         k \in kernel' => k \in kernel /\ (k \in active => k \in active'), k \in white' => k \in white,
         \A t \in Goroutines : SameFor(t, k)
  PROVE  KeyOK(k)'
<1> USE DEF Now
<1>0. {"admin", "cleanup"} \subseteq Goroutines
  BY DEF Goroutines
<1>1. \A t \in Goroutines, pc \in BlockSteps \cup UnblockSteps :
        /\ Now(t, pc, k)' <=> Now(t, pc, k)
        /\ Now(t, pc, k) => job'[t] = job[t]
  BY DEF SameFor
<1>2. \A t \in Goroutines : HasKey(t, k)' <=> HasKey(t, k)
  BY DEF SameFor, HasKey, Holds
<1>3. Blocking(k)' <=> Blocking(k)
  <2>1. \A t \in Goroutines : (job'[t].key = k /\ job'[t].pc \in BlockSteps) <=> (job[t].key = k /\ job[t].pc \in BlockSteps)
    BY DEF SameFor
  <2>2. k \in job'["admin"].todo <=> k \in job["admin"].todo
    BY <1>0 DEF SameFor
  <2> QED
    BY <2>1, <2>2 DEF Blocking, Under, BlockSteps
<1>4. Unblocking(k)' <=> Unblocking(k)
  <2>1. \A t \in Goroutines : (job'[t].key = k /\ job'[t].pc \in UnblockSteps) <=> (job[t].key = k /\ job[t].pc \in UnblockSteps)
    BY DEF SameFor
  <2>2. k \in job'["cleanup"].todo <=> k \in job["cleanup"].todo
    BY <1>0 DEF SameFor
  <2> QED
    BY <2>1, <2>2 DEF Unblocking, Under, UnblockSteps
<1>5. {"delete", "insert", "nft", "mark", "unrow", "unnft"} \subseteq BlockSteps \cup UnblockSteps
  BY DEF BlockSteps, UnblockSteps
<1>6. OneRow(k)'
  BY DEF KeyOK, OneRow
<1>7. RowAgrees(k)' \/ \E t \in Goroutines : Now(t, "delete", k)' \/ Now(t, "insert", k)' \/ Now(t, "unrow", k)'
  <2>1. RowAgrees(k) => RowAgrees(k)'
    BY DEF RowAgrees
  <2> HIDE DEF Now
  <2> QED
    BY <1>1, <1>5, <2>1 DEF KeyOK
<1>8. \A t \in Goroutines : /\ Now(t, "delete", k)' => memory'[k] = job'[t].block
                            /\ Now(t, "insert", k)' => memory'[k] = job'[t].block /\ blockRows'[k] = <<>>
                            /\ Now(t, "unrow", k)' => memory'[k] = 0
                            /\ Now(t, "nft", k)' \/ Now(t, "mark", k)' => k \notin white'
  <2> HIDE DEF Now
  <2> QED
    BY <1>1, <1>5 DEF KeyOK
<1>9. k \in kernel' => /\ k \in active' \/ \E t \in Goroutines : Now(t, "mark", k)' \/ Now(t, "unnft", k)'
                       /\ memory'[k] # 0 \/ Unblocking(k)'
                       /\ k \notin white' \/ Unblocking(k)'
  <2> HIDE DEF Now
  <2> QED
    BY <1>1, <1>4, <1>5 DEF KeyOK
<1> HIDE DEF Now
<1>10. \A s, t \in Goroutines : HasKey(s, k)' /\ HasKey(t, k)' => s = t
  BY <1>2 DEF KeyOK
<1>11. Blocking(k)' => memory'[k] # 0
  BY <1>3 DEF KeyOK
<1> QED
  BY <1>6, <1>7, <1>8, <1>9, <1>10, <1>11 DEF KeyOK

LEMMA NobodyAt ==
  ASSUME ShieldInv, NEW k \in Keys, ~Blocking(k), ~Unblocking(k) PROVE \A t \in Goroutines : ~HasKey(t, k)
<1> SUFFICES ASSUME NEW t \in Goroutines, HasKey(t, k) PROVE FALSE
  OBVIOUS
<1>1. JobOK(t)
  BY DEF ShieldInv
<1>2. ~Holds(t, k)
  BY DEF Holds, Blocking, Unblocking, Under, BlockSteps, UnblockSteps
<1>3. k \in job[t].todo
  BY <1>2 DEF HasKey
<1>4. t = "admin" \/ t = "cleanup"
  BY <1>1, <1>3 DEF JobOK
<1> QED
  BY <1>3, <1>4 DEF Blocking, Unblocking, Under

\* What is known of a key that nothing crossed, by who has it.
LEMMA KeyIs ==
  ASSUME ShieldInv, NEW k \in Keys, k \notin crossed
  PROVE  /\ OneRow(k) /\ \A s, t \in Goroutines : HasKey(s, k) /\ HasKey(t, k) => s = t
         /\ (\A t \in Goroutines : ~HasKey(t, k)) => /\ RowAgrees(k) /\ (k \in kernel => k \in active /\ memory[k] # 0 /\ k \notin white)
         /\ \A t \in Goroutines : Holds(t, k) =>
              /\ job[t].pc \notin {"delete", "insert", "unrow"} => RowAgrees(k)
              /\ job[t].pc = "delete" => memory[k] = job[t].block
              /\ job[t].pc = "insert" => memory[k] = job[t].block /\ blockRows[k] = <<>>
              /\ job[t].pc = "unrow" => memory[k] = 0
              /\ job[t].pc \in {"nft", "mark"} => k \notin white
              /\ job[t].pc \in BlockSteps => memory[k] # 0 /\ (k \in kernel => k \notin white)
              /\ k \in kernel => k \in active \/ job[t].pc \in {"mark", "unnft"}
         /\ \A t \in Goroutines : k \in job[t].todo =>
              /\ RowAgrees(k) /\ (k \in kernel => k \in active)
              /\ t = "admin" => memory[k] # 0 /\ (k \in kernel => k \notin white)
<1>0. KeyOK(k) /\ \A t \in Goroutines : JobOK(t)
  BY DEF ShieldInv
<1>1. OneRow(k) /\ \A s, t \in Goroutines : HasKey(s, k) /\ HasKey(t, k) => s = t
  BY <1>0 DEF KeyOK
<1>2. \A t \in Goroutines : \A pc \in BlockSteps \cup UnblockSteps : Now(t, pc, k) => HasKey(t, k) /\ Holds(t, k) /\ job[t].pc = pc
  BY DEF Now, HasKey, Holds
<1>3. {"delete", "insert", "nft", "mark"} \subseteq BlockSteps /\ {"unrow", "unnft", "unmark", "forget"} \subseteq UnblockSteps
  BY DEF BlockSteps, UnblockSteps
<1>4. Unblocking(k) => \E t \in Goroutines :
                         HasKey(t, k) /\ ((Holds(t, k) /\ job[t].pc \in UnblockSteps) \/ (t = "cleanup" /\ k \in job[t].todo))
  <2>1. "cleanup" \in Goroutines /\ UnblockSteps \subseteq BlockSteps \cup UnblockSteps
    BY DEF Goroutines
  <2>2. Unblocking(k) => (\E t \in Goroutines : job[t].key = k /\ job[t].pc \in UnblockSteps) \/ k \in job["cleanup"].todo
    BY DEF Unblocking, Under, UnblockSteps
  <2> QED
    BY <2>1, <2>2 DEF HasKey, Holds
<1>5. \A t \in Goroutines : Holds(t, k) /\ job[t].pc \in BlockSteps => Blocking(k)
  BY DEF Blocking, Under, BlockSteps, Holds
<1>6. BlockSteps \cap UnblockSteps = {} /\ \A t \in Goroutines : t = "cleanup" => job[t].pc \notin BlockSteps
  BY <1>0 DEF BlockSteps, UnblockSteps, JobOK, StepsOf
<1>7. \A t \in Goroutines : Holds(t, k) /\ job[t].pc \in BlockSteps => ~Unblocking(k)
  BY <1>1, <1>4, <1>6 DEF HasKey, Holds
<1>8. (\A t \in Goroutines : ~HasKey(t, k)) => /\ RowAgrees(k) /\ (k \in kernel => k \in active /\ memory[k] # 0 /\ k \notin white)
  <2> SUFFICES ASSUME \A t \in Goroutines : ~HasKey(t, k)
               PROVE  RowAgrees(k) /\ (k \in kernel => k \in active /\ memory[k] # 0 /\ k \notin white)
    OBVIOUS
  <2>1. ~Unblocking(k) /\ \A t \in Goroutines : \A pc \in BlockSteps \cup UnblockSteps : ~Now(t, pc, k)
    BY <1>2, <1>4
  <2>2. \A t \in Goroutines : /\ ~Now(t, "delete", k) /\ ~Now(t, "insert", k) /\ ~Now(t, "unrow", k)
                              /\ ~Now(t, "mark", k) /\ ~Now(t, "unnft", k)
    BY <1>3, <2>1
  <2> QED
    BY <1>0, <2>1, <2>2 DEF KeyOK
<1>9. ASSUME NEW t \in Goroutines, Holds(t, k)
      PROVE  /\ job[t].pc \notin {"delete", "insert", "unrow"} => RowAgrees(k)
             /\ job[t].pc = "delete" => memory[k] = job[t].block
             /\ job[t].pc = "insert" => memory[k] = job[t].block /\ blockRows[k] = <<>>
             /\ job[t].pc = "unrow" => memory[k] = 0
             /\ job[t].pc \in {"nft", "mark"} => k \notin white
             /\ job[t].pc \in BlockSteps => memory[k] # 0 /\ (k \in kernel => k \notin white)
             /\ k \in kernel => k \in active \/ job[t].pc \in {"mark", "unnft"}
  <2>1. HasKey(t, k) /\ Now(t, job[t].pc, k)
    BY <1>9 DEF HasKey, Holds, Now
  <2>2. \A s \in Goroutines : \A pc \in BlockSteps \cup UnblockSteps : Now(s, pc, k) => s = t /\ job[t].pc = pc
    BY <1>1, <1>2, <2>1
  <2>3. job[t].pc \notin {"delete", "insert", "unrow"} => RowAgrees(k)
    BY <1>0, <1>3, <2>2 DEF KeyOK
  <2>4. job[t].pc \in BlockSteps => memory[k] # 0 /\ ~Unblocking(k)
    BY <1>0, <1>5, <1>7, <1>9 DEF KeyOK
  <2>5. k \in kernel => k \in active \/ job[t].pc \in {"mark", "unnft"}
    BY <1>0, <1>3, <2>2 DEF KeyOK
  <2>6. /\ job[t].pc = "delete" => memory[k] = job[t].block
        /\ job[t].pc = "insert" => memory[k] = job[t].block /\ blockRows[k] = <<>>
        /\ job[t].pc = "unrow" => memory[k] = 0
        /\ job[t].pc \in {"nft", "mark"} => k \notin white
    BY <1>0, <2>1 DEF KeyOK
  <2>7. job[t].pc \in BlockSteps => (k \in kernel => k \notin white)
    BY <1>0, <2>4 DEF KeyOK
  <2> QED
    BY <2>3, <2>4, <2>5, <2>6, <2>7
<1>10. ASSUME NEW t \in Goroutines, k \in job[t].todo
       PROVE  /\ RowAgrees(k) /\ (k \in kernel => k \in active)
              /\ t = "admin" => memory[k] # 0 /\ (k \in kernel => k \notin white)
  <2>1. HasKey(t, k) /\ ~Holds(t, k)
    BY <1>0, <1>10 DEF HasKey, JobOK, Holds
  <2>2. \A s \in Goroutines : \A pc \in BlockSteps \cup UnblockSteps : ~Now(s, pc, k)
    BY <1>1, <1>2, <2>1
  <2>3. RowAgrees(k) /\ (k \in kernel => k \in active)
    BY <1>0, <1>3, <2>2 DEF KeyOK
  <2>4. t = "admin" => Blocking(k) /\ ~Unblocking(k)
    <3> SUFFICES ASSUME t = "admin" PROVE Blocking(k) /\ ~Unblocking(k)
      OBVIOUS
    <3>1. Blocking(k)
      BY <1>10 DEF Blocking, Under
    <3>2. \A s \in Goroutines : HasKey(s, k) => s = t
      BY <1>1, <2>1
    <3>3. ~Unblocking(k)
      BY <1>4, <2>1, <3>2
    <3> QED
      BY <3>1, <3>3
  <2> QED
    BY <1>0, <2>3, <2>4 DEF KeyOK
<1> QED
  BY <1>1, <1>8, <1>9, <1>10

\* What a step has to leave of the key that it is about.
Worked(t, k) ==
  /\ OneRow(k)' /\ \A s \in Goroutines : s # t => ~HasKey(s, k)'
  /\ RowAgrees(k)' \/ (Holds(t, k)' /\ job'[t].pc \in {"delete", "insert", "unrow"})
  /\ Holds(t, k)' /\ job'[t].pc = "delete" => memory'[k] = job'[t].block
  /\ Holds(t, k)' /\ job'[t].pc = "insert" => memory'[k] = job'[t].block /\ blockRows'[k] = <<>>
  /\ Holds(t, k)' /\ job'[t].pc = "unrow" => memory'[k] = 0
  /\ Holds(t, k)' /\ job'[t].pc \in {"nft", "mark"} => k \notin white'
  /\ (Holds(t, k)' /\ job'[t].pc \in BlockSteps) \/ (t = "admin" /\ k \in job'[t].todo) => memory'[k] # 0
  /\ k \in kernel' => /\ k \in active' \/ (Holds(t, k)' /\ job'[t].pc \in {"mark", "unnft"})
                      /\ \/ memory'[k] # 0 /\ k \notin white'
                         \/ Holds(t, k)' /\ job'[t].pc \in UnblockSteps
                         \/ t = "cleanup" /\ k \in job'[t].todo
LEMMA WorkedIsOK == ASSUME NEW t \in Goroutines, NEW k \in Keys, Worked(t, k) PROVE KeyOK(k)'
<1> USE DEF Worked
<1>1. {"delete", "insert", "nft", "mark"} \subseteq BlockSteps /\ {"unrow", "unnft", "unmark", "forget"} \subseteq UnblockSteps
  BY DEF BlockSteps, UnblockSteps
<1>2. \A s \in Goroutines : \A pc \in BlockSteps \cup UnblockSteps : Now(s, pc, k)' => s = t /\ Holds(t, k)' /\ job'[t].pc = pc
  BY DEF Now, HasKey, Holds
<1>3. \A pc \in BlockSteps \cup UnblockSteps : Holds(t, k)' /\ job'[t].pc = pc => Now(t, pc, k)'
  BY DEF Now, Holds
<1>4. Blocking(k)' => memory'[k] # 0
  <2>1. Blocking(k)' => (Holds(t, k)' /\ job'[t].pc \in BlockSteps) \/ (t = "admin" /\ k \in job'[t].todo)
    BY DEF Blocking, Under, BlockSteps, Holds, HasKey, Goroutines
  <2> QED
    BY <2>1
<1>5. (Holds(t, k)' /\ job'[t].pc \in UnblockSteps) \/ (t = "cleanup" /\ k \in job'[t].todo) => Unblocking(k)'
  BY DEF Unblocking, Under, UnblockSteps, Holds
<1>6. OneRow(k)' /\ \A s, r \in Goroutines : HasKey(s, k)' /\ HasKey(r, k)' => s = r
  OBVIOUS
<1>7. RowAgrees(k)' \/ \E s \in Goroutines : Now(s, "delete", k)' \/ Now(s, "insert", k)' \/ Now(s, "unrow", k)'
  BY <1>1, <1>3
<1>8. \A s \in Goroutines : /\ Now(s, "delete", k)' => memory'[k] = job'[s].block
                            /\ Now(s, "insert", k)' => memory'[k] = job'[s].block /\ blockRows'[k] = <<>>
                            /\ Now(s, "unrow", k)' => memory'[k] = 0
                            /\ Now(s, "nft", k)' \/ Now(s, "mark", k)' => k \notin white'
  BY <1>1, <1>2
<1>9. k \in kernel' => /\ k \in active' \/ \E s \in Goroutines : Now(s, "mark", k)' \/ Now(s, "unnft", k)'
                       /\ memory'[k] # 0 \/ Unblocking(k)'
                       /\ k \notin white' \/ Unblocking(k)'
  BY <1>1, <1>3, <1>5
<1> QED
  BY <1>4, <1>6, <1>7, <1>8, <1>9 DEF KeyOK

\* A goroutine works on one key.
LEMMA Works ==
  ASSUME ShieldInv, NEW t \in Goroutines, NEW new \in JobState, NEW k \in Keys, job' = [job EXCEPT ![t] = new],
         ShieldTypes', JobOK(t)', WallOK', crossed \subseteq crossed', engine' = engine, expired' = expired,
         \A j \in Keys : offences'[j] >= offences[j],
         \A j \in Keys : j # k => memory'[j] = memory[j] /\ blockRows'[j] = blockRows[j],
         \A j \in Keys : j # k => (j \in kernel' => j \in kernel) /\ (j \in active => j \in active') /\ (j \in white' => j \in white),
         \A j \in Keys : j # k => (j \in new.todo <=> j \in job[t].todo),
         job[t].pc \in BlockSteps \cup UnblockSteps => job[t].key = k,
         new.pc \in BlockSteps \cup UnblockSteps => new.key = k,
         k \notin crossed' => Worked(t, k)
  PROVE  ShieldInv'
<1>1. ShieldTypes /\ (\A s \in Goroutines : JobOK(s)) /\ (\A j \in Keys \ crossed : KeyOK(j))
  BY DEF ShieldInv
<1>2. job \in [Goroutines -> JobState] /\ offences \in [Keys -> Nat] /\ offences' \in [Keys -> Nat]
  BY <1>1 DEF ShieldTypes
<1>3. job'[t] = new /\ \A s \in Goroutines : s # t => job'[s] = job[s]
  BY <1>2
<1>4. \A s \in Goroutines : JobOK(s)'
  <2> SUFFICES ASSUME NEW s \in Goroutines, s # t PROVE JobOK(s)'
    OBVIOUS
  <2>1. JobOK(s) /\ job'[s] = job[s] /\ job[s] \in JobState
    BY <1>1, <1>2, <1>3
  <2>2. \A j \in Keys : offences'[j] >= offences[j] /\ offences[j] \in Nat
    BY <1>2
  <2> QED
    BY <1>2, <2>1, <2>2, JobStays
<1>5. ASSUME NEW j \in Keys, j \notin crossed', j # k PROVE KeyOK(j)'
  <2>1. KeyOK(j)
    BY <1>1, <1>5
  <2>2. \A s \in Goroutines : SameFor(s, j)
    BY <1>3, <1>5 DEF SameFor
  <2>3. /\ memory'[j] = memory[j] /\ blockRows'[j] = blockRows[j] /\ expired \subseteq expired' /\ engine' = engine
        /\ j \in kernel' => j \in kernel /\ (j \in active => j \in active')
        /\ j \in white' => j \in white
    BY <1>5
  <2> QED
    BY <2>1, <2>2, <2>3, OtherKey
<1>6. k \notin crossed' => KeyOK(k)'
  BY WorkedIsOK
<1> QED
  BY <1>4, <1>5, <1>6 DEF ShieldInv

\* A step that does not touch the wall.
LEMMA WallStays ==
  ASSUME ShieldInv, NEW t \in Goroutines, NEW new \in JobState, job' = [job EXCEPT ![t] = new],
         UNCHANGED <<table, escalation, enabled, engine, armedOff>>, kernel' \subseteq kernel, crossed \subseteq crossed',
         \A j \in Keys : offences'[j] >= offences[j] /\ offences'[j] \in Nat,
         engine \/ (t = "admin" /\ new.todo = {} /\ \A j \in Keys : memory'[j] = 0),
         new.pc = "nft" => escalation,
         t = "admin" => /\ job[t].pc \notin {"teardown", "empty"} /\ new.pc # "torn"
                        /\ new.pc \in {"resync", "nft", "mark"} => job[t].pc \in {"resync", "nft", "mark"}
  PROVE  WallOK'
<1>0. WallOK /\ job \in [Goroutines -> JobState] /\ kernel \subseteq Keys /\ offences \in [Keys -> Nat] /\ "admin" \in Goroutines
  BY DEF ShieldInv, ShieldTypes, Goroutines
<1>1. job'[t] = new /\ \A s \in Goroutines : s # t => job'[s] = job[s]
  BY <1>0
<1>2. \A k \in kernel' : k \in PublicKeys /\ offences'[k] >= 2
  <2> SUFFICES ASSUME NEW k \in kernel' PROVE k \in PublicKeys /\ offences'[k] >= 2
    OBVIOUS
  <2>1. k \in kernel /\ k \in Keys /\ k \in PublicKeys /\ offences[k] >= 2 /\ offences[k] \in Nat
    BY <1>0 DEF WallOK
  <2>2. offences'[k] >= offences[k] /\ offences'[k] \in Nat
    BY <2>1
  <2> QED
    BY <2>1, <2>2
<1>3. (~table' => kernel' = {}) /\ (job'["admin"].pc = "torn" => ~table')
  BY <1>0, <1>1 DEF WallOK
<1>4. ~engine' => ~enabled' /\ (\A k \in Keys : memory'[k] = 0) /\ job'["admin"].todo = {}
                  /\ \A s \in Goroutines \ {"admin"} : job'[s].pc = "idle"
  BY <1>0, <1>1 DEF WallOK
<1>5. job'["admin"].pc \in {"resync", "nft", "mark"} => escalation' /\ (enabled' \/ armedOff')
  BY <1>0, <1>1 DEF WallOK
<1>6. ~escalation' /\ job'["admin"].pc \notin {"teardown", "empty"}
        => kernel' \subseteq crossed' /\ (~table' \/ \A s \in Goroutines : job'[s].pc # "nft")
  BY <1>0, <1>1 DEF WallOK
<1>7. ~enabled' /\ ~armedOff' /\ job'["admin"].pc \notin {"teardown", "empty"} => kernel' \subseteq crossed' /\ (table' => ~engine')
  BY <1>0, <1>1 DEF WallOK
<1> QED
  BY <1>2, <1>3, <1>4, <1>5, <1>6, <1>7 DEF WallOK

LEMMA ShieldFacts ==
  ASSUME ShieldInv
  PROVE  /\ memory \in [Keys -> Nat] /\ blockRows \in [Keys -> Seq(Nat)] /\ expired \subseteq Nat /\ 0 \notin expired
         /\ offences \in [Keys -> Nat] /\ white \subseteq Keys /\ kernel \subseteq Keys /\ active \subseteq Keys
         /\ table \in BOOLEAN /\ armedOff \in BOOLEAN /\ escalation \in BOOLEAN /\ enabled \in BOOLEAN /\ engine \in BOOLEAN
         /\ job \in [Goroutines -> JobState] /\ blocks \in Nat /\ shieldAsked \in Nat /\ shieldFaults \in Nat
         /\ crossed \subseteq Keys /\ WallOK /\ (\A t \in Goroutines : JobOK(t))
         /\ \A t \in Goroutines : t # "admin" /\ job[t].pc # "idle" => engine
  BY DEF ShieldInv, ShieldTypes, WallOK

\* The steps with a key are those of a block and of an unblock; each of them is a step of a job.
LEMMA StepsAre ==
  /\ BlockSteps \cup UnblockSteps \subseteq JobSteps /\ {"idle", "build", "empty", "resync", "teardown", "torn", "sweep"} \subseteq JobSteps
  /\ {"idle", "build", "empty", "resync", "teardown", "torn", "sweep"} \cap (BlockSteps \cup UnblockSteps) = {}
  /\ BlockSteps = {"delete", "insert", "count", "escalate", "nft", "mark"} /\ UnblockSteps = {"forget", "unrow", "unmark", "unnft"}
  BY DEF BlockSteps, UnblockSteps, JobSteps

LEMMA BlockIPKeeps ==
  ASSUME ShieldInv, NEW t \in {"loop", "request"}, NEW k \in Keys, BlockIP(t, k), engine, k \notin white PROVE ShieldInv'
<1> DEFINE new == [Resting EXCEPT !.pc = "delete", !.key = k, !.block = blocks']
<1>0. t \in Goroutines /\ t # "admin"
  BY DEF Goroutines
<1>1. /\ job[t].pc = "idle" /\ blocks' = blocks + 1 /\ memory' = [memory EXCEPT ![k] = blocks']
      /\ job' = [job EXCEPT ![t] = new] /\ crossed' = crossed \cup {j \in {k} : Blocking(j) \/ Unblocking(j)}
      /\ blockRows' = blockRows /\ offences' = offences /\ kernel' = kernel /\ table' = table /\ active' = active
      /\ armedOff' = armedOff /\ white' = white /\ escalation' = escalation /\ enabled' = enabled /\ engine' = engine
      /\ expired' = expired /\ shieldAsked' = shieldAsked /\ shieldFaults' = shieldFaults
  BY DEF BlockIP, Cross, wall, switches
<1>2. blocks' \in Nat /\ blocks' # 0
  BY <1>1, ShieldFacts
<1>3. new \in JobState /\ new.pc = "delete" /\ new.key = k /\ new.block = blocks' /\ new.todo = {}
  <2>1. "delete" \in JobSteps /\ Resting \in JobState /\ Resting.todo = {}
    BY RestingIs, StepsAre
  <2>2. new = [Resting EXCEPT !.pc = "delete", !.key = k, !.block = blocks']
    OBVIOUS
  <2> HIDE DEF new
  <2>3. new \in JobState /\ new.pc = "delete" /\ new.key = k /\ new.block = blocks' /\ new.todo = Resting.todo
    BY <1>2, <2>1, <2>2 DEF JobState
  <2> QED
    BY <2>1, <2>3
<1> HIDE DEF new
<1>4. job' \in [Goroutines -> JobState] /\ job'[t] = new /\ \A s \in Goroutines : s # t => job'[s] = job[s]
  BY <1>0, <1>1, <1>3, ShieldFacts
<1>5. ShieldTypes' /\ crossed \subseteq crossed'
  BY <1>1, <1>2, <1>4, ShieldFacts DEF ShieldTypes
<1>6. JobOK(t)'
  BY <1>2, <1>3, <1>4 DEF JobOK, StepsOf, BlockSteps
<1>7. \A j \in Keys : offences'[j] >= offences[j] /\ offences'[j] \in Nat
  BY <1>1, ShieldFacts
<1>8. WallOK'
  BY <1>0, <1>1, <1>3, <1>5, <1>7, WallStays
<1>9. ASSUME k \notin crossed' PROVE Worked(t, k)
  <2>1. k \notin crossed /\ \A s \in Goroutines : ~HasKey(s, k)
    BY <1>1, <1>9, NobodyAt
  <2>2. OneRow(k) /\ (k \in kernel => k \in active /\ k \notin white)
    BY <2>1, KeyIs
  <2>3. OneRow(k)' /\ \A s \in Goroutines : s # t => ~HasKey(s, k)'
    BY <1>1, <1>4, <2>1, <2>2 DEF OneRow, HasKey, Holds
  <2>4. memory'[k] = blocks' /\ memory'[k] # 0 /\ job'[t].block = blocks' /\ job'[t].pc = "delete" /\ Holds(t, k)'
    BY <1>1, <1>2, <1>3, <1>4, ShieldFacts, StepsAre DEF Holds
  <2> QED
    BY <1>1, <2>2, <2>3, <2>4 DEF Worked
<1>10. /\ \A j \in Keys : j # k => memory'[j] = memory[j] /\ blockRows'[j] = blockRows[j]
       /\ \A j \in Keys : j # k => (j \in kernel' => j \in kernel) /\ (j \in active => j \in active') /\ (j \in white' => j \in white)
       /\ \A j \in Keys : j # k => (j \in new.todo <=> j \in job[t].todo)
       /\ (job[t].pc \in BlockSteps \cup UnblockSteps => job[t].key = k)
       /\ (new.pc \in BlockSteps \cup UnblockSteps => new.key = k)
  <2>1. job[t].todo = {}
    BY <1>0, <1>1, ShieldFacts DEF JobOK
  <2> QED
    BY <1>1, <1>3, <2>1, ShieldFacts, StepsAre
<1> QED
  BY <1>0, <1>1, <1>3, <1>5, <1>6, <1>7, <1>8, <1>9, <1>10, Works, Zenon

LEMMA ProcessRulesKeeps == ASSUME ShieldInv, NEW k \in Keys, ProcessRules(k) \/ Middleware(k) PROVE ShieldInv'
<1>1. CASE ProcessRules(k)
  <2>1. engine /\ k \notin white /\ BlockIP("loop", k)
    BY <1>1 DEF ProcessRules
  <2> QED
    BY <2>1, BlockIPKeeps
<1>2. CASE Middleware(k)
  <2>1. enabled /\ k \notin white /\ BlockIP("request", k)
    BY <1>2 DEF Middleware
  <2>2. engine
    BY <2>1, ShieldFacts DEF WallOK
  <2> QED
    BY <2>1, <2>2, BlockIPKeeps
<1> QED
  BY <1>1, <1>2

\* A step of a block, which only moves the goroutine on.
LEMMA OnlyJob ==
  ASSUME ShieldInv, NEW t \in Goroutines, NEW k \in Keys, job[t].pc \in BlockSteps \cup UnblockSteps, job[t].key = k,
         NEW new \in JobState, job' = [job EXCEPT ![t] = new], new.pc \in BlockSteps \cup UnblockSteps => new.key = k,
         \A j \in Keys : j # k => (j \in new.todo <=> j \in job[t].todo), k \notin job[t].todo,
         expired' = expired, engine' = engine, memory' = memory, white' = white,
         \A j \in Keys : j # k => (j \in kernel' => j \in kernel) /\ (j \in active => j \in active'),
         \A j \in Keys : j # k => blockRows'[j] = blockRows[j],
         \A j \in Keys : offences'[j] >= offences[j],
         ShieldTypes', JobOK(t)', WallOK', crossed \subseteq crossed', k \notin crossed' => Worked(t, k)
  PROVE  ShieldInv'
<1>1. /\ \A j \in Keys : j # k => memory'[j] = memory[j] /\ blockRows'[j] = blockRows[j]
      /\ \A j \in Keys : j # k => (j \in kernel' => j \in kernel) /\ (j \in active => j \in active') /\ (j \in white' => j \in white)
  OBVIOUS
<1> QED
  BY <1>1, Works, ZenonT(30)

LEMMA DeleteRowsKeeps == ASSUME ShieldInv, NEW t \in Goroutines, NEW k \in Keys, DeleteRows(t, k) PROVE ShieldInv'
<1> DEFINE new == [job[t] EXCEPT !.pc = "insert"]
<1>1. /\ job[t].pc = "delete" /\ job[t].key = k /\ job' = [job EXCEPT ![t] = new] /\ blockRows' = [blockRows EXCEPT ![k] = <<>>]
      /\ memory' = memory /\ crossed' = crossed /\ blocks' = blocks /\ offences' = offences
      /\ kernel' = kernel /\ table' = table /\ active' = active
      /\ armedOff' = armedOff /\ white' = white /\ escalation' = escalation /\ enabled' = enabled /\ engine' = engine
      /\ expired' = expired /\ shieldAsked' = shieldAsked /\ shieldFaults' = shieldFaults
  BY ShieldFacts DEF DeleteRows, Now, Becomes, wall, switches, shieldBounds
<1>2. job[t] \in JobState /\ JobOK(t) /\ blockRows \in [Keys -> Seq(Nat)] /\ job[t].todo = {} /\ t # "admin" /\ engine
  BY <1>1, ShieldFacts DEF JobOK, StepsOf, AdminSteps
<1>3. new \in JobState /\ new.pc = "insert" /\ new.key = k /\ new.block = job[t].block /\ new.todo = {}
  <2>1. "insert" \in JobSteps
    BY StepsAre
  <2> QED
    BY <1>1, <1>2, <2>1, JobAt
<1> HIDE DEF new
<1>4. job' \in [Goroutines -> JobState] /\ job'[t] = new /\ \A s \in Goroutines : s # t => job'[s] = job[s]
  BY <1>1, <1>3, ShieldFacts
<1>5. ShieldTypes' /\ blockRows'[k] = <<>> /\ \A j \in Keys : j # k => blockRows'[j] = blockRows[j]
  <2>1. <<>> \in Seq(Nat)
    OBVIOUS
  <2>2. blockRows' \in [Keys -> Seq(Nat)] /\ blockRows'[k] = <<>> /\ \A j \in Keys : j # k => blockRows'[j] = blockRows[j]
    BY <1>1, <1>2, <2>1
  <2> QED
    BY <1>1, <1>4, <2>2, ShieldFacts DEF ShieldTypes
<1>6. JobOK(t)'
  BY <1>1, <1>2, <1>3, <1>4 DEF JobOK, StepsOf, BlockSteps, UnblockSteps, AdminSteps, Goroutines
<1>7. \A j \in Keys : offences'[j] >= offences[j] /\ offences'[j] \in Nat
  BY <1>1, ShieldFacts
<1>8. WallOK'
  <2>1. UNCHANGED <<table, escalation, enabled, engine, armedOff>> /\ kernel' \subseteq kernel /\ crossed \subseteq crossed'
        /\ new.pc # "nft"
    BY <1>1, <1>3
  <2> QED
    BY <1>1, <1>2, <1>3, <1>7, <2>1, WallStays
<1>9. ASSUME k \notin crossed' PROVE Worked(t, k)
  <2>1. Holds(t, k) /\ HasKey(t, k) /\ k \notin crossed
    BY <1>1, <1>9, StepsAre DEF Holds, HasKey
  <2>2. /\ memory[k] = job[t].block /\ memory[k] # 0 /\ (k \in kernel => k \notin white /\ k \in active)
        /\ \A s \in Goroutines : s # t => ~HasKey(s, k)
    BY <1>1, <2>1, KeyIs, StepsAre
  <2>3. Holds(t, k)' /\ \A s \in Goroutines : s # t => ~HasKey(s, k)'
    BY <1>3, <1>4, <2>2, StepsAre DEF Holds, HasKey
  <2>4. OneRow(k)'
    BY <1>5 DEF OneRow
  <2> QED
    BY <1>1, <1>3, <1>4, <1>5, <2>2, <2>3, <2>4 DEF Worked
<1> QED
  BY <1>1, <1>2, <1>3, <1>5, <1>6, <1>7, <1>8, <1>9, OnlyJob, StepsAre, Zenon

LEMMA InsertRowKeeps == ASSUME ShieldInv, NEW t \in Goroutines, NEW k \in Keys, InsertRow(t, k) PROVE ShieldInv'
<1> DEFINE new == [job[t] EXCEPT !.pc = "count", !.block = 0]
<1>1. /\ job[t].pc = "insert" /\ job[t].key = k /\ job' = [job EXCEPT ![t] = new]
      /\ blockRows' = [blockRows EXCEPT ![k] = Append(blockRows[k], job[t].block)]
      /\ memory' = memory /\ crossed' = crossed /\ blocks' = blocks /\ offences' = offences
      /\ kernel' = kernel /\ table' = table /\ active' = active
      /\ armedOff' = armedOff /\ white' = white /\ escalation' = escalation /\ enabled' = enabled /\ engine' = engine
      /\ expired' = expired /\ shieldAsked' = shieldAsked /\ shieldFaults' = shieldFaults
  BY ShieldFacts DEF InsertRow, Now, Becomes, wall, switches, shieldBounds
<1>2. /\ job[t] \in JobState /\ JobOK(t) /\ blockRows \in [Keys -> Seq(Nat)] /\ job[t].todo = {} /\ t # "admin" /\ engine
      /\ job[t].block \in Nat /\ job[t].block # 0
  BY <1>1, ShieldFacts, JobIs DEF JobOK, StepsOf, AdminSteps
<1>3. new \in JobState /\ new.pc = "count" /\ new.key = k /\ new.block = 0 /\ new.todo = {}
  <2>2. new = JobWritten(job[t])
    BY DEF JobWritten
  <2>3. job[t] \in JobState /\ job[t].key = k /\ job[t].todo = {}
    BY <1>1, <1>2
  <2> HIDE DEF new
  <2> QED
    BY <2>2, <2>3, JobWrote
<1> HIDE DEF new
<1>4. job' \in [Goroutines -> JobState] /\ job'[t] = new /\ \A s \in Goroutines : s # t => job'[s] = job[s]
  BY <1>1, <1>3, ShieldFacts
<1>5. ShieldTypes' /\ blockRows'[k] = Append(blockRows[k], job[t].block) /\ \A j \in Keys : j # k => blockRows'[j] = blockRows[j]
  <2>1. Append(blockRows[k], job[t].block) \in Seq(Nat)
    BY <1>2
  <2>2. /\ blockRows' \in [Keys -> Seq(Nat)] /\ blockRows'[k] = Append(blockRows[k], job[t].block)
        /\ \A j \in Keys : j # k => blockRows'[j] = blockRows[j]
    BY <1>1, <1>2, <2>1
  <2> QED
    BY <1>1, <1>4, <2>2, ShieldFacts DEF ShieldTypes
<1>6. JobOK(t)'
  BY <1>1, <1>2, <1>3, <1>4 DEF JobOK, StepsOf, BlockSteps, UnblockSteps, AdminSteps, Goroutines
<1>7. \A j \in Keys : offences'[j] >= offences[j] /\ offences'[j] \in Nat
  BY <1>1, ShieldFacts
<1>8. WallOK'
  <2>1. UNCHANGED <<table, escalation, enabled, engine, armedOff>> /\ kernel' \subseteq kernel /\ crossed \subseteq crossed'
        /\ new.pc # "nft"
    BY <1>1, <1>3
  <2> QED
    BY <1>1, <1>2, <1>3, <1>7, <2>1, WallStays
<1>9. ASSUME k \notin crossed' PROVE Worked(t, k)
  <2>1. Holds(t, k) /\ HasKey(t, k) /\ k \notin crossed
    BY <1>1, <1>9, StepsAre DEF Holds, HasKey
  <2>2. /\ memory[k] = job[t].block /\ memory[k] # 0 /\ (k \in kernel => k \notin white /\ k \in active) /\ blockRows[k] = <<>>
        /\ \A s \in Goroutines : s # t => ~HasKey(s, k)
    BY <1>1, <2>1, KeyIs, StepsAre
  <2>3. Holds(t, k)' /\ \A s \in Goroutines : s # t => ~HasKey(s, k)'
    BY <1>3, <1>4, <2>2, StepsAre DEF Holds, HasKey
  <2>4. blockRows'[k] = <<memory'[k]>>
    BY <1>1, <1>2, <1>5, <2>2
  <2>5. OneRow(k)' /\ RowAgrees(k)'
    BY <1>1, <1>2, <2>2, <2>4 DEF OneRow, RowAgrees
  <2> QED
    BY <1>1, <1>3, <1>4, <2>2, <2>3, <2>5 DEF Worked
<1> QED
  BY <1>1, <1>2, <1>3, <1>5, <1>6, <1>7, <1>8, <1>9, OnlyJob, StepsAre, Zenon

LEMMA RecordBlockKeeps == ASSUME ShieldInv, NEW t \in Goroutines, NEW k \in Keys, RecordBlock(t, k) PROVE ShieldInv'
<1> DEFINE new == IF offences[k] >= 1 THEN [job[t] EXCEPT !.pc = "escalate"] ELSE Resting
<1>1. /\ job[t].pc = "count" /\ job[t].key = k /\ job' = [job EXCEPT ![t] = new]
      /\ offences' = [offences EXCEPT ![k] = offences[k] + 1]
      /\ memory' = memory /\ crossed' = crossed /\ blocks' = blocks /\ blockRows' = blockRows
      /\ kernel' = kernel /\ table' = table /\ active' = active
      /\ armedOff' = armedOff /\ white' = white /\ escalation' = escalation /\ enabled' = enabled /\ engine' = engine
      /\ expired' = expired /\ shieldAsked' = shieldAsked /\ shieldFaults' = shieldFaults
  BY ShieldFacts DEF RecordBlock, Now, Becomes, Rests, wall, switches, shieldBounds
<1>2. /\ job[t] \in JobState /\ JobOK(t) /\ job[t].todo = {} /\ t # "admin" /\ engine /\ offences \in [Keys -> Nat]
  BY <1>1, ShieldFacts DEF JobOK, StepsOf, AdminSteps
<1>3. /\ new \in JobState /\ new.todo = {} /\ new.pc \in {"escalate", "idle"}
      /\ new.pc = "escalate" => new.key = k /\ offences[k] >= 1
  <2>1. "escalate" \in JobSteps
    BY StepsAre
  <2> DEFINE next == [job[t] EXCEPT !.pc = "escalate"]
  <2>2. next \in JobState /\ next.pc = "escalate" /\ next.key = k /\ next.todo = {}
    BY <1>1, <1>2, <2>1, JobAt
  <2> QED
    BY <2>2, RestingIs
<1> HIDE DEF new
<1>4. job' \in [Goroutines -> JobState] /\ job'[t] = new /\ \A s \in Goroutines : s # t => job'[s] = job[s]
  BY <1>1, <1>3, ShieldFacts
<1>5. offences' \in [Keys -> Nat] /\ offences'[k] = offences[k] + 1 /\ \A j \in Keys : offences'[j] >= offences[j] /\ offences'[j] \in Nat
  BY <1>1, <1>2
<1>10. ShieldTypes'
  BY <1>1, <1>4, <1>5, ShieldFacts DEF ShieldTypes
<1>6. JobOK(t)'
  BY <1>1, <1>2, <1>3, <1>4, <1>5 DEF JobOK, StepsOf, BlockSteps, UnblockSteps, AdminSteps, Goroutines
<1>8. WallOK'
  <2>1. UNCHANGED <<table, escalation, enabled, engine, armedOff>> /\ kernel' \subseteq kernel /\ crossed \subseteq crossed'
        /\ new.pc # "nft"
    BY <1>1, <1>3
  <2> QED
    BY <1>1, <1>2, <1>3, <1>5, <2>1, WallStays
<1>9. ASSUME k \notin crossed' PROVE Worked(t, k)
  <2>1. Holds(t, k) /\ HasKey(t, k) /\ k \notin crossed
    BY <1>1, <1>9, StepsAre DEF Holds, HasKey
  <2>2. /\ OneRow(k) /\ RowAgrees(k) /\ memory[k] # 0 /\ (k \in kernel => k \notin white /\ k \in active)
        /\ \A s \in Goroutines : s # t => ~HasKey(s, k)
    BY <1>1, <2>1, KeyIs, StepsAre
  <2>3. \A s \in Goroutines : s # t => ~HasKey(s, k)'
    BY <1>3, <1>4, <2>2 DEF Holds, HasKey
  <2>5. OneRow(k)' /\ RowAgrees(k)'
    BY <1>1, <2>2 DEF OneRow, RowAgrees
  <2> QED
    BY <1>1, <1>3, <1>4, <2>2, <2>3, <2>5 DEF Worked
<1> QED
  BY <1>1, <1>2, <1>3, <1>5, <1>6, <1>10, <1>8, <1>9, OnlyJob, StepsAre

LEMMA MaybeEscalateKeeps == ASSUME ShieldInv, NEW t \in Goroutines, NEW k \in Keys, MaybeEscalate(t, k) PROVE ShieldInv'
<1> DEFINE new == IF Eligible(k) /\ escalation /\ k \notin active THEN [job[t] EXCEPT !.pc = "nft"] ELSE Resting
<1>1. /\ job[t].pc = "escalate" /\ job[t].key = k /\ job' = [job EXCEPT ![t] = new] /\ offences' = offences
      /\ memory' = memory /\ crossed' = crossed /\ blocks' = blocks /\ blockRows' = blockRows
      /\ kernel' = kernel /\ table' = table /\ active' = active
      /\ armedOff' = armedOff /\ white' = white /\ escalation' = escalation /\ enabled' = enabled /\ engine' = engine
      /\ expired' = expired /\ shieldAsked' = shieldAsked /\ shieldFaults' = shieldFaults
  BY ShieldFacts DEF MaybeEscalate, Now, Becomes, Rests, wall, switches, shieldBounds, stores
<1>2. /\ job[t] \in JobState /\ JobOK(t) /\ job[t].todo = {} /\ t # "admin" /\ engine /\ offences[k] >= 2
  BY <1>1, ShieldFacts DEF JobOK, StepsOf, AdminSteps
<1>3. /\ new \in JobState /\ new.todo = {} /\ new.pc \in {"nft", "idle"}
      /\ new.pc = "nft" => new.key = k /\ k \in PublicKeys /\ k \notin white /\ escalation
  <2>1. "nft" \in JobSteps
    BY StepsAre
  <2> DEFINE next == [job[t] EXCEPT !.pc = "nft"]
  <2>2. next \in JobState /\ next.pc = "nft" /\ next.key = k /\ next.todo = {}
    BY <1>1, <1>2, <2>1, JobAt
  <2> QED
    BY <2>2, RestingIs DEF Eligible
<1> HIDE DEF new
<1>4. job' \in [Goroutines -> JobState] /\ job'[t] = new /\ \A s \in Goroutines : s # t => job'[s] = job[s]
  BY <1>1, <1>3, ShieldFacts
<1>5. \A j \in Keys : offences'[j] >= offences[j] /\ offences'[j] \in Nat
  BY <1>1, ShieldFacts
<1>10. ShieldTypes'
  BY <1>1, <1>4, ShieldFacts DEF ShieldTypes
<1>6. JobOK(t)'
  BY <1>1, <1>2, <1>3, <1>4 DEF JobOK, StepsOf, BlockSteps, UnblockSteps, AdminSteps, Goroutines
<1>8. WallOK'
  <2>1. UNCHANGED <<table, escalation, enabled, engine, armedOff>> /\ kernel' \subseteq kernel /\ crossed \subseteq crossed'
        /\ (new.pc = "nft" => escalation)
    BY <1>1, <1>3
  <2> QED
    BY <1>1, <1>2, <1>3, <1>5, <2>1, WallStays
<1>9. ASSUME k \notin crossed' PROVE Worked(t, k)
  <2>1. Holds(t, k) /\ HasKey(t, k) /\ k \notin crossed
    BY <1>1, <1>9, StepsAre DEF Holds, HasKey
  <2>2. /\ OneRow(k) /\ RowAgrees(k) /\ memory[k] # 0 /\ (k \in kernel => k \notin white /\ k \in active)
        /\ \A s \in Goroutines : s # t => ~HasKey(s, k)
    BY <1>1, <2>1, KeyIs, StepsAre
  <2>3. \A s \in Goroutines : s # t => ~HasKey(s, k)'
    BY <1>3, <1>4, <2>2 DEF Holds, HasKey
  <2>5. OneRow(k)' /\ RowAgrees(k)'
    BY <1>1, <2>2 DEF OneRow, RowAgrees
  <2> QED
    BY <1>1, <1>3, <1>4, <2>2, <2>3, <2>5 DEF Worked
<1> QED
  BY <1>1, <1>2, <1>3, <1>5, <1>6, <1>10, <1>8, <1>9, OnlyJob, StepsAre

\* After nft, the next of the list.
LEMMA ProceedsIs ==
  ASSUME ShieldInv, NEW t \in Goroutines, job[t].pc \in {"nft", "mark"}
  PROVE  LET new == IF job[t].todo = {} THEN Resting ELSE [job[t] EXCEPT !.pc = "resync"]
         IN /\ new \in JobState /\ new.pc \in {"idle", "resync"} /\ new.todo = job[t].todo
            /\ new.pc = "resync" => t = "admin"
            /\ Proceeds(t) => job' = [job EXCEPT ![t] = new]
<1>1. job[t] \in JobState /\ JobOK(t) /\ "resync" \in JobSteps
  BY ShieldFacts, StepsAre
<1> DEFINE next == [job[t] EXCEPT !.pc = "resync"]
<1>2. next \in JobState /\ next.pc = "resync" /\ next.todo = job[t].todo
  BY <1>1, JobAt
<1>3. job[t].todo # {} => t = "admin"
  BY <1>1 DEF JobOK
<1>4. Proceeds(t) => job' = [job EXCEPT ![t] = IF job[t].todo = {} THEN Resting ELSE next]
  BY DEF Proceeds, Rests, Becomes
<1> HIDE DEF next
<1>5. /\ (IF job[t].todo = {} THEN Resting ELSE next) \in JobState
      /\ (IF job[t].todo = {} THEN Resting ELSE next).pc \in {"idle", "resync"}
      /\ (IF job[t].todo = {} THEN Resting ELSE next).todo = job[t].todo
      /\ (IF job[t].todo = {} THEN Resting ELSE next).pc = "resync" => t = "admin"
  BY <1>2, <1>3, RestingIs
<1> QED
  BY <1>4, <1>5 DEF next

\* A wall that loses nothing and an element less or more of the record.
LEMMA NoElementKeeps ==
  ASSUME ShieldInv, NEW t \in Goroutines, NEW k \in Keys, Now(t, "nft", k) \/ Now(t, "mark", k), Proceeds(t),
         UNCHANGED <<stores, kernel, table, armedOff, switches, expired, blocks, shieldAsked, crossed>>, shieldFaults' \in Nat,
         active' = active \/ (job[t].pc = "mark" /\ active' = active \cup {k}),
         job[t].pc = "mark" => active' = active \cup {k}
  PROVE  ShieldInv'
<1> DEFINE new == IF job[t].todo = {} THEN Resting ELSE [job[t] EXCEPT !.pc = "resync"]
<1>1. /\ job[t].pc \in {"nft", "mark"} /\ job[t].key = k /\ offences' = offences
      /\ memory' = memory /\ crossed' = crossed /\ blocks' = blocks /\ blockRows' = blockRows
      /\ kernel' = kernel /\ table' = table /\ active' \subseteq active \cup {k} /\ active \subseteq active'
      /\ armedOff' = armedOff /\ white' = white /\ escalation' = escalation /\ enabled' = enabled /\ engine' = engine
      /\ expired' = expired /\ shieldAsked' = shieldAsked
  BY DEF Now, switches, stores
<1>2. /\ job[t] \in JobState /\ JobOK(t) /\ k \notin job[t].todo
  BY <1>1, ShieldFacts, StepsAre DEF JobOK
<1>3. /\ new \in JobState /\ new.pc \in {"idle", "resync"} /\ new.todo = job[t].todo
      /\ (new.pc = "resync" => t = "admin") /\ job' = [job EXCEPT ![t] = new]
  BY <1>1, ProceedsIs
<1> HIDE DEF new
<1>4. job' \in [Goroutines -> JobState] /\ job'[t] = new /\ \A s \in Goroutines : s # t => job'[s] = job[s]
  BY <1>1, <1>3, ShieldFacts
<1>5. \A j \in Keys : offences'[j] >= offences[j] /\ offences'[j] \in Nat
  BY <1>1, ShieldFacts
<1>10. ShieldTypes'
  BY <1>1, <1>4, ShieldFacts DEF ShieldTypes
<1>6. JobOK(t)'
  <2>1. job[t].todo # {} => t = "admin" /\ new.pc = "resync"
    <3>1. job[t].todo # {} => new = [job[t] EXCEPT !.pc = "resync"]
      BY DEF new
    <3>2. "resync" \in JobSteps
      BY StepsAre
    <3> QED
      BY <1>1, <1>2, <3>1, <3>2, JobAt DEF JobOK
  <2>2. new.pc \in StepsOf(t)
    BY <1>3 DEF StepsOf, AdminSteps, Goroutines
  <2>3. t = "admin" => \A j \in job[t].todo : offences[j] >= 2
    BY <1>2 DEF JobOK
  <2> QED
    BY <1>1, <1>3, <1>4, <2>1, <2>2, <2>3, StepsAre DEF JobOK
<1>8. WallOK'
  <2>0. engine \/ (t = "admin" /\ new.todo = {} /\ \A j \in Keys : memory'[j] = 0)
    BY <1>1, <1>3, ShieldFacts DEF WallOK
  <2>1. UNCHANGED <<table, escalation, enabled, engine, armedOff>> /\ kernel' \subseteq kernel /\ crossed \subseteq crossed'
        /\ new.pc # "nft"
    BY <1>1, <1>3
  <2>2. job[t].pc \notin {"teardown", "empty"} /\ new.pc # "torn"
    BY <1>1, <1>3
  <2>3. new.pc \in {"resync", "nft", "mark"} => job[t].pc \in {"resync", "nft", "mark"}
    BY <1>1
  <2> QED
    BY <1>3, <1>5, <2>0, <2>1, <2>2, <2>3, WallStays
<1>9. ASSUME k \notin crossed' PROVE Worked(t, k)
  <2>1. Holds(t, k) /\ HasKey(t, k) /\ k \notin crossed
    BY <1>1, <1>9, StepsAre DEF Holds, HasKey
  <2>2. /\ OneRow(k) /\ RowAgrees(k) /\ memory[k] # 0 /\ (k \in kernel => k \notin white)
        /\ (k \in kernel => k \in active \/ job[t].pc = "mark")
        /\ \A s \in Goroutines : s # t => ~HasKey(s, k)
    BY <1>1, <2>1, KeyIs, StepsAre
  <2>3. \A s \in Goroutines : s # t => ~HasKey(s, k)'
    BY <1>3, <1>4, <2>2 DEF Holds, HasKey
  <2>5. OneRow(k)' /\ RowAgrees(k)'
    BY <1>1, <2>2 DEF OneRow, RowAgrees
  <2>6. k \in kernel => k \in active'
    BY <1>1, <2>2
  <2> QED
    BY <1>1, <1>2, <1>3, <1>4, <2>2, <2>3, <2>5, <2>6, StepsAre DEF Worked, Holds
<1>11. job[t].pc \in BlockSteps \cup UnblockSteps /\ new.pc \notin BlockSteps \cup UnblockSteps
  BY <1>1, <1>3, StepsAre
<1>12. \A j \in Keys : j # k => (j \in kernel' => j \in kernel) /\ (j \in active => j \in active')
  BY <1>1
<1>13. /\ job[t].key = k /\ \A j \in Keys : j # k => (j \in new.todo <=> j \in job[t].todo)
       /\ \A j \in Keys : j # k => blockRows'[j] = blockRows[j]
       /\ crossed \subseteq crossed' /\ k \notin job[t].todo
  BY <1>1, <1>2, <1>3
<1> QED
  BY <1>1, <1>3, <1>5, <1>6, <1>10, <1>8, <1>9, <1>11, <1>12, <1>13, OnlyJob, Zenon

LEMMA AddElementKeeps == ASSUME ShieldInv, NEW t \in Goroutines, NEW k \in Keys, AddElement(t, k) PROVE ShieldInv'
<1>0. Now(t, "nft", k) /\ UNCHANGED <<stores, table, active, armedOff, switches, expired, blocks, shieldAsked, crossed>>
  BY DEF AddElement
<1>1. shieldFaults' \in Nat
  BY ShieldFacts DEF AddElement, ShieldFault
<1>2. CASE UNCHANGED kernel /\ Proceeds(t)
  <2>1. UNCHANGED <<stores, kernel, table, armedOff, switches, expired, blocks, shieldAsked, crossed>> /\ active' = active
    BY <1>0, <1>2 DEF stores
  <2>2. job[t].pc # "mark"
    BY <1>0 DEF Now
  <2> QED
    BY <1>0, <1>1, <1>2, <2>1, <2>2, NoElementKeeps
<1>3. CASE table /\ kernel' = kernel \cup {k} /\ Becomes(t, "mark") /\ UNCHANGED shieldFaults
  <2> DEFINE new == [job[t] EXCEPT !.pc = "mark"]
  <2>1. /\ job[t].pc = "nft" /\ job[t].key = k /\ offences' = offences /\ job' = [job EXCEPT ![t] = new]
        /\ memory' = memory /\ crossed' = crossed /\ blocks' = blocks /\ blockRows' = blockRows
        /\ kernel' = kernel \cup {k} /\ table /\ table' = table /\ active' = active
        /\ armedOff' = armedOff /\ white' = white /\ escalation' = escalation /\ enabled' = enabled /\ engine' = engine
        /\ expired' = expired /\ shieldAsked' = shieldAsked
    BY <1>0, <1>3, ShieldFacts DEF Now, switches, stores, Becomes
  <2>2. /\ job[t] \in JobState /\ JobOK(t) /\ k \notin job[t].todo /\ WallOK /\ offences[k] >= 2 /\ k \in PublicKeys
    BY <2>1, ShieldFacts, StepsAre DEF JobOK
  <2>3. new \in JobState /\ new.pc = "mark" /\ new.key = k /\ new.todo = job[t].todo /\ new.block = job[t].block
    <3>1. "mark" \in JobSteps
      BY StepsAre
    <3> QED
      BY <2>1, <2>2, <3>1, JobAt
  <2> HIDE DEF new
  <2>4. job' \in [Goroutines -> JobState] /\ job'[t] = new /\ \A s \in Goroutines : s # t => job'[s] = job[s]
    BY <2>1, <2>3, ShieldFacts
  <2>5. \A j \in Keys : offences'[j] >= offences[j] /\ offences'[j] \in Nat
    BY <2>1, ShieldFacts
  <2>6. ShieldTypes'
    BY <1>1, <2>1, <2>4, ShieldFacts DEF ShieldTypes
  <2>7. JobOK(t)'
    BY <2>1, <2>2, <2>3, <2>4 DEF JobOK, StepsOf, BlockSteps, UnblockSteps, AdminSteps, Goroutines
  <2>8. WallOK'
    <3>1. t # "admin" => engine
      BY <2>1, ShieldFacts
    <3>2. t = "admin" => job["admin"].pc = "nft"
      BY <2>1
    <3>3. engine \/ t = "admin"
      BY <3>1
    <3>4. escalation \/ job["admin"].pc \in {"teardown", "empty"}
      BY <2>1, <2>2 DEF WallOK
    <3>5. enabled \/ armedOff \/ job["admin"].pc \in {"teardown", "empty"}
      BY <2>1, <2>2, <3>2, <3>3 DEF WallOK
    <3>6. "admin" \in Goroutines
      BY DEF Goroutines
    <3>7. job'["admin"].pc = job["admin"].pc \/ (t = "admin" /\ job'["admin"].pc = "mark" /\ job["admin"].pc = "nft")
      BY <2>1, <2>3, <2>4, <3>6
    <3> QED
      BY <2>1, <2>2, <2>3, <2>4, <3>3, <3>4, <3>5, <3>7 DEF WallOK
  <2>9. ASSUME k \notin crossed' PROVE Worked(t, k)
    <3>1. Holds(t, k) /\ HasKey(t, k) /\ k \notin crossed
      BY <2>1, <2>9, StepsAre DEF Holds, HasKey
    <3>2. /\ OneRow(k) /\ RowAgrees(k) /\ memory[k] # 0 /\ k \notin white
          /\ \A s \in Goroutines : s # t => ~HasKey(s, k)
      BY <2>1, <3>1, KeyIs, StepsAre
    <3>3. \A s \in Goroutines : s # t => ~HasKey(s, k)'
      BY <2>3, <2>4, <3>2 DEF Holds, HasKey
    <3>5. OneRow(k)' /\ RowAgrees(k)'
      BY <2>1, <3>2 DEF OneRow, RowAgrees
    <3>6. Holds(t, k)' /\ job'[t].pc = "mark"
      BY <2>3, <2>4, StepsAre DEF Holds
    <3> QED
      BY <2>1, <2>2, <2>3, <2>4, <3>2, <3>3, <3>5, <3>6, StepsAre DEF Worked
  <2>10. \A j \in Keys : j # k => (j \in kernel' => j \in kernel) /\ (j \in active => j \in active')
    BY <2>1
  <2> QED
    BY <2>1, <2>2, <2>3, <2>5, <2>6, <2>7, <2>8, <2>9, <2>10, OnlyJob, StepsAre
<1> QED
  BY <1>2, <1>3 DEF AddElement

LEMMA MarkActiveKeeps == ASSUME ShieldInv, NEW t \in Goroutines, NEW k \in Keys, MarkActive(t, k) PROVE ShieldInv'
<1>1. /\ Now(t, "mark", k) /\ Proceeds(t) /\ active' = active \cup {k} /\ shieldFaults' = shieldFaults
      /\ UNCHANGED <<stores, kernel, table, armedOff, switches, expired, blocks, shieldAsked, crossed>>
  BY DEF MarkActive, shieldBounds
<1>2. shieldFaults' \in Nat /\ job[t].pc = "mark"
  BY <1>1, ShieldFacts DEF Now
<1> QED
  BY <1>1, <1>2, NoElementKeeps

LEMMA UnblocksKeeps ==
  ASSUME ShieldInv, NEW t \in {"admin", "request"}, NEW k \in Keys, job[t].pc = "idle", Unblocks(t, k),
         UNCHANGED <<stores, wall, escalation, enabled, engine, expired, blocks, shieldFaults>>,
         white \subseteq white', white' \subseteq white \cup {k}, shieldAsked' \in Nat, t = "request" => engine
  PROVE  ShieldInv'
<1> DEFINE new == [Resting EXCEPT !.pc = "forget", !.key = k]
<1>0. t \in Goroutines
  BY DEF Goroutines
<1>1. /\ job' = [job EXCEPT ![t] = new] /\ crossed' = crossed \cup {j \in {k} : Blocking(j) \/ Unblocking(j)}
      /\ blockRows' = blockRows /\ memory' = memory /\ offences' = offences /\ kernel' = kernel /\ table' = table /\ active' = active
      /\ armedOff' = armedOff /\ escalation' = escalation /\ enabled' = enabled /\ engine' = engine
      /\ expired' = expired /\ blocks' = blocks /\ shieldFaults' = shieldFaults
  BY DEF Unblocks, Cross, wall, stores
<1>3. new \in JobState /\ new.pc = "forget" /\ new.key = k /\ new.todo = {}
  <2>1. "forget" \in JobSteps /\ Resting \in JobState /\ Resting.todo = {}
    BY RestingIs, StepsAre
  <2> QED
    BY <2>1 DEF JobState
<1> HIDE DEF new
<1>4. job' \in [Goroutines -> JobState] /\ job'[t] = new /\ \A s \in Goroutines : s # t => job'[s] = job[s]
  BY <1>0, <1>1, <1>3, ShieldFacts
<1>5. ShieldTypes' /\ crossed \subseteq crossed'
  BY <1>1, <1>4, ShieldFacts DEF ShieldTypes
<1>6. JobOK(t)'
  BY <1>3, <1>4 DEF JobOK, StepsOf, UnblockSteps, AdminSteps
<1>7. \A j \in Keys : offences'[j] >= offences[j] /\ offences'[j] \in Nat
  BY <1>1, ShieldFacts
<1>8. WallOK'
  <2>1. engine \/ (t = "admin" /\ new.todo = {} /\ \A j \in Keys : memory'[j] = 0)
    BY <1>1, <1>3, ShieldFacts DEF WallOK
  <2>2. UNCHANGED <<table, escalation, enabled, engine, armedOff>> /\ kernel' \subseteq kernel /\ new.pc = "forget"
    BY <1>1, <1>3
  <2> QED
    BY <1>0, <1>1, <1>3, <1>5, <1>7, <2>1, <2>2, WallStays
<1>9. ASSUME k \notin crossed' PROVE Worked(t, k)
  <2>1. k \notin crossed /\ \A s \in Goroutines : ~HasKey(s, k)
    BY <1>1, <1>9, NobodyAt
  <2>2. OneRow(k) /\ RowAgrees(k) /\ (k \in kernel => k \in active)
    BY <2>1, KeyIs
  <2>3. OneRow(k)' /\ RowAgrees(k)' /\ \A s \in Goroutines : s # t => ~HasKey(s, k)'
    BY <1>1, <1>4, <2>1, <2>2 DEF OneRow, RowAgrees, HasKey, Holds
  <2>4. job'[t].pc = "forget" /\ Holds(t, k)' /\ job'[t].todo = {}
    BY <1>3, <1>4, StepsAre DEF Holds
  <2> QED
    BY <1>1, <2>2, <2>3, <2>4, StepsAre DEF Worked
<1>10. /\ \A j \in Keys : j # k => memory'[j] = memory[j] /\ blockRows'[j] = blockRows[j]
       /\ \A j \in Keys : j # k => (j \in kernel' => j \in kernel) /\ (j \in active => j \in active') /\ (j \in white' => j \in white)
       /\ \A j \in Keys : j # k => (j \in new.todo <=> j \in job[t].todo)
       /\ (job[t].pc \in BlockSteps \cup UnblockSteps => job[t].key = k)
       /\ (new.pc \in BlockSteps \cup UnblockSteps => new.key = k)
  <2>1. job[t].todo = {}
    BY <1>0, ShieldFacts DEF JobOK
  <2> QED
    BY <1>1, <1>3, <2>1, ShieldFacts, StepsAre
<1> QED
  BY <1>0, <1>1, <1>3, <1>5, <1>6, <1>7, <1>8, <1>9, <1>10, Works

LEMMA RequestsUnblock ==
  ASSUME ShieldInv, NEW k \in Keys, AdminUnblocks(k) \/ SeeExpired(k) \/ WhitelistAdd(k) PROVE ShieldInv'
<1>1. shieldAsked' \in Nat
  BY ShieldFacts DEF AdminUnblocks, SeeExpired, WhitelistAdd, ShieldRequest, shieldBounds
<1>2. CASE AdminUnblocks(k)
  <2>1. job["admin"].pc = "idle" /\ Unblocks("admin", k) /\ white' = white
        /\ UNCHANGED <<stores, wall, escalation, enabled, engine, expired, blocks, shieldFaults>>
    BY <1>2 DEF AdminUnblocks, switches
  <2> QED
    BY <1>1, <2>1, UnblocksKeeps
<1>3. CASE SeeExpired(k)
  <2>1. job["request"].pc = "idle" /\ Unblocks("request", k) /\ white' = white /\ enabled
        /\ UNCHANGED <<stores, wall, escalation, enabled, engine, expired, blocks, shieldFaults>>
    BY <1>3 DEF SeeExpired, switches, shieldBounds
  <2>2. engine
    BY <2>1, ShieldFacts DEF WallOK
  <2> QED
    BY <1>1, <2>1, <2>2, UnblocksKeeps
<1>4. CASE WhitelistAdd(k)
  <2>1. job["admin"].pc = "idle" /\ Unblocks("admin", k) /\ white \subseteq white' /\ white' \subseteq white \cup {k}
        /\ UNCHANGED <<stores, wall, escalation, enabled, engine, expired, blocks, shieldFaults>>
    BY <1>4 DEF WhitelistAdd
  <2>2. ShieldInv' \/ white' \subseteq Keys
    BY <2>1, ShieldFacts
  <2> QED
    BY <1>1, <2>1, UnblocksKeeps
<1> QED
  BY <1>2, <1>3, <1>4

\* The steps of an unblock that leave the wall.
LEMMA ForgetBlockKeeps == ASSUME ShieldInv, NEW t \in Goroutines, NEW k \in Keys, ForgetBlock(t, k) \/ ForgetRows(t, k) PROVE ShieldInv'
<1> DEFINE next == IF job[t].pc = "forget" THEN "unrow" ELSE "unmark"
           new == [job[t] EXCEPT !.pc = next]
<1>1. /\ job[t].pc \in {"forget", "unrow"} /\ job[t].key = k /\ job' = [job EXCEPT ![t] = new]
      /\ IF job[t].pc = "forget" THEN memory' = [memory EXCEPT ![k] = 0] /\ blockRows' = blockRows
                                 ELSE memory' = memory /\ blockRows' = [blockRows EXCEPT ![k] = <<>>]
      /\ crossed' = crossed /\ blocks' = blocks /\ offences' = offences
      /\ kernel' = kernel /\ table' = table /\ active' = active
      /\ armedOff' = armedOff /\ white' = white /\ escalation' = escalation /\ enabled' = enabled /\ engine' = engine
      /\ expired' = expired /\ shieldAsked' = shieldAsked /\ shieldFaults' = shieldFaults
  BY ShieldFacts DEF ForgetBlock, ForgetRows, Now, Becomes, wall, switches, shieldBounds
<1>2. /\ job[t] \in JobState /\ JobOK(t) /\ job[t].todo = {} /\ blockRows \in [Keys -> Seq(Nat)] /\ memory \in [Keys -> Nat]
      /\ (t # "admin" => engine)
  BY <1>1, ShieldFacts DEF JobOK
<1>3. new \in JobState /\ new.pc = next /\ new.key = k /\ new.todo = {} /\ next \in {"unrow", "unmark"}
  <2>1. next \in JobSteps
    BY StepsAre
  <2> QED
    BY <1>1, <1>2, <2>1, JobAt
<1> HIDE DEF new
<1>4. job' \in [Goroutines -> JobState] /\ job'[t] = new /\ \A s \in Goroutines : s # t => job'[s] = job[s]
  BY <1>1, <1>3, ShieldFacts
<1>5. /\ memory' \in [Keys -> Nat] /\ blockRows' \in [Keys -> Seq(Nat)] /\ (~engine => \A j \in Keys : memory'[j] = 0)
      /\ \A j \in Keys : j # k => memory'[j] = memory[j] /\ blockRows'[j] = blockRows[j]
  <2>1. <<>> \in Seq(Nat)
    OBVIOUS
  <2>2. memory' \in [Keys -> Nat] /\ \A j \in Keys : j # k => memory'[j] = memory[j]
    <3>1. CASE memory' = memory
      BY <1>2, <3>1
    <3>2. CASE memory' = [memory EXCEPT ![k] = 0]
      BY <1>2, <3>2
    <3> QED
      BY <1>1, <3>1, <3>2
  <2>3. blockRows' \in [Keys -> Seq(Nat)] /\ \A j \in Keys : j # k => blockRows'[j] = blockRows[j]
    BY <1>1, <1>2, <2>1
  <2>4. ~engine => \A j \in Keys : memory[j] = 0
    BY ShieldFacts DEF WallOK
  <2>5. ~engine => \A j \in Keys : memory'[j] = 0
    BY <1>1, <1>2, <2>4
  <2> QED
    BY <2>2, <2>3, <2>5
<1>10. ShieldTypes'
  BY <1>1, <1>4, <1>5, ShieldFacts DEF ShieldTypes
<1>6. JobOK(t)'
  BY <1>1, <1>2, <1>3, <1>4 DEF JobOK, StepsOf, BlockSteps, UnblockSteps, AdminSteps, Goroutines
<1>7. \A j \in Keys : offences'[j] >= offences[j] /\ offences'[j] \in Nat
  BY <1>1, ShieldFacts
<1>8. WallOK'
  <2>1. UNCHANGED <<table, escalation, enabled, engine, armedOff>> /\ kernel' \subseteq kernel /\ crossed \subseteq crossed'
        /\ new.pc \notin {"nft", "torn", "resync", "mark"} /\ job[t].pc \notin {"teardown", "empty"}
    BY <1>1, <1>3
  <2>2. engine \/ (t = "admin" /\ new.todo = {} /\ \A j \in Keys : memory'[j] = 0)
    BY <1>2, <1>3, <1>5
  <2> QED
    BY <1>1, <1>3, <1>7, <2>1, <2>2, WallStays
<1>9. ASSUME k \notin crossed' PROVE Worked(t, k)
  <2>1. Holds(t, k) /\ HasKey(t, k) /\ k \notin crossed
    BY <1>1, <1>9, StepsAre DEF Holds, HasKey
  <2>2. /\ OneRow(k) /\ (k \in kernel => k \in active) /\ (job[t].pc = "unrow" => memory[k] = 0)
        /\ \A s \in Goroutines : s # t => ~HasKey(s, k)
    BY <1>1, <2>1, KeyIs, StepsAre
  <2>3. Holds(t, k)' /\ job'[t].pc \in UnblockSteps /\ \A s \in Goroutines : s # t => ~HasKey(s, k)'
    BY <1>3, <1>4, <2>2, StepsAre DEF Holds, HasKey
  <2>4. OneRow(k)' /\ memory'[k] = 0
    BY <1>1, <1>2, <2>2 DEF OneRow
  <2>5. job'[t].pc = "unrow" \/ RowAgrees(k)'
    <3>1. job[t].pc # "forget" => blockRows'[k] = <<>>
      BY <1>1, <1>2
    <3> QED
      BY <1>1, <1>3, <1>4, <2>4, <3>1 DEF RowAgrees
  <2> QED
    BY <1>1, <1>3, <1>4, <2>2, <2>3, <2>4, <2>5, StepsAre DEF Worked
<1>11. /\ (job[t].pc \in BlockSteps \cup UnblockSteps => job[t].key = k) /\ crossed \subseteq crossed'
       /\ (new.pc \in BlockSteps \cup UnblockSteps => new.key = k)
       /\ \A j \in Keys : j # k => (j \in new.todo <=> j \in job[t].todo)
       /\ \A j \in Keys : j # k => (j \in kernel' => j \in kernel) /\ (j \in active => j \in active') /\ (j \in white' => j \in white)
  BY <1>1, <1>2, <1>3
<1> QED
  BY <1>1, <1>3, <1>5, <1>6, <1>7, <1>8, <1>9, <1>10, <1>11, Works

\* The record, then nft, give the key back.
AfterUnmark(t) == IF job[t].todo = {} THEN Resting ELSE [job[t] EXCEPT !.pc = "sweep"]
LEMMA SweepsOn ==
  ASSUME ShieldInv, NEW t \in Goroutines, job[t].pc \in {"unmark", "unnft"}
  PROVE  /\ AfterUnmark(t) \in JobState /\ AfterUnmark(t).pc \in {"idle", "sweep"} /\ AfterUnmark(t).todo = job[t].todo
         /\ AfterUnmark(t).pc = "sweep" => t = "cleanup"
         /\ job[t].todo # {} => t = "cleanup" /\ AfterUnmark(t).pc = "sweep"
<1>1. job[t] \in JobState /\ JobOK(t) /\ "sweep" \in JobSteps
  BY ShieldFacts, StepsAre
<1> DEFINE next == [job[t] EXCEPT !.pc = "sweep"]
<1>2. next \in JobState /\ next.pc = "sweep" /\ next.todo = job[t].todo
  BY <1>1, JobAt
<1>3. job[t].todo # {} => t = "cleanup"
  BY <1>1 DEF JobOK
<1>4. AfterUnmark(t) = IF job[t].todo = {} THEN Resting ELSE next
  BY DEF AfterUnmark
<1> HIDE DEF next
<1> QED
  BY <1>2, <1>3, <1>4, RestingIs

LEMMA LetsGoKeeps ==
  ASSUME ShieldInv, NEW t \in Goroutines, NEW k \in Keys, job[t].pc \in {"unmark", "unnft"}, job[t].key = k,
         NEW new \in JobState, job' = [job EXCEPT ![t] = new], new.todo = job[t].todo,
         \/ new.pc = "unnft" /\ new.key = k /\ job[t].pc = "unmark" /\ kernel' = kernel
         \/ new = AfterUnmark(t) /\ (k \in crossed' \/ k \notin kernel'),
         kernel' \in {kernel, kernel \ {k}}, active' \in {active, active \ {k}},
         UNCHANGED <<stores, table, armedOff, switches, expired, blocks, shieldAsked>>, shieldFaults' \in Nat,
         crossed \subseteq crossed', crossed' \subseteq crossed \cup {k}
  PROVE  ShieldInv'
<1>1. /\ memory' = memory /\ blockRows' = blockRows /\ blocks' = blocks /\ offences' = offences
      /\ kernel' \subseteq kernel /\ table' = table /\ active' \subseteq active
      /\ \A j \in Keys : j # k => (j \in kernel' => j \in kernel) /\ (j \in active => j \in active')
      /\ armedOff' = armedOff /\ white' = white /\ escalation' = escalation /\ enabled' = enabled /\ engine' = engine
      /\ expired' = expired /\ shieldAsked' = shieldAsked /\ crossed' \subseteq Keys
  BY ShieldFacts DEF stores, switches
<1>2. /\ job[t] \in JobState /\ JobOK(t) /\ (t # "admin" => engine) /\ k \notin job[t].todo
      /\ (job[t].todo # {} => t = "cleanup")
  BY ShieldFacts, StepsAre DEF JobOK
<1>3. /\ new.pc \in {"unnft", "idle", "sweep"} /\ (new.pc = "sweep" => t = "cleanup")
      /\ (new.todo # {} => new.pc \in {"unnft", "sweep"}) /\ (new.pc = "unnft" => new.key = k)
      /\ (new.pc # "unnft" => k \in crossed' \/ k \notin kernel')
  BY SweepsOn
<1>4. job' \in [Goroutines -> JobState] /\ job'[t] = new /\ \A s \in Goroutines : s # t => job'[s] = job[s]
  BY ShieldFacts
<1>5. ShieldTypes'
  BY <1>1, <1>4, ShieldFacts DEF ShieldTypes
<1>6. JobOK(t)'
  <2>1. new.pc \in StepsOf(t)
    BY <1>2, <1>3 DEF JobOK, StepsOf, BlockSteps, UnblockSteps, AdminSteps, Goroutines
  <2> QED
    BY <1>2, <1>3, <1>4, <2>1, StepsAre DEF JobOK
<1>7. \A j \in Keys : offences'[j] >= offences[j] /\ offences'[j] \in Nat
  BY <1>1, ShieldFacts
<1>8. WallOK'
  <2>1. UNCHANGED <<table, escalation, enabled, engine, armedOff>> /\ kernel' \subseteq kernel /\ crossed \subseteq crossed'
        /\ new.pc \notin {"nft", "torn", "resync", "mark"} /\ job[t].pc \notin {"teardown", "empty"}
    BY <1>1, <1>3
  <2>2. engine \/ (t = "admin" /\ new.todo = {} /\ \A j \in Keys : memory'[j] = 0)
    BY <1>1, <1>2, ShieldFacts DEF WallOK
  <2> QED
    BY <1>1, <1>3, <1>7, <2>1, <2>2, WallStays
<1>9. ASSUME k \notin crossed' PROVE Worked(t, k)
  <2>1. Holds(t, k) /\ HasKey(t, k) /\ k \notin crossed
    BY <1>9, StepsAre DEF Holds, HasKey
  <2>2. OneRow(k) /\ RowAgrees(k) /\ \A s \in Goroutines : s # t => ~HasKey(s, k)
    BY <2>1, KeyIs
  <2>3. OneRow(k)' /\ RowAgrees(k)' /\ \A s \in Goroutines : s # t => ~HasKey(s, k)'
    BY <1>1, <1>4, <2>2 DEF OneRow, RowAgrees, HasKey, Holds
  <2>4. new.pc = "unnft" => Holds(t, k)'
    BY <1>3, <1>4, StepsAre DEF Holds
  <2>5. new.pc # "unnft" => k \notin kernel'
    BY <1>3, <1>9
  <2> QED
    BY <1>2, <1>3, <1>4, <2>3, <2>4, <2>5, StepsAre DEF Worked
<1>11. /\ job[t].pc \in BlockSteps \cup UnblockSteps
       /\ (new.pc \in BlockSteps \cup UnblockSteps => new.key = k)
       /\ \A j \in Keys : j # k => (j \in new.todo <=> j \in job[t].todo)
  BY <1>3, StepsAre
<1> QED
  BY <1>1, <1>2, <1>5, <1>6, <1>7, <1>8, <1>9, <1>11, OnlyJob

LEMMA UnmarkKeeps == ASSUME ShieldInv, NEW t \in Goroutines, NEW k \in Keys, Unmark(t, k) PROVE ShieldInv'
<1>1. /\ job[t].pc = "unmark" /\ job[t].key = k /\ active' = active \ {k} /\ kernel' = kernel /\ crossed' = crossed
      /\ UNCHANGED <<stores, table, armedOff, switches, expired, blocks, shieldAsked>> /\ shieldFaults' = shieldFaults
      /\ IF k \in active THEN Becomes(t, "unnft") ELSE job' = [job EXCEPT ![t] = AfterUnmark(t)]
  BY ShieldFacts DEF Unmark, Now, shieldBounds, AfterUnmark
<1>2. shieldFaults' \in Nat /\ job[t] \in JobState /\ job \in [Goroutines -> JobState]
  BY <1>1, ShieldFacts
<1>3. CASE k \in active
  <2> DEFINE new == [job[t] EXCEPT !.pc = "unnft"]
  <2>1. "unnft" \in JobSteps
    BY StepsAre
  <2>2. new \in JobState /\ new.pc = "unnft" /\ new.key = k /\ new.todo = job[t].todo
    BY <1>1, <1>2, <2>1, JobAt
  <2>3. job' = [job EXCEPT ![t] = new]
    BY <1>1, <1>2, <1>3 DEF Becomes
  <2> HIDE DEF new
  <2>4. job[t].pc \in {"unmark", "unnft"} /\ kernel' \in {kernel, kernel \ {k}} /\ active' \in {active, active \ {k}}
        /\ crossed \subseteq crossed' /\ crossed' \subseteq crossed \cup {k}
    BY <1>1
  <2> QED
    BY <1>1, <1>2, <2>2, <2>3, <2>4, LetsGoKeeps
<1>4. CASE k \notin active
  <2>1. AfterUnmark(t) \in JobState /\ AfterUnmark(t).todo = job[t].todo /\ job' = [job EXCEPT ![t] = AfterUnmark(t)]
    BY <1>1, <1>4, SweepsOn
  <2>2. k \in crossed \/ k \notin kernel
    <3>1. Holds(t, k)
      BY <1>1, StepsAre DEF Holds
    <3> QED
      BY <1>1, <1>4, <3>1, KeyIs
  <2>3. job[t].pc \in {"unmark", "unnft"} /\ kernel' \in {kernel, kernel \ {k}} /\ active' \in {active, active \ {k}}
        /\ crossed \subseteq crossed' /\ crossed' \subseteq crossed \cup {k} /\ (k \in crossed' \/ k \notin kernel')
    BY <1>1, <2>2
  <2> QED
    BY <1>1, <1>2, <2>1, <2>3, LetsGoKeeps
<1> QED
  BY <1>3, <1>4

LEMMA RemoveElementKeeps == ASSUME ShieldInv, NEW t \in Goroutines, NEW k \in Keys, RemoveElement(t, k) PROVE ShieldInv'
<1>1. /\ job[t].pc = "unnft" /\ job[t].key = k /\ active' = active
      /\ UNCHANGED <<stores, table, armedOff, switches, expired, blocks, shieldAsked>>
      /\ job' = [job EXCEPT ![t] = AfterUnmark(t)]
      /\ \/ kernel' = kernel \ {k} /\ crossed' = crossed
         \/ kernel' = kernel /\ crossed' = crossed \cup {k}
  BY ShieldFacts DEF RemoveElement, Now, AfterUnmark
<1>2. shieldFaults' \in Nat
  BY ShieldFacts DEF RemoveElement, ShieldFault
<1>3. AfterUnmark(t) \in JobState /\ AfterUnmark(t).todo = job[t].todo
  BY <1>1, SweepsOn
<1>4. job[t].pc \in {"unmark", "unnft"} /\ kernel' \in {kernel, kernel \ {k}} /\ active' \in {active, active \ {k}}
      /\ crossed \subseteq crossed' /\ crossed' \subseteq crossed \cup {k} /\ (k \in crossed' \/ k \notin kernel')
  BY <1>1
<1> QED
  BY <1>1, <1>2, <1>3, <1>4, LetsGoKeeps

\* A key of the list comes to the hand: what the step says, and what it comes to.
TakesUp(t, new, k) ==
  /\ k \in job[t].todo /\ new \in JobState /\ job' = [job EXCEPT ![t] = new] /\ new.key = k
  /\ \A j \in Keys : j \in new.todo <=> (j \in job[t].todo /\ j # k)
  /\ \/ t = "cleanup" /\ job[t].pc = "sweep" /\ new.pc = "unmark"
     \/ t = "admin" /\ job[t].pc = "resync" /\ new.pc = "resync"
     \/ t = "admin" /\ job[t].pc = "resync" /\ new.pc = "nft" /\ k \in PublicKeys /\ k \notin white
  /\ UNCHANGED <<stores, wall, switches, shieldBounds, crossed>>
Taken(t, new, k) ==
  /\ ShieldTypes' /\ JobOK(t)' /\ WallOK' /\ crossed \subseteq crossed' /\ engine' = engine /\ expired' = expired
  /\ \A j \in Keys : offences'[j] >= offences[j]
  /\ \A j \in Keys : j # k => memory'[j] = memory[j] /\ blockRows'[j] = blockRows[j]
  /\ \A j \in Keys : j # k => (j \in kernel' => j \in kernel) /\ (j \in active => j \in active') /\ (j \in white' => j \in white)
  /\ \A j \in Keys : j # k => (j \in new.todo <=> j \in job[t].todo)
  /\ job[t].pc \in BlockSteps \cup UnblockSteps => job[t].key = k
  /\ new.pc \in BlockSteps \cup UnblockSteps => new.key = k
  /\ k \notin crossed' => Worked(t, k)
LEMMA TakenKeeps ==
  ASSUME ShieldInv, NEW t \in Goroutines, NEW new \in JobState, NEW k \in Keys, job' = [job EXCEPT ![t] = new], Taken(t, new, k)
  PROVE  ShieldInv'
  BY Works, Zenon DEF Taken

LEMMA ListTakes ==
  ASSUME ShieldInv, NEW t \in Goroutines, NEW new, NEW k \in Keys, TakesUp(t, new, k)
  PROVE  Taken(t, new, k)
<1> USE DEF TakesUp
<1>1. /\ memory' = memory /\ blockRows' = blockRows /\ blocks' = blocks /\ offences' = offences
      /\ kernel' = kernel /\ table' = table /\ active' = active /\ crossed' = crossed
      /\ armedOff' = armedOff /\ white' = white /\ escalation' = escalation /\ enabled' = enabled /\ engine' = engine
      /\ expired' = expired /\ shieldAsked' = shieldAsked /\ shieldFaults' = shieldFaults
  BY DEF stores, switches, wall, shieldBounds
<1>2. job[t] \in JobState /\ JobOK(t) /\ engine /\ (t = "admin" => escalation /\ offences[k] >= 2)
  <2>1. job[t] \in JobState /\ JobOK(t) /\ WallOK
    BY ShieldFacts
  <2>2. engine
    BY <2>1, ShieldFacts DEF WallOK
  <2> QED
    BY <2>1, <2>2 DEF JobOK, WallOK
<1>4. job' \in [Goroutines -> JobState] /\ job'[t] = new /\ \A s \in Goroutines : s # t => job'[s] = job[s]
  BY ShieldFacts
<1>5. ShieldTypes'
  BY <1>1, <1>4, ShieldFacts DEF ShieldTypes
<1>6. JobOK(t)'
  <2>1. new.pc \in StepsOf(t)
    BY DEF StepsOf, AdminSteps
  <2>2. t = "admin" => \A j \in new.todo : offences[j] >= 2
    BY <1>2, JobIs DEF JobOK
  <2> QED
    BY <1>1, <1>2, <1>4, <2>1, <2>2, StepsAre DEF JobOK
<1>7. \A j \in Keys : offences'[j] >= offences[j] /\ offences'[j] \in Nat
  BY <1>1, ShieldFacts
<1>8. WallOK'
  <2>1. UNCHANGED <<table, escalation, enabled, engine, armedOff>> /\ kernel' \subseteq kernel /\ crossed \subseteq crossed'
        /\ (new.pc = "nft" => escalation) /\ job[t].pc \notin {"teardown", "empty"} /\ new.pc # "torn"
        /\ (t = "admin" => (new.pc \in {"resync", "nft", "mark"} => job[t].pc \in {"resync", "nft", "mark"}))
    BY <1>1, <1>2
  <2> QED
    BY <1>2, <1>7, <2>1, WallStays
<1>9. ASSUME k \notin crossed' PROVE Worked(t, k)
  <2>1. HasKey(t, k) /\ k \notin crossed
    BY <1>1, <1>9 DEF HasKey
  <2>2. /\ OneRow(k) /\ RowAgrees(k) /\ (k \in kernel => k \in active) /\ (\A s \in Goroutines : s # t => ~HasKey(s, k))
        /\ (t = "admin" => memory[k] # 0 /\ (k \in kernel => k \notin white))
    BY <2>1, KeyIs
  <2>3. OneRow(k)' /\ RowAgrees(k)' /\ \A s \in Goroutines : s # t => ~HasKey(s, k)'
    BY <1>1, <1>4, <2>2 DEF OneRow, RowAgrees, HasKey, Holds
  <2>4. job'[t].pc = new.pc /\ job'[t].key = k /\ k \notin job'[t].todo /\ (new.pc \in {"nft", "unmark"} => Holds(t, k)')
    BY <1>4, StepsAre DEF Holds
  <2> QED
    BY <1>1, <2>2, <2>3, <2>4, StepsAre DEF Worked
<1>11. /\ (job[t].pc \in BlockSteps \cup UnblockSteps => job[t].key = k) /\ crossed \subseteq crossed'
       /\ (new.pc \in BlockSteps \cup UnblockSteps => new.key = k)
       /\ \A j \in Keys : j # k => memory'[j] = memory[j] /\ blockRows'[j] = blockRows[j]
       /\ \A j \in Keys : j # k => (j \in new.todo <=> j \in job[t].todo)
       /\ \A j \in Keys : j # k => (j \in kernel' => j \in kernel) /\ (j \in active => j \in active') /\ (j \in white' => j \in white)
  BY <1>1, StepsAre
<1> QED
  BY <1>1, <1>5, <1>6, <1>7, <1>8, <1>9, <1>11 DEF Taken

LEMMA SweepKeeps == ASSUME ShieldInv, NEW k \in Keys, Sweep(k) PROVE ShieldInv'
<1> DEFINE new == [job["cleanup"] EXCEPT !.pc = "unmark", !.key = k, !.todo = job["cleanup"].todo \ {k}]
<1>0. job["cleanup"] \in JobState /\ job["cleanup"].todo \subseteq Keys /\ job \in [Goroutines -> JobState] /\ "cleanup" \in Goroutines
  BY ShieldFacts, JobIs DEF Goroutines
<1>1. job["cleanup"].pc = "sweep" /\ k \in job["cleanup"].todo /\ job' = [job EXCEPT !["cleanup"] = new]
      /\ UNCHANGED <<stores, wall, switches, shieldBounds, crossed>>
  BY <1>0 DEF Sweep
<1>2. new \in JobState /\ new.pc = "unmark" /\ new.key = k /\ new.todo = job["cleanup"].todo \ {k}
  <2>1. "unmark" \in JobSteps
    BY StepsAre
  <2> QED
    BY <1>0, <2>1 DEF JobState
<1> HIDE DEF new
<1>3. TakesUp("cleanup", new, k)
  BY <1>1, <1>2 DEF TakesUp
<1> QED
  BY <1>0, <1>1, <1>2, <1>3, ListTakes, TakenKeeps

\* A step of the switches, with no key in the hand.
LEMMA SwitchKeeps ==
  ASSUME ShieldInv, NEW new \in JobState, job' = [job EXCEPT !["admin"] = new], job["admin"].pc \in AdminSteps \ (BlockSteps \cup UnblockSteps),
         job["admin"].todo = {}, new.todo = {}, new.pc \in AdminSteps \ (BlockSteps \cup UnblockSteps),
         UNCHANGED <<stores, white, expired, engine, blocks, crossed>>, shieldAsked' \in Nat, shieldFaults' \in Nat,
         kernel' \subseteq kernel, kernel' = {} \/ active' = active, active' \subseteq Keys,
         table' \in BOOLEAN, armedOff' \in BOOLEAN, escalation' \in BOOLEAN, enabled' \in BOOLEAN, WallOK'
  PROVE  ShieldInv'
<1>0. "admin" \in Goroutines /\ memory' = memory /\ blockRows' = blockRows /\ offences' = offences
  BY DEF Goroutines, stores
<1>1. job' \in [Goroutines -> JobState] /\ job'["admin"] = new /\ \A s \in Goroutines : s # "admin" => job'[s] = job[s]
  BY <1>0, ShieldFacts
<1>2. ShieldTypes'
  BY <1>0, <1>1, ShieldFacts DEF ShieldTypes
<1>3. ASSUME NEW s \in Goroutines PROVE JobOK(s)'
  <2>1. CASE s = "admin"
    BY <1>1, <2>1, StepsAre DEF JobOK, StepsOf
  <2>2. CASE s # "admin"
    <3>1. JobOK(s) /\ job[s] \in JobState /\ job'[s] = job[s]
      BY <1>1, <2>2, ShieldFacts
    <3>2. \A j \in Keys : offences'[j] >= offences[j] /\ offences[j] \in Nat
      BY <1>0, ShieldFacts
    <3>3. offences' \in [Keys -> Nat]
      BY <1>0, ShieldFacts
    <3> QED
      BY <3>1, <3>2, <3>3, JobStays
  <2> QED
    BY <2>1, <2>2
<1>4. ASSUME NEW j \in Keys \ crossed' PROVE KeyOK(j)'
  <2>1. KeyOK(j)
    BY <1>4 DEF ShieldInv
  <2>2. \A s \in Goroutines : SameFor(s, j)
    BY <1>1, StepsAre DEF SameFor
  <2>3. /\ memory'[j] = memory[j] /\ blockRows'[j] = blockRows[j] /\ expired \subseteq expired' /\ engine' = engine
        /\ j \in kernel' => j \in kernel /\ (j \in active => j \in active')
        /\ j \in white' => j \in white
    BY <1>0
  <2> QED
    BY <2>1, <2>2, <2>3, OtherKey
<1> QED
  BY <1>2, <1>3, <1>4 DEF ShieldInv

LEMMA ResyncKeeps == ASSUME ShieldInv, Resync PROVE ShieldInv'
<1>0. /\ job["admin"] \in JobState /\ job["admin"].todo \subseteq Keys /\ job \in [Goroutines -> JobState] /\ "admin" \in Goroutines
      /\ job["admin"].pc = "resync" /\ UNCHANGED <<stores, wall, switches, shieldBounds, crossed>>
  BY ShieldFacts, JobIs, Zenon DEF Goroutines, Resync
<1>1. ASSUME NEW k \in job["admin"].todo,
             job' = [job EXCEPT !["admin"] =
                       [job["admin"] EXCEPT !.key = k, !.todo = job["admin"].todo \ {k},
                          !.pc = IF Eligible(k) /\ k \notin active THEN "nft" ELSE "resync"]]
      PROVE  ShieldInv'
  <2> DEFINE next == IF Eligible(k) /\ k \notin active THEN "nft" ELSE "resync"
             new == [job["admin"] EXCEPT !.key = k, !.todo = job["admin"].todo \ {k}, !.pc = next]
  <2>1. next \in JobSteps /\ k \in Keys /\ (next = "resync" \/ (next = "nft" /\ k \in PublicKeys /\ k \notin white))
    BY <1>0, <1>1, StepsAre DEF Eligible
  <2>2. job' = [job EXCEPT !["admin"] = new]
    BY <1>1
  <2> HIDE DEF next
  <2>3. new \in JobState /\ new.pc = next /\ new.key = k /\ new.todo = job["admin"].todo \ {k}
    BY <1>0, <2>1 DEF JobState
  <2> HIDE DEF new
  <2>4. TakesUp("admin", new, k)
    BY <1>0, <1>1, <2>1, <2>2, <2>3 DEF TakesUp
  <2> QED
    BY <1>0, <2>1, <2>2, <2>3, <2>4, ListTakes, TakenKeeps
<1>2. CASE job["admin"].todo = {} /\ Rests("admin")
  <2>1. job' = [job EXCEPT !["admin"] = Resting]
    BY <1>2 DEF Rests
  <2>2. /\ UNCHANGED <<stores, white, expired, engine, blocks, crossed>> /\ shieldAsked' \in Nat /\ shieldFaults' \in Nat
        /\ kernel' \subseteq kernel /\ active' = active /\ active' \subseteq Keys /\ crossed' = crossed /\ offences' = offences
        /\ table' \in BOOLEAN /\ armedOff' \in BOOLEAN /\ escalation' \in BOOLEAN /\ enabled' \in BOOLEAN /\ memory' = memory
        /\ UNCHANGED <<table, escalation, enabled, engine, armedOff>>
    BY <1>0, ShieldFacts DEF wall, switches, shieldBounds, stores
  <2>3. /\ Resting \in JobState /\ Resting.todo = {} /\ Resting.pc = "idle"
        /\ {"resync", "idle"} \subseteq AdminSteps \ (BlockSteps \cup UnblockSteps)
    BY RestingIs, StepsAre DEF AdminSteps
  <2>4. WallOK'
    <3>1. engine \/ ("admin" = "admin" /\ Resting.todo = {} /\ \A j \in Keys : memory'[j] = 0)
      BY <2>2, <2>3, ShieldFacts DEF WallOK
    <3>2. \A j \in Keys : offences'[j] >= offences[j] /\ offences'[j] \in Nat
      BY <2>2, ShieldFacts
    <3>3. /\ Resting.pc # "nft" /\ job["admin"].pc \notin {"teardown", "empty"} /\ Resting.pc # "torn"
          /\ Resting.pc \notin {"resync", "nft", "mark"} /\ crossed \subseteq crossed'
      BY <1>0, <2>2, <2>3
    <3> QED
      BY <1>0, <2>1, <2>2, <2>3, <3>1, <3>2, <3>3, WallStays
  <2>5. job["admin"].pc \in AdminSteps \ (BlockSteps \cup UnblockSteps)
    BY <1>0, <2>3
  <2> QED
    BY <1>2, <2>1, <2>2, <2>3, <2>4, <2>5, SwitchKeeps
<1> QED
  BY <1>1, <1>2, Zenon DEF Resync

\* The administrator between two steps of the switches.
Switching == {"idle", "build", "empty", "teardown", "torn"}
LEMMA AdminRests ==
  ASSUME ShieldInv, job["admin"].pc \in Switching
  PROVE  /\ job["admin"].todo = {} /\ job["admin"] \in JobState /\ job["admin"].pc \in AdminSteps \ (BlockSteps \cup UnblockSteps)
         /\ "admin" \in Goroutines /\ job \in [Goroutines -> JobState]
<1>1. "admin" \in Goroutines
  BY DEF Goroutines
<1>2. JobOK("admin") /\ job["admin"] \in JobState /\ job \in [Goroutines -> JobState]
  BY <1>1, ShieldFacts
<1>3. Switching \subseteq AdminSteps /\ Switching \cap (BlockSteps \cup UnblockSteps) = {} /\ {"resync", "nft", "mark"} \cap Switching = {}
  BY StepsAre DEF AdminSteps, Switching
<1> QED
  BY <1>1, <1>2, <1>3 DEF JobOK

\* From one to the next, with an empty list.
SwitchesTo(new, pc) ==
  /\ job["admin"].pc \in Switching /\ pc \in Switching /\ new \in JobState /\ new.pc = pc /\ new.todo = {}
  /\ job' = [job EXCEPT !["admin"] = new]
LEMMA SwitchFrom ==
  ASSUME ShieldInv, NEW pc \in Switching, job["admin"].pc \in Switching
  PROVE  /\ job' = [job EXCEPT !["admin"] = [Resting EXCEPT !.pc = pc]] => SwitchesTo([Resting EXCEPT !.pc = pc], pc)
         /\ Becomes("admin", pc) => SwitchesTo([job["admin"] EXCEPT !.pc = pc], pc)
         /\ Rests("admin") => SwitchesTo(Resting, "idle")
<1>0. pc \in JobSteps /\ job["admin"] \in JobState /\ Resting \in JobState /\ job["admin"].todo = {} /\ Resting.todo = {} /\ "idle" \in Switching
  BY AdminRests, RestingIs, StepsAre DEF Switching
<1>1. [Resting EXCEPT !.pc = pc] \in JobState /\ [Resting EXCEPT !.pc = pc].pc = pc /\ [Resting EXCEPT !.pc = pc].todo = {}
  BY <1>0, JobAt
<1>2. [job["admin"] EXCEPT !.pc = pc] \in JobState /\ [job["admin"] EXCEPT !.pc = pc].pc = pc /\ [job["admin"] EXCEPT !.pc = pc].todo = {}
  BY <1>0, JobAt
<1>3. Becomes("admin", pc) => job' = [job EXCEPT !["admin"] = [job["admin"] EXCEPT !.pc = pc]]
  BY AdminRests DEF Becomes
<1>4. Rests("admin") => job' = [job EXCEPT !["admin"] = Resting]
  BY DEF Rests
<1> QED
  BY <1>0, <1>1, <1>2, <1>3, <1>4, RestingIs DEF SwitchesTo

\* What is left alone by every one of them, and what the wall has to be.
Untouched ==
  /\ UNCHANGED <<stores, white, expired, engine, blocks, crossed>> /\ shieldAsked' \in Nat /\ shieldFaults' \in Nat
  /\ kernel' \in {kernel, {}} /\ active' \in {active, {}} /\ (active' = active \/ kernel' = {})
  /\ table' \in BOOLEAN /\ armedOff' \in BOOLEAN /\ escalation' \in BOOLEAN /\ enabled' \in BOOLEAN
LEMMA Switched ==
  ASSUME ShieldInv, NEW new, NEW pc, SwitchesTo(new, pc), Untouched, ~enabled' \/ enabled' = enabled \/ engine,
         (~table' => kernel' = {}) /\ (pc = "torn" => ~table'),
         ~escalation' /\ pc \notin {"teardown", "empty"}
           => ~table' \/ (~escalation /\ job["admin"].pc \notin {"teardown", "empty"} /\ kernel' = kernel /\ table' = table),
         ~enabled' /\ ~armedOff' /\ pc \notin {"teardown", "empty"}
           => ~table' \/ (~enabled /\ ~armedOff /\ job["admin"].pc \notin {"teardown", "empty"} /\ kernel' = kernel /\ table' = table)
  PROVE  ShieldInv'
<1>0. /\ new \in JobState /\ new.pc = pc /\ new.todo = {} /\ job' = [job EXCEPT !["admin"] = new] /\ pc \in Switching
      /\ job["admin"].pc \in Switching
  BY DEF SwitchesTo
<1>1. /\ memory' = memory /\ offences' = offences /\ crossed' = crossed /\ engine' = engine
      /\ kernel' \in {kernel, {}} /\ active' \in {active, {}} /\ (active' = active \/ kernel' = {})
      /\ UNCHANGED <<stores, white, expired, engine, blocks, crossed>> /\ shieldAsked' \in Nat /\ shieldFaults' \in Nat
      /\ table' \in BOOLEAN /\ armedOff' \in BOOLEAN /\ escalation' \in BOOLEAN /\ enabled' \in BOOLEAN
  BY DEF Untouched, stores
<1>2. job["admin"].todo = {} /\ job["admin"].pc \in AdminSteps \ (BlockSteps \cup UnblockSteps) /\ "admin" \in Goroutines
  BY <1>0, AdminRests
<1>3. new.pc \in AdminSteps \ (BlockSteps \cup UnblockSteps) /\ pc \notin {"resync", "nft", "mark"}
  BY <1>0, StepsAre DEF AdminSteps, Switching
<1>4. job'["admin"] = new /\ (\A s \in Goroutines : s # "admin" => job'[s] = job[s]) /\ WallOK
  BY <1>0, <1>2, ShieldFacts
<1>5. \A k \in kernel' : k \in PublicKeys /\ offences'[k] >= 2
  BY <1>1, <1>4 DEF WallOK
<1>6. ~engine' => ~enabled' /\ (\A k \in Keys : memory'[k] = 0) /\ job'["admin"].todo = {}
                  /\ \A s \in Goroutines \ {"admin"} : job'[s].pc = "idle"
  BY <1>0, <1>1, <1>4 DEF WallOK
<1>7. ~escalation' /\ job'["admin"].pc \notin {"teardown", "empty"}
        => kernel' \subseteq crossed' /\ (~table' \/ \A s \in Goroutines : job'[s].pc # "nft")
  <2> SUFFICES ASSUME ~escalation', job'["admin"].pc \notin {"teardown", "empty"}
               PROVE  kernel' \subseteq crossed' /\ (~table' \/ \A s \in Goroutines : job'[s].pc # "nft")
    OBVIOUS
  <2>1. CASE ~table'
    <3>1. kernel' = {}
      BY <2>1
    <3> QED
      BY <2>1, <3>1
  <2>2. CASE table'
    <3>1. ~escalation /\ job["admin"].pc \notin {"teardown", "empty"} /\ kernel' = kernel /\ table' = table
      BY <1>0, <1>4, <2>2
    <3>2. kernel \subseteq crossed /\ \A s \in Goroutines : job[s].pc # "nft"
      BY <1>4, <2>2, <3>1 DEF WallOK
    <3> QED
      BY <1>0, <1>1, <1>3, <1>4, <3>1, <3>2
  <2> QED
    BY <2>1, <2>2
<1>8. ~enabled' /\ ~armedOff' /\ job'["admin"].pc \notin {"teardown", "empty"} => kernel' \subseteq crossed' /\ (table' => ~engine')
  <2> SUFFICES ASSUME ~enabled', ~armedOff', job'["admin"].pc \notin {"teardown", "empty"}
               PROVE  kernel' \subseteq crossed' /\ (table' => ~engine')
    OBVIOUS
  <2>1. CASE ~table'
    <3>1. kernel' = {}
      BY <2>1
    <3> QED
      BY <2>1, <3>1
  <2>2. CASE table'
    <3>1. ~enabled /\ ~armedOff /\ job["admin"].pc \notin {"teardown", "empty"} /\ kernel' = kernel /\ table' = table
      BY <1>0, <1>4, <2>2
    <3>2. kernel \subseteq crossed /\ ~engine
      BY <1>4, <2>2, <3>1 DEF WallOK
    <3> QED
      BY <1>1, <3>1, <3>2
  <2> QED
    BY <2>1, <2>2
<1>9. WallOK'
  BY <1>0, <1>3, <1>4, <1>5, <1>6, <1>7, <1>8 DEF WallOK
<1>10. kernel' \subseteq kernel /\ (kernel' = {} \/ active' = active) /\ active' \subseteq Keys
  BY <1>1, ShieldFacts
<1> QED
  BY <1>0, <1>1, <1>2, <1>3, <1>9, <1>10, SwitchKeeps

LEMMA SwitchesKeep ==
  ASSUME ShieldInv, EscalationOn \/ BuildTable \/ EscalationOff \/ DisableShield \/ TearDown \/ Torn
  PROVE  ShieldInv'
<1>0. /\ WallOK /\ shieldAsked \in Nat /\ shieldFaults \in Nat /\ shieldAsked + 1 \in Nat /\ shieldFaults + 1 \in Nat
      /\ table \in BOOLEAN /\ armedOff \in BOOLEAN /\ escalation \in BOOLEAN /\ enabled \in BOOLEAN
  BY ShieldFacts
<1>1. CASE EscalationOn
  <2>1. job["admin"].pc = "idle" /\ {"idle", "build"} \subseteq Switching
    BY <1>1 DEF EscalationOn, Switching
  <2>2. SwitchesTo([Resting EXCEPT !.pc = "build"], "build")
    BY <1>1, <2>1, SwitchFrom DEF EscalationOn
  <2>3. Untouched /\ UNCHANGED <<kernel, table, armedOff, escalation, enabled>>
    BY <1>0, <1>1 DEF EscalationOn, Untouched, wall, switches, shieldBounds
  <2> QED
    BY <1>0, <2>1, <2>2, <2>3, Switched DEF WallOK
<1>2. CASE BuildTable
  <2>1. job["admin"].pc = "build" /\ {"idle", "build", "empty"} \subseteq Switching
    BY <1>2 DEF BuildTable, Switching
  <2>2. /\ Untouched /\ kernel' = {} /\ UNCHANGED <<armedOff, escalation, enabled>>
    BY <1>0, <1>2 DEF BuildTable, Untouched, switches, ShieldFault
  <2>3. CASE table' = TRUE /\ Becomes("admin", "empty")
    <3>1. SwitchesTo([job["admin"] EXCEPT !.pc = "empty"], "empty")
      BY <2>1, <2>3, SwitchFrom
    <3> QED
      BY <2>2, <2>3, <3>1, Switched
  <2>4. CASE table' = FALSE /\ Rests("admin")
    <3>1. SwitchesTo(Resting, "idle")
      BY <2>1, <2>4, SwitchFrom
    <3> QED
      BY <2>2, <2>4, <3>1, Switched
  <2> QED
    BY <1>2, <2>3, <2>4 DEF BuildTable
<1>3. CASE EscalationOff \/ DisableShield
  <2>1. job["admin"].pc = "idle" /\ {"idle", "teardown"} \subseteq Switching
    BY <1>3 DEF EscalationOff, DisableShield, Switching
  <2>2. SwitchesTo([Resting EXCEPT !.pc = "teardown"], "teardown")
    BY <1>3, <2>1, SwitchFrom DEF EscalationOff, DisableShield
  <2>3. Untouched /\ UNCHANGED <<kernel, table, armedOff>> /\ (~enabled' \/ enabled' = enabled)
    BY <1>0, <1>3 DEF EscalationOff, DisableShield, Untouched, wall, ShieldRequest
  <2> QED
    BY <1>0, <2>1, <2>2, <2>3, Switched DEF WallOK
<1>4. CASE TearDown
  <2>1. job["admin"].pc = "teardown" /\ {"torn", "teardown"} \subseteq Switching
    BY <1>4 DEF TearDown, Switching
  <2>2. SwitchesTo([job["admin"] EXCEPT !.pc = "torn"], "torn")
    BY <1>4, <2>1, SwitchFrom DEF TearDown
  <2>3. Untouched /\ kernel' = {} /\ table' = FALSE /\ UNCHANGED <<escalation, enabled>>
    BY <1>0, <1>4 DEF TearDown, Untouched, switches, shieldBounds
  <2> QED
    BY <2>1, <2>2, <2>3, Switched
<1>5. CASE Torn
  <2>1. job["admin"].pc = "torn" /\ {"torn", "idle"} \subseteq Switching
    BY <1>5 DEF Torn, Switching
  <2>2. SwitchesTo(Resting, "idle")
    BY <1>5, <2>1, SwitchFrom DEF Torn
  <2>3. ~table /\ kernel = {}
    BY <1>0, <2>1 DEF WallOK
  <2>4. Untouched /\ kernel' = {} /\ table' = FALSE /\ UNCHANGED <<escalation, enabled>>
    BY <1>0, <1>5, <2>3 DEF Torn, Untouched, switches, shieldBounds
  <2> QED
    BY <2>1, <2>2, <2>4, Switched
<1> QED
  BY <1>1, <1>2, <1>3, <1>4, <1>5

LEMMA EmptyRecordKeeps == ASSUME ShieldInv, EmptyRecord PROVE ShieldInv'
<1> DEFINE list == {k \in Keys : memory[k] # 0 /\ offences[k] >= 2}
           new == [Resting EXCEPT !.pc = "resync", !.todo = list]
<1>0. "admin" \in Goroutines /\ job["admin"].pc = "empty" /\ job \in [Goroutines -> JobState] /\ job["admin"].todo = {}
  BY AdminRests DEF EmptyRecord, Switching
<1>1. /\ memory' = memory /\ blockRows' = blockRows /\ blocks' = blocks /\ offences' = offences /\ active' = {}
      /\ kernel' = kernel /\ table' = table /\ escalation' = TRUE /\ armedOff' = ~enabled /\ white' = white
      /\ enabled' = enabled /\ engine' = engine /\ expired' = expired /\ shieldAsked' = shieldAsked /\ shieldFaults' = shieldFaults
      /\ crossed' = crossed \cup kernel \cup {k \in Keys : Blocking(k) \/ Unblocking(k)}
      /\ job' = [job EXCEPT !["admin"] = new]
  BY DEF EmptyRecord, stores, shieldBounds
<1>2. new \in JobState /\ new.pc = "resync" /\ new.todo = list /\ new.key = 0
  <2>1. list \in SUBSET Keys /\ Resting \in JobState /\ "resync" \in JobSteps /\ Resting.key = 0
    BY RestingIs, StepsAre
  <2> HIDE DEF list
  <2> QED
    BY <2>1 DEF JobState
<1> HIDE DEF new
<1>3. job' \in [Goroutines -> JobState] /\ job'["admin"] = new /\ \A s \in Goroutines : s # "admin" => job'[s] = job[s]
  BY <1>0, <1>1, <1>2
<1>4. ShieldTypes'
  BY <1>1, <1>3, ShieldFacts DEF ShieldTypes
<1>5. ASSUME NEW s \in Goroutines PROVE JobOK(s)'
  <2>1. CASE s = "admin"
    <3>1. job'[s].pc = "resync" /\ job'[s].todo = list /\ \A k \in list : offences'[k] >= 2
      BY <1>1, <1>2, <1>3, <2>1
    <3> HIDE DEF list
    <3> QED
      BY <2>1, <3>1, StepsAre DEF JobOK, StepsOf, AdminSteps
  <2>2. CASE s # "admin"
    <3>1. JobOK(s) /\ job[s] \in JobState /\ job'[s] = job[s] /\ offences' \in [Keys -> Nat]
      BY <1>1, <1>3, <2>2, ShieldFacts
    <3>2. \A j \in Keys : offences'[j] >= offences[j] /\ offences[j] \in Nat
      BY <1>1, ShieldFacts
    <3> QED
      BY <3>1, <3>2, JobStays
  <2> QED
    BY <2>1, <2>2
<1>6. ASSUME NEW k \in Keys \ crossed' PROVE KeyOK(k)'
  <2>1. k \notin crossed /\ k \notin kernel /\ \A s \in Goroutines : ~HasKey(s, k)
    BY <1>1, <1>6, NobodyAt
  <2>2. OneRow(k) /\ RowAgrees(k)
    BY <2>1, KeyIs
  <2>3. OneRow(k)' /\ RowAgrees(k)' /\ \A s \in Goroutines : s # "admin" => ~HasKey(s, k)'
    BY <1>1, <1>3, <2>1, <2>2 DEF OneRow, RowAgrees, HasKey, Holds
  <2>4. ~Holds("admin", k)' /\ (k \in job'["admin"].todo => memory'[k] # 0) /\ k \notin kernel'
    BY <1>1, <1>2, <1>3, <2>1, StepsAre DEF Holds
  <2>5. Worked("admin", k)
    BY <2>3, <2>4 DEF Worked
  <2> QED
    BY <1>0, <2>5, WorkedIsOK
<1>7. WallOK'
  <2>1. WallOK
    BY ShieldFacts
  <2>2. ~engine => list = {}
    BY <2>1 DEF WallOK
  <2>3. \A k \in kernel' : k \in PublicKeys /\ offences'[k] >= 2
    BY <1>1, <2>1 DEF WallOK
  <2>4. job'["admin"].pc = "resync" /\ job'["admin"].todo = list
    BY <1>2, <1>3
  <2> HIDE DEF list
  <2>5. ~engine' => ~enabled' /\ (\A k \in Keys : memory'[k] = 0) /\ job'["admin"].todo = {}
                    /\ \A s \in Goroutines \ {"admin"} : job'[s].pc = "idle"
    BY <1>1, <1>3, <2>1, <2>2, <2>4 DEF WallOK
  <2>6. (~table' => kernel' = {}) /\ (enabled' \/ armedOff')
    BY <1>1, <2>1, ShieldFacts DEF WallOK
  <2> QED
    BY <1>1, <2>3, <2>4, <2>5, <2>6 DEF WallOK
<1> QED
  BY <1>4, <1>5, <1>6, <1>7 DEF ShieldInv

LEMMA CleanUpKeeps == ASSUME ShieldInv, CleanUp PROVE ShieldInv'
<1> DEFINE over == {k \in Keys : memory[k] \in expired}
           new == [Resting EXCEPT !.pc = "sweep", !.todo = over]
<1>0. "cleanup" \in Goroutines /\ job["cleanup"].pc = "idle" /\ job \in [Goroutines -> JobState] /\ job["cleanup"].todo = {}
  <2>1. "cleanup" \in Goroutines /\ job["cleanup"].pc = "idle"
    BY DEF CleanUp, Goroutines
  <2> QED
    BY <2>1, ShieldFacts DEF JobOK
<1>1. /\ memory' = [k \in Keys |-> IF k \in over THEN 0 ELSE memory[k]] /\ blockRows' = blockRows /\ blocks' = blocks
      /\ offences' = offences /\ active' = active /\ over # {}
      /\ kernel' = kernel /\ table' = table /\ escalation' = escalation /\ armedOff' = armedOff /\ white' = white
      /\ enabled' = enabled /\ engine' = engine /\ expired' = expired /\ shieldAsked' = shieldAsked /\ shieldFaults' = shieldFaults
      /\ crossed' = crossed \cup {k \in over : Blocking(k) \/ Unblocking(k)}
      /\ job' = [job EXCEPT !["cleanup"] = new]
  BY DEF CleanUp, Cross, wall, switches, shieldBounds
<1>2. new \in JobState /\ new.pc = "sweep" /\ new.todo = over /\ new.key = 0
  <2>1. over \in SUBSET Keys /\ Resting \in JobState /\ "sweep" \in JobSteps /\ Resting.key = 0
    BY RestingIs, StepsAre
  <2> HIDE DEF over
  <2> QED
    BY <2>1 DEF JobState
<1> HIDE DEF new
<1>9. \A k \in over : k \in Keys /\ memory[k] \in expired /\ memory[k] # 0
  BY ShieldFacts
<1>10. engine
  BY <1>1, <1>9, ShieldFacts DEF WallOK
<1>11. over \subseteq Keys /\ \A k \in Keys : memory'[k] = (IF k \in over THEN 0 ELSE memory[k])
  BY <1>1
<1>12. memory' \in [Keys -> Nat]
  BY <1>1, ShieldFacts
<1> HIDE DEF over
<1>3. job' \in [Goroutines -> JobState] /\ job'["cleanup"] = new /\ \A s \in Goroutines : s # "cleanup" => job'[s] = job[s]
  BY <1>0, <1>1, <1>2
<1>4. ShieldTypes' /\ crossed \subseteq crossed'
  BY <1>1, <1>3, <1>11, <1>12, ShieldFacts DEF ShieldTypes
<1>13. \A j \in Keys : offences'[j] >= offences[j] /\ offences[j] \in Nat /\ offences'[j] \in Nat
  BY <1>1, ShieldFacts
<1>5. ASSUME NEW s \in Goroutines PROVE JobOK(s)'
  <2>1. CASE s = "cleanup"
    BY <1>2, <1>3, <2>1, StepsAre DEF JobOK, StepsOf
  <2>2. CASE s # "cleanup"
    <3>1. JobOK(s) /\ job[s] \in JobState /\ job'[s] = job[s] /\ offences' \in [Keys -> Nat]
      BY <1>1, <1>3, <2>2, ShieldFacts
    <3> QED
      BY <1>13, <3>1, JobStays
  <2> QED
    BY <2>1, <2>2
<1>6. ASSUME NEW k \in Keys, k \notin crossed', k \in over PROVE KeyOK(k)'
  <2>1. k \notin crossed /\ \A s \in Goroutines : ~HasKey(s, k)
    BY <1>1, <1>6, NobodyAt
  <2>2. OneRow(k) /\ RowAgrees(k) /\ (k \in kernel => k \in active)
    BY <2>1, KeyIs
  <2>3. memory[k] # 0 /\ memory[k] \in expired /\ memory'[k] = 0
    BY <1>6, <1>9, <1>11
  <2>4. blockRows[k] = <<memory[k]>>
    BY <2>2, <2>3 DEF RowAgrees
  <2>5. OneRow(k)' /\ RowAgrees(k)'
    BY <1>1, <2>2, <2>3, <2>4 DEF OneRow, RowAgrees
  <2>6. \A s \in Goroutines : s # "cleanup" => ~HasKey(s, k)'
    BY <1>3, <2>1 DEF HasKey, Holds
  <2>7. ~Holds("cleanup", k)' /\ k \in job'["cleanup"].todo /\ (k \in kernel' => k \in active')
    BY <1>1, <1>2, <1>3, <1>6, <2>2, StepsAre DEF Holds
  <2>8. Worked("cleanup", k)
    BY <2>5, <2>6, <2>7 DEF Worked
  <2> QED
    BY <1>0, <2>8, WorkedIsOK
<1>7. ASSUME NEW k \in Keys, k \notin crossed', k \notin over PROVE KeyOK(k)'
  <2>1. KeyOK(k)
    BY <1>4, <1>7 DEF ShieldInv
  <2>2. \A s \in Goroutines : SameFor(s, k)
    BY <1>0, <1>2, <1>3, <1>7, StepsAre DEF SameFor
  <2>3. /\ memory'[k] = memory[k] /\ blockRows'[k] = blockRows[k] /\ expired \subseteq expired' /\ engine' = engine
        /\ k \in kernel' => k \in kernel /\ (k \in active => k \in active')
        /\ k \in white' => k \in white
    BY <1>1, <1>7, <1>11
  <2> QED
    BY <2>1, <2>2, <2>3, OtherKey
<1>8. WallOK'
  <2>1. UNCHANGED <<table, escalation, enabled, engine, armedOff>> /\ kernel' \subseteq kernel /\ new.pc # "nft"
    BY <1>1, <1>2
  <2> QED
    BY <1>0, <1>1, <1>2, <1>4, <1>10, <1>13, <2>1, WallStays
<1> QED
  BY <1>4, <1>5, <1>6, <1>7, <1>8 DEF ShieldInv

\* The whitelist loses a key, or the time of a block is over.
LEMMA TimeKeeps ==
  ASSUME ShieldInv,
         UNCHANGED <<memory, blockRows, offences, kernel, table, active, armedOff, escalation, enabled, engine, job, blocks,
                     shieldAsked, shieldFaults, crossed>>,
         white' \subseteq white, expired \subseteq expired', expired' \subseteq Nat, 0 \notin expired'
  PROVE  ShieldInv'
<1>1. ShieldTypes' /\ WallOK'
  BY ShieldFacts DEF ShieldTypes, WallOK
<1>2. ASSUME NEW s \in Goroutines PROVE JobOK(s)'
  BY ShieldFacts DEF JobOK
<1>3. ASSUME NEW k \in Keys \ crossed' PROVE KeyOK(k)'
  <2>1. KeyOK(k)
    BY <1>3 DEF ShieldInv
  <2>2. \A s \in Goroutines : SameFor(s, k)
    BY DEF SameFor
  <2>3. /\ memory'[k] = memory[k] /\ blockRows'[k] = blockRows[k] /\ expired \subseteq expired' /\ engine' = engine
        /\ k \in kernel' => k \in kernel /\ (k \in active => k \in active')
        /\ k \in white' => k \in white
    OBVIOUS
  <2> QED
    BY <2>1, <2>2, <2>3, OtherKey
<1> QED
  BY <1>1, <1>2, <1>3 DEF ShieldInv

LEMMA TimePasses ==
  ASSUME ShieldInv, ShieldTime \/ (\E k \in Keys : WhitelistRemove(k)) \/ UNCHANGED shieldVars PROVE ShieldInv'
<1>0. memory \in [Keys -> Nat] /\ expired \subseteq Nat /\ 0 \notin expired
  BY ShieldFacts
<1>1. CASE ShieldTime
  <2>1. PICK k \in Keys : memory[k] # 0 /\ expired' = expired \cup {memory[k]}
    BY <1>1 DEF ShieldTime, Expire
  <2>2. expired \subseteq expired' /\ expired' \subseteq Nat /\ 0 \notin expired'
    BY <1>0, <2>1
  <2>3. UNCHANGED <<memory, blockRows, offences, kernel, table, active, armedOff, white, escalation, enabled, engine, job, blocks,
                    shieldAsked, shieldFaults, crossed>>
    BY <1>1 DEF ShieldTime, stores, wall, switches
  <2> QED
    BY <2>2, <2>3, TimeKeeps
<1>2. CASE \E k \in Keys : WhitelistRemove(k)
  <2>1. white' \subseteq white
    BY <1>2 DEF WhitelistRemove
  <2>3. UNCHANGED <<memory, blockRows, offences, kernel, table, active, armedOff, escalation, enabled, engine, job, blocks,
                    shieldAsked, shieldFaults, crossed, expired>>
    BY <1>2 DEF WhitelistRemove, stores, wall, shieldBounds
  <2> QED
    BY <1>0, <2>1, <2>3, TimeKeeps
<1>3. CASE UNCHANGED shieldVars
  BY <1>0, <1>3, TimeKeeps DEF shieldVars
<1> QED
  BY <1>1, <1>2, <1>3

\* Of several rows there is a last one.
LEMMA LastOf ==
  ASSUME NEW n \in Nat, NEW S \in SUBSET (1..n), S # {}
  PROVE  \E i \in S : \A j \in S : j <= i
<1> DEFINE T == {m \in Nat : \E i \in S : m = n - i}
<1>1. T \subseteq Nat /\ T # {}
  <2>1. PICK i \in S : TRUE
    OBVIOUS
  <2>2. i \in 1..n /\ n - i \in Nat
    BY <2>1
  <2> QED
    BY <2>1, <2>2
<1> DEFINE Smaller == OpToRel(<, Nat)
<1>5. IsWellFoundedOn(Smaller, Nat) /\ \A x, y \in Nat : <<x, y>> \in Smaller <=> x < y
  BY NatLessThanWellFounded DEF OpToRel
<1> HIDE DEF Smaller
<1>2. PICK m \in T : \A x \in T : ~(<<x, m>> \in Smaller)
  <2> HIDE DEF T
  <2>1. IsWellFoundedOn(Smaller, Nat) /\ T \subseteq Nat /\ T # {}
    BY <1>1, <1>5
  <2> QED
    BY <2>1, WFMin, ZenonT(30)
<1>3. PICK i \in S : m = n - i
  BY <1>2
<1>4. ASSUME NEW j \in S PROVE j <= i
  <2>0. j \in 1..n /\ i \in 1..n /\ m \in Nat
    BY <1>2
  <2>1. j \in Nat /\ i \in Nat /\ n - j \in Nat /\ m \in Nat
    BY <2>0
  <2>2. n - j \in T
    BY <2>1
  <2>3. ~((n - j) < m)
    BY <1>2, <1>5, <2>1, <2>2
  <2> QED
    BY <1>3, <2>1, <2>3
<1> QED
  BY <1>4

\* What is loaded is a block of the rows; of one row that is not over, that one.
LEMMA LoadedIs ==
  ASSUME ShieldInv
  PROVE  /\ Loaded \in [Keys -> Nat]
         /\ \A k \in Keys : blockRows[k] = <<>> => Loaded[k] = 0
         /\ \A k \in Keys : \A b \in Nat : blockRows[k] = <<b>> => Loaded[k] = (IF b \in expired THEN 0 ELSE b)
<1> DEFINE left(k) == {i \in DOMAIN blockRows[k] : blockRows[k][i] \notin expired}
           last(k) == CHOOSE i \in left(k) : \A j \in left(k) : j <= i
<1>0. Loaded = [k \in Keys |-> IF left(k) = {} THEN 0 ELSE blockRows[k][last(k)]]
  BY DEF Loaded
<1>1. ASSUME NEW k \in Keys PROVE blockRows[k] \in Seq(Nat) /\ Len(blockRows[k]) \in Nat /\ left(k) \subseteq 1..Len(blockRows[k])
  <2>1. blockRows[k] \in Seq(Nat)
    BY ShieldFacts
  <2> QED
    BY <2>1
<1>2. ASSUME NEW k \in Keys, left(k) # {} PROVE last(k) \in left(k) /\ blockRows[k][last(k)] \in Nat
  <2>1. \E i \in left(k) : \A j \in left(k) : j <= i
    BY <1>1, <1>2, LastOf
  <2>2. last(k) \in left(k)
    BY <2>1
  <2>3. last(k) \in 1..Len(blockRows[k]) /\ blockRows[k] \in Seq(Nat)
    BY <1>1, <2>2
  <2> HIDE DEF last, left
  <2> QED
    BY <2>2, <2>3
<1>3. Loaded \in [Keys -> Nat]
  BY <1>0, <1>2
<1>4. ASSUME NEW k \in Keys, blockRows[k] = <<>> PROVE Loaded[k] = 0
  <2>1. left(k) = {}
    BY <1>4
  <2> QED
    BY <1>0, <2>1
<1>5. ASSUME NEW k \in Keys, NEW b \in Nat, blockRows[k] = <<b>> PROVE Loaded[k] = (IF b \in expired THEN 0 ELSE b)
  <2>1. DOMAIN blockRows[k] = {1} /\ blockRows[k][1] = b
    BY <1>5
  <2>2. b \in expired => left(k) = {}
    BY <2>1
  <2>3. b \notin expired => left(k) = {1}
    BY <2>1
  <2>4. b \notin expired => last(k) = 1
    BY <1>2, <2>3
  <2> HIDE DEF last, left
  <2> QED
    BY <1>0, <2>1, <2>2, <2>3, <2>4
<1> QED
  BY <1>3, <1>4, <1>5

LEMMA LoadedAgrees ==
  ASSUME ShieldInv, NEW k \in Keys, OneRow(k)
  PROVE  \/ blockRows[k] = <<>> /\ Loaded[k] = 0
         \/ blockRows[k] = <<Loaded[k]>> /\ Loaded[k] # 0
         \/ \E b \in expired : blockRows[k] = <<b>> /\ Loaded[k] = 0
<1>1. CASE blockRows[k] = <<>>
  BY <1>1, LoadedIs
<1>2. ASSUME NEW b \in Nat, b # 0, blockRows[k] = <<b>>
      PROVE  \/ blockRows[k] = <<Loaded[k]>> /\ Loaded[k] # 0
             \/ \E c \in expired : blockRows[k] = <<c>> /\ Loaded[k] = 0
  <2>1. Loaded[k] = (IF b \in expired THEN 0 ELSE b)
    BY <1>2, LoadedIs
  <2> QED
    BY <1>2, <2>1
<1> QED
  BY <1>1, <1>2 DEF OneRow

\* Nobody is at work with the key.
LEMMA QuietIsOK ==
  ASSUME NEW k \in Keys, \A t \in Goroutines : ~HasKey(t, k)', OneRow(k)', RowAgrees(k)',
         k \in kernel' => k \in active' /\ memory'[k] # 0 /\ k \notin white'
  PROVE  KeyOK(k)'
<1>1. "admin" \in Goroutines
  BY DEF Goroutines
<1>2. ~Holds("admin", k)' /\ k \notin job'["admin"].todo
  BY <1>1 DEF HasKey
<1>3. Worked("admin", k)
  BY <1>1, <1>2 DEF Worked
<1> QED
  BY <1>1, <1>3, WorkedIsOK

LEMMA EnableShieldKeeps == ASSUME ShieldInv, EnableShield PROVE ShieldInv'
<1>0. /\ ~enabled /\ job["admin"].pc = "idle" /\ enabled' = TRUE /\ engine' = TRUE
      /\ blockRows' = blockRows /\ blocks' = blocks /\ offences' = offences /\ kernel' = kernel /\ table' = table
      /\ active' = active /\ armedOff' = armedOff /\ white' = white /\ escalation' = escalation /\ crossed' = crossed
      /\ expired' = expired /\ shieldAsked' = shieldAsked /\ shieldFaults' = shieldFaults
  BY DEF EnableShield, wall, shieldBounds
<1>1. /\ WallOK /\ "admin" \in Goroutines /\ job \in [Goroutines -> JobState] /\ {"idle", "build"} \subseteq Switching
      /\ job["admin"].todo = {} /\ job["admin"] \in JobState
  BY <1>0, AdminRests, ShieldFacts DEF Switching
<1>2. \E new \in JobState : \E pc \in {"idle", "build"} :
         SwitchesTo(new, pc) /\ (~escalation => pc = "idle")
  <2>1. CASE escalation
    <3>1. SwitchesTo([Resting EXCEPT !.pc = "build"], "build")
      BY <1>0, <1>1, <2>1, SwitchFrom DEF EnableShield
    <3>2. [Resting EXCEPT !.pc = "build"] \in JobState
      BY <3>1 DEF SwitchesTo
    <3> QED
      BY <2>1, <3>1, <3>2
  <2>2. CASE ~escalation
    <3>1. job' = [job EXCEPT !["admin"] = job["admin"]]
      BY <1>1, <2>2 DEF EnableShield
    <3>2. SwitchesTo(job["admin"], "idle")
      BY <1>0, <1>1, <3>1 DEF SwitchesTo
    <3> QED
      BY <1>1, <3>2
  <2> QED
    BY <2>1, <2>2
<1>3. PICK new \in JobState : \E pc \in {"idle", "build"} : SwitchesTo(new, pc) /\ (~escalation => pc = "idle")
  BY <1>2
<1>4. PICK pc \in {"idle", "build"} : SwitchesTo(new, pc) /\ (~escalation => pc = "idle")
  BY <1>3
<1>5. CASE engine
  <2>1. memory' = memory /\ engine' = engine
    BY <1>0, <1>5, ShieldFacts DEF EnableShield
  <2>2. Untouched
    BY <1>0, <2>1, ShieldFacts DEF Untouched, stores
  <2> QED
    BY <1>0, <1>1, <1>4, <1>5, <2>2, Switched DEF WallOK
<1>6. CASE ~engine
  <2>1. \A k \in Keys : memory[k] = 0
    BY <1>1, <1>6 DEF WallOK
  <2>2. memory' = Loaded /\ Loaded \in [Keys -> Nat]
    <3>1. memory' = [k \in Keys |-> IF Loaded[k] = 0 THEN memory[k] ELSE Loaded[k]] /\ Loaded \in [Keys -> Nat]
      BY <1>6, LoadedIs DEF EnableShield
    <3>2. memory' \in [Keys -> Nat] /\ \A k \in Keys : memory'[k] = Loaded[k]
      BY <2>1, <3>1
    <3> QED
      BY <3>1, <3>2
  <2>3. /\ new.pc \in {"idle", "build"} /\ new.todo = {} /\ job' = [job EXCEPT !["admin"] = new] /\ (~escalation => new.pc = "idle")
    BY <1>4 DEF SwitchesTo
  <2>4. job' \in [Goroutines -> JobState] /\ job'["admin"] = new /\ \A s \in Goroutines : s # "admin" => job'[s] = job[s]
    BY <1>1, <1>3, <2>3
  <2>5. ShieldTypes'
    BY <1>0, <2>2, <2>4, ShieldFacts DEF ShieldTypes
  <2>6. \A s \in Goroutines : job'[s].pc \in {"idle", "build"} /\ job'[s].todo = {} /\ (s # "admin" => job'[s].pc = "idle")
    <3>1. \A s \in Goroutines \ {"admin"} : job[s].pc = "idle" /\ job[s].todo = {}
      BY <1>1, <1>6, ShieldFacts DEF WallOK, JobOK
    <3> QED
      BY <2>3, <2>4, <3>1
  <2>7. ASSUME NEW s \in Goroutines PROVE JobOK(s)'
    <3>1. "idle" \in StepsOf(s)
      BY RestingIs
    <3>2. job'[s].pc \in StepsOf(s)
      BY <2>6, <3>1 DEF StepsOf, AdminSteps
    <3>3. job'[s].pc \notin BlockSteps \cup UnblockSteps /\ job'[s].pc \notin {"delete", "insert", "escalate", "nft"} /\ job'[s].todo = {}
      BY <2>6, StepsAre
    <3> QED
      BY <3>2, <3>3 DEF JobOK
  <2>8. \A s \in Goroutines : \A k \in Keys : ~HasKey(s, k) /\ ~HasKey(s, k)'
    <3>1. \A s \in Goroutines : job[s].pc = "idle" /\ job[s].todo = {}
      BY <1>0, <1>1, <1>6, ShieldFacts DEF WallOK, JobOK
    <3> QED
      BY <2>6, <3>1, StepsAre DEF HasKey, Holds
  <2>9. kernel \subseteq crossed
    <3> SUFFICES ASSUME NEW k \in kernel, k \notin crossed PROVE FALSE
      OBVIOUS
    <3>1. k \in Keys
      BY ShieldFacts
    <3> QED
      BY <2>1, <2>8, <3>1, KeyIs
  <2>10. ASSUME NEW k \in Keys \ crossed' PROVE KeyOK(k)'
    <3>1. OneRow(k)
      BY <1>0, <2>10, KeyIs
    <3>2. OneRow(k)' /\ RowAgrees(k)'
      BY <1>0, <2>2, <3>1, LoadedAgrees DEF OneRow, RowAgrees
    <3>3. k \notin kernel'
      BY <1>0, <2>9, <2>10
    <3> QED
      BY <2>8, <3>2, <3>3, QuietIsOK
  <2>11. WallOK'
    BY <1>0, <1>1, <2>6, <2>9 DEF WallOK
  <2> QED
    BY <2>5, <2>7, <2>10, <2>11 DEF ShieldInv
<1> QED
  BY <1>5, <1>6

LEMMA RestartKeeps == ASSUME ShieldInv, ShieldRestart PROVE ShieldInv'
<1>0. /\ job' = [t \in Goroutines |-> Resting] /\ engine' = enabled /\ armedOff' = FALSE
      /\ memory' = (IF enabled THEN Loaded ELSE [k \in Keys |-> 0])
      /\ blockRows' = blockRows /\ blocks' = blocks /\ offences' = offences /\ white' = white /\ escalation' = escalation
      /\ enabled' = enabled /\ expired' = expired /\ shieldAsked' = shieldAsked /\ shieldFaults' \in Nat
      /\ crossed' = (IF enabled /\ escalation THEN crossed ELSE crossed \cup kernel)
      /\ \/ enabled /\ escalation /\ table' = TRUE /\ kernel' = Rebuilt /\ active' = kernel'
         \/ ~(enabled /\ escalation) /\ kernel' = kernel /\ table' = table /\ active' = {}
  BY ShieldFacts DEF ShieldRestart, ShieldFault
<1>1. WallOK /\ "admin" \in Goroutines
  BY ShieldFacts DEF Goroutines
<1>2. \A t \in Goroutines : job'[t] \in JobState /\ job'[t].pc = "idle" /\ job'[t].todo = {} /\ "idle" \in StepsOf(t)
  BY <1>0, RestingIs
<1>3. job' \in [Goroutines -> JobState]
  BY <1>0, <1>2
<1>4. memory' \in [Keys -> Nat] /\ (enabled => memory' = Loaded) /\ (~enabled => \A k \in Keys : memory'[k] = 0)
  BY <1>0, LoadedIs
<1>5. ShieldTypes'
  <2>1. Rebuilt \subseteq Keys
    BY DEF Rebuilt
  <2>2. kernel' \subseteq Keys /\ active' \subseteq Keys /\ crossed' \subseteq Keys /\ table' \in BOOLEAN
    BY <1>0, <2>1, ShieldFacts
  <2> QED
    BY <1>0, <1>3, <1>4, <2>2, ShieldFacts DEF ShieldTypes
<1>6. ASSUME NEW s \in Goroutines PROVE JobOK(s)'
  BY <1>2, StepsAre DEF JobOK
<1>7. \A s \in Goroutines : \A k \in Keys : ~HasKey(s, k)'
  BY <1>2, StepsAre DEF HasKey, Holds
<1>8. ASSUME NEW k \in Keys \ crossed' PROVE KeyOK(k)'
  <2>1. OneRow(k)
    BY <1>0, <1>8, KeyIs
  <2>2. OneRow(k)' /\ RowAgrees(k)'
    <3>1. CASE enabled
      BY <1>0, <1>4, <2>1, <3>1, LoadedAgrees DEF OneRow, RowAgrees
    <3>2. CASE ~enabled
      BY <1>0, <1>4, <2>1, <3>2 DEF OneRow, RowAgrees
    <3> QED
      BY <3>1, <3>2
  <2>3. k \in kernel' => k \in active' /\ memory'[k] # 0 /\ k \notin white'
    <3>1. CASE enabled /\ escalation
      BY <1>0, <1>4, <3>1 DEF Rebuilt, Eligible
    <3>2. CASE ~(enabled /\ escalation)
      BY <1>0, <1>8, <3>2
    <3> QED
      BY <3>1, <3>2
  <2> QED
    BY <1>7, <2>2, <2>3, QuietIsOK
<1>9. WallOK'
  <2>1. CASE enabled /\ escalation
    <3>1. \A k \in kernel' : k \in PublicKeys /\ offences'[k] >= 2
      BY <1>0, <2>1 DEF Rebuilt, Eligible
    <3> QED
      BY <1>0, <1>1, <1>2, <2>1, <3>1 DEF WallOK
  <2>2. CASE ~(enabled /\ escalation)
    BY <1>0, <1>1, <1>2, <1>4, <2>2 DEF WallOK
  <2> QED
    BY <2>1, <2>2
<1> QED
  BY <1>5, <1>6, <1>8, <1>9 DEF ShieldInv

LEMMA ShieldStarts == ShieldInit => ShieldInv
<1> SUFFICES ASSUME ShieldInit PROVE ShieldInv
  OBVIOUS
<1>0. /\ memory = [k \in Keys |-> 0] /\ blockRows = [k \in Keys |-> <<>>] /\ expired = {}
      /\ offences = [k \in Keys |-> 0] /\ white = {} /\ kernel = {} /\ active = {}
      /\ escalation \in BOOLEAN /\ enabled = TRUE /\ engine = TRUE /\ table = escalation
      /\ job = [t \in Goroutines |-> Resting]
      /\ blocks = 0 /\ shieldAsked = 0 /\ shieldFaults = 0 /\ crossed = {} /\ armedOff = FALSE
  BY DEF ShieldInit
<1>1. "admin" \in Goroutines /\ "cleanup" \in Goroutines
  BY DEF Goroutines
<1>2. \A t \in Goroutines : job[t] \in JobState /\ job[t].pc = "idle" /\ job[t].todo = {} /\ "idle" \in StepsOf(t)
  BY <1>0, RestingIs
<1>3. job \in [Goroutines -> JobState]
  BY <1>0, <1>2
<1>4. ShieldTypes
  <2>1. blockRows \in [Keys -> Seq(Nat)]
    BY <1>0
  <2> QED
    BY <1>0, <1>3, <2>1 DEF ShieldTypes
<1>5. ASSUME NEW s \in Goroutines PROVE JobOK(s)
  BY <1>2, StepsAre DEF JobOK
<1>6. \A s \in Goroutines : \A k \in Keys : ~HasKey(s, k)
  BY <1>2, StepsAre DEF HasKey, Holds
<1>7. ASSUME NEW k \in Keys PROVE KeyOK(k)
  <2>1. OneRow(k) /\ RowAgrees(k) /\ k \notin kernel
    BY <1>0 DEF OneRow, RowAgrees
  <2>2. ~Blocking(k)
    BY <1>1, <1>2 DEF Blocking, Under
  <2>3. \A s \in Goroutines : ~Now(s, "delete", k) /\ ~Now(s, "insert", k) /\ ~Now(s, "unrow", k) /\ ~Now(s, "nft", k) /\ ~Now(s, "mark", k)
    BY <1>2 DEF Now
  <2> QED
    BY <1>6, <2>1, <2>2, <2>3 DEF KeyOK
<1>8. WallOK
  BY <1>0, <1>1, <1>2 DEF WallOK
<1> QED
  BY <1>4, <1>5, <1>7, <1>8 DEF ShieldInv

LEMMA ShieldStep == ASSUME ShieldInv, [ShieldNext]_shieldVars PROVE ShieldInv'
<1>1. ASSUME NEW k \in Keys, \/ ProcessRules(k) \/ Middleware(k) \/ AdminUnblocks(k) \/ SeeExpired(k)
                             \/ WhitelistAdd(k) \/ WhitelistRemove(k) \/ Sweep(k)
      PROVE  ShieldInv'
  BY <1>1, ProcessRulesKeeps, RequestsUnblock, TimePasses, SweepKeeps
<1>2. ASSUME NEW t \in Goroutines, NEW k \in Keys,
             \/ DeleteRows(t, k) \/ InsertRow(t, k) \/ RecordBlock(t, k) \/ MaybeEscalate(t, k)
             \/ AddElement(t, k) \/ MarkActive(t, k) \/ ForgetBlock(t, k) \/ ForgetRows(t, k)
             \/ Unmark(t, k) \/ RemoveElement(t, k)
      PROVE  ShieldInv'
  BY <1>2, DeleteRowsKeeps, InsertRowKeeps, RecordBlockKeeps, MaybeEscalateKeeps, AddElementKeeps, MarkActiveKeeps,
     ForgetBlockKeeps, UnmarkKeeps, RemoveElementKeeps
<1>3. CASE \/ CleanUp \/ EscalationOn \/ BuildTable \/ EmptyRecord \/ Resync \/ EscalationOff \/ DisableShield
           \/ TearDown \/ Torn \/ EnableShield \/ ShieldTime \/ ShieldRestart \/ UNCHANGED shieldVars
  BY <1>3, CleanUpKeeps, SwitchesKeep, EmptyRecordKeeps, ResyncKeeps, EnableShieldKeeps, TimePasses, RestartKeeps
<1> QED
  BY <1>1, <1>2, <1>3 DEF ShieldNext

LEMMA ShieldInvSays == ShieldInv => ShieldConsistent
<1> SUFFICES ASSUME ShieldInv PROVE ShieldConsistent
  OBVIOUS
<1>0. WallOK /\ kernel \subseteq Keys /\ "admin" \in Goroutines /\ 0 \notin expired /\ memory \in [Keys -> Nat]
  BY ShieldFacts DEF Goroutines
<1>1. DropsHaveBlocks
  <2>1. \A k \in kernel : k \in crossed \/ KeyOK(k)
    BY <1>0 DEF ShieldInv
  <2> QED
    BY <1>0, <2>1 DEF DropsHaveBlocks, KeyOK, WallOK
<1>2. BlocksSurvive
  <2> SUFFICES ASSUME NEW k \in Keys, ~Blocking(k), ~Unblocking(k), k \notin crossed, engine
               PROVE  Loaded[k] = (IF memory[k] \in expired THEN 0 ELSE memory[k])
    BY DEF BlocksSurvive
  <2>1. RowAgrees(k)
    BY NobodyAt, KeyIs
  <2>2. /\ blockRows[k] = <<>> => Loaded[k] = 0
        /\ \A b \in Nat : blockRows[k] = <<b>> => Loaded[k] = (IF b \in expired THEN 0 ELSE b)
    BY LoadedIs
  <2> QED
    BY <1>0, <2>1, <2>2, ShieldFacts DEF RowAgrees
<1>3. DisarmedDropsNothing
  BY <1>0 DEF DisarmedDropsNothing, WallOK
<1> QED
  BY <1>1, <1>2, <1>3 DEF ShieldConsistent

-----------------------------------------------------------------------------
(* Reputation.  A failed login is in the channel, or in the hand of the     *)
(* loop, or in the streak; whatever the loop has read is bounded by the     *)
(* same histories as the row it read it from.                               *)

LoopSteps == {"wait", "read", "score", "cross", "rules", "record", "decide"}
Loops == [pc : LoopSteps, event : Events \cup {NoEvent}, old : Nat, points : Nat, streak : Nat, success : Nat]
RepTypes ==
  /\ success \in Nat /\ streak \in Nat /\ score \in Nat /\ failed \in Nat /\ dues \in Nat
  /\ late \in BOOLEAN /\ undone \in BOOLEAN /\ answered \in BOOLEAN /\ cut \in BOOLEAN
  /\ channel \in Seq(Events) /\ judge \in Loops
FailuresOf(q) == {i \in DOMAIN q : q[i].rule = "login_fail"}
FailInHand(j) == j.event.rule = "login_fail" /\ j.pc \in {"read", "score", "cross", "rules"}
\* Failures that are still to be counted in the streak.
Uncounted(q, j) == Cardinality(FailuresOf(q)) + (IF FailInHand(j) THEN 1 ELSE 0)
StreakInv ==
  /\ judge.pc \in {"record", "decide"} => judge.event.rule = "login_fail"
  /\ late \/ /\ streak + Uncounted(channel, judge) <= failed
             /\ judge.pc = "record" => judge.streak + Cardinality(FailuresOf(channel)) <= failed
             /\ judge.pc = "decide" => judge.streak <= failed
ScoreInv ==
  /\ ScoreIsEarned /\ LowScoreIsAnswered
  /\ judge.pc = "score" => /\ undone \/ judge.old + dues >= 100
                           /\ judge.old < ScoreThreshold => answered \/ cut
RepInv == RepTypes /\ StreakInv /\ ScoreInv

\* The failures of a channel are finitely many, and change with it.
LEMMA FailuresFinite ==
  ASSUME NEW q \in Seq(Events)
  PROVE  IsFiniteSet(FailuresOf(q)) /\ Cardinality(FailuresOf(q)) \in Nat
<1>1. IsFiniteSet(1..Len(q))
  BY FS_Interval
<1>2. FailuresOf(q) \subseteq 1..Len(q)
  BY DEF FailuresOf
<1> QED
  BY <1>1, <1>2, FS_Subset, FS_CardinalityType

LEMMA FailuresGrow ==
  ASSUME NEW q \in Seq(Events), NEW e \in Events
  PROVE  Cardinality(FailuresOf(Append(q, e))) =
           Cardinality(FailuresOf(q)) + (IF e.rule = "login_fail" THEN 1 ELSE 0)
<1>1. FailuresOf(Append(q, e)) = FailuresOf(q) \cup (IF e.rule = "login_fail" THEN {Len(q) + 1} ELSE {})
  BY DEF FailuresOf
<1>2. Len(q) + 1 \notin FailuresOf(q)
  BY DEF FailuresOf
<1>3. CASE e.rule = "login_fail"
  <2>1. FailuresOf(Append(q, e)) = FailuresOf(q) \cup {Len(q) + 1}
    BY <1>1, <1>3
  <2>2. Cardinality(FailuresOf(q) \cup {Len(q) + 1}) = Cardinality(FailuresOf(q)) + 1
    BY <1>2, FailuresFinite, FS_AddElement
  <2> QED
    BY <2>1, <2>2, <1>3
<1>4. CASE e.rule # "login_fail"
  <2>1. FailuresOf(Append(q, e)) = FailuresOf(q)
    BY <1>1, <1>4
  <2> QED
    BY <2>1, <1>4, FailuresFinite
<1> QED
  BY <1>3, <1>4

LEMMA FailuresShrink ==
  ASSUME NEW q \in Seq(Events), q # <<>>
  PROVE  Cardinality(FailuresOf(q)) =
           Cardinality(FailuresOf(Tail(q))) + (IF Head(q).rule = "login_fail" THEN 1 ELSE 0)
<1> DEFINE rest == FailuresOf(q) \ {1}
           shift == [i \in rest |-> i - 1]
<1>1. /\ Tail(q) \in Seq(Events) /\ Len(Tail(q)) = Len(q) - 1 /\ Len(q) \in Nat /\ Len(q) >= 1
      /\ \A i \in 1..(Len(q) - 1) : Tail(q)[i] = q[i + 1]
      /\ Head(q) = q[1] /\ DOMAIN q = 1..Len(q) /\ DOMAIN Tail(q) = 1..(Len(q) - 1)
  OBVIOUS
<1>2. shift \in Bijection(rest, FailuresOf(Tail(q)))
  <2>1. \A i \in rest : i \in 2..Len(q) /\ i - 1 \in FailuresOf(Tail(q))
    BY <1>1 DEF FailuresOf
  <2>2. \A i \in FailuresOf(Tail(q)) : i + 1 \in rest /\ shift[i + 1] = i
    BY <1>1 DEF FailuresOf
  <2>3. shift \in [rest -> FailuresOf(Tail(q))]
    BY <2>1
  <2>4. \A i, j \in rest : shift[i] = shift[j] => i = j
    BY <2>1
  <2> QED
    BY <2>2, <2>3, <2>4 DEF Bijection, Injection, IsInjective, Surjection
<1>3. IsFiniteSet(rest) /\ Cardinality(rest) = IF 1 \in FailuresOf(q) THEN Cardinality(FailuresOf(q)) - 1
                                                ELSE Cardinality(FailuresOf(q))
  BY FailuresFinite, FS_RemoveElement
<1>4. Cardinality(FailuresOf(Tail(q))) = Cardinality(rest)
  <2> HIDE DEF rest, shift
  <2>1. ExistsBijection(rest, FailuresOf(Tail(q)))
    BY <1>2 DEF ExistsBijection
  <2> QED
    BY <2>1, <1>3, FS_Bijection
<1>5. 1 \in FailuresOf(q) <=> Head(q).rule = "login_fail"
  BY <1>1 DEF FailuresOf
<1>6. Cardinality(FailuresOf(q)) \in Nat
  BY FailuresFinite
<1> QED
  BY <1>3, <1>4, <1>5, <1>6

LEMMA NoFailures ==
  Cardinality(FailuresOf(<<>>)) = 0
<1>1. FailuresOf(<<>>) = {}
  BY DEF FailuresOf
<1> QED
  BY <1>1, FS_EmptySet

LEMMA ReputationStarts ==
  ASSUME ReputationInit
  PROVE  RepInv
<1>1. AtRest \in Loops /\ AtRest.pc = "wait"
  BY DEF AtRest, Loops, LoopSteps
<1>2. RepTypes
  <2>1. channel = <<>> /\ <<>> \in Seq(Events)
    BY DEF ReputationInit
  <2>2. judge = AtRest
    BY DEF ReputationInit
  <2>3. /\ success = 0 /\ streak = 0 /\ score = 100 /\ failed = 0 /\ dues = 0
        /\ late = FALSE /\ undone = FALSE /\ answered = TRUE /\ cut = FALSE
    BY DEF ReputationInit
  <2> QED
    BY <1>1, <2>1, <2>2, <2>3 DEF RepTypes
<1>3. StreakInv
  BY <1>1, NoFailures DEF ReputationInit, StreakInv, Uncounted, FailInHand
<1>4. ScoreInv
  BY <1>1 DEF ReputationInit, ScoreInv, ScoreIsEarned, LowScoreIsAnswered, ScoreThreshold
<1> QED
  BY <1>2, <1>3, <1>4 DEF RepInv

\* Whoever does not touch the row, the channel or the loop touches nothing of the invariant.
CountsStand == UNCHANGED <<success, streak, score, channel, judge, failed, late, dues, undone, answered, cut>>
LEMMA CountsStandKeeps ==
  ASSUME RepInv, CountsStand
  PROVE  RepInv'
<1> USE DEF CountsStand
<1>1. RepTypes'
  BY DEF RepInv, RepTypes
<1>2. StreakInv'
  BY DEF RepInv, StreakInv
<1>3. ScoreInv'
  BY DEF RepInv, ScoreInv, ScoreIsEarned, LowScoreIsAnswered, LoopAt
<1> QED
  BY <1>1, <1>2, <1>3 DEF RepInv

\* What grows no faster than what bounds it stays below it.
LEMMA CountsGrow ==
  ASSUME NEW a \in Nat, NEW old \in Nat, NEW new \in Nat, NEW f \in Nat, NEW g \in Nat,
         new <= old + (g - f), f <= g
  PROVE  /\ a + old <= f => a + new <= g
         /\ a <= f => a <= g
OBVIOUS

LEMMA EmitKeeps ==
  ASSUME RepInv, NEW e \in Events, Emit(e)
  PROVE  RepInv'
<1>1. /\ streak \in Nat /\ failed \in Nat /\ channel \in Seq(Events) /\ judge \in Loops
      /\ Cardinality(FailuresOf(channel)) \in Nat
  BY FailuresFinite DEF RepInv, RepTypes
<1>2. UNCHANGED <<success, streak, score, judge, late, dues, undone, answered, cut>>
  BY DEF Emit, rowOfKey, stance
<1>3. /\ failed' \in Nat
      /\ failed' = failed + (IF e.rule = "login_fail" THEN 1 ELSE 0)
  BY <1>1 DEF Emit
<1>4. channel' \in Seq(Events) /\ (channel' = channel \/ channel' = Append(channel, e))
  BY <1>1 DEF Emit
<1>0. Cardinality(FailuresOf(channel')) \in Nat
  BY <1>4, FailuresFinite
<1>5. /\ Cardinality(FailuresOf(channel')) <= Cardinality(FailuresOf(channel)) + (failed' - failed)
      /\ Cardinality(FailuresOf(channel')) \in Nat
  <2>1. CASE channel' = channel
    BY <1>0, <1>1, <1>3, <2>1
  <2>2. CASE channel' = Append(channel, e)
    <3>1. Cardinality(FailuresOf(channel')) = Cardinality(FailuresOf(channel)) + (IF e.rule = "login_fail" THEN 1 ELSE 0)
      BY <1>1, <2>2, FailuresGrow
    <3> QED
      BY <1>0, <1>1, <1>3, <3>1
  <2> QED
    BY <1>4, <2>1, <2>2
<1>6. RepTypes'
  BY <1>2, <1>3, <1>4 DEF RepInv, RepTypes
<1>7. StreakInv'
  <2> DEFINE old == Cardinality(FailuresOf(channel))
             new == Cardinality(FailuresOf(channel'))
             hand == IF FailInHand(judge) THEN 1 ELSE 0
  <2>1. Uncounted(channel, judge)' = new + hand /\ Uncounted(channel, judge) = old + hand /\ hand \in Nat
    BY <1>2 DEF Uncounted
  <2>2. /\ old \in Nat /\ new \in Nat /\ new <= old + (failed' - failed) /\ failed \in Nat /\ failed' \in Nat
        /\ failed' >= failed /\ streak \in Nat /\ judge.streak \in Nat
    BY <1>1, <1>3, <1>5 DEF Loops
  <2>3. judge' = judge /\ streak' = streak /\ late' = late
    BY <1>2
  <2>4. /\ judge.pc \in {"record", "decide"} => judge.event.rule = "login_fail"
        /\ late \/ /\ streak + Uncounted(channel, judge) <= failed
                   /\ judge.pc = "record" => judge.streak + old <= failed
                   /\ judge.pc = "decide" => judge.streak <= failed
    BY DEF RepInv, StreakInv
  <2>5. late' \/ /\ streak + Uncounted(channel, judge)' <= failed'
                 /\ judge.pc = "record" => judge.streak + new <= failed'
                 /\ judge.pc = "decide" => judge.streak <= failed'
    <3>1. CASE late
      BY <2>3, <3>1
    <3>2. CASE ~late
      <4> HIDE DEF old, new, hand
      <4>1. /\ streak + (old + hand) <= failed
            /\ judge.pc = "record" => judge.streak + old <= failed
            /\ judge.pc = "decide" => judge.streak <= failed
        BY <2>1, <2>4, <3>2
      <4>2. streak + hand \in Nat /\ (streak + hand) + old <= failed
        BY <2>1, <2>2, <4>1
      <4>3. (streak + hand) + new <= failed'
        <5>1. PICK a \in Nat : a = streak + hand
          BY <4>2
        <5>2. PICK f \in Nat, g \in Nat : f = failed /\ g = failed'
          BY <2>2
        <5>3. old \in Nat /\ new \in Nat /\ new <= old + (g - f) /\ a + old <= f
          BY <2>2, <4>2, <5>1, <5>2
        <5>4. a + new <= g
          BY <5>3
        <5> QED
          BY <5>1, <5>2, <5>4
      <4>4. /\ judge.streak + old <= failed => judge.streak + new <= failed'
            /\ judge.streak <= failed => judge.streak <= failed'
        <5>1. PICK f \in Nat, g \in Nat, a \in Nat : f = failed /\ g = failed' /\ a = judge.streak
          BY <2>2
        <5>2. old \in Nat /\ new \in Nat /\ new <= old + (g - f) /\ f <= g
          BY <2>2, <5>1
        <5>3. (a + old <= f => a + new <= g) /\ (a <= f => a <= g)
          BY <5>2
        <5> QED
          BY <5>1, <5>3
      <4>5. streak + Uncounted(channel, judge)' <= failed'
        BY <2>1, <2>2, <4>3
      <4> QED
        BY <4>1, <4>4, <4>5
    <3> QED
      BY <3>1, <3>2
  <2> QED
    BY <2>3, <2>4, <2>5 DEF StreakInv
<1>8. ScoreInv'
  BY <1>2 DEF RepInv, ScoreInv, ScoreIsEarned, LowScoreIsAnswered, LoopAt
<1> QED
  BY <1>6, <1>7, <1>8 DEF RepInv

LEMMA AuthSuccessKeeps ==
  ASSUME RepInv, AuthSuccess
  PROVE  RepInv'
<1>1. /\ success \in Nat /\ channel \in Seq(Events) /\ judge \in Loops
  BY DEF RepInv, RepTypes
<1>2. UNCHANGED <<score, channel, judge, dues, undone, answered, cut>>
  BY DEF AuthSuccess
<1>3. /\ success' \in Nat /\ streak' = 0 /\ failed' = 0 /\ late' \in BOOLEAN
      /\ ~late' => Failures = {} /\ ~RecordingFail
  <2>1. success' = success + 1 /\ streak' = 0 /\ failed' = 0
    BY DEF AuthSuccess
  <2>2. late' = (Failures # {} \/ RecordingFail)
    BY DEF AuthSuccess
  <2>3. late' \in BOOLEAN
    BY <2>2 DEF RecordingFail
  <2>4. ~late' => Failures = {} /\ ~RecordingFail
    BY <2>2, Zenon
  <2>5. success' \in Nat
    BY <1>1, <2>1
  <2> QED
    BY <2>1, <2>3, <2>4, <2>5
<1>4. RepTypes'
  BY <1>2, <1>3 DEF RepInv, RepTypes
<1>5. StreakInv'
  <2>1. ASSUME ~late'
        PROVE  Uncounted(channel, judge) = 0 /\ judge.pc \notin {"record", "decide"}
    <3>1. FailuresOf(channel) = {} /\ ~FailInHand(judge)
      BY <1>3, <2>1 DEF Failures, FailuresOf, RecordingFail, FailInHand
    <3>2. judge.pc \notin {"record", "decide"}
      BY <1>3, <2>1 DEF RecordingFail, RepInv, StreakInv
    <3> QED
      BY <3>1, <3>2, FS_EmptySet DEF Uncounted
  <2>2. Uncounted(channel, judge)' = Uncounted(channel, judge)
    BY <1>2
  <2> QED
    BY <1>2, <1>3, <2>1, <2>2 DEF RepInv, StreakInv
<1>6. ScoreInv'
  BY <1>2 DEF RepInv, ScoreInv, ScoreIsEarned, LowScoreIsAnswered, LoopAt
<1> QED
  BY <1>4, <1>5, <1>6 DEF RepInv

LEMMA ForgetKeeps ==
  ASSUME RepInv, Forget
  PROVE  RepInv'
<1>1. /\ streak \in Nat /\ failed \in Nat /\ channel \in Seq(Events) /\ judge \in Loops
      /\ Cardinality(FailuresOf(channel)) \in Nat
  BY FailuresFinite DEF RepInv, RepTypes
<1>2. UNCHANGED <<channel, judge, failed, late, answered, cut>>
  BY DEF Forget, stance
<1>3. /\ success' = 0 /\ streak' = 0 /\ score' = 100 /\ dues' = 0 /\ undone' = (judge.pc = "score")
  BY DEF Forget, LoopAt
<1>4. RepTypes'
  BY <1>2, <1>3 DEF RepInv, RepTypes
<1>5. StreakInv'
  <2>1. Uncounted(channel, judge)' = Uncounted(channel, judge) /\ Uncounted(channel, judge) \in Nat
    BY <1>1, <1>2 DEF Uncounted
  <2> QED
    BY <1>1, <1>2, <1>3, <2>1 DEF RepInv, StreakInv
<1>6. ScoreInv'
  <2>1. ScoreIsEarned' /\ LowScoreIsAnswered'
    BY <1>3 DEF ScoreIsEarned, LowScoreIsAnswered, ScoreThreshold
  <2>2. ASSUME judge.pc = "score" PROVE judge.old < ScoreThreshold => answered \/ cut
    BY <2>2 DEF RepInv, ScoreInv
  <2>3. judge.pc = "score" => undone'
    BY <1>3
  <2> QED
    BY <1>2, <2>1, <2>2, <2>3 DEF ScoreInv
<1> QED
  BY <1>4, <1>5, <1>6 DEF RepInv

LEMMA TakeKeeps ==
  ASSUME RepInv, Take
  PROVE  RepInv'
<1>1. /\ streak \in Nat /\ failed \in Nat /\ channel \in Seq(Events) /\ judge \in Loops
      /\ channel # <<>> /\ judge.pc = "wait"
  BY DEF RepInv, RepTypes, Take, LoopAt
<1>2. UNCHANGED <<success, streak, score, failed, late, dues, undone, answered, cut>>
  BY DEF Take, rowOfKey, past
<1>3. channel' = Tail(channel) /\ channel' \in Seq(Events) /\ Head(channel) \in Events
  BY <1>1 DEF Take
<1>4. judge' \in Loops /\ judge'.pc = "read" /\ judge'.event = Head(channel)
  <2>1. judge' = [pc |-> "read", event |-> Head(channel), old |-> 0, points |-> 0, streak |-> 0, success |-> 0]
    BY DEF Take, AtRest
  <2> QED
    BY <2>1, <1>3 DEF Loops, LoopSteps
<1>5. RepTypes'
  BY <1>2, <1>3, <1>4 DEF RepInv, RepTypes
<1>6. StreakInv'
  <2>1. /\ Cardinality(FailuresOf(channel)) =
             Cardinality(FailuresOf(channel')) + (IF Head(channel).rule = "login_fail" THEN 1 ELSE 0)
        /\ Cardinality(FailuresOf(channel')) \in Nat
    BY <1>1, <1>3, FailuresShrink, FailuresFinite
  <2>2. ~FailInHand(judge) /\ (FailInHand(judge)' <=> Head(channel).rule = "login_fail")
    BY <1>1, <1>4 DEF FailInHand
  <2>3. Uncounted(channel, judge)' = Uncounted(channel, judge)
    BY <2>1, <2>2 DEF Uncounted
  <2> QED
    BY <1>1, <1>2, <1>4, <2>3 DEF RepInv, StreakInv
<1>7. ScoreInv'
  BY <1>1, <1>2, <1>4 DEF RepInv, ScoreInv, ScoreIsEarned, LowScoreIsAnswered, LoopAt
<1> QED
  BY <1>5, <1>6, <1>7 DEF RepInv

\* The loop goes on with the event it has, and whatever else it carries.
LEMMA StreakCarried ==
  ASSUME RepInv, judge' \in Loops, judge'.event = judge.event, judge.pc \in {"read", "score", "cross"},
         judge'.pc \in {"score", "cross", "rules"}, UNCHANGED <<streak, channel, failed, late>>
  PROVE  StreakInv'
<1>1. FailInHand(judge)' <=> FailInHand(judge)
  BY DEF FailInHand
<1>2. Uncounted(channel, judge)' = Uncounted(channel, judge)
  BY <1>1 DEF Uncounted
<1> QED
  BY <1>2 DEF RepInv, StreakInv

LEMMA ReadScoreKeeps ==
  ASSUME RepInv, ReadScore
  PROVE  RepInv'
<1>1. /\ score \in Nat /\ dues \in Nat /\ judge \in Loops /\ judge.pc = "read"
  BY DEF RepInv, RepTypes, ReadScore, LoopAt
<1>2. UNCHANGED <<success, streak, score, channel, failed, late, dues, undone, answered, cut>>
  BY DEF ReadScore, rowOfKey, past
<1>3. Points(judge.event) \in Nat
  <2>1. judge.event.severity \in Severities
    BY <1>1, ReputationAssumption DEF Loops, NoEvent, Severities
  <2> QED
    BY <2>1 DEF Points, Penalty, Severities
<1>4. PICK h \in Recoveries : judge' = [judge EXCEPT !.pc = "score",
          !.old = IF score + h > 100 THEN 100 ELSE score + h, !.points = Points(judge.event)]
  BY Zenon DEF ReadScore
<1>5. h \in Nat
  BY <1>4, ReputationAssumption
<1>6. /\ judge' \in Loops /\ judge'.pc = "score" /\ judge'.event = judge.event
      /\ judge'.old = IF score + h > 100 THEN 100 ELSE score + h
  <2> DEFINE k == IF score + h > 100 THEN 100 ELSE score + h
             p == Points(judge.event)
  <2>1. k \in Nat /\ p \in Nat
    BY <1>1, <1>3, <1>5
  <2>2. judge' = [judge EXCEPT !.pc = "score", !.old = k, !.points = p]
    BY <1>4
  <2> HIDE DEF k, p
  <2>3. judge' \in Loops /\ judge'.pc = "score" /\ judge'.event = judge.event /\ judge'.old = k
    BY <1>1, <2>1, <2>2 DEF Loops, LoopSteps
  <2> QED
    BY <2>3 DEF k
<1>7. RepTypes'
  BY <1>2, <1>6 DEF RepInv, RepTypes
<1>8. StreakInv'
  BY <1>1, <1>2, <1>6, StreakCarried
<1>9. ScoreInv'
  <2>1. undone \/ score + dues >= 100
    BY DEF RepInv, ScoreInv, ScoreIsEarned
  <2>2. score < 30 => answered \/ cut
    BY <1>1 DEF RepInv, ScoreInv, LowScoreIsAnswered, LoopAt, ScoreThreshold
  <2> QED
    BY <1>1, <1>2, <1>5, <1>6, <2>1, <2>2 DEF ScoreInv, ScoreIsEarned, LowScoreIsAnswered, LoopAt, ScoreThreshold
<1> QED
  BY <1>7, <1>8, <1>9 DEF RepInv

LEMMA WriteScoreKeeps ==
  ASSUME RepInv, WriteScore
  PROVE  RepInv'
<1>1. /\ score \in Nat /\ dues \in Nat /\ judge \in Loops /\ judge.pc = "score"
      /\ judge.old \in Nat /\ judge.points \in Nat
      /\ answered \in BOOLEAN /\ cut \in BOOLEAN
  BY DEF RepInv, RepTypes, WriteScore, LoopAt, Loops
<1>2. UNCHANGED <<success, streak, channel, failed, late, undone>>
  BY DEF WriteScore
<1>3. /\ score' = Lowered /\ Lowered \in Nat /\ Lowered + judge.points >= judge.old
      /\ dues' = dues + judge.points /\ dues' \in Nat
  BY <1>1 DEF WriteScore, Lowered
<1>4. judge' = [judge EXCEPT !.pc = IF Crosses THEN "cross" ELSE "rules"]
  BY DEF WriteScore, LoopGoes
<1>5. /\ judge' \in Loops /\ judge'.pc = (IF Crosses THEN "cross" ELSE "rules") /\ judge'.event = judge.event
  BY <1>1, <1>4 DEF Loops, LoopSteps
<1>6. /\ answered' = ((judge.old < ScoreThreshold \/ Lowered >= ScoreThreshold) /\ answered)
      /\ cut' = (cut /\ ~(judge.old >= ScoreThreshold))
  BY DEF WriteScore
<1>7. RepTypes'
  BY <1>2, <1>3, <1>5, <1>6 DEF RepInv, RepTypes
<1>8. StreakInv'
  BY <1>1, <1>2, <1>5, StreakCarried
<1>9. ScoreInv'
  <2>1. undone \/ judge.old + dues >= 100
    BY <1>1 DEF RepInv, ScoreInv
  <2>2. judge.old < 30 => answered \/ cut
    BY <1>1 DEF RepInv, ScoreInv, ScoreThreshold
  <2>3. ScoreIsEarned'
    BY <1>1, <1>2, <1>3, <2>1 DEF ScoreIsEarned
  <2>4. LowScoreIsAnswered'
    BY <1>1, <1>3, <1>5, <1>6, <2>2 DEF LowScoreIsAnswered, LoopAt, ScoreThreshold, Crosses
  <2>5. judge'.pc # "score"
    BY <1>5
  <2> QED
    BY <2>3, <2>4, <2>5 DEF ScoreInv
<1> QED
  BY <1>7, <1>8, <1>9 DEF RepInv

LEMMA AnswerFallKeeps ==
  ASSUME RepInv, AnswerFall
  PROVE  RepInv'
<1>1. judge \in Loops /\ judge.pc = "cross"
  BY DEF RepInv, RepTypes, AnswerFall, LoopAt
<1>2. UNCHANGED <<success, streak, score, channel, failed, late, dues, undone, cut>> /\ answered' = TRUE
  BY DEF AnswerFall, rowOfKey
<1>3. judge' = [judge EXCEPT !.pc = "rules"]
  BY DEF AnswerFall, LoopGoes
<1>4. judge' \in Loops /\ judge'.pc = "rules" /\ judge'.event = judge.event
  BY <1>1, <1>3 DEF Loops, LoopSteps
<1>5. RepTypes'
  BY <1>2, <1>4 DEF RepInv, RepTypes
<1>6. StreakInv'
  BY <1>1, <1>2, <1>4, StreakCarried
<1>7. ScoreInv'
  BY <1>2, <1>4 DEF RepInv, ScoreInv, ScoreIsEarned, LowScoreIsAnswered, LoopAt
<1> QED
  BY <1>5, <1>6, <1>7 DEF RepInv

\* The loop is done with an event, and takes nothing along.
LEMMA RestKeeps ==
  ASSUME RepInv, judge' = AtRest, judge.pc # "cross",
         UNCHANGED <<success, streak, score, channel, failed, late, dues, undone, answered, cut>>
  PROVE  RepInv'
<1>1. AtRest \in Loops /\ AtRest.pc = "wait"
  BY DEF AtRest, Loops, LoopSteps
<1>2. RepTypes'
  BY <1>1 DEF RepInv, RepTypes
<1>3. StreakInv'
  <2>1. Cardinality(FailuresOf(channel)) \in Nat /\ streak \in Nat /\ failed \in Nat
    BY FailuresFinite DEF RepInv, RepTypes
  <2>2. Uncounted(channel, judge)' = Cardinality(FailuresOf(channel))
    BY <1>1, <2>1 DEF Uncounted, FailInHand
  <2>3. Uncounted(channel, judge) >= Cardinality(FailuresOf(channel)) /\ Uncounted(channel, judge) \in Nat
    BY <2>1 DEF Uncounted
  <2> QED
    BY <1>1, <2>1, <2>2, <2>3 DEF RepInv, StreakInv
<1>4. ScoreInv'
  BY <1>1 DEF RepInv, ScoreInv, ScoreIsEarned, LowScoreIsAnswered, LoopAt
<1> QED
  BY <1>2, <1>3, <1>4 DEF RepInv

LEMMA ReadStreakKeeps ==
  ASSUME RepInv, ReadStreak
  PROVE  RepInv'
<1>1. /\ success \in Nat /\ streak \in Nat /\ failed \in Nat /\ channel \in Seq(Events)
      /\ judge \in Loops /\ judge.pc = "rules" /\ judge.event.rule = "login_fail"
      /\ Cardinality(FailuresOf(channel)) \in Nat
  BY FailuresFinite DEF RepInv, RepTypes, ReadStreak, LoopAt
<1>2. UNCHANGED <<success, streak, score, channel, failed, late, dues, undone, answered, cut>>
  BY DEF ReadStreak, rowOfKey, past
<1>3. judge' = [judge EXCEPT !.pc = "record", !.success = success, !.streak = IF cold THEN 1 ELSE streak + 1]
  BY DEF ReadStreak
<1>4. /\ judge' \in Loops /\ judge'.pc = "record" /\ judge'.event = judge.event
      /\ judge'.streak \in Nat /\ judge'.streak <= streak + 1
  <2> DEFINE k == IF cold THEN 1 ELSE streak + 1
  <2>1. k \in Nat /\ k <= streak + 1
    BY <1>1
  <2>2. judge' = [judge EXCEPT !.pc = "record", !.success = success, !.streak = k]
    BY <1>3
  <2> HIDE DEF k
  <2> QED
    BY <1>1, <2>1, <2>2 DEF Loops, LoopSteps
<1>5. RepTypes'
  BY <1>2, <1>4 DEF RepInv, RepTypes
<1>6. StreakInv'
  <2>1. Uncounted(channel, judge) = Cardinality(FailuresOf(channel)) + 1
    BY <1>1 DEF Uncounted, FailInHand
  <2>2. Uncounted(channel, judge)' = Cardinality(FailuresOf(channel))
    BY <1>1, <1>2, <1>4 DEF Uncounted, FailInHand
  <2> QED
    BY <1>1, <1>2, <1>4, <2>1, <2>2 DEF RepInv, StreakInv
<1>7. ScoreInv'
  BY <1>1, <1>2, <1>4 DEF RepInv, ScoreInv, ScoreIsEarned, LowScoreIsAnswered, LoopAt
<1> QED
  BY <1>5, <1>6, <1>7 DEF RepInv

LEMMA RecordFailKeeps ==
  ASSUME RepInv, RecordFail
  PROVE  RepInv'
<1>1. /\ failed \in Nat /\ channel \in Seq(Events)
      /\ judge \in Loops /\ judge.pc = "record" /\ judge.streak \in Nat
      /\ Cardinality(FailuresOf(channel)) \in Nat
  BY FailuresFinite DEF RepInv, RepTypes, RecordFail, LoopAt, Loops
<1>2. UNCHANGED <<success, score, channel, failed, late, dues, undone, answered, cut>> /\ streak' = judge.streak
  BY DEF RecordFail, past
<1>3. judge' = [judge EXCEPT !.pc = "decide"]
  BY DEF RecordFail, LoopGoes
<1>4. judge' \in Loops /\ judge'.pc = "decide" /\ judge'.event = judge.event /\ judge'.streak = judge.streak
  BY <1>1, <1>3 DEF Loops, LoopSteps
<1>5. RepTypes'
  BY <1>1, <1>2, <1>4 DEF RepInv, RepTypes
<1>6. StreakInv'
  <2>1. Uncounted(channel, judge)' = Cardinality(FailuresOf(channel))
    BY <1>1, <1>2, <1>4 DEF Uncounted, FailInHand
  <2> QED
    BY <1>1, <1>2, <1>4, <2>1 DEF RepInv, StreakInv
<1>7. ScoreInv'
  BY <1>1, <1>2, <1>4 DEF RepInv, ScoreInv, ScoreIsEarned, LowScoreIsAnswered, LoopAt
<1> QED
  BY <1>5, <1>6, <1>7 DEF RepInv

LEMMA RepRestartKeeps ==
  ASSUME RepInv, RepRestart
  PROVE  RepInv'
<1>1. AtRest \in Loops /\ AtRest.pc = "wait"
  BY DEF AtRest, Loops, LoopSteps
<1>2. UNCHANGED <<success, streak, score, failed, late, dues, undone, answered>>
  BY DEF RepRestart, rowOfKey
<1>3. channel' = <<>> /\ judge' = AtRest /\ cut' = (cut \/ judge.pc = "cross")
  BY DEF RepRestart, LoopAt
<1>4. RepTypes'
  BY <1>1, <1>2, <1>3 DEF RepInv, RepTypes
<1>5. StreakInv'
  <2>1. Uncounted(channel, judge) \in Nat /\ streak \in Nat /\ failed \in Nat
    BY FailuresFinite DEF RepInv, RepTypes, Uncounted
  <2>2. Uncounted(channel, judge)' = 0
    BY <1>1, <1>3, NoFailures DEF Uncounted, FailInHand
  <2> QED
    BY <1>1, <1>2, <1>3, <2>1, <2>2 DEF RepInv, StreakInv
<1>6. ScoreInv'
  BY <1>1, <1>2, <1>3 DEF RepInv, ScoreInv, ScoreIsEarned, LowScoreIsAnswered, LoopAt
<1> QED
  BY <1>4, <1>5, <1>6 DEF RepInv

LEMMA ReputationStep ==
  ASSUME RepInv, [ReputationNext]_reputationVars
  PROVE  RepInv'
<1>1. CASE \E e \in Events : Emit(e)
  BY <1>1, EmitKeeps
<1>2. CASE AuthSuccess
  BY <1>2, AuthSuccessKeeps
<1>3. CASE Forget
  BY <1>3, ForgetKeeps
<1>4. CASE Take
  BY <1>4, TakeKeeps
<1>5. CASE ReadScore
  BY <1>5, ReadScoreKeeps
<1>6. CASE WriteScore
  BY <1>6, WriteScoreKeeps
<1>7. CASE AnswerFall
  BY <1>7, AnswerFallKeeps
<1>8. CASE CountEvent
  <2>1. /\ judge' = AtRest /\ judge.pc # "cross"
        /\ UNCHANGED <<success, streak, score, channel, failed, late, dues, undone, answered, cut>>
    BY <1>8 DEF CountEvent, LoopAt, rowOfKey, past
  <2> QED
    BY <2>1, RestKeeps
<1>9. CASE ReadStreak
  BY <1>9, ReadStreakKeeps
<1>10. CASE RecordFail
  BY <1>10, RecordFailKeeps
<1>11. CASE Decide
  <2>1. /\ judge' = AtRest /\ judge.pc # "cross"
        /\ UNCHANGED <<success, streak, score, channel, failed, late, dues, undone, answered, cut>>
    BY <1>11 DEF Decide, LoopAt, rowOfKey, past
  <2> QED
    BY <2>1, RestKeeps
<1>12. CASE \E p \in Policies : SetPolicy(p)
  <2>1. CountsStand
    BY <1>12 DEF SetPolicy, CountsStand, rowOfKey, past
  <2> QED
    BY <2>1, CountsStandKeeps
<1>13. CASE Arm \/ Trust \/ StartEngine \/ Unbar
  <2>1. CountsStand
    BY <1>13 DEF Arm, Trust, StartEngine, Unbar, CountsStand, rowOfKey, past
  <2> QED
    BY <2>1, CountsStandKeeps
<1>14. CASE \E m \in {2, 5, 10, 15} : Pass(m)
  <2>1. CountsStand
    BY <1>14 DEF Pass, CountsStand, past
  <2> QED
    BY <2>1, CountsStandKeeps
<1>15. CASE RepRestart
  BY <1>15, RepRestartKeeps
<1>16. CASE UNCHANGED reputationVars
  <2>1. CountsStand
    BY <1>16 DEF reputationVars, CountsStand, rowOfKey, past
  <2> QED
    BY <2>1, CountsStandKeeps
<1> QED
  BY <1>1, <1>2, <1>3, <1>4, <1>5, <1>6, <1>7, <1>8, <1>9, <1>10, <1>11, <1>12, <1>13, <1>14, <1>15, <1>16
  DEF ReputationNext

LEMMA RepInvSays ==
  RepInv => ReputationConsistent
<1> SUFFICES ASSUME RepInv PROVE ReputationConsistent
  OBVIOUS
<1>1. /\ streak \in Nat /\ failed \in Nat /\ judge.streak \in Nat
      /\ Cardinality(FailuresOf(channel)) \in Nat /\ Uncounted(channel, judge) \in Nat
  BY FailuresFinite DEF RepInv, RepTypes, Loops, Uncounted
<1>2. StreakIsOfNow
  BY <1>1 DEF RepInv, StreakInv, StreakIsOfNow
<1> QED
  BY <1>2 DEF RepInv, ScoreInv, ReputationConsistent
-----------------------------------------------------------------------------
\* The blocks of the shield (shield.go, shield_firewall.go), what leads to them (shield_rules.go,
\* shield_reputation.go, shield_score.go) and the feed it takes addresses from (intel_feed.go): a drop in
\* the kernel belongs to a block, a block survives a restart and one that was lifted does not return, a
\* streak and a score are of what the key did, and the list in force is one of the cached ones.
THEOREM BlocksAgree == DaemonSpec => []BlocksConsistent
<1> DEFINE Inv == /\ part = "shield" => ShieldInv
                  /\ part = "reputation" => RepInv
                  /\ part = "intel" => FeedInv
<1>1. DaemonStart => Inv
  BY ShieldStarts, ReputationStarts, IntelStarts DEF DaemonStart
<1>2. Inv /\ [DaemonNext]_daemonVars => Inv'
  <2> SUFFICES ASSUME Inv, [DaemonNext]_daemonVars PROVE Inv'
    OBVIOUS
  <2>1. ASSUME part' = "shield" PROVE ShieldInv'
    <3>1. part = "shield" /\ ShieldInv /\ [ShieldNext]_shieldVars
      BY <2>1 DEF DaemonNext, daemonVars
    <3> QED
      BY <3>1, ShieldStep
  <2>2. ASSUME part' = "intel" PROVE FeedInv'
    <3>1. part = "intel" /\ FeedInv /\ [IntelNext]_feedVars
      BY <2>2 DEF DaemonNext, daemonVars
    <3> QED
      BY <3>1, FeedStep
  <2>3. ASSUME part' = "reputation" PROVE RepInv'
    <3>1. part = "reputation" /\ RepInv /\ [ReputationNext]_reputationVars
      BY <2>3 DEF DaemonNext, daemonVars
    <3> QED
      BY <3>1, ReputationStep
  <2> QED
    BY <2>1, <2>2, <2>3
<1>3. Inv => BlocksConsistent
  BY ShieldInvSays, RepInvSays, FeedInvSays DEF BlocksConsistent
<1> QED
  BY <1>1, <1>2, <1>3, PTL DEF DaemonSpec
=============================================================================
