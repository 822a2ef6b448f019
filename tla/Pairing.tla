------------------------------ MODULE Pairing ------------------------------
(***************************************************************************)
(* Pairing of backup devices: pairWithRemote, step by step, against the     *)
(* handlers of the other side (device registration, WireGuard exchange,     *)
(* change of address), the peers of each tunnel, and the remote shares that *)
(* are mounted over NFS.  Every NAS runs the same daemon.                   *)
(***************************************************************************)
EXTENDS Naturals, FiniteSets
CONSTANTS
  Nas, Lan,           \* the devices, and the pairs {n, m} on one local network
  NameOf,             \* host names; mount points are named after them
  MaxPairRequests, MaxPairFaults, Absent

ASSUME PairingAssumption ==
  /\ Lan \subseteq SUBSET Nas /\ Absent \notin Nas \cup Nat
  /\ MaxPairRequests \in Nat /\ MaxPairFaults \in Nat

VARIABLES
  devices,    \* backup_devices of each NAS; the token of a row is called by the row's id
  wg,         \* wireguard-state.json, or Absent
  pairing,    \* pairWithRemote, where it is and what it has so far
  remote,     \* remote_mounts, and what is mounted under /nimos/remote
  exports,    \* /etc/exports: who may mount the shares
  issued, pairAsked, pairFaults,
  revoked, stray    \* history: tokens of deleted rows; mounts whose record a fault took

pairingVars == <<devices, wg, pairing, remote, exports, issued, pairAsked, pairFaults, revoked, stray>>

Public(n) == <<"wan", n>>
Private(n) == <<"lan", n>>
Tunnel(k) == <<"tunnel", k>>
Addr == ({"wan", "lan"} \X Nas) \cup ({"tunnel"} \X Nat)
IsLocalAddr(a) == a[1] # "wan"
Reach(n, m) == IF {n, m} \in Lan THEN Private(m) ELSE Public(m)

Device == [id : Nat, who : Nas, addr : Addr, hash : Nat \cup {Absent}, out : Nat \cup {Absent}]
Peer == [key : Nas, ip : Nat, dev : Nat \cup {Absent}]
WgState == [ip : Nat, next : Nat, peers : SUBSET Peer]
Unpaired == [pc |-> "idle", to |-> Absent, id |-> Absent, got |-> Absent, wg |-> Absent,
             mine |-> Absent, theirs |-> Absent]

PairRow(n, id) == CHOOSE d \in devices[n] : d.id = id
HasRow(n, id) == \E d \in devices[n] : d.id = id
\* UPDATE backup_devices ... WHERE id: a row that is gone is no error.
Replaced(n, id, new) == IF HasRow(n, id) THEN [devices EXCEPT ![n] = (@ \ {PairRow(n, id)}) \cup {new}] ELSE devices
\* verifyPairedDevice: some row has the hash of the token.
Accepts(n, token) == \E d \in devices[n] : d.hash = token /\ token # Absent

PairRequest == pairAsked < MaxPairRequests /\ pairAsked' = pairAsked + 1
PairFault == pairFaults < MaxPairFaults /\ pairFaults' = pairFaults + 1
PairAt(n, pc) == pairing[n].pc = pc
PairStep(n, pc) == pairing' = [pairing EXCEPT ![n].pc = pc]
PairFinish(n) == pairing' = [pairing EXCEPT ![n] = Unpaired]

PairingInit ==
  /\ devices = [n \in Nas |-> {}] /\ wg = [n \in Nas |-> Absent]
  /\ pairing = [n \in Nas |-> Unpaired]
  /\ remote = [n \in Nas |-> [records |-> {}, mounted |-> {}]] /\ exports = [n \in Nas |-> {}]
  /\ issued = 0 /\ pairAsked = 0 /\ pairFaults = 0 /\ revoked = {} /\ stray = [n \in Nas |-> {}]

-----------------------------------------------------------------------------
(* Registering each other.                                                 *)

\* Steps 1 to 3: the login and the information of the other, then its row, then its token.
PairWithRemote(n, m) ==
  /\ n # m /\ PairAt(n, "idle") /\ PairRequest /\ issued' = issued + 1
  /\ devices' = [devices EXCEPT ![n] = @ \cup {[id |-> issued', who |-> m, addr |-> Reach(n, m),
                                               hash |-> Absent, out |-> Absent]}]
  /\ pairing' = [pairing EXCEPT ![n] = [Unpaired EXCEPT !.pc = "token", !.to = m, !.id = issued']]
  /\ UNCHANGED <<wg, remote, exports, pairFaults, revoked, stray>>

\* Mutant: the token of the caller is sent before its hash is stored.
RegisterFirst(n) ==
  /\ PairAt(n, "token")
  /\ LET m == pairing[n].to
         row == [id |-> issued', who |-> n, addr |-> Private(n), hash |-> issued', out |-> pairing[n].id] IN
     /\ issued' = issued + 1 /\ devices' = [devices EXCEPT ![m] = @ \cup {row}]
     /\ pairing' = [pairing EXCEPT ![n].pc = "store", ![n].got = issued'] /\ UNCHANGED pairFaults
  /\ UNCHANGED <<wg, remote, exports, pairAsked, revoked, stray>>

SetPairToken(n) ==
  /\ PairAt(n, "token") /\ PairStep(n, "register")
  /\ devices' = LET id == pairing[n].id IN Replaced(n, id, [PairRow(n, id) EXCEPT !.hash = id])
  /\ UNCHANGED <<wg, remote, exports, issued, pairAsked, pairFaults, revoked, stray>>

\* POST /api/backup/devices on the other side: the row, its token, the token of the
\* caller.  The answer may be lost, after any of the three writes; pairing goes on.
RegisterDevice(n) ==
  /\ PairAt(n, "register")
  /\ LET m == pairing[n].to
         row == [id |-> issued', who |-> n, addr |-> Private(n), hash |-> issued', out |-> pairing[n].id] IN
     \/ /\ issued' = issued + 1 /\ devices' = [devices EXCEPT ![m] = @ \cup {row}]
        /\ pairing' = [pairing EXCEPT ![n].pc = "store", ![n].got = issued'] /\ UNCHANGED pairFaults
     \/ /\ PairFault /\ PairStep(n, "store")
        /\ \/ UNCHANGED <<issued, devices>>
           \/ /\ issued' = issued + 1
              /\ \E written \in {row, [row EXCEPT !.out = Absent], [row EXCEPT !.out = Absent, !.hash = Absent]} :
                   devices' = [devices EXCEPT ![m] = @ \cup {written}]
  /\ UNCHANGED <<wg, remote, exports, pairAsked, revoked, stray>>

\* The other's token is kept; over the internet a tunnel follows.
StoreOutbound(n) ==
  /\ PairAt(n, "store")
  /\ devices' = LET id == pairing[n].id IN
       IF pairing[n].got = Absent THEN devices ELSE Replaced(n, id, [PairRow(n, id) EXCEPT !.out = pairing[n].got])
  /\ IF IsLocalAddr(Reach(n, pairing[n].to)) THEN PairFinish(n) ELSE PairStep(n, "wireguard")
  /\ UNCHANGED <<wg, remote, exports, issued, pairAsked, pairFaults, revoked, stray>>

-----------------------------------------------------------------------------
(* The tunnel.                                                             *)

Fresh == [ip |-> 1, next |-> 2, peers |-> {}]
InitWGState(n) == IF wg[n] = Absent THEN Fresh ELSE wg[n]
\* initiateWGPairing reads the state and then waits for the other.
LoadWG(n) ==
  /\ PairAt(n, "wireguard") /\ wg' = [wg EXCEPT ![n] = InitWGState(n)]
  /\ pairing' = [pairing EXCEPT ![n].pc = "exchange", ![n].wg = wg'[n]]
  /\ UNCHANGED <<devices, remote, exports, issued, pairAsked, pairFaults, revoked, stray>>

\* Mutant: a peer that was known gets an address that is free, without taking it.
ExchangedUncounted(s, n) ==
  LET others == {p \in s.peers : p.key # n}
      known == s.peers \ others
      dev == IF known = {} THEN Absent ELSE (CHOOSE p \in known : TRUE).dev IN
  [s EXCEPT !.next = IF known = {} THEN @ + 1 ELSE @, !.peers = others \cup {[key |-> n, ip |-> s.next, dev |-> dev]}]

\* handleWGExchange: the next address, for a peer known or new; a new one is pending,
\* of no device.
Exchanged(s, n) ==
  LET others == {p \in s.peers : p.key # n}
      known == s.peers \ others
      dev == IF known = {} THEN Absent ELSE (CHOOSE p \in known : TRUE).dev IN
  [s EXCEPT !.next = @ + 1, !.peers = others \cup {[key |-> n, ip |-> s.next, dev |-> dev]}]
WgExchange(n) ==
  /\ PairAt(n, "exchange")
  /\ LET m == pairing[n].to  s == InitWGState(m) IN
     \/ /\ wg' = [wg EXCEPT ![m] = Exchanged(s, n)] /\ UNCHANGED pairFaults
        /\ pairing' = [pairing EXCEPT ![n].pc = "assigned", ![n].mine = s.next, ![n].theirs = s.ip]
     \/ PairFault /\ PairFinish(n) /\ wg' \in {wg, [wg EXCEPT ![m] = Exchanged(s, n)]}
  /\ UNCHANGED <<devices, remote, exports, issued, pairAsked, revoked, stray>>

\* The state that was read before the exchange is written back, with the address.
SaveAssigned(n) ==
  /\ PairAt(n, "assigned") /\ PairStep(n, "peer")
  /\ wg' = [wg EXCEPT ![n] = [pairing[n].wg EXCEPT !.ip = pairing[n].mine]]
  /\ UNCHANGED <<devices, remote, exports, issued, pairAsked, pairFaults, revoked, stray>>

AddWGPeer(n) ==
  /\ PairAt(n, "peer") /\ PairStep(n, "addr")
  /\ LET s == InitWGState(n)  m == pairing[n].to IN
     wg' = IF \E p \in s.peers : p.key = m THEN [wg EXCEPT ![n] = s]
           ELSE [wg EXCEPT ![n] = [s EXCEPT !.next = @ + 1,
                                   !.peers = @ \cup {[key |-> m, ip |-> s.next, dev |-> pairing[n].id]}]]
  /\ UNCHANGED <<devices, remote, exports, issued, pairAsked, pairFaults, revoked, stray>>

UpdateAddr(n) ==
  /\ PairAt(n, "addr") /\ PairStep(n, "notify")
  /\ devices' = LET id == pairing[n].id IN Replaced(n, id, [PairRow(n, id) EXCEPT !.addr = Tunnel(pairing[n].theirs)])
  /\ UNCHANGED <<wg, remote, exports, issued, pairAsked, pairFaults, revoked, stray>>

\* POST /api/backup/pair/update-addr: the row with the address of the request, or the
\* tunnel's, or else any of the internet; the oldest.
Asker(m, n, tunnel) ==
  LET named == {d \in devices[m] : d.addr \in {Public(n), tunnel}}
      wan == {d \in devices[m] : ~IsLocalAddr(d.addr)} IN
  IF named # {} THEN named ELSE wan
Notify(n) ==
  /\ PairAt(n, "notify") /\ PairFinish(n)
  /\ LET m == pairing[n].to  tunnel == Tunnel(pairing[n].mine)  found == Asker(m, n, tunnel) IN
     \/ /\ UNCHANGED pairFaults
        /\ devices' = IF found = {} THEN devices
                      ELSE LET d == CHOOSE x \in found : \A y \in found : x.id <= y.id IN
                           Replaced(m, d.id, [d EXCEPT !.addr = tunnel])
     \/ PairFault /\ UNCHANGED devices
  /\ UNCHANGED <<wg, remote, exports, issued, pairAsked, revoked, stray>>

\* dbBackupDeviceDelete, with the peer of the row: not one that is pending.
DeleteDevice(n, d) ==
  /\ d \in devices[n] /\ PairRequest
  /\ devices' = [devices EXCEPT ![n] = @ \ {d}] /\ revoked' = revoked \cup {d.id}
  /\ wg' = IF wg[n] = Absent THEN wg
           ELSE [wg EXCEPT ![n].peers = {p \in @ : p.dev # d.id}]
  /\ UNCHANGED <<pairing, remote, exports, issued, pairFaults, stray>>

-----------------------------------------------------------------------------
(* Remote shares: one share of each NAS.                                   *)

MountPoints(ms) == {x.at : x \in ms}
\* handleNFSExport on the other side, for a caller whose token it accepts.
Exported(m, n, token) == IF Accepts(m, token) THEN [exports EXCEPT ![m] = @ \cup {n}] ELSE exports
\* mountRemoteShare: what is mounted there already is taken for it.  The mount may fail
\* after the export; a fault between the mount and its record leaves a stray.
MountRemoteShare(n, d) ==
  /\ d \in devices[n] /\ d.addr[1] # "tunnel" /\ PairRequest
  /\ LET at == NameOf[d.who]  m == d.addr[2] IN
     /\ at \notin MountPoints(remote[n].mounted)
     /\ exports' = Exported(m, n, d.out)
     /\ \/ /\ n \in exports'[m]
           /\ \/ /\ remote' = [remote EXCEPT ![n] = [mounted |-> @.mounted \cup {[at |-> at, of |-> m]},
                      records |-> {r \in @.records : r.dev # d.id} \cup {[dev |-> d.id, at |-> at, of |-> m]}]]
                 /\ UNCHANGED <<stray, pairFaults>>
              \/ /\ PairFault /\ stray' = [stray EXCEPT ![n] = @ \cup {at}]
                 /\ remote' = [remote EXCEPT ![n].mounted = @ \cup {[at |-> at, of |-> m]}]
        \/ UNCHANGED <<remote, stray, pairFaults>>
  /\ UNCHANGED <<devices, wg, pairing, issued, revoked>>
\* A mutant: the record goes before the mount, which is then not found.
UnmountUnrecorded(n, r) ==
  /\ r \in remote[n].records
  /\ remote' = [remote EXCEPT ![n].records = @ \ {r}]
  /\ UNCHANGED <<devices, wg, pairing, exports, issued, pairAsked, pairFaults, revoked, stray>>

\* unmountRemoteShare: the record goes, also when umount -f fails.
UnmountRemoteShare(n, r) ==
  /\ r \in remote[n].records
  /\ LET mine == {x \in remote[n].mounted : x.at = r.at} IN
     \/ /\ remote' = [remote EXCEPT ![n] = [records |-> @.records \ {r}, mounted |-> @.mounted \ mine]]
        /\ UNCHANGED <<stray, pairFaults>>
     \/ /\ PairFault /\ remote' = [remote EXCEPT ![n].records = @ \ {r}]
        /\ stray' = [stray EXCEPT ![n] = @ \cup MountPoints(mine)]
  /\ UNCHANGED <<devices, wg, pairing, exports, issued, pairAsked, revoked>>

\* A reboot in the middle of a pairing; remountAllOnStartup mounts what is on record, of
\* those that answer.  The tunnel is not started.
RestartNas(n) ==
  /\ PairFault /\ PairFinish(n)
  /\ \E found \in SUBSET remote[n].records :
       /\ \A r, s \in found : r.at = s.at => r = s
       /\ remote' = [remote EXCEPT ![n].mounted = {[at |-> r.at, of |-> r.of] : r \in found}]
  /\ stray' = [stray EXCEPT ![n] = {}]
  /\ UNCHANGED <<devices, wg, exports, issued, pairAsked, revoked>>

-----------------------------------------------------------------------------
PairingNext ==
  \/ \E n, m \in Nas : PairWithRemote(n, m)
  \/ \E n \in Nas : \/ SetPairToken(n) \/ RegisterDevice(n) \/ StoreOutbound(n) \/ LoadWG(n) \/ WgExchange(n)
                    \/ SaveAssigned(n) \/ AddWGPeer(n) \/ UpdateAddr(n) \/ Notify(n) \/ RestartNas(n)
                    \/ \E d \in devices[n] : DeleteDevice(n, d) \/ MountRemoteShare(n, d)
                    \/ \E r \in remote[n].records : UnmountRemoteShare(n, r)
PairingSpec == PairingInit /\ [][PairingNext]_pairingVars

PairingTypeOK ==
  /\ \A n \in Nas : devices[n] \subseteq Device /\ exports[n] \subseteq Nas /\ wg[n] \in WgState \cup {Absent}
  /\ \A n \in Nas : pairing[n].wg \in WgState \cup {Absent} /\ DOMAIN pairing[n] = DOMAIN Unpaired
  /\ issued \in Nat /\ revoked \subseteq 1..issued

\* A token one NAS sends is accepted by the NAS it sends it to, until that one deletes the
\* row: though answers are lost, a restart cuts the pairing and both sides pair at once.
TokensAreAccepted ==
  \A n \in Nas : \A d \in devices[n] : d.out # Absent => Accepts(d.who, d.out) \/ d.out \in revoked
\* The peers of a tunnel have addresses of their own, below the next one: though a pairing writes
\* back the state it read before it waited, undoing what others added meanwhile.
PeersHaveAddressesOfTheirOwn ==
  \A n \in Nas : wg[n] # Absent =>
    /\ \A p, q \in wg[n].peers : p.ip = q.ip \/ p.key = q.key => p = q
    /\ \A p \in wg[n].peers : p.ip < wg[n].next
\* What is mounted can be unmounted: it has a record, unless a fault took it.
MountsAreRecorded ==
  \A n \in Nas : MountPoints(remote[n].mounted) \subseteq MountPoints(remote[n].records) \cup stray[n]
PairingConsistent == TokensAreAccepted /\ PeersHaveAddressesOfTheirOwn /\ MountsAreRecorded
==============================================================================
