------------------------------ MODULE MCDaemon ------------------------------
(***************************************************************************)
(* Parts of the daemon that share no state with one another: a behaviour    *)
(* moves one of them, so that their states add up instead of multiplying.   *)
(***************************************************************************)
EXTENDS Pairing, Shield, Reputation, Shares, Files, Links, Accounts, Services, AppUids,
        Maintenance, AppUpdates, IntelFeed
VARIABLE part
CONSTANTS nas1, nas2, nas3

\* Two devices of the home and one over the internet; two have the name they came with.
MCLan == {{nas1, nas2}}
MCNameOf == [n \in Nas |-> IF n = nas1 THEN "attic" ELSE "nimos"]
\* The first task runs by intervals, the one after it once a day.
MCDefaultKind == <<"interval", "daily">>
\* The second version of the feed has the list of the first.
MCListOf == <<1, 1, 2, 3>>
\* A login that fails, a path that only an intruder asks for, a payload with and without a session.
MCEvents == {[rule |-> "login_fail", severity |-> "medium", valid |-> FALSE, user |-> 1],
             [rule |-> "honeypot", severity |-> "critical", valid |-> FALSE, user |-> 0]}
            \cup {[rule |-> "INJ-001", severity |-> "high", valid |-> v, user |-> 0] : v \in BOOLEAN}
MCWindowLimit == [r \in LimitedRules |-> 1]
MCPolicies == {[f \in PolicyFields |-> IF f = "distrust" THEN 1 ELSE 2]}

DaemonStart ==
  /\ part \in {"pairing", "shield", "reputation", "shares", "files", "links", "accounts",
               "services", "identity", "chores", "updates", "intel"}
  /\ PairingInit
  /\ ShieldInit /\ (part # "shield" => escalation = FALSE)
  /\ ReputationInit /\ (part # "reputation" => policy = DefaultPolicy /\ armed = FALSE)
  /\ ShareInit
  /\ FileInit
  /\ LinkInit
  /\ AccountInit /\ (part # "accounts" => linux = "none")
  /\ ServiceInit
  /\ AppUidInit
  /\ MaintenanceInit
  /\ UpdateInit
  /\ IntelInit
DaemonNext ==
  /\ UNCHANGED part
  /\ \/ part = "pairing" /\ UNCHANGED <<shieldVars, reputationVars, shareVars, fileVars, linkVars,
                                        accountVars, serviceVars, appUidVars, maintenanceVars,
                                        updateVars, feedVars>>
        /\ PairingNext
     \/ part = "shield" /\ UNCHANGED <<pairingVars, reputationVars, shareVars, fileVars, linkVars,
                                       accountVars, serviceVars, appUidVars, maintenanceVars,
                                       updateVars, feedVars>>
        /\ ShieldNext
     \/ part = "reputation" /\ UNCHANGED <<pairingVars, shieldVars, shareVars, fileVars, linkVars,
                                           accountVars, serviceVars, appUidVars, maintenanceVars,
                                           updateVars, feedVars>>
        /\ ReputationNext
     \/ part = "shares" /\ UNCHANGED <<pairingVars, shieldVars, reputationVars, fileVars, linkVars,
                                       accountVars, serviceVars, appUidVars, maintenanceVars,
                                       updateVars, feedVars>>
        /\ ShareNext
     \/ part = "files" /\ UNCHANGED <<pairingVars, shieldVars, reputationVars, shareVars, linkVars,
                                      accountVars, serviceVars, appUidVars, maintenanceVars,
                                      updateVars, feedVars>>
        /\ FileNext
     \/ part = "links" /\ UNCHANGED <<pairingVars, shieldVars, reputationVars, shareVars, fileVars,
                                      accountVars, serviceVars, appUidVars, maintenanceVars,
                                      updateVars, feedVars>>
        /\ LinkNext
     \/ part = "accounts" /\ UNCHANGED <<pairingVars, shieldVars, reputationVars, shareVars,
                                         fileVars, linkVars, serviceVars, appUidVars,
                                         maintenanceVars, updateVars, feedVars>>
        /\ AccountNext
     \/ part = "services" /\ UNCHANGED <<pairingVars, shieldVars, reputationVars, shareVars,
                                         fileVars, linkVars, accountVars, appUidVars,
                                         maintenanceVars, updateVars, feedVars>>
        /\ ServiceNext
     \/ part = "identity" /\ UNCHANGED <<pairingVars, shieldVars, reputationVars, shareVars,
                                         fileVars, linkVars, accountVars, serviceVars,
                                         maintenanceVars, updateVars, feedVars>>
        /\ AppUidNext
     \/ part = "chores" /\ UNCHANGED <<pairingVars, shieldVars, reputationVars, shareVars, fileVars,
                                       linkVars, accountVars, serviceVars, appUidVars, updateVars,
                                       feedVars>>
        /\ MaintenanceNext
     \/ part = "updates" /\ UNCHANGED <<pairingVars, shieldVars, reputationVars, shareVars, fileVars,
                                        linkVars, accountVars, serviceVars, appUidVars,
                                        maintenanceVars, feedVars>>
        /\ UpdateNext
     \/ part = "intel" /\ UNCHANGED <<pairingVars, shieldVars, reputationVars, shareVars, fileVars,
                                      linkVars, accountVars, serviceVars, appUidVars,
                                      maintenanceVars, updateVars>>
        /\ IntelNext
daemonVars == <<pairingVars, shieldVars, reputationVars, shareVars, fileVars, linkVars,
                accountVars, serviceVars, appUidVars, maintenanceVars, updateVars, feedVars,
                part>>
DaemonSpec == DaemonStart /\ [][DaemonNext]_daemonVars

\* Every variable of the part that moves has its type; the others keep their start.
DaemonTypesOK ==
  /\ part = "pairing" => PairingTypeOK
  /\ part = "shield" => ShieldTypeOK
  /\ part = "reputation" => ReputationTypeOK
  /\ part = "shares" => ShareTypeOK
  /\ part = "files" => FileTypeOK
  /\ part = "links" => LinkTypeOK
  /\ part = "accounts" => AccountTypeOK
  /\ part = "services" => ServiceTypeOK
  /\ part = "identity" => AppUidTypeOK
  /\ part = "chores" => MaintenanceTypeOK
  /\ part = "updates" => UpdateTypeOK
  /\ part = "intel" => IntelTypeOK

\* What two devices hold of each other.
PeersConsistent ==
  /\ part = "pairing" => PairingConsistent

\* What the shield says it blocks, why, what the kernel drops, and the feed it takes addresses from.
BlocksConsistent ==
  /\ part = "shield" => ShieldConsistent
  /\ part = "reputation" => ReputationConsistent
  /\ part = "intel" => IntelConsistent

\* Shared folders in the database, on disk, in Samba and in the groups of Linux.
FoldersConsistent ==
  /\ part = "shares" => SharesConsistent

\* What the users put in their folders is there, once and whole.
ContentsConsistent ==
  /\ part = "files" => FilesConsistent

\* Who is let in: accounts and their sessions, links and their downloads.
AccessConsistent ==
  /\ part = "links" => LinksConsistent
  /\ part = "accounts" => AccountsConsistent

\* What runs is what was asked for, under the user it was given and in the version it is said to be.
MachineryConsistent ==
  /\ part = "services" => ServicesConsistent
  /\ part = "identity" => AppIdentityConsistent
  /\ part = "chores" => MaintenanceConsistent
  /\ part = "updates" => UpdatesConsistent
=============================================================================
