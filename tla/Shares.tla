-------------------------------- MODULE Shares --------------------------------
(***************************************************************************)
(* A shared folder in the four places that have to agree on it: the rows of *)
(* SQLite, the subvolume and its managed folder, the Unix group that gives  *)
(* the kernel's permissions, and smb.conf.  No request holds a lock, and    *)
(* each writes the places one after another.                                *)
(***************************************************************************)
EXTENDS Naturals, FiniteSets
CONSTANTS
  Owner, Guests,      \* the administrator of the home, and whom the shares are for
  Desks,              \* requests that may be under way at once
  MaxShareAsked, MaxShareMishaps

ASSUME ShareAssumption ==
  Owner \notin Guests /\ MaxShareAsked \in Nat /\ MaxShareMishaps \in Nat

VARIABLES
  share,              \* the row: whether it is there, its number, and smb_enabled
  grants,             \* share_permissions: users with rw
  accounts, unix,     \* rows of users, and Linux users
  volume, group, members, \* the subvolume, the Unix group of the share, who is in it
  smbConf,            \* what smb.conf says of the share: the users it names, or Unlisted
  folderRow, folderRights, \* a managed folder: its row, and who has rights in SQLite
  folderVol, folderAcl, folderFull, \* its subvolume, its ACL, and whether it has content
  desk,               \* each request: where it is, and what it read
  shareAsked, shareMishaps,
  strays,             \* history: members that a failure, or a request that began before the share was deleted, left
  unserved,           \* history: users whose grant a failure, or a user deleted meanwhile, left without membership
  torn                \* history: what else a failure or such a request left apart

shareVars == <<share, grants, accounts, unix, volume, group, members, smbConf, folderRow, folderRights,
               folderVol, folderAcl, folderFull, desk, shareAsked, shareMishaps, strays, unserved, torn>>
shareRows == <<share, grants>>
people == <<accounts, unix>>
kernelShare == <<volume, group, members>>
folder == <<folderRow, folderRights, folderVol, folderAcl, folderFull>>
shareBounds == <<shareAsked, shareMishaps>>
shareHistory == <<strays, unserved, torn>>

Everyone == Guests \cup {Owner}
Unlisted == {"unlisted"}
NoShare == [no |-> 0, smb |-> FALSE]
NoFolder == [id |-> 0, state |-> "none"]
Exists == share.no # 0
Free == [pc |-> "free", no |-> 0, add |-> {}, drop |-> {}, smb |-> FALSE, who |-> Owner, view |-> {}, old |-> Unlisted]
At(d, pc) == desk[d].pc = pc
Goes(d, pc) == desk' = [desk EXCEPT ![d].pc = pc]
Leaves(d) == desk' = [desk EXCEPT ![d] = Free]
Takes(d, r) ==
  /\ At(d, "free") /\ shareAsked < MaxShareAsked /\ shareAsked' = shareAsked + 1
  /\ desk' = [desk EXCEPT ![d] = r]
ShareMishap == shareMishaps < MaxShareMishaps /\ shareMishaps' = shareMishaps + 1
\* A request that read the share before it was deleted, and works on what came after.
Late(d) == desk[d].no # share.no
\* Some request is at one of the steps.
InHand(steps) == \E d \in Desks : desk[d].pc \in steps
TornIf(cond, what) == torn' = IF cond THEN torn \cup {what} ELSE torn
\* smb.conf lists the shares that are switched on, for no one without a permission.
SmbRight == IF share.smb THEN smbConf \subseteq grants /\ smbConf # Unlisted ELSE smbConf = Unlisted
SmbNoted == torn' = IF SmbRight' THEN torn \ {"smb"} ELSE torn \cup {"smb"}

ShareInit ==
  /\ share = NoShare /\ grants = {} /\ accounts = [u \in Everyone |-> IF u = Owner THEN "admin" ELSE "user"]
  /\ unix = Everyone /\ volume = "none" /\ group = FALSE /\ members = {} /\ smbConf = Unlisted
  /\ folderRow = NoFolder /\ folderRights = {} /\ folderVol = FALSE /\ folderAcl = {} /\ folderFull = FALSE
  /\ desk = [d \in Desks |-> Free] /\ shareAsked = 0 /\ shareMishaps = 0
  /\ strays = {} /\ unserved = {} /\ torn = {}

-----------------------------------------------------------------------------
(* createOrAdoptShare.                                                     *)

\* A new share is for the users the form names, its creator by all means; one that is
\* adopted is for its creator.
CreateShare(d, keep, users) ==
  /\ ~Exists /\ (keep => volume # "none" /\ users = {})
  /\ Takes(d, [Free EXCEPT !.pc = "volume", !.no = shareAsked + 1, !.smb = keep,
                           !.add = users \ {Owner}, !.drop = IF users \subseteq {Owner} THEN {} ELSE {Owner} \ users])
  /\ UNCHANGED <<shareRows, people, kernelShare, smbConf, folder, shareMishaps, shareHistory>>
CreateSubvolIfMissing(d) ==
  /\ At(d, "volume")
  /\ \/ /\ volume # "plain" /\ volume' = "subvol"
        /\ Goes(d, IF desk[d].smb THEN "row" ELSE "group") /\ UNCHANGED shareMishaps
     \/ /\ volume # "subvol" /\ Leaves(d) /\ UNCHANGED volume
        /\ IF volume = "plain" THEN UNCHANGED shareMishaps ELSE ShareMishap
  /\ UNCHANGED <<shareRows, people, group, members, smbConf, folder, shareAsked, shareHistory>>
\* handleOp, share.create: a group that is there keeps its members, and a directory that
\* is gone is made, as a plain one.
CreateGroup(d) ==
  /\ At(d, "group") /\ group' = TRUE /\ Goes(d, "row")
  /\ volume' = IF volume = "none" THEN "plain" ELSE volume
  /\ UNCHANGED <<shareRows, people, members, smbConf, folder, shareBounds, shareHistory>>
CreateRow(d) ==
  /\ At(d, "row")
  /\ \/ /\ ~Exists /\ share' = [no |-> desk[d].no, smb |-> FALSE]
        /\ desk' = [desk EXCEPT ![d].pc = "grant", ![d].smb = FALSE]
        /\ TornIf(volume # "subvol", "volume") /\ UNCHANGED shareMishaps
     \/ /\ Leaves(d) /\ UNCHANGED <<share, torn>> /\ (IF Exists THEN UNCHANGED shareMishaps ELSE ShareMishap)
  /\ UNCHANGED <<grants, people, kernelShare, smbConf, folder, shareAsked, strays, unserved>>
\* The creator's permission is written first and applied afterwards.
GrantCreator(d) ==
  /\ At(d, "grant")
  /\ \/ Exists /\ grants' = grants \cup {Owner} /\ Goes(d, "join") /\ UNCHANGED shareMishaps
     \/ Leaves(d) /\ UNCHANGED grants /\ (IF Exists THEN ShareMishap ELSE UNCHANGED shareMishaps)
  /\ UNCHANGED <<share, people, kernelShare, smbConf, folder, shareAsked, shareHistory>>

\* handleOp, share.add_user_rw.
Joins(d, u) ==
  /\ group /\ u \in unix /\ members' = members \cup {u}
  /\ strays' = IF Late(d) THEN strays \cup {u} ELSE strays
\* The error that createOrAdoptShare speaks of: the permission is stored, and not applied.
JoinCreatorOnPaper(d) ==
  /\ At(d, "join") /\ Goes(d, "diff")
  /\ UNCHANGED <<shareRows, people, kernelShare, smbConf, folder, shareBounds, shareHistory>>
JoinCreator(d) ==
  /\ At(d, "join")
  /\ \/ Joins(d, Owner) /\ Goes(d, "diff") /\ UNCHANGED <<unserved, shareMishaps>>
     \/ Leaves(d) /\ unserved' = unserved \cup {Owner} /\ UNCHANGED <<members, strays>>
        /\ (IF group THEN ShareMishap ELSE UNCHANGED shareMishaps)
  /\ UNCHANGED <<shareRows, people, volume, group, smbConf, folder, shareAsked, torn>>

-----------------------------------------------------------------------------
(* UpdateShare and applyPermissionDiff.                                    *)

UpdateShare(d, users) ==
  /\ Exists
  /\ Takes(d, [Free EXCEPT !.pc = "diff", !.no = share.no, !.add = users \ grants,
                           !.drop = grants \ users, !.smb = share.smb])
  /\ UNCHANGED <<shareRows, people, kernelShare, smbConf, folder, shareMishaps, shareHistory>>
\* share.remove_user and share.add_user_ro look the path up in shares.json, which the
\* migration to SQLite renamed: they fail, and so does the request.
RemoveUser(d) ==
  /\ At(d, "diff") /\ desk[d].drop # {} /\ Leaves(d)
  /\ UNCHANGED <<shareRows, people, kernelShare, smbConf, folder, shareBounds, shareHistory>>
AddUser(d, u) ==
  /\ At(d, "diff") /\ u \in desk[d].add
  /\ \/ /\ Joins(d, u) /\ UNCHANGED shareMishaps
        /\ desk' = [desk EXCEPT ![d].pc = "save", ![d].who = u, ![d].add = @ \ {u}]
     \/ /\ Leaves(d) /\ UNCHANGED <<members, strays>>
        /\ (IF group /\ u \in unix THEN ShareMishap ELSE UNCHANGED shareMishaps)
  /\ UNCHANGED <<shareRows, people, volume, group, smbConf, folder, shareAsked, unserved, torn>>
SetPermission(d) ==
  LET u == desk[d].who IN
  /\ At(d, "save")
  /\ \/ /\ Exists /\ grants' = grants \cup {u} /\ Goes(d, "diff")
        /\ unserved' = (IF u \in members THEN unserved ELSE unserved \cup {u}) /\ UNCHANGED <<strays, shareMishaps>>
     \/ /\ Leaves(d) /\ strays' = strays \cup ({u} \cap members) /\ UNCHANGED <<grants, unserved>>
        /\ (IF Exists THEN ShareMishap ELSE UNCHANGED shareMishaps)
  /\ UNCHANGED <<share, people, kernelShare, smbConf, folder, shareAsked, torn>>
PermissionsDone(d) ==
  /\ At(d, "diff") /\ desk[d].add = {} /\ desk[d].drop = {}
  /\ UNCHANGED <<shareRows, people, kernelShare, smbConf, folder, shareBounds, strays, unserved>>
  /\ IF desk[d].smb THEN Goes(d, "render") /\ UNCHANGED torn ELSE Leaves(d) /\ SmbNoted

-----------------------------------------------------------------------------
(* applySMBConfiguration, and the switch of a share.                       *)

SwitchRead(d, on) ==
  /\ Exists /\ Takes(d, [Free EXCEPT !.pc = "switch", !.no = share.no, !.smb = share.smb, !.add = {on}])
  /\ UNCHANGED <<shareRows, people, kernelShare, smbConf, folder, shareMishaps, shareHistory>>
SetSMBEnabled(d) ==
  /\ At(d, "switch")
  /\ \/ /\ Exists /\ share' = [share EXCEPT !.smb = TRUE \in desk[d].add]
        /\ desk' = [desk EXCEPT ![d].pc = "render", ![d].who = "switch"]
     \/ ~Exists /\ Leaves(d) /\ UNCHANGED share
  /\ UNCHANGED <<grants, people, kernelShare, smbConf, folder, shareBounds, shareHistory>>
\* Where a failed application ends: the switch puts the row back.
SmbFails(d) == IF desk[d].who = "switch" THEN Goes(d, "rollback") ELSE Leaves(d)
\* /api/smb: apply, config, start and restart.
ApplySMB(d) ==
  /\ Takes(d, [Free EXCEPT !.pc = "render"])
  /\ UNCHANGED <<shareRows, people, kernelShare, smbConf, folder, shareMishaps, shareHistory>>
RenderSMB(d) ==
  /\ At(d, "render")
  /\ UNCHANGED <<shareRows, people, kernelShare, smbConf, folder, shareBounds, strays, unserved>>
  /\ IF share.smb /\ volume = "none" THEN SmbFails(d) /\ SmbNoted
     ELSE /\ desk' = [desk EXCEPT ![d].pc = "install", ![d].old = smbConf,
                                  ![d].view = IF share.smb THEN grants ELSE Unlisted]
          /\ UNCHANGED torn
\* testparm refuses, or Samba does not take the new file and gets the old one back.
InstallSMB(d) ==
  /\ At(d, "install")
  /\ \/ smbConf' = desk[d].view /\ Leaves(d) /\ UNCHANGED shareMishaps
     \/ smbConf' \in {smbConf, desk[d].old} /\ SmbFails(d) /\ ShareMishap
  /\ UNCHANGED <<shareRows, people, kernelShare, folder, shareAsked, strays, unserved>>
  /\ SmbNoted
RollbackSwitch(d) ==
  /\ At(d, "rollback") /\ Leaves(d)
  /\ share' = (IF Exists THEN [share EXCEPT !.smb = desk[d].smb] ELSE share)
  /\ UNCHANGED <<grants, people, kernelShare, smbConf, folder, shareBounds, strays, unserved>>
  /\ SmbNoted

-----------------------------------------------------------------------------
(* DeleteShare.                                                            *)

DeleteShare(d) ==
  /\ Exists /\ Takes(d, [Free EXCEPT !.pc = "ungroup", !.no = share.no, !.smb = share.smb])
  /\ UNCHANGED <<shareRows, people, kernelShare, smbConf, folder, shareMishaps, shareHistory>>
DeleteGroup(d) ==
  /\ At(d, "ungroup") /\ group' = FALSE /\ members' = {} /\ strays' = {} /\ Goes(d, "destroy")
  /\ UNCHANGED <<shareRows, people, volume, smbConf, folder, shareBounds, unserved, torn>>
\* btrfs does not delete a subvolume that holds another, nor a plain directory.
DestroySubvol(d) ==
  /\ At(d, "destroy") /\ Goes(d, "unrow")
  /\ \/ volume' = (IF volume = "subvol" /\ ~folderVol THEN "none" ELSE volume) /\ UNCHANGED shareMishaps
     \/ volume = "subvol" /\ ~folderVol /\ ShareMishap /\ UNCHANGED volume
  /\ UNCHANGED <<shareRows, people, group, members, smbConf, folder, shareAsked, shareHistory>>
\* Mutant: the permissions of the folder do not go with it.
CascadeFolderOnly == folderRow' = NoFolder /\ UNCHANGED folderRights
\* The rows that go with that of a share.
CascadeFolder == folderRow' = NoFolder /\ folderRights' = {}
DeleteRow(d) ==
  /\ At(d, "unrow")
  /\ UNCHANGED <<people, kernelShare, smbConf, folderVol, folderAcl, folderFull, shareAsked>>
  /\ \/ /\ share' = NoShare /\ grants' = {} /\ CascadeFolder
        /\ IF desk[d].smb THEN Goes(d, "render") ELSE Leaves(d)
        /\ torn' = torn \cup {f \in {"folder"} : folderVol} \cup {f \in {"smb"} : ~desk[d].smb /\ ~SmbRight'}
        /\ unserved' = {} /\ strays' = members /\ UNCHANGED shareMishaps
     \/ /\ ShareMishap /\ Leaves(d) /\ UNCHANGED <<shareRows, folderRow, folderRights>>
        /\ unserved' = unserved \cup grants /\ torn' = torn \cup {"volume"} /\ UNCHANGED strays

-----------------------------------------------------------------------------
(* createUserWithSMB and usersDelete: the rows of shares outlive the user.  *)

\* userdel: the user leaves every group, and keeps every row.
Evicted(u) ==
  /\ unix' = unix \ {u} /\ members' = members \ {u}
  /\ strays' = strays \ {u} /\ unserved' = unserved \cup ({u} \cap grants)
CreateUser(d, u) ==
  /\ accounts[u] = "absent"
  /\ Takes(d, [Free EXCEPT !.pc = "useradd", !.who = u])
  /\ accounts' = [accounts EXCEPT ![u] = "user"]
  /\ unserved' = unserved \cup ({u} \cap grants)
  /\ UNCHANGED <<shareRows, unix, kernelShare, smbConf, folder, shareMishaps, strays, torn>>
CreateUnixUser(d) ==
  LET u == desk[d].who IN
  /\ At(d, "useradd")
  /\ \/ /\ unix' = unix \cup {u} /\ UNCHANGED <<accounts, shareMishaps>>
        /\ desk' = [desk EXCEPT ![d].pc = "smbpasswd", ![d].smb = u \in unix]
     \/ /\ u \notin unix /\ ShareMishap /\ Leaves(d)
        /\ accounts' = [accounts EXCEPT ![u] = "absent"] /\ UNCHANGED unix
  /\ UNCHANGED <<shareRows, kernelShare, smbConf, folder, shareAsked, shareHistory>>
\* user.set_smb_password makes a user who is gone; one who was created for nothing goes
\* again, from every group.
SetSmbPassword(d) ==
  LET u == desk[d].who IN
  /\ At(d, "smbpasswd") /\ Leaves(d)
  /\ \/ /\ unix' = unix \cup {u} /\ unserved' = unserved \cup (({u} \cap grants) \ members)
        /\ UNCHANGED <<accounts, members, shareMishaps, strays>>
     \/ /\ ShareMishap /\ accounts' = [accounts EXCEPT ![u] = "absent"]
        /\ IF desk[d].smb THEN unix' = unix \cup {u} /\ UNCHANGED <<members, strays, unserved>>
           ELSE Evicted(u)
  /\ UNCHANGED <<shareRows, volume, group, smbConf, folder, shareAsked, torn>>
DeleteUser(d, u) ==
  /\ accounts[u] # "absent" /\ u # Owner /\ Takes(d, [Free EXCEPT !.pc = "userdel", !.who = u])
  /\ accounts' = [accounts EXCEPT ![u] = "absent"]
  /\ UNCHANGED <<shareRows, unix, kernelShare, smbConf, folder, shareMishaps, shareHistory>>
DeleteUnixUser(d) ==
  /\ At(d, "userdel") /\ Leaves(d) /\ Evicted(desk[d].who)
  /\ UNCHANGED <<shareRows, accounts, volume, group, smbConf, folder, shareBounds, torn>>

-----------------------------------------------------------------------------
(* Managed folders: a subvolume, its ACL and a row, in that order.  A      *)
(* request knows a folder by the identity of its row, and the subvolume by *)
(* the names of the path.                                                  *)

CreateManagedFolder(d, users) ==
  /\ folderRow = NoFolder
  /\ Takes(d, [Free EXCEPT !.pc = "fcreate", !.no = shareAsked + 1, !.add = users])
  /\ UNCHANGED <<shareRows, people, kernelShare, smbConf, folder, shareMishaps, shareHistory>>
\* handleOp, folder.create.
FolderSubvol(d) ==
  LET able == Exists /\ volume # "none" /\ ~folderVol IN
  /\ At(d, "fcreate")
  /\ \/ /\ able /\ folderVol' = TRUE /\ folderAcl' = {} /\ folderFull' = FALSE
        /\ Goes(d, "facl") /\ UNCHANGED shareMishaps
     \/ /\ Leaves(d) /\ UNCHANGED <<folderVol, folderAcl, folderFull>>
        /\ IF able THEN ShareMishap ELSE UNCHANGED shareMishaps
  /\ UNCHANGED <<shareRows, people, kernelShare, smbConf, folderRow, folderRights, shareAsked, shareHistory>>
\* folder.delete: it finds the subvolume through the row of the share, and spares content.
Removable == Exists /\ folderVol /\ ~folderFull
Unmakes(d) ==
  /\ Leaves(d) /\ folderVol' = (folderVol /\ ~Removable)
  /\ folderAcl' = (IF folderVol' THEN folderAcl ELSE {}) /\ TornIf(folderVol', "folder")
\* The users that a request adds and drops; nobody looks at how setfacl ends.
ChangedAcl(d) == IF folderVol THEN (folderAcl \ desk[d].drop) \cup desk[d].add ELSE {}
SetsAcl(d) ==
  \/ folderAcl' = ChangedAcl(d) /\ UNCHANGED shareMishaps
  \/ folderAcl' = folderAcl /\ ChangedAcl(d) # folderAcl /\ ShareMishap
FolderAcl(d) ==
  /\ At(d, "facl")
  /\ IF Exists THEN SetsAcl(d) /\ Goes(d, "frow") /\ UNCHANGED <<folderVol, torn>>
     ELSE Unmakes(d) /\ UNCHANGED shareMishaps
  /\ UNCHANGED <<shareRows, people, kernelShare, smbConf, folderRow, folderRights, folderFull, shareAsked,
                 strays, unserved>>
FolderRow(d) ==
  LET able == Exists /\ folderRow = NoFolder IN
  /\ At(d, "frow")
  /\ \/ /\ able /\ folderRow' = [id |-> desk[d].no, state |-> "active"] /\ folderRights' = desk[d].add
        /\ torn' = torn \cup {f \in {"folder"} : ~folderVol} \cup {f \in {"rights"} : folderAcl # desk[d].add}
        /\ Leaves(d) /\ UNCHANGED <<folderVol, folderAcl, shareMishaps>>
     \/ /\ Unmakes(d) /\ UNCHANGED <<folderRow, folderRights>>
        /\ IF able THEN ShareMishap ELSE UNCHANGED shareMishaps
  /\ UNCHANGED <<shareRows, people, kernelShare, smbConf, folderFull, shareAsked, strays, unserved>>
UpdateManagedFolder(d, users) ==
  /\ folderRow # NoFolder
  /\ Takes(d, [Free EXCEPT !.pc = "fedit", !.no = folderRow.id, !.add = users, !.drop = folderRights])
  /\ UNCHANGED <<shareRows, people, kernelShare, smbConf, folder, shareMishaps, shareHistory>>
ApplyFolderAcl(d) ==
  /\ At(d, "fedit")
  /\ IF Exists THEN SetsAcl(d) /\ Goes(d, "fsave")
     ELSE Leaves(d) /\ UNCHANGED <<folderAcl, shareMishaps>>
  /\ UNCHANGED <<shareRows, people, kernelShare, smbConf, folderRow, folderRights, folderVol, folderFull,
                 shareAsked, shareHistory>>
\* The rights of a row that is gone are refused, and a failure is only logged.
SaveFolderRights(d) ==
  LET able == folderRow.id = desk[d].no IN
  /\ At(d, "fsave") /\ Leaves(d)
  /\ \/ able /\ folderRights' = (folderRights \ desk[d].drop) \cup desk[d].add /\ UNCHANGED shareMishaps
     \/ UNCHANGED folderRights /\ (IF able THEN ShareMishap ELSE UNCHANGED shareMishaps)
  /\ TornIf(folderRights' # folderAcl, "rights")
  /\ UNCHANGED <<shareRows, people, kernelShare, smbConf, folderRow, folderVol, folderAcl, folderFull,
                 shareAsked, strays, unserved>>
DeleteManagedFolder(d) ==
  /\ folderRow # NoFolder /\ Takes(d, [Free EXCEPT !.pc = "fdelete", !.no = folderRow.id])
  /\ folderRow' = [folderRow EXCEPT !.state = "deleting"]
  /\ UNCHANGED <<shareRows, people, kernelShare, smbConf, folderRights, folderVol, folderAcl, folderFull,
                 shareMishaps, shareHistory>>
DeleteFolderSubvol(d) ==
  /\ At(d, "fdelete")
  /\ \/ /\ Removable /\ folderVol' = FALSE /\ folderAcl' = {} /\ Goes(d, "funrow")
        /\ UNCHANGED <<folderRow, shareMishaps>>
        /\ TornIf(folderRow.id # desk[d].no \/ InHand({"facl", "frow"}), "folder")
     \/ /\ Leaves(d) /\ UNCHANGED <<folderVol, folderAcl, torn>>
        /\ folderRow' = IF folderRow.id = desk[d].no THEN [folderRow EXCEPT !.state = "active"] ELSE folderRow
        /\ IF Removable THEN ShareMishap ELSE UNCHANGED shareMishaps
  /\ UNCHANGED <<shareRows, people, kernelShare, smbConf, folderRights, folderFull, shareAsked, strays, unserved>>
DeleteFolderRow(d) ==
  /\ At(d, "funrow") /\ Leaves(d)
  /\ IF folderRow.id # desk[d].no THEN UNCHANGED <<folderRow, folderRights, torn, shareMishaps>>
     ELSE \/ folderRow' = NoFolder /\ folderRights' = {} /\ UNCHANGED <<torn, shareMishaps>>
          \/ ShareMishap /\ torn' = torn \cup {"folder"} /\ UNCHANGED <<folderRow, folderRights>>
  /\ UNCHANGED <<shareRows, people, kernelShare, smbConf, folderVol, folderAcl, folderFull, shareAsked,
                 strays, unserved>>
\* A user writes to the folder, or empties it.
UseFolder ==
  /\ folderVol /\ folderFull' = ~folderFull
  /\ UNCHANGED <<shareRows, people, kernelShare, smbConf, folderRow, folderRights, folderVol, folderAcl, desk,
                 shareBounds, shareHistory>>

-----------------------------------------------------------------------------
\* The daemon restarts in the middle of what it did; reconcile() gives every grant its
\* membership, and every administrator.
ShareRestart ==
  LET busy == {d \in Desks : ~At(d, "free")} IN
  /\ ShareMishap /\ desk' = [d \in Desks |-> Free]
  /\ group' = (group \/ Exists)
  /\ members' = IF Exists THEN members \cup ((grants \cup {u \in Everyone : accounts[u] = "admin"}) \cap unix)
                ELSE members
  /\ strays' = strays \cup (IF busy = {} THEN {} ELSE members) \cup (members' \ members)
  /\ unserved' = {}
  /\ torn' = IF busy = {} THEN torn ELSE torn \cup {"volume", "smb", "folder", "rights"}
  /\ UNCHANGED <<shareRows, people, volume, smbConf, folder, shareAsked>>

ShareNext ==
  \/ \E d \in Desks :
       \/ \E keep \in BOOLEAN, users \in SUBSET Everyone : CreateShare(d, keep, users)
       \/ \E users \in SUBSET Everyone : UpdateShare(d, users)
       \/ \E on \in BOOLEAN : SwitchRead(d, on)
       \/ \E users \in SUBSET Guests : CreateManagedFolder(d, users) \/ UpdateManagedFolder(d, users)
       \/ \E u \in Everyone : AddUser(d, u) \/ CreateUser(d, u) \/ DeleteUser(d, u)
       \/ CreateSubvolIfMissing(d) \/ CreateGroup(d) \/ CreateRow(d) \/ GrantCreator(d) \/ JoinCreator(d)
       \/ RemoveUser(d) \/ SetPermission(d) \/ PermissionsDone(d)
       \/ ApplySMB(d) \/ SetSMBEnabled(d) \/ RenderSMB(d) \/ InstallSMB(d) \/ RollbackSwitch(d)
       \/ DeleteShare(d) \/ DeleteGroup(d) \/ DestroySubvol(d) \/ DeleteRow(d)
       \/ CreateUnixUser(d) \/ SetSmbPassword(d) \/ DeleteUnixUser(d)
       \/ FolderSubvol(d) \/ FolderAcl(d) \/ FolderRow(d) \/ ApplyFolderAcl(d) \/ SaveFolderRights(d)
       \/ DeleteManagedFolder(d) \/ DeleteFolderSubvol(d) \/ DeleteFolderRow(d)
  \/ UseFolder \/ ShareRestart
ShareSpec == ShareInit /\ [][ShareNext]_shareVars

ShareTypeOK ==
  /\ share \in [no : 0..shareAsked, smb : BOOLEAN] /\ grants \cup unix \cup members \subseteq Everyone
  /\ accounts \in [Everyone -> {"absent", "user", "admin"}]
  /\ smbConf \in (SUBSET Everyone) \cup {Unlisted}
  /\ folderRow \in [id : 0..shareAsked, state : {"none", "active", "deleting"}]
  /\ (folderRow = NoFolder => folderRights = {}) /\ folderRights \cup folderAcl \subseteq Guests
  /\ volume \in {"none", "plain", "subvol"} /\ {group, folderVol, folderFull} \subseteq BOOLEAN /\ DOMAIN desk = Desks

\* Whoever is in the group of a share has a permission, or is about to (shares_service.go:412).
MembersHaveGrants ==
  members \subseteq grants \cup strays \cup {desk[d].who : d \in {e \in Desks : At(e, "save")}}
\* Whoever has a permission is in the group once the request that gave it is done: without
\* it Samba lets the user in and the kernel does not (shares_service.go:200).
GrantsAreServed ==
  grants \cap unix \subseteq members \cup unserved \cup (IF InHand({"join", "destroy", "unrow"}) THEN Everyone ELSE {})
\* A share that is listed has its subvolume.
SharesHaveData == Exists => volume = "subvol" \/ InHand({"unrow"}) \/ "volume" \in torn
\* smb.conf says of a share what its row and its permissions say.
SmbSaysSo == SmbRight \/ InHand({"render", "install", "rollback"}) \/ "smb" \in torn
\* A managed folder is a row and a subvolume, or neither; and SQLite knows the ACL.
FoldersAreWhole ==
  /\ folderRow # NoFolder => folderVol \/ InHand({"funrow"}) \/ "folder" \in torn
  /\ folderVol => folderRow # NoFolder \/ InHand({"facl", "frow"}) \/ "folder" \in torn
  /\ folderRow # NoFolder => folderRights = folderAcl \/ InHand({"fsave", "funrow"}) \/ torn \cap {"rights", "folder"} # {}
\* The places that have to agree on a share agree, but for what a failure, a restart in the
\* middle of a request, or two requests at once left apart: and then only there.
SharesConsistent ==
  MembersHaveGrants /\ GrantsAreServed /\ SharesHaveData /\ SmbSaysSo /\ FoldersAreWhole
=============================================================================
