------------------------------- MODULE AppUids -------------------------------
(***************************************************************************)
(* The identity of each app: its uid and system user, the owners of its     *)
(* files, the deployment that gives them, the removals of an app, and the   *)
(* daily task that deletes the users nobody needs any more.                 *)
(***************************************************************************)
EXTENDS Naturals, FiniteSets
CONSTANTS
  UidApps,            \* apps deployed with a compose file
  SameName,           \* apps whose sanitized names are one name
  ImageOwned,         \* apps whose volume belongs to the user their image fixes
  Databases,          \* apps whose volume is that of a database
  UidMax,             \* appUIDMax; appUIDBase is 1
  Deployers,          \* deployments at one time
  MaxUidAsked,        \* deployments and removals in all
  MaxUidMishaps       \* queries and commands that fail, crashes, pools and files that go

ASSUME AppUidsAssumption ==
  /\ SameName \cup ImageOwned \cup Databases \subseteq UidApps /\ Deployers # {}
  /\ UidApps \cap {"idle", "active", "released", "look"} = {}  \* the task is at one of these, or at an app
  /\ {UidMax, MaxUidAsked, MaxUidMishaps} \subseteq Nat

VARIABLES
  uidRows, nextUid,   \* app_uids, uid_allocator
  appUsers,           \* users of the system: a uid under each name
  appFiles,           \* the owners of the files below containers/<app>, on the pool of Docker
  appRows,            \* docker_apps
  deployments, removals, hygiene,
  searchPool,         \* what firstMountedPoolPath answers: the pool of Docker or another one
  uidAsked, uidMishaps,
  uidOwner,           \* history: the app each uid was given to
  pardoned            \* history: apps whose user may be missing, for a reason named below

uidBounds == <<uidAsked, uidMishaps>>
uidDisk == <<appFiles, searchPool>>
appUidVars == <<uidRows, nextUid, appUsers, uidDisk, appRows, deployments, removals, hygiene, uidBounds,
                uidOwner, pardoned>>

ImageUser == UidMax + 8     \* a uid the image fixes
DatabaseUser == UidMax + 9  \* 999
NoUid == [uid |-> 0, released |-> FALSE]
UserName(a) == IF a \in SameName THEN "shared" ELSE a
UidNames == {UserName(a) : a \in UidApps}
NoDeployment == [at |-> "idle", app |-> "none", uid |-> 0, identity |-> 0]
IdleHygiene == [at |-> "idle", mount |-> "none", active |-> {}, todo |-> {}, moved |-> {}]

AppUidInit ==
  /\ uidRows = [a \in UidApps |-> NoUid] /\ nextUid = 1
  /\ appUsers = [n \in UidNames |-> 0] /\ appFiles = [a \in UidApps |-> {}] /\ appRows = {}
  /\ deployments = [d \in Deployers |-> NoDeployment] /\ removals = [a \in UidApps |-> "idle"]
  /\ hygiene = IdleHygiene /\ searchPool = "docker" /\ uidAsked = 0 /\ uidMishaps = 0
  /\ uidOwner = [u \in 1..UidMax |-> "nobody"] /\ pardoned = {}

-----------------------------------------------------------------------------
(* What the steps share.                                                   *)

UidFault == uidMishaps < MaxUidMishaps /\ uidMishaps' = uidMishaps + 1
UidAsk == uidAsked < MaxUidAsked /\ uidAsked' = uidAsked + 1
HasUser(a) == uidRows[a].uid # 0 /\ \E n \in UidNames : appUsers[n] = uidRows[a].uid
\* What the task found of these apps is no longer so.
Noticed(apps) == hygiene' = IF hygiene.at = "idle" THEN hygiene ELSE [hygiene EXCEPT !.moved = @ \cup apps]

\* assignAppUID, one transaction: an app that has a row keeps its uid and is active again, a new
\* one takes the next of a counter that never goes back.
AssignAppUid(a) ==
  IF uidRows[a].uid # 0
    THEN /\ uidRows' = [uidRows EXCEPT ![a].released = FALSE] /\ UNCHANGED <<nextUid, uidOwner>>
    ELSE /\ nextUid <= UidMax
         /\ uidRows' = [uidRows EXCEPT ![a] = [uid |-> nextUid, released |-> FALSE]]
         /\ nextUid' = nextUid + 1 /\ uidOwner' = [uidOwner EXCEPT ![nextUid] = a]
Exhausted(a) == uidRows[a].uid = 0 /\ nextUid > UidMax

\* decideVolumePlan: databases and images with a user of their own keep it.
VolumeOwner(a, uid) ==
  IF a \in ImageOwned THEN ImageUser ELSE IF a \in Databases THEN DatabaseUser ELSE uid

-----------------------------------------------------------------------------
(* dockerStackDeploy, as far as identities go.                             *)

Deploying(d, at) == deployments' = [deployments EXCEPT ![d].at = at]
Deployed(d) == deployments' = [deployments EXCEPT ![d] = NoDeployment]
Deploy(d, a) ==
  /\ deployments[d] = NoDeployment /\ UidAsk
  /\ deployments' = [deployments EXCEPT ![d] = [NoDeployment EXCEPT !.at = "identity", !.app = a]]
  /\ UNCHANGED <<uidRows, nextUid, appUsers, uidDisk, appRows, removals, hygiene, uidMishaps, uidOwner, pardoned>>
\* The uid goes into the environment of the app before it is assigned to its volumes; without
\* one the deployment goes on.
RuntimeIdentity(d) ==
  LET a == deployments[d].app IN
  /\ deployments[d].at = "identity"
  /\ \/ /\ AssignAppUid(a) /\ Noticed({a}) /\ UNCHANGED uidMishaps
        /\ deployments' = [deployments EXCEPT ![d].at = "assign", ![d].identity = uidRows'[a].uid]
     \/ /\ (IF Exhausted(a) THEN UNCHANGED uidMishaps ELSE UidFault)
        /\ Deploying(d, "assign") /\ UNCHANGED <<uidRows, nextUid, uidOwner, hygiene>>
  /\ UNCHANGED <<appUsers, uidDisk, appRows, removals, uidAsked, pardoned>>
\* applyAppPermissions: no uid, no volume is touched.
AssignForVolumes(d) ==
  LET a == deployments[d].app IN
  /\ deployments[d].at = "assign"
  /\ \/ /\ AssignAppUid(a) /\ Noticed({a}) /\ UNCHANGED <<uidMishaps, pardoned>>
        /\ deployments' = [deployments EXCEPT ![d].at = "user", ![d].uid = uidRows'[a].uid]
     \/ /\ (IF Exhausted(a) THEN UNCHANGED uidMishaps ELSE UidFault)
        /\ pardoned' = pardoned \cup {a}
        /\ Deploying(d, "up") /\ UNCHANGED <<uidRows, nextUid, uidOwner, hygiene>>
  /\ UNCHANGED <<appUsers, uidDisk, appRows, removals, uidAsked>>
\* ensureAppSystemUser: whoever has the uid is left alone, a name that is taken is not given
\* again, and no error is looked at.
EnsureAppSystemUser(d) ==
  LET a == deployments[d].app
      taken == \E n \in UidNames : appUsers[n] = deployments[d].uid
      free == appUsers[UserName(a)] = 0 IN
  /\ deployments[d].at = "user" /\ Deploying(d, "volumes")
  /\ \/ /\ ~taken /\ free /\ UNCHANGED uidMishaps
        /\ appUsers' = [appUsers EXCEPT ![UserName(a)] = deployments[d].uid]
        /\ pardoned' = pardoned \ {a}
     \/ /\ taken /\ UNCHANGED <<uidMishaps, appUsers, pardoned>>
     \/ /\ ~taken /\ (IF free THEN UidFault ELSE UNCHANGED uidMishaps)
        /\ pardoned' = pardoned \cup {a} /\ UNCHANGED appUsers
  /\ UNCHANGED <<uidRows, nextUid, uidDisk, appRows, removals, hygiene, uidAsked, uidOwner>>
\* applyVolPermPlan, chown -R.
ApplyVolumes(d) ==
  LET a == deployments[d].app IN
  /\ deployments[d].at = "volumes" /\ Deploying(d, "up") /\ Noticed({a})
  /\ appFiles' = [appFiles EXCEPT ![a] = @ \cup {VolumeOwner(a, deployments[d].uid)}]
  /\ UNCHANGED <<uidRows, nextUid, appUsers, searchPool, appRows, removals, uidBounds, uidOwner, pardoned>>
DeployUp(d) ==
  /\ deployments[d].at = "up"
  /\ \/ Deploying(d, "final") /\ UNCHANGED uidMishaps
     \/ UidFault /\ Deployed(d)
  /\ UNCHANGED <<uidRows, nextUid, appUsers, uidDisk, appRows, removals, hygiene, uidAsked, uidOwner, pardoned>>
\* finalizeAppContainerPerms, by the row as it is now: the root, and what is no volume.
FinalizePermissions(d) ==
  LET a == deployments[d].app IN
  /\ deployments[d].at = "final" /\ Deploying(d, "register") /\ Noticed({a})
  /\ appFiles' = IF uidRows[a].uid = 0 THEN appFiles ELSE [appFiles EXCEPT ![a] = @ \cup {uidRows[a].uid}]
  /\ UNCHANGED <<uidRows, nextUid, appUsers, searchPool, appRows, removals, uidBounds, uidOwner, pardoned>>
RegisterApp(d) ==
  /\ deployments[d].at = "register" /\ Deployed(d)
  /\ appRows' = appRows \cup {deployments[d].app} /\ Noticed({deployments[d].app})
  /\ UNCHANGED <<uidRows, nextUid, appUsers, uidDisk, removals, uidBounds, uidOwner, pardoned>>

-----------------------------------------------------------------------------
(* Removals.  Only the removal of a container releases the uid; that of a   *)
(* stack does not.                                                          *)

Removing(a, at) == removals' = [removals EXCEPT ![a] = at]
DeleteStack(a, wipe) ==
  /\ removals[a] = "idle" /\ UidAsk /\ Removing(a, IF wipe THEN "wipe" ELSE "stackrow")
  /\ UNCHANGED <<uidRows, nextUid, appUsers, uidDisk, appRows, deployments, hygiene, uidMishaps, uidOwner, pardoned>>
WipeFiles(a) ==
  /\ removals[a] = "wipe" /\ Removing(a, "stackrow") /\ appFiles' = [appFiles EXCEPT ![a] = {}]
  /\ UNCHANGED <<uidRows, nextUid, appUsers, searchPool, appRows, deployments, hygiene, uidBounds, uidOwner, pardoned>>
DeleteContainer(a) ==
  /\ removals[a] = "idle" /\ UidAsk /\ Removing(a, "row")
  /\ UNCHANGED <<uidRows, nextUid, appUsers, uidDisk, appRows, deployments, hygiene, uidMishaps, uidOwner, pardoned>>
ForgetApp(a) ==
  /\ removals[a] \in {"row", "stackrow"}
  /\ Removing(a, IF removals[a] = "row" THEN "release" ELSE "idle")
  /\ appRows' = appRows \ {a}
  /\ UNCHANGED <<uidRows, nextUid, appUsers, uidDisk, deployments, hygiene, uidBounds, uidOwner, pardoned>>
\* releaseAppUID: the row stays, and with it the number.
ReleaseUid(a) ==
  /\ removals[a] = "release" /\ Removing(a, "idle")
  /\ \/ UNCHANGED uidMishaps /\ uidRows' = (IF uidRows[a].uid = 0 THEN uidRows ELSE [uidRows EXCEPT ![a].released = TRUE])
     \/ UidFault /\ UNCHANGED uidRows
  /\ UNCHANGED <<nextUid, appUsers, uidDisk, appRows, deployments, hygiene, uidAsked, uidOwner, pardoned>>

-----------------------------------------------------------------------------
(* appUIDsHygieneTask and reconcileAppUIDs.                                *)

HygieneBegins ==
  /\ hygiene.at = "idle" /\ searchPool # "none"
  /\ \E a \in UidApps : uidRows[a].released         \* otherwise it ends without a trace
  /\ hygiene' = [IdleHygiene EXCEPT !.at = "active", !.mount = searchPool]
  /\ UNCHANGED <<uidRows, nextUid, appUsers, uidDisk, appRows, deployments, removals, uidBounds, uidOwner, pardoned>>
ListActiveApps ==
  /\ hygiene.at = "active"
  /\ \/ hygiene' = [hygiene EXCEPT !.at = "released", !.active = appRows] /\ UNCHANGED uidMishaps
     \/ UidFault /\ hygiene' = IdleHygiene
  /\ UNCHANGED <<uidRows, nextUid, appUsers, uidDisk, appRows, deployments, removals, uidAsked, uidOwner, pardoned>>
ListReleased ==
  /\ hygiene.at = "released"
  /\ hygiene' = [hygiene EXCEPT !.at = "look", !.todo = {a \in UidApps : uidRows[a].released}]
  /\ UNCHANGED <<uidRows, nextUid, appUsers, uidDisk, appRows, deployments, removals, uidBounds, uidOwner, pardoned>>
\* find -uid below the pool that was mounted; its failure counts as files.
FilesFound(a) == hygiene.mount = "docker" /\ uidRows[a].uid \in appFiles[a]
\* A mutant: an app that is not installed has no files.
SpareActiveOnly(a) == a \in hygiene.active
SpareApp(a) == a \in hygiene.active \/ FilesFound(a)
HygieneLooks(a) ==
  /\ hygiene.at = "look" /\ a \in hygiene.todo
  /\ \/ SpareApp(a) /\ UNCHANGED uidMishaps
        /\ hygiene' = [hygiene EXCEPT !.todo = @ \ {a}, !.moved = @ \ {a}]
     \/ ~SpareApp(a) /\ UNCHANGED uidMishaps
        /\ hygiene' = [hygiene EXCEPT !.at = a, !.todo = @ \ {a}]
     \/ ~SpareApp(a) /\ UidFault /\ hygiene' = [hygiene EXCEPT !.todo = @ \ {a}]
  /\ UNCHANGED <<uidRows, nextUid, appUsers, uidDisk, appRows, deployments, removals, uidAsked, uidOwner, pardoned>>
\* userdel takes the name, whoever has it.  Whose user may be missing: an app that is
\* deployed meanwhile, one of the same name, and one whose files are on a pool that was not searched.
DeleteAppUser(a) ==
  LET victims == {b \in UidApps : uidRows[b].uid # 0 /\ uidRows[b].uid = appUsers[UserName(a)]} IN
  /\ hygiene.at = a /\ hygiene' = [hygiene EXCEPT !.at = "look"]
  /\ appUsers' = [appUsers EXCEPT ![UserName(a)] = 0]
  /\ pardoned' = pardoned \cup {b \in victims : \/ b # a \/ b \in hygiene.moved
                                                         \/ hygiene.mount # "docker"
                                                         \/ \E d \in Deployers : deployments[d].app = b}
  /\ UNCHANGED <<uidRows, nextUid, uidDisk, appRows, deployments, removals, uidBounds, uidOwner>>
HygieneEnds ==
  /\ hygiene.at = "look" /\ hygiene.todo = {} /\ hygiene' = IdleHygiene
  /\ UNCHANGED <<uidRows, nextUid, appUsers, uidDisk, appRows, deployments, removals, uidBounds, uidOwner, pardoned>>

-----------------------------------------------------------------------------
(* What happens by itself.                                                 *)

\* Another pool becomes the primary one, or none is mounted.
SearchPoolChanges ==
  /\ UidFault /\ \E p \in {"docker", "other", "none"} \ {searchPool} : searchPool' = p
  /\ UNCHANGED <<uidRows, nextUid, appUsers, appFiles, appRows, deployments, removals, hygiene, uidAsked, uidOwner, pardoned>>
\* The user deletes the files of an app.
FilesDeleted(a) ==
  /\ appFiles[a] # {} /\ UidFault /\ appFiles' = [appFiles EXCEPT ![a] = {}]
  /\ UNCHANGED <<uidRows, nextUid, appUsers, searchPool, appRows, deployments, removals, hygiene, uidAsked, uidOwner, pardoned>>
UidCrash ==
  /\ UidFault /\ deployments' = [d \in Deployers |-> NoDeployment]
  /\ removals' = [a \in UidApps |-> "idle"] /\ hygiene' = IdleHygiene
  /\ UNCHANGED <<uidRows, nextUid, appUsers, uidDisk, appRows, uidAsked, uidOwner, pardoned>>

AppUidNext ==
  \/ \E d \in Deployers, a \in UidApps : Deploy(d, a)
  \/ \E d \in Deployers : \/ RuntimeIdentity(d) \/ AssignForVolumes(d) \/ EnsureAppSystemUser(d)
                          \/ ApplyVolumes(d) \/ DeployUp(d) \/ FinalizePermissions(d) \/ RegisterApp(d)
  \/ \E a \in UidApps, wipe \in BOOLEAN : DeleteStack(a, wipe)
  \/ \E a \in UidApps : \/ WipeFiles(a) \/ DeleteContainer(a) \/ ForgetApp(a) \/ ReleaseUid(a)
                        \/ HygieneLooks(a) \/ DeleteAppUser(a) \/ FilesDeleted(a)
  \/ HygieneBegins \/ ListActiveApps \/ ListReleased \/ HygieneEnds \/ SearchPoolChanges \/ UidCrash

AppUidSpec == AppUidInit /\ [][AppUidNext]_appUidVars

-----------------------------------------------------------------------------
(* What holds.                                                             *)

\* Every variable has its type.
AppUidTypeOK ==
  /\ \A a \in UidApps : uidRows[a] \in [uid : 0..UidMax, released : BOOLEAN]
  /\ nextUid \in 1..(UidMax + 1) /\ \A n \in UidNames : appUsers[n] \in 0..UidMax
  /\ \A a \in UidApps : appFiles[a] \subseteq 1..UidMax \cup {ImageUser, DatabaseUser}
  /\ appRows \subseteq UidApps /\ searchPool \in {"docker", "other", "none"} /\ pardoned \subseteq UidApps
  /\ hygiene.active \cup hygiene.todo \cup hygiene.moved \subseteq UidApps

\* A uid is one app's for ever: what any app has, in its row, its files, its user and its
\* environment, was given to that app and never to another one, released or not.
UidForever ==
  /\ \A a \in UidApps : uidRows[a].uid # 0 => uidOwner[uidRows[a].uid] = a /\ uidRows[a].uid < nextUid
  /\ \A a \in UidApps : \A u \in appFiles[a] \cap 1..UidMax : uidRows[a].uid = u
  /\ \A n \in UidNames : appUsers[n] # 0 => UserName(uidOwner[appUsers[n]]) = n
  /\ \A d \in Deployers : deployments[d].identity # 0 => uidRows[deployments[d].app].uid = deployments[d].identity
\* What belongs to an app that keeps data has its user: neither the task nor a removal takes the
\* user of an app with files of its own, nor of an installed one, but for the reasons pardoned.
FilesHaveUser ==
  \A a \in UidApps \ pardoned :
    (uidRows[a].uid \in appFiles[a] \/ (a \in appRows /\ removals[a] = "idle")) => HasUser(a)
AppIdentityConsistent == UidForever /\ FilesHaveUser
=============================================================================
