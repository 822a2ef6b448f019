----------------------------- MODULE AppUpdates -----------------------------
(***************************************************************************)
(* Whether a newer version of an app is offered: the digests remembered for *)
(* each service of the app, the deployment and the update that write the    *)
(* local one, the checks that ask the registry for the remote one, and the  *)
(* uninstall that forgets both.                                             *)
(***************************************************************************)
EXTENDS Naturals, FiniteSets
CONSTANTS
  Images,             \* services of the compose file of the app
  MaxVersion,         \* releases of each image; a digest is the number of its release, 0 is none
  ImageCheckers,      \* requests that check for updates, the nightly task among them
  Night,              \* the nightly task
  MaxImageAsked,      \* deployments, updates, uninstalls and pulls in all
  MaxImageMishaps     \* commands that fail, answers that are none, crashes

ASSUME AppUpdatesAssumption ==
  /\ Images \subseteq Nat          \* in the order of the compose file
  /\ Night \in ImageCheckers /\ {MaxImageAsked, MaxImageMishaps} \subseteq Nat /\ MaxVersion \in Nat \ {0}

VARIABLES
  newest,             \* what the registry has under the tag
  tagged, running,    \* the image under the tag here; the one the container runs
  composeFile,        \* stacks/<app>/docker-compose.yml
  appRow,             \* the row in docker_apps
  imageRows,          \* docker_app_images
  deploying, filling, \* the deployment, and the goroutine that follows it
  updating, uninstalling, checking,
  imageAsked, imageMishaps,
  overtaken,          \* history: services with a release since their remote digest was asked
  untold,             \* history: services whose local digest may not be what runs, as named below
  astray,             \* history: rows may be missing, or left, as named below
  revived             \* history: containers may run without their app, as named below

imageBounds == <<imageAsked, imageMishaps>>
imageHistory == <<overtaken, untold, astray, revived>>
imageWorld == <<newest, tagged, running, composeFile, appRow>>
imageWork == <<deploying, filling, updating, uninstalling, checking>>
updateVars == <<imageWorld, imageRows, imageWork, imageBounds, imageHistory>>

NoImage == [on |-> FALSE, local |-> 0, remote |-> 0, fresh |-> FALSE, status |-> "ok"]
IdleWriter == [at |-> "idle", todo |-> {}, digest |-> 0]
IdleChecker == [at |-> "idle", todo |-> {}, got |-> [s \in Images |-> 0], status |-> [s \in Images |-> "ok"], late |-> {}]

UpdateInit ==
  /\ newest = [s \in Images |-> 1] /\ tagged = [s \in Images |-> 0] /\ running = [s \in Images |-> 0]
  /\ composeFile = FALSE /\ appRow = FALSE /\ imageRows = [s \in Images |-> NoImage]
  /\ deploying = "idle" /\ filling = IdleWriter /\ updating = IdleWriter /\ uninstalling = "idle"
  /\ checking = [c \in ImageCheckers |-> IdleChecker] /\ imageAsked = 0 /\ imageMishaps = 0
  /\ overtaken = {} /\ untold = {} /\ astray = FALSE /\ revived = FALSE

-----------------------------------------------------------------------------
(* What the steps share.                                                   *)

ImageAsk == imageAsked < MaxImageAsked /\ imageAsked' = imageAsked + 1
ImageFault == imageMishaps < MaxImageMishaps /\ imageMishaps' = imageMishaps + 1
HasUpdate(row) == row.remote # 0 /\ row.remote # row.local
NeedsRemoteCheck(row) == row.status # "terminal" /\ ~row.fresh
\* An app with an update in the summary: one of its rows that could be checked says so.
InSummary == \E s \in Images : imageRows[s].on /\ imageRows[s].status = "ok" /\ HasUpdate(imageRows[s])

\* The services whose tag a writer of rows has yet to read.
YetToRead(writer) ==
  {s \in Images : \/ writer.at \in {"list", "tell"}
                  \/ writer.at = "rows" /\ s \in writer.todo
                  \/ writer.at = "write" /\ s \in writer.todo /\ \E t \in writer.todo : t < s}
\* The tag moves while somebody between its containers and its rows has yet to read it.
TagMoves(moved) ==
  untold' = untold \cup {s \in moved : deploying = "register" \/ s \in YetToRead(filling) \cup YetToRead(updating)}
\* Containers are recreated from their tags: what runs is told again unless others are about to
\* write a row.
Recreated(parts, others) ==
  untold' = IF others THEN untold \cup parts ELSE untold \ parts

-----------------------------------------------------------------------------
(* A deployment, and the rows its goroutine fills in.                      *)

DeployStack ==
  /\ deploying = "idle" /\ filling.at = "idle" /\ ImageAsk /\ deploying' = "pull" /\ composeFile' = TRUE
  /\ UNCHANGED <<newest, tagged, running, appRow, imageRows, filling, updating, uninstalling, checking,
                 imageMishaps, imageHistory>>
\* A pull that fails is only logged; up brings what is not there, and keeps an old image that is.
DeployPull ==
  /\ deploying = "pull" /\ deploying' = "up"
  /\ \/ tagged' = newest /\ TagMoves({s \in Images : tagged[s] # newest[s]}) /\ UNCHANGED imageMishaps
     \/ ImageFault /\ UNCHANGED <<tagged, untold>>
  /\ UNCHANGED <<newest, running, composeFile, appRow, imageRows, filling, updating, uninstalling, checking,
                 imageAsked, overtaken, astray, revived>>
StackUp ==
  /\ deploying = "up"
  /\ \/ /\ tagged' = [s \in Images |-> IF tagged[s] = 0 THEN newest[s] ELSE tagged[s]]
        /\ running' = tagged' /\ deploying' = "register" /\ UNCHANGED imageMishaps
        /\ Recreated(Images, updating.at # "idle")
        /\ revived' = (revived \/ uninstalling # "idle")
     \/ /\ ImageFault /\ deploying' = "idle" /\ revived' = (revived \/ ~appRow)
        /\ UNCHANGED <<tagged, running, untold>>
  /\ UNCHANGED <<newest, composeFile, appRow, imageRows, filling, updating, uninstalling, checking, imageAsked,
                 overtaken, astray>>
RegisterStack ==
  /\ deploying = "register" /\ deploying' = "idle" /\ appRow' = TRUE
  /\ filling' = [IdleWriter EXCEPT !.at = "list"]
  /\ UNCHANGED <<newest, tagged, running, composeFile, imageRows, updating, uninstalling, checking, imageBounds,
                 imageHistory>>
\* getComposeServices reads the compose file.
FillLists ==
  /\ filling.at = "list"
  /\ \/ /\ composeFile /\ filling' = [filling EXCEPT !.at = "rows", !.todo = Images]
        /\ UNCHANGED <<imageMishaps, astray, untold>>
     \/ /\ ImageFault \/ (~composeFile /\ UNCHANGED imageMishaps)
        /\ filling' = IdleWriter /\ astray' = TRUE /\ untold' = Images
  /\ UNCHANGED <<imageWorld, imageRows, deploying, updating, uninstalling, checking, imageAsked, overtaken, revived>>
\* The digest of the image under the tag; one that cannot be read is written down as none.
FillInspects(s) ==
  /\ filling.at = "rows" /\ s \in filling.todo /\ \A t \in filling.todo : s <= t
  /\ \/ filling' = [at |-> "write", todo |-> filling.todo, digest |-> tagged[s]] /\ UNCHANGED <<imageMishaps, untold>>
     \/ ImageFault /\ filling' = [at |-> "write", todo |-> filling.todo, digest |-> 0] /\ untold' = untold \cup {s}
  /\ UNCHANGED <<imageWorld, imageRows, deploying, updating, uninstalling, checking, imageAsked, overtaken, astray, revived>>
\* A mutant of UpsertLocal: a row that is there keeps what it said was running.
UpsertRemote(row, digest) == [row EXCEPT !.on = TRUE, !.remote = digest, !.fresh = TRUE, !.status = "ok"]
\* Takes what was pulled for the newest.
UpsertLocal(row, digest) == [on |-> TRUE, local |-> digest, remote |-> digest, fresh |-> TRUE, status |-> "ok"]
FillWrites(s) ==
  /\ filling.at = "write" /\ s \in filling.todo /\ \A t \in filling.todo : s <= t
  /\ imageRows' = [imageRows EXCEPT ![s] = UpsertLocal(@, filling.digest)]
  /\ overtaken' = IF filling.digest = newest[s] THEN overtaken \ {s} ELSE overtaken \cup {s}
  /\ LET left == filling.todo \ {s}
     IN filling' = IF left = {} THEN IdleWriter ELSE [at |-> "rows", todo |-> left, digest |-> 0]
  /\ UNCHANGED <<imageWorld, deploying, updating, uninstalling, checking, imageBounds, untold, astray, revived>>

-----------------------------------------------------------------------------
(* An update.                                                              *)

UpdateApp ==
  /\ composeFile /\ updating.at = "idle" /\ ImageAsk /\ updating' = [IdleWriter EXCEPT !.at = "pull"]
  /\ UNCHANGED <<imageWorld, imageRows, deploying, filling, uninstalling, checking, imageMishaps, imageHistory>>
UpdatePulls ==
  /\ updating.at = "pull"
  /\ \/ /\ composeFile /\ tagged' = newest /\ updating' = [updating EXCEPT !.at = "up"] /\ UNCHANGED imageMishaps
        /\ TagMoves({s \in Images : tagged[s] # newest[s]})
     \/ ~composeFile /\ updating' = IdleWriter /\ UNCHANGED <<tagged, imageMishaps, untold>>
     \/ /\ ImageFault /\ updating' = IdleWriter
        /\ \E some \in SUBSET Images : /\ tagged' = [s \in Images |-> IF s \in some THEN newest[s] ELSE tagged[s]]
                                      /\ TagMoves(some)
  /\ UNCHANGED <<newest, running, composeFile, appRow, imageRows, deploying, filling, uninstalling, checking,
                 imageAsked, overtaken, astray, revived>>
\* Every container is recreated from an image just pulled, or some before it fails.
UpdateUp ==
  /\ updating.at = "up"
  /\ \/ /\ composeFile /\ tagged' = newest /\ running' = newest /\ updating' = [updating EXCEPT !.at = "tell"]
        /\ Recreated(Images, deploying # "idle" \/ filling.at # "idle")
        /\ revived' = (revived \/ uninstalling # "idle" \/ (~appRow /\ deploying = "idle")) /\ UNCHANGED imageMishaps
     \/ ~composeFile /\ updating' = IdleWriter /\ UNCHANGED <<tagged, running, imageMishaps, untold, revived>>
     \/ /\ ImageFault /\ updating' = IdleWriter
        /\ \E some \in SUBSET Images :
             /\ tagged' = [s \in Images |-> IF s \in some THEN newest[s] ELSE tagged[s]]
             /\ running' = [s \in Images |-> IF s \in some THEN newest[s] ELSE running[s]]
             /\ untold' = untold \cup some
        /\ revived' = TRUE
  /\ UNCHANGED <<newest, composeFile, appRow, imageRows, deploying, filling, uninstalling, checking, imageAsked,
                 overtaken, astray>>
TellLists ==
  /\ updating.at = "tell"
  /\ \/ composeFile /\ updating' = [updating EXCEPT !.at = "rows", !.todo = Images] /\ UNCHANGED <<imageMishaps, untold>>
     \/ ~composeFile /\ updating' = IdleWriter /\ untold' = Images /\ UNCHANGED imageMishaps
     \/ ImageFault /\ updating' = IdleWriter /\ untold' = Images
  /\ UNCHANGED <<imageWorld, imageRows, deploying, filling, uninstalling, checking, imageAsked, overtaken, astray, revived>>
\* A digest that cannot be read leaves its row as it is.
TellInspects(s) ==
  /\ updating.at = "rows" /\ s \in updating.todo /\ \A t \in updating.todo : s <= t
  /\ \/ updating' = [at |-> "write", todo |-> updating.todo, digest |-> tagged[s]] /\ UNCHANGED <<imageMishaps, untold>>
     \/ /\ ImageFault /\ untold' = untold \cup {s}
        /\ updating' = IF updating.todo = {s} THEN IdleWriter ELSE [updating EXCEPT !.todo = @ \ {s}]
  /\ UNCHANGED <<imageWorld, imageRows, deploying, filling, uninstalling, checking, imageAsked, overtaken, astray, revived>>
UpdateLocal(row, digest) == [row EXCEPT !.local = digest]
TellWrites(s) ==
  /\ updating.at = "write" /\ s \in updating.todo /\ \A t \in updating.todo : s <= t
  /\ imageRows' = [imageRows EXCEPT ![s] = IF @.on THEN UpdateLocal(@, updating.digest) ELSE @]
  /\ updating' = IF updating.todo = {s} THEN IdleWriter
                 ELSE [at |-> "rows", todo |-> updating.todo \ {s}, digest |-> 0]
  /\ UNCHANGED <<imageWorld, deploying, filling, uninstalling, checking, imageBounds, imageHistory>>

-----------------------------------------------------------------------------
(* A check for updates.                                                    *)

\* All the images of the app are asked for when one of them is due.
Tracked == {s \in Images : imageRows[s].on}
SomeDue == \E s \in Tracked : NeedsRemoteCheck(imageRows[s])
RefreshBegins(c) ==
  /\ checking[c].at = "idle" /\ Tracked # {}
  /\ checking' = [checking EXCEPT ![c] = [IdleChecker EXCEPT !.at = "ask", !.todo = Tracked]]
  /\ UNCHANGED <<imageWorld, imageRows, deploying, filling, updating, uninstalling, imageBounds, imageHistory>>
UpdateCheck(c, force) == c # Night /\ (force \/ SomeDue) /\ RefreshBegins(c)
NightlyCheck == SomeDue /\ RefreshBegins(Night)
\* The images are asked for in parallel; an image that is private or unknown is not asked for again.
RegistryAnswers(c, s) ==
  /\ checking[c].at = "ask" /\ s \in checking[c].todo /\ checking[c].got[s] = 0 /\ checking[c].status[s] = "ok"
  /\ \/ checking' = [checking EXCEPT ![c].got[s] = newest[s]] /\ UNCHANGED imageMishaps
     \/ /\ ImageFault
        /\ \E status \in {"error", "terminal"} : checking' = [checking EXCEPT ![c].status[s] = status]
  /\ UNCHANGED <<imageWorld, imageRows, deploying, filling, updating, uninstalling, imageAsked, imageHistory>>
UpdateRemote(row, digest, status) ==
  IF row.on THEN [row EXCEPT !.remote = digest, !.fresh = TRUE, !.status = status] ELSE row
CheckWrites(c, s) ==
  LET check == checking[c]
      left == check.todo \ {s}
  IN /\ check.at = "ask" /\ s \in check.todo /\ (check.got[s] # 0 \/ check.status[s] # "ok")
     /\ imageRows' = [imageRows EXCEPT ![s] = UpdateRemote(@, check.got[s], check.status[s])]
     /\ overtaken' = IF ~imageRows[s].on THEN overtaken
                     ELSE IF s \in check.late THEN overtaken \cup {s} ELSE overtaken \ {s}
     /\ checking' = [checking EXCEPT ![c] = IF left = {} THEN IdleChecker
                                            ELSE [check EXCEPT !.todo = left, !.got[s] = 0, !.status[s] = "ok"]]
     /\ UNCHANGED <<imageWorld, deploying, filling, updating, uninstalling, imageBounds, untold, astray, revived>>
\* The context of the request ends, and with it the queries and the writes under way.
CheckTimesOut(c) ==
  /\ checking[c].at = "ask" /\ ImageFault /\ checking' = [checking EXCEPT ![c] = IdleChecker]
  /\ UNCHANGED <<imageWorld, imageRows, deploying, filling, updating, uninstalling, imageAsked, imageHistory>>

-----------------------------------------------------------------------------
(* An uninstall.                                                           *)

UninstallStack(wipe) ==
  /\ uninstalling = "idle" /\ appRow /\ ImageAsk /\ uninstalling' = IF wipe THEN "wipe" ELSE "down"
  /\ UNCHANGED <<imageWorld, imageRows, deploying, filling, updating, checking, imageMishaps, imageHistory>>
\* compose down, whose error nobody reads; a wipe deletes the compose file and the images too.
StackDown ==
  /\ uninstalling \in {"down", "wipe"} /\ uninstalling' = "forget app"
  /\ \/ /\ running' = IF composeFile THEN [s \in Images |-> 0] ELSE running
        /\ revived' = (~composeFile \/ updating.at \in {"pull", "up"} \/ deploying # "idle") /\ UNCHANGED imageMishaps
     \/ ImageFault /\ revived' = TRUE /\ UNCHANGED running
  /\ IF uninstalling = "wipe"
     THEN composeFile' = FALSE /\ \E kept \in SUBSET {s \in Images : running'[s] # 0} :
            tagged' = [s \in Images |-> IF s \in kept THEN tagged[s] ELSE 0]
     ELSE UNCHANGED <<composeFile, tagged>>
  /\ TagMoves({s \in Images : tagged'[s] # tagged[s]})
  /\ UNCHANGED <<newest, appRow, imageRows, deploying, filling, updating, checking, imageAsked, overtaken, astray>>
DeleteAppRow ==
  /\ uninstalling = "forget app" /\ uninstalling' = "forget images" /\ appRow' = FALSE
  /\ revived' = (revived \/ \E s \in Images : running[s] # 0)
  /\ UNCHANGED <<newest, tagged, running, composeFile, imageRows, deploying, filling, updating, checking, imageBounds,
                 overtaken, untold, astray>>
DeleteByApp ==
  /\ uninstalling = "forget images" /\ uninstalling' = "idle"
  /\ \/ /\ imageRows' = [s \in Images |-> NoImage] /\ UNCHANGED imageMishaps
        /\ astray' = (deploying # "idle" \/ filling.at # "idle" \/ appRow)
     \/ ImageFault /\ astray' = TRUE /\ UNCHANGED imageRows
  /\ UNCHANGED <<imageWorld, deploying, filling, updating, checking, imageAsked, overtaken, untold, revived>>

-----------------------------------------------------------------------------
(* What happens by itself.                                                 *)

Released(s) ==
  /\ newest[s] < MaxVersion /\ newest' = [newest EXCEPT ![s] = @ + 1] /\ overtaken' = overtaken \cup {s}
  /\ checking' = [c \in ImageCheckers |-> IF checking[c].got[s] # 0 THEN [checking[c] EXCEPT !.late = @ \cup {s}]
                                          ELSE checking[c]]
  /\ UNCHANGED <<tagged, running, composeFile, appRow, imageRows, deploying, filling, updating, uninstalling,
                 imageBounds, untold, astray, revived>>
\* Pulled by hand, or by another app with the same image.
PulledElsewhere(s) ==
  /\ tagged[s] # newest[s] /\ ImageAsk /\ tagged' = [tagged EXCEPT ![s] = newest[s]] /\ TagMoves({s})
  /\ UNCHANGED <<newest, running, composeFile, appRow, imageRows, imageWork, imageMishaps, overtaken, astray, revived>>
\* Six hours pass.
ChecksAge ==
  /\ \E s \in Images : imageRows[s].fresh
  /\ imageRows' = [s \in Images |-> [imageRows[s] EXCEPT !.fresh = FALSE]]
  /\ UNCHANGED <<imageWorld, imageWork, imageBounds, imageHistory>>
UpdateCrash ==
  /\ ImageFault /\ deploying' = "idle" /\ filling' = IdleWriter /\ updating' = IdleWriter /\ uninstalling' = "idle"
  /\ checking' = [c \in ImageCheckers |-> IdleChecker]
  /\ untold' = IF updating.at \in {"tell", "rows", "write"} \/ deploying = "register" \/ filling.at # "idle"
               THEN Images ELSE untold
  /\ astray' = (astray \/ filling.at # "idle" \/ deploying = "register" \/ uninstalling = "forget images")
  /\ revived' = (revived \/ deploying # "idle")
  /\ UNCHANGED <<imageWorld, imageRows, imageAsked, overtaken>>

UpdateNext ==
  \/ DeployStack \/ DeployPull \/ StackUp \/ RegisterStack \/ FillLists
  \/ UpdateApp \/ UpdatePulls \/ UpdateUp \/ TellLists
  \/ \E s \in Images : FillInspects(s) \/ FillWrites(s) \/ TellInspects(s) \/ TellWrites(s)
                      \/ Released(s) \/ PulledElsewhere(s)
  \/ \E c \in ImageCheckers : \/ \E force \in BOOLEAN : UpdateCheck(c, force)
                              \/ \E s \in Images : RegistryAnswers(c, s) \/ CheckWrites(c, s)
                              \/ CheckTimesOut(c)
  \/ \E wipe \in BOOLEAN : UninstallStack(wipe)
  \/ NightlyCheck \/ StackDown \/ DeleteAppRow \/ DeleteByApp \/ ChecksAge \/ UpdateCrash

UpdateSpec == UpdateInit /\ [][UpdateNext]_updateVars

-----------------------------------------------------------------------------
(* What holds.                                                             *)

\* Every variable has its type.
UpdateTypeOK ==
  /\ \A s \in Images : newest[s] \in 1..MaxVersion /\ {tagged[s], running[s]} \subseteq 0..MaxVersion
  /\ \A s \in Images : imageRows[s] \in [on : BOOLEAN, local : 0..MaxVersion, remote : 0..MaxVersion, fresh : BOOLEAN,
                                        status : {"ok", "error", "terminal"}]
  /\ overtaken \cup untold \cup filling.todo \cup updating.todo \subseteq Images
  /\ {composeFile, appRow, astray, revived} \subseteq BOOLEAN

Settled == deploying = "idle" /\ filling.at = "idle" /\ updating.at = "idle" /\ uninstalling = "idle"
\* What is remembered as the version of an app is the one its containers run, once nobody is at
\* work, but for the reasons untold names: a command that failed, a crash between the containers
\* and the rows, a tag moved or two writers crossed in between.
LocalIsWhatRuns ==
  Settled => \A s \in Images \ untold : appRow /\ imageRows[s].on /\ running[s] # 0 => imageRows[s].local = running[s]
\* An update is offered exactly when there is one, to anybody who asked after the last release; an
\* image the registry would not tell of is not offered; and the summary says what the details say.
OffersAreTrue ==
  /\ Settled => \A s \in Images \ (untold \cup overtaken) :
       appRow /\ imageRows[s].on /\ running[s] # 0 /\ imageRows[s].status = "ok"
         => (HasUpdate(imageRows[s]) <=> running[s] # newest[s])
  /\ InSummary <=> \E s \in Images : imageRows[s].on /\ HasUpdate(imageRows[s])
\* An installed app has its rows, and an uninstalled one has none to check every night and no
\* containers, but for the goroutine, the update or the uninstall that crossed another, or failed.
TrackedIsInstalled ==
  Settled => /\ ~astray => \A s \in Images : imageRows[s].on <=> appRow
             /\ ~revived /\ ~appRow => \A s \in Images : running[s] = 0
UpdatesConsistent == LocalIsWhatRuns /\ OffersAreTrue /\ TrackedIsInstalled
=============================================================================
