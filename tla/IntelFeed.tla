----------------------------- MODULE IntelFeed -----------------------------
(***************************************************************************)
(* The feed of listed addresses: its download, file by file, its activation *)
(* by one atomic store, its cache in SQLite with the last versions, and the *)
(* return to an earlier one.                                                *)
(***************************************************************************)
EXTENDS Naturals, FiniteSets
CONSTANTS
  ListOf,             \* of each version published, the contents of its list
  Fetchers,           \* refreshes at once: the timer's and those of the panel
  CacheKept,          \* versions that dbIntelStore leaves
  MaxFeedAsked,       \* requests of the panel
  MaxFeedMishaps      \* commands that fail, crashes

ASSUME IntelAssumption ==
  /\ DOMAIN ListOf \subseteq Nat \ {0} /\ 1 \in DOMAIN ListOf /\ "timer" \in Fetchers
  /\ CacheKept \in Nat \ {0, 1} /\ {MaxFeedAsked, MaxFeedMishaps} \subseteq Nat

VARIABLES
  latest,             \* the version the factory serves
  activeFeed,         \* intelActive
  cached, currentFeed,\* intel_feed, and current_version of intel_meta
  fetch,              \* intelRefresh, intelLoadFromCache and intelRollback under way
  feedAsked, feedMishaps,
  newestActive,       \* history: the newest version active since the start
  goneBack,           \* history: somebody asked for an earlier version
  feedsCrossed        \* history: a version was activated or written in the middle of another's way

feedBounds == <<feedAsked, feedMishaps>>
feedVars == <<latest, activeFeed, cached, currentFeed, fetch, feedBounds, newestActive, goneBack, feedsCrossed>>

Versions == DOMAIN ListOf
NoFeed == [version |-> 0, list |-> 0]
IdleFetch == [at |-> "idle", version |-> 0, list |-> 0, boot |-> FALSE, over |-> FALSE]

\* The daemon starts without a feed: the network first, then the cache.
IntelInit ==
  /\ latest = 1 /\ activeFeed = NoFeed /\ cached = {} /\ currentFeed = 0
  /\ fetch = [f \in Fetchers |-> IF f = "timer" THEN [IdleFetch EXCEPT !.at = "manifest", !.boot = TRUE] ELSE IdleFetch]
  /\ feedAsked = 0 /\ feedMishaps = 0
  /\ newestActive = 0 /\ goneBack = FALSE /\ feedsCrossed = FALSE

-----------------------------------------------------------------------------
(* intelRefresh.                                                           *)

FeedAsk == feedAsked < MaxFeedAsked /\ feedAsked' = feedAsked + 1
FeedFault == feedMishaps < MaxFeedMishaps /\ feedMishaps' = feedMishaps + 1
FeedOf(v) == [version |-> v, list |-> ListOf[v]]
\* A refresh that fails leaves what is active; that of the start goes on with the cache.
GiveUp(f) == fetch' = [fetch EXCEPT ![f] = IF @.boot THEN [IdleFetch EXCEPT !.at = "cache"] ELSE IdleFetch]
StartsRefresh(f) ==
  /\ fetch[f].at = "idle" /\ (f = "timer" \/ FeedAsk) /\ (f = "timer" => UNCHANGED feedAsked)
  /\ fetch' = [fetch EXCEPT ![f].at = "manifest"]
  /\ UNCHANGED <<latest, activeFeed, cached, currentFeed, feedMishaps, newestActive, goneBack, feedsCrossed>>
\* Files are those of the version that is served when they are asked for; three attempts may fail.
FetchManifest(f) ==
  /\ fetch[f].at = "manifest"
  /\ \/ fetch' = [fetch EXCEPT ![f].at = "signature", ![f].version = latest] /\ UNCHANGED feedMishaps
     \/ FeedFault /\ GiveUp(f)
  /\ UNCHANGED <<latest, activeFeed, cached, currentFeed, feedAsked, newestActive, goneBack, feedsCrossed>>
\* applyFeed: the signature is that of the manifest, which is not older than what there is.
FloorOf == IF activeFeed.version > currentFeed THEN activeFeed.version ELSE currentFeed
FetchSignature(f) ==
  /\ fetch[f].at = "signature"
  /\ \/ /\ IF latest = fetch[f].version /\ fetch[f].version >= FloorOf
           THEN fetch' = [fetch EXCEPT ![f].at = "list", ![f].over = FALSE]
           ELSE GiveUp(f)
        /\ UNCHANGED feedMishaps
     \/ FeedFault /\ GiveUp(f)
  /\ UNCHANGED <<latest, activeFeed, cached, currentFeed, feedAsked, newestActive, goneBack, feedsCrossed>>
\* A mutant of HashAgrees.
HashIgnored(list, v) == TRUE
HashAgrees(list, v) == list = ListOf[v]
FetchList(f) ==
  /\ fetch[f].at = "list"
  /\ \/ /\ IF HashAgrees(ListOf[latest], fetch[f].version)
           THEN fetch' = [fetch EXCEPT ![f].at = "swap", ![f].list = ListOf[latest]]
           ELSE GiveUp(f)
        /\ UNCHANGED feedMishaps
     \/ FeedFault /\ GiveUp(f)
  /\ UNCHANGED <<latest, activeFeed, cached, currentFeed, feedAsked, newestActive, goneBack, feedsCrossed>>
\* Somebody has activated a version that is not in the database yet.
Recording(f) == \E g \in Fetchers \ {f} : fetch[g].at \in {"store", "current"}
\* One store publishes the version and its list; those on their way have looked at what was before.
Activates(f, next) ==
  /\ activeFeed' = [version |-> fetch[f].version, list |-> fetch[f].list]
  /\ fetch' = [g \in Fetchers |-> IF g = f THEN next ELSE [fetch[g] EXCEPT !.over = TRUE]]
  /\ newestActive' = IF fetch[f].version > newestActive THEN fetch[f].version ELSE newestActive
  /\ feedsCrossed' = (feedsCrossed \/ fetch[f].over \/ Recording(f))
SwapRefreshed(f) ==
  /\ fetch[f].at = "swap" /\ Activates(f, [fetch[f] EXCEPT !.at = "store", !.boot = FALSE, !.over = FALSE])
  /\ UNCHANGED <<latest, cached, currentFeed, feedBounds, goneBack>>
\* dbIntelStore writes the files in a transaction and then, apart, leaves the last versions.
Pruned(rows) == {c \in rows : Cardinality({d \in rows : d.version > c.version}) < CacheKept}
DbIntelStore(f) ==
  LET rows == {c \in cached : c.version # fetch[f].version} \cup {[version |-> fetch[f].version, list |-> fetch[f].list]}
  IN /\ fetch[f].at = "store"
     /\ \/ cached' = Pruned(rows) /\ fetch' = [fetch EXCEPT ![f].at = "current"] /\ UNCHANGED feedMishaps
        \/ FeedFault /\ cached' = rows /\ fetch' = [fetch EXCEPT ![f].at = "current"]
        \/ FeedFault /\ UNCHANGED cached /\ fetch' = [fetch EXCEPT ![f] = IdleFetch]
     /\ UNCHANGED <<latest, activeFeed, currentFeed, feedAsked, newestActive, goneBack, feedsCrossed>>
\* Nobody reads whether the version could be written.
DbIntelSetCurrentVersion(f) ==
  /\ fetch[f].at = "current" /\ fetch' = [fetch EXCEPT ![f] = IdleFetch]
  /\ \/ currentFeed' = fetch[f].version /\ UNCHANGED feedMishaps
     \/ FeedFault /\ UNCHANGED currentFeed
  /\ feedsCrossed' = (feedsCrossed \/ fetch[f].over)
  /\ UNCHANGED <<latest, activeFeed, cached, feedAsked, newestActive, goneBack>>

-----------------------------------------------------------------------------
(* The cache.                                                              *)

\* Files of the cache are verified like those of the network, but their version may be any.
ReadsCache(f, c, at) ==
  fetch' = [fetch EXCEPT ![f] = [IdleFetch EXCEPT !.at = at, !.version = c.version, !.list = c.list,
                                               !.over = Recording(f)]]
LoadFromCache(f) ==
  /\ fetch[f].at = "cache"
  /\ \/ \E c \in cached : c.version = currentFeed /\ HashAgrees(c.list, c.version) /\ ReadsCache(f, c, "cached")
     \/ /\ \A c \in cached : c.version = currentFeed => ~HashAgrees(c.list, c.version)
        /\ fetch' = [fetch EXCEPT ![f] = IdleFetch]
  /\ UNCHANGED <<latest, activeFeed, cached, currentFeed, feedBounds, newestActive, goneBack, feedsCrossed>>
SwapCached(f) ==
  /\ fetch[f].at = "cached" /\ Activates(f, IdleFetch)
  /\ UNCHANGED <<latest, cached, currentFeed, feedBounds, goneBack>>
Rollback(f) ==
  LET older == {c \in cached : c.version < currentFeed}
  IN /\ f # "timer" /\ fetch[f].at = "idle" /\ FeedAsk
     /\ \E c \in older : (\A d \in older : d.version <= c.version) /\ HashAgrees(c.list, c.version) /\ ReadsCache(f, c, "back")
     /\ goneBack' = TRUE
     /\ UNCHANGED <<latest, activeFeed, cached, currentFeed, feedMishaps, newestActive, feedsCrossed>>
SwapBack(f) ==
  /\ fetch[f].at = "back" /\ Activates(f, [fetch[f] EXCEPT !.at = "current", !.over = FALSE])
  /\ UNCHANGED <<latest, cached, currentFeed, feedBounds, goneBack>>

-----------------------------------------------------------------------------
(* The factory, and the end of the daemon.                                 *)

FeedPublished ==
  /\ latest + 1 \in Versions /\ latest' = latest + 1
  /\ UNCHANGED <<activeFeed, cached, currentFeed, fetch, feedBounds, newestActive, goneBack, feedsCrossed>>
IntelCrash ==
  /\ FeedFault /\ activeFeed' = NoFeed /\ newestActive' = 0
  /\ fetch' = [f \in Fetchers |-> IF f = "timer" THEN [IdleFetch EXCEPT !.at = "manifest", !.boot = TRUE] ELSE IdleFetch]
  /\ UNCHANGED <<latest, cached, currentFeed, feedAsked, goneBack, feedsCrossed>>

IntelNext ==
  \/ \E f \in Fetchers :
       \/ StartsRefresh(f) \/ FetchManifest(f) \/ FetchSignature(f) \/ FetchList(f) \/ SwapRefreshed(f)
       \/ DbIntelStore(f) \/ DbIntelSetCurrentVersion(f)
       \/ LoadFromCache(f) \/ SwapCached(f) \/ Rollback(f) \/ SwapBack(f)
  \/ FeedPublished \/ IntelCrash

IntelSpec == IntelInit /\ [][IntelNext]_feedVars

-----------------------------------------------------------------------------
(* What holds.                                                             *)

\* Every variable has its type.
IntelTypeOK ==
  /\ latest \in Versions /\ activeFeed.version \in Versions \cup {0} /\ currentFeed \in Versions \cup {0}
  /\ \A c \in cached : c.version \in Versions
  /\ newestActive \in Versions \cup {0} /\ {goneBack, feedsCrossed} \subseteq BOOLEAN

\* However the factory publishes in the middle of a download, what is active, and every version in
\* the cache, is the list that its manifest was signed with.
FeedsAreWhole ==
  \A c \in cached \cup {activeFeed} : c = NoFeed \/ c = FeedOf(c.version)
\* What is active is never replaced by an older version, unless somebody asked for it, two crossed,
\* or the newer one could not be written.
FeedGoesForward ==
  activeFeed.version >= newestActive \/ goneBack \/ feedsCrossed \/ feedMishaps > 0
\* The version a restart loads is in the cache, unless somebody went back to one that is pruned since, two
\* refreshes crossed, or so many writes of it failed that those that were not recorded took its place.
CurrentIsCached ==
  currentFeed # 0 => goneBack \/ feedsCrossed \/ feedMishaps > CacheKept - 2 \/ \E c \in cached : c.version = currentFeed
\* When nobody is at work, a restart without a network finds what is active, but for a failed write.
RestartFindsActive ==
  (\A f \in Fetchers : fetch[f].at = "idle") => currentFeed = activeFeed.version \/ feedsCrossed \/ feedMishaps > 0
IntelConsistent == FeedsAreWhole /\ FeedGoesForward /\ CurrentIsCached /\ RestartFindsActive
=============================================================================
