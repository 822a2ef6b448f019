-------------------------------- MODULE Scrub --------------------------------
(***************************************************************************)
(* The scrubs of a pool: the operation in the journal, the goroutine that   *)
(* starts and watches it, the scrub of the kernel, which outlives both, the *)
(* scrub without an operation that ends a replace, and what the boot makes  *)
(* of an operation that it finds open.                                      *)
(***************************************************************************)
EXTENDS HostBounds, FiniteSets, FiniteSetsExt

CONSTANT Scrubs          \* operations of type start_scrub
ASSUME ScrubAssumption == Scrubs \subseteq Nat /\ Nil \notin {"start", "watch", "in_progress", "completed"}

VARIABLES
  journal,      \* the status of each operation, Nil before it is created
  worker,       \* its goroutine: Nil, "start" or "watch"
  kernelScrub,  \* what btrfs scrub status says of the last scrub
  finishes,     \* history: how many scrubs have finished
  since,        \* history: how many had when each operation was created
  scrubDaemon,  \* whether the daemon is up
  orphans,      \* the open operations that the boot has yet to resolve
  unclosed      \* the operations whose last write was lost

scrubVars == <<journal, worker, kernelScrub, finishes, since, scrubDaemon, orphans, unclosed>>

Statuses == {"in_progress", "completed", "cancelled", "failed"}
ScrubOpen(o) == journal[o] = "in_progress"
Running == kernelScrub = "running"

\* What parseScrubStatusOutput makes of the line, and the outcome it stands for.
Outcome == CASE kernelScrub = "finished" -> "completed"
             [] kernelScrub = "aborted" -> "cancelled"
             [] kernelScrub \in {"none", "interrupted"} -> "failed"

\* The outcome is written, or the write fails and the goroutine ends all the same.
Close(o, status) ==
  \/ /\ journal' = [journal EXCEPT ![o] = status]
     /\ unclosed' = unclosed \ {o} /\ UNCHANGED hostFaults
  \/ HostFault /\ unclosed' = unclosed \cup {o} /\ UNCHANGED journal

-----------------------------------------------------------------------------
\* startScrubTracked, for the administrator or the scheduler: INV-2 refuses a
\* second open operation; the boot has resolved its orphans before HTTP listens.
RequestScrub(o) ==
  /\ scrubDaemon /\ orphans = {} /\ HostRequest
  /\ journal[o] = Nil /\ o = Min({x \in Scrubs : journal[x] = Nil})
  /\ \A x \in Scrubs : ~ScrubOpen(x)
  /\ journal' = [journal EXCEPT ![o] = "in_progress"]
  /\ since' = [since EXCEPT ![o] = finishes]
  /\ worker' = [worker EXCEPT ![o] = "start"]
  /\ UNCHANGED <<kernelScrub, finishes, scrubDaemon, orphans, unclosed, hostFaults>>

\* btrfs refuses a second scrub, and the command may fail for its own reasons.
KernelStarts(o) ==
  /\ worker[o] = "start" /\ ~Running
  /\ kernelScrub' = "running" /\ worker' = [worker EXCEPT ![o] = "watch"]
  /\ UNCHANGED <<journal, finishes, since, scrubDaemon, orphans, unclosed, hostBounds>>

\* Mutant: the error of the command does not end the operation.
WatchWhatFailed(o) ==
  /\ worker[o] = "start" /\ worker' = [worker EXCEPT ![o] = "watch"]
  /\ UNCHANGED <<journal, kernelScrub, finishes, since, scrubDaemon, orphans, unclosed, hostBounds>>

KernelRefuses(o) ==
  /\ worker[o] = "start"
  /\ \/ Running /\ Close(o, "failed")
     \/ HostFault /\ journal' = [journal EXCEPT ![o] = "failed"]
        /\ unclosed' = unclosed \ {o}
  /\ worker' = [worker EXCEPT ![o] = Nil]
  /\ UNCHANGED <<kernelScrub, finishes, since, scrubDaemon, orphans, hostAsked>>

\* watchScrubOperation: each 15 s; a scrub that goes on, or a command that
\* fails, is waited for, up to 48 h.
Watch(o) ==
  /\ worker[o] = "watch" /\ ~Running /\ Close(o, Outcome)
  /\ worker' = [worker EXCEPT ![o] = Nil]
  /\ UNCHANGED <<kernelScrub, finishes, since, scrubDaemon, orphans, hostAsked>>
WatchDeadline(o) ==
  /\ worker[o] = "watch" /\ Close(o, "failed")
  /\ worker' = [worker EXCEPT ![o] = Nil]
  /\ UNCHANGED <<kernelScrub, finishes, since, scrubDaemon, orphans, hostAsked>>

\* The verification after a replace, in the goroutine or in its watcher.
UntrackedScrub ==
  /\ scrubDaemon /\ HostRequest /\ ~Running /\ kernelScrub' = "running"
  /\ UNCHANGED <<journal, worker, finishes, since, scrubDaemon, orphans, unclosed, hostFaults>>

-----------------------------------------------------------------------------
(* The kernel.                                                             *)
ScrubFinishes ==
  /\ Running /\ kernelScrub' = "finished" /\ finishes' = finishes + 1
  /\ UNCHANGED <<journal, worker, since, scrubDaemon, orphans, unclosed, hostBounds>>
\* btrfs scrub cancel, or an unmount.
ScrubStops ==
  /\ Running /\ HostRequest /\ kernelScrub' \in {"aborted", "interrupted"}
  /\ UNCHANGED <<journal, worker, finishes, since, scrubDaemon, orphans, unclosed, hostFaults>>

-----------------------------------------------------------------------------
(* Crash and boot.                                                         *)
DaemonStops == /\ scrubDaemon /\ HostFault
               /\ scrubDaemon' = FALSE /\ orphans' = {} /\ worker' = [o \in Scrubs |-> Nil]
               /\ UNCHANGED <<journal, finishes, since, unclosed, hostAsked>>
ScrubDaemonCrash == DaemonStops /\ UNCHANGED kernelScrub
PowerCut == DaemonStops /\ kernelScrub' = IF Running THEN "interrupted" ELSE kernelScrub

\* ListPendingOperations.
ScrubBoot ==
  /\ ~scrubDaemon /\ scrubDaemon' = TRUE /\ orphans' = {o \in Scrubs : ScrubOpen(o)}
  /\ UNCHANGED <<journal, worker, kernelScrub, finishes, since, unclosed, hostBounds>>

Resolving(o) == o \in orphans /\ orphans' = orphans \ {o}

\* Mutant: the operation is kept and its watcher is forgotten.
ReadoptUnwatched(o) ==
  /\ Resolving(o) /\ Running
  /\ UNCHANGED <<journal, worker, kernelScrub, finishes, since, scrubDaemon, unclosed, hostBounds>>

\* resolveOrphanScrub with a status it can read: a scrub that goes on keeps its
\* operation, and the watcher starts once that is written.
ReadoptScrub(o) ==
  /\ Resolving(o) /\ Running
  /\ \/ /\ journal' = [journal EXCEPT ![o] = "in_progress"]
        /\ worker' = [worker EXCEPT ![o] = "watch"]
        /\ unclosed' = unclosed \ {o} /\ UNCHANGED hostFaults
     \/ HostFault /\ unclosed' = unclosed \cup {o} /\ UNCHANGED <<journal, worker>>
  /\ UNCHANGED <<kernelScrub, finishes, since, scrubDaemon, hostAsked>>
\* The end of the scrub, or no answer: inconclusive.
ResolveScrub(o) ==
  /\ Resolving(o)
  /\ \/ ~Running /\ Close(o, Outcome)
     \/ HostFault /\ journal' = [journal EXCEPT ![o] = "failed"] /\ unclosed' = unclosed \ {o}
  /\ UNCHANGED <<worker, kernelScrub, finishes, since, scrubDaemon, hostAsked>>

-----------------------------------------------------------------------------
ScrubInit ==
  /\ journal = [o \in Scrubs |-> Nil] /\ worker = [o \in Scrubs |-> Nil]
  /\ kernelScrub \in {"none", "finished"} /\ finishes = 0
  /\ since = [o \in Scrubs |-> 0] /\ scrubDaemon = TRUE /\ orphans = {} /\ unclosed = {}

ScrubWorker(o) == KernelStarts(o) \/ KernelRefuses(o) \/ Watch(o) \/ WatchDeadline(o)
ScrubRecovery == ScrubBoot \/ \E o \in Scrubs : ReadoptScrub(o) \/ ResolveScrub(o)
ScrubNext == \/ \E o \in Scrubs : RequestScrub(o) \/ ScrubWorker(o)
             \/ UntrackedScrub \/ ScrubFinishes \/ ScrubStops
             \/ ScrubDaemonCrash \/ PowerCut \/ ScrubRecovery
ScrubSpec == HostInit /\ ScrubInit /\ [][ScrubNext]_<<scrubVars, hostBounds>>

\* Commands have a deadline, polls a timer and 48 h; a boot ends.  A scrub need not.
ScrubProgress == ScrubRecovery \/ \E o \in Scrubs : ScrubWorker(o)
ScrubFairness == WF_<<scrubVars, hostBounds>>(ScrubProgress)

-----------------------------------------------------------------------------
\* Every variable has its type.
ScrubTypeOK ==
  /\ journal \in [Scrubs -> Statuses \cup {Nil}] /\ worker \in [Scrubs -> {Nil, "start", "watch"}]
  /\ kernelScrub \in {"none", "running", "finished", "aborted", "interrupted"}
  /\ finishes \in Nat /\ since \in [Scrubs -> Nat]
  /\ scrubDaemon \in BOOLEAN /\ orphans \subseteq Scrubs /\ unclosed \subseteq Scrubs

\* "cerrar como failed para no dejar el lock colgado" (storage_btrfs_features.go:336):
\* an open operation, which refuses every other scrub of the pool, ends whatever
\* becomes of the scrub and of the daemon, unless the write that ends it is lost.
ScrubEnds == \A o \in Scrubs : ScrubOpen(o) ~> ~ScrubOpen(o) \/ o \in unclosed

\* "el desenlace real" (storage_btrfs_features.go:286): a watcher calls an operation
\* completed only when a scrub of the pool finished while it was open.  The
\* boot knows less: the last scrub may have finished before the operation.
WatchedOutcomeIsReal == [][\A o \in Scrubs :
  worker[o] = "watch" /\ ScrubOpen(o) /\ journal'[o] = "completed" => finishes > since[o]]_scrubVars
==============================================================================
