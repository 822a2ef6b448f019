----------------------------- MODULE HostBounds -----------------------------
(***************************************************************************)
(* What the modules of the host's own jobs share: the bounds of their runs. *)
(***************************************************************************)
EXTENDS Naturals
CONSTANTS
  MaxHostRequests,    \* what administrators and users ask for
  MaxHostFaults,      \* crashes, lost writes, failed commands, power cuts
  Nil
ASSUME HostAssumption == MaxHostRequests \in Nat /\ MaxHostFaults \in Nat /\ Nil \notin Nat

VARIABLES hostAsked, hostFaults
hostBounds == <<hostAsked, hostFaults>>

HostRequest == hostAsked < MaxHostRequests /\ hostAsked' = hostAsked + 1
HostFault == hostFaults < MaxHostFaults /\ hostFaults' = hostFaults + 1
HostInit == hostAsked = 0 /\ hostFaults = 0
HostTypeOK == hostAsked \in Nat /\ hostFaults \in Nat
==============================================================================
