---------------------------- MODULE NetworkBounds ----------------------------
(***************************************************************************)
(* What the modules of the network share: the bounds of their runs.        *)
(***************************************************************************)
EXTENDS Naturals
CONSTANTS
  MaxRequests,        \* writes of administrators and users
  MaxDdnsFaults,      \* crashes, lost writes, failed calls, broken connections and
  MaxExposureFaults,  \* what else happens around, as each action says
  None
ASSUME BoundsAssumption == MaxRequests \in Nat /\ MaxDdnsFaults \in Nat
                           /\ MaxExposureFaults \in Nat /\ None \notin Nat

VARIABLES asked, faults
bounds == <<asked, faults>>

Request == asked < MaxRequests /\ asked' = asked + 1
Fault(max) == faults < max /\ faults' = faults + 1
BoundsInit == asked = 0 /\ faults = 0
BoundsTypeOK == asked \in Nat /\ faults \in Nat
==============================================================================
