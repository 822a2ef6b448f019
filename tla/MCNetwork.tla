----------------------------- MODULE MCNetwork -----------------------------
(***************************************************************************)
(* The two subsystems of the network that keep rows of their own.  They     *)
(* share no state but the token, of which Exposure sees that it comes and   *)
(* goes: a behaviour moves one of them, so that their states add up         *)
(* instead of multiplying.  Both start where they once converged.           *)
(***************************************************************************)
EXTENDS Ddns, Exposure
VARIABLE part
OnlyDdns == <<rowVars, worker, journal, provider, lost>>
OnlyExposure == <<db, view, token, caddy, firewall, pass, wanted>>
Init == /\ DdnsInit /\ ExposureInit /\ cfg.on
        /\ IF row = None THEN part = "exposure" ELSE part = "ddns"
Next == /\ UNCHANGED part
        /\ \/ part = "ddns" /\ DdnsNext /\ UNCHANGED OnlyExposure
           \/ part = "exposure" /\ ExposureNext /\ UNCHANGED OnlyDdns
vars == <<OnlyDdns, OnlyExposure, bounds, part>>
Fairness == DdnsFairness /\ WF_exposureVars(part = "exposure" /\ Reconcile)
FairSpec == Init /\ [][Next]_vars /\ Fairness

\* Every variable of both subsystems has its type.
NetworkTypesOK == DdnsTypeOK /\ ExposureTypeOK
==============================================================================
