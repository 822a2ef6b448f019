------------------------------ MODULE LayoutLock ------------------------------
(***************************************************************************)
(* What the operations journal of the storage module promises its clients: *)
(* a layout operation is recorded once, is open until it is closed, is     *)
(* closed for good, and while it is open no other layout operation opens   *)
(* on its pool.  Detailed in StorageOps, which implements it.              *)
(***************************************************************************)

CONSTANTS Ops,     \* identities of operations
          Pools,   \* identities of pools
          None     \* the pool of an operation not recorded yet

VARIABLES phase,   \* phase[o]: "absent", "open" or "closed"
          lockOf   \* lockOf[o]: the pool o locks while it is open

vars == <<phase, lockOf>>

TypeOK == /\ phase \in [Ops -> {"absent", "open", "closed"}]
          /\ lockOf \in [Ops -> Pools \cup {None}]

Init == /\ phase = [o \in Ops |-> "absent"]
        /\ lockOf = [o \in Ops |-> None]

Locked(p) == \E o \in Ops : phase[o] = "open" /\ lockOf[o] = p

Open(o, p) == /\ phase[o] = "absent"
              /\ ~Locked(p)
              /\ phase' = [phase EXCEPT ![o] = "open"]
              /\ lockOf' = [lockOf EXCEPT ![o] = p]

Close(o) == /\ phase[o] = "open"
            /\ phase' = [phase EXCEPT ![o] = "closed"]
            /\ UNCHANGED lockOf

Next == \E o \in Ops : Close(o) \/ \E p \in Pools : Open(o, p)

Spec == Init /\ [][Next]_vars

\* An open operation is eventually closed: the lock is never held forever.
FairSpec == Spec /\ \A o \in Ops : WF_vars(Close(o))

(***************************************************************************)
(* At most one open operation per pool (INV-1 of the schema).              *)
(***************************************************************************)
MutualExclusion ==
    \A o1, o2 \in Ops :
        /\ phase[o1] = "open" /\ phase[o2] = "open"
        /\ lockOf[o1] = lockOf[o2]
        => o1 = o2
===============================================================================
