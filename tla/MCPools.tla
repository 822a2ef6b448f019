------------------------------ MODULE MCPools ------------------------------
(***************************************************************************)
(* The life of pools, and beside it what the daemon says of disks, of pools *)
(* and of the network: a behaviour moves one of them, so that their states  *)
(* add up instead of multiplying.                                           *)
(***************************************************************************)
EXTENDS MCPoolLifecycle, Health, NetworkLog, Capacity
VARIABLE part

PoolsStart ==
  /\ Init /\ part \in {"pools", "health", "netlog", "capacity"}
  /\ part # "pools" => primary = InitFS
  /\ HealthInit /\ (part # "health" => mount.on)
  /\ NetworkLogInit
  /\ CapacityInit /\ (part # "capacity" => layout = "single" /\ size = [b \in Bays |-> 1])
PoolsNext ==
  /\ UNCHANGED part
  /\ \/ part = "pools" /\ UNCHANGED <<healthVars, networkLogVars, capacityVars>>
        /\ Next
     \/ part = "health" /\ UNCHANGED <<vars, networkLogVars, capacityVars>>
        /\ HealthNext
     \/ part = "netlog" /\ UNCHANGED <<vars, healthVars, capacityVars>>
        /\ NetworkLogNext
     \/ part = "capacity" /\ UNCHANGED <<vars, healthVars, networkLogVars>>
        /\ CapacityNext
poolsVars == <<vars, healthVars, networkLogVars, capacityVars, part>>
PoolsSpec == PoolsStart /\ [][PoolsNext]_poolsVars

\* Every variable has its type; the parts that do not move keep their start.
PoolsTypesOK ==
  /\ TypeOK
  /\ part = "health" => HealthTypeOK
  /\ part = "netlog" => NetworkLogTypeOK
  /\ part = "capacity" => CapacityTypeOK

\* What is said of disks, pools and the network is what they are: health, room, and what is written down.
ReadingsConsistent ==
  /\ part = "health" => HealthConsistent
  /\ part = "netlog" => NetworkLogConsistent
  /\ part = "capacity" => CapacityConsistent
=============================================================================
