---------------------------- MODULE MCStorageOps ----------------------------
(* Small instances of StorageOps for TLC. *)
EXTENDS StorageOps, TLC

CONSTANTS a, b, x, y, z, o1, o2

\* One pool of two disks and a spare; two pools of two and one.
OnePool  == [p \in Pools |-> {x, y}]
TwoPools == (a :> {x, y}) @@ (b :> {z})

\* Journal entries are interchangeable.
Symmetry == Permutations(Ops)
==============================================================================
