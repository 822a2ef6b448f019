--------------------------- MODULE MCPoolLifecycle ---------------------------
(* An instance of PoolLifecycle for TLC.                                   *)
EXTENDS PoolLifecycle, TLC
CONSTANTS d1, d2, f1, f2, f3, n1, n2
MCInitDisks == {d1}
\* The uuids that mkfs may still give out are alike, and so are the operations.
MCSymmetry == {p @@ q : p \in Permutations(Ops), q \in Permutations(FSes \ {f1})}
=============================================================================
