------------------------------ MODULE Capacity ------------------------------
(***************************************************************************)
(* What NimOS says of the room of a pool, beside what the allocator of      *)
(* btrfs can do with the same disks: the capacity it shows, computed by     *)
(* bisection from the sizes, and the margin whose end it announces.         *)
(***************************************************************************)
EXTENDS Naturals, FiniteSets, Functions
CONSTANTS
  Bays,               \* disks a pool may have
  Sizes,              \* their sizes, in chunks
  Layouts             \* profiles

ASSUME CapacityAssumption ==
  Sizes \subseteq Nat /\ Layouts \subseteq {"single", "raid1", "raid1c3", "raid10"} /\ IsFiniteSet(Bays)

VARIABLES
  layout,             \* the profile
  size, free,         \* per disk: its size (0: no disk) and its unallocated chunks
  filled,             \* chunks of data the allocator placed
  uneven              \* history: a disk was added and nothing was balanced since

capacityVars == <<layout, size, free, filled, uneven>>

Total(s) == FoldFunction(+, 0, s)
InPool == {b \in Bays : size[b] > 0}

-----------------------------------------------------------------------------
(* storage_pool_enrich.go and storage_health_monitor.go                    *)

ProfileCopies(p) == IF p \in {"raid1", "raid10"} THEN 2 ELSE IF p = "raid1c3" THEN 3 ELSE 1
\* So many chunks of data can have their copies on different disks.
Fits(p, s, n) == Total([b \in DOMAIN s |-> IF s[b] < n THEN s[b] ELSE n]) >= ProfileCopies(p) * n
\* The capacity as it was computed before: the largest disk taken off only once.
UsableOnce(p, s) ==
  LET half == Total(s) \div ProfileCopies(p)
      rest == Total(s) - (CHOOSE v \in {s[b] : b \in DOMAIN s} : \A b \in DOMAIN s : s[b] <= v)
  IN  IF half <= rest THEN half ELSE rest
Bisect(p, s) ==
  LET top == Total(s) \div ProfileCopies(p)
      search[i \in (0..top) \X (0..top)] ==
        LET mid == i[1] + (i[2] - i[1] + 1) \div 2
        IN  IF i[1] >= i[2] THEN i[1]
            ELSE IF Fits(p, s, mid) THEN search[<<mid, i[2]>>] ELSE search[<<i[1], mid - 1>>]
  IN  search[<<0, top>>]
UsableCapacity(p, s) ==
  IF p = "single" THEN Total(s)
  ELSE IF Cardinality(InPool) < ProfileCopies(p) THEN 0 ELSE Bisect(p, s)
\* The k-th largest of the unallocated, 0 if there are fewer disks.
Nth(k, f) ==
  IF Cardinality(InPool) < k THEN 0
  ELSE CHOOSE v \in {f[b] : b \in InPool} :
         /\ Cardinality({b \in InPool : f[b] >= v}) >= k
         /\ Cardinality({b \in InPool : f[b] > v}) < k
EffectiveUnallocated(p, f) ==
  CASE p = "raid1" -> Nth(2, f) [] p = "raid1c3" -> Nth(3, f) [] p = "raid10" -> Nth(4, f)
    [] OTHER -> Nth(Cardinality(InPool), f)
MarginState == IF EffectiveUnallocated(layout, free) < 1 THEN "critical" ELSE "ok"

-----------------------------------------------------------------------------
(* The allocator of the kernel.                                            *)

\* A chunk takes one piece of each of the disks with most room; raid10 takes as many as it
\* can, in pairs.
WithRoom(f) == {b \in InPool : f[b] > 0}
Stripes(p, f) ==
  IF p = "raid10" THEN LET n == Cardinality(WithRoom(f)) IN IF n < 4 THEN 0 ELSE n - (n % 2)
  ELSE IF Cardinality(WithRoom(f)) < ProfileCopies(p) THEN 0 ELSE ProfileCopies(p)
Roomiest(n, f) ==
  {B \in SUBSET WithRoom(f) : Cardinality(B) = n /\ \A b \in B, c \in WithRoom(f) \ B : f[b] >= f[c]}
CanAllocate == Stripes(layout, free) > 0
AllocateChunk ==
  /\ CanAllocate
  /\ \E B \in Roomiest(Stripes(layout, free), free) :
       /\ free' = [b \in Bays |-> free[b] - (IF b \in B THEN 1 ELSE 0)]
       /\ filled' = filled + Cardinality(B) \div ProfileCopies(layout)
  /\ UNCHANGED <<layout, size, uneven>>
\* A disk joins a pool that has data: what is there stays where it is until a balance, here
\* the one that rewrites everything, chunk by chunk, into a pool it finds empty.
AddToPool(b) ==
  /\ size[b] = 0 /\ ~uneven
  /\ \E s \in Sizes \ {0} : size' = [size EXCEPT ![b] = s] /\ free' = [free EXCEPT ![b] = s]
  /\ uneven' = (filled > 0) /\ UNCHANGED <<layout, filled>>
BalanceAll ==
  /\ uneven /\ uneven' = FALSE /\ free' = size /\ filled' = 0 /\ UNCHANGED <<layout, size>>

\* No disk goes by a lower number than an emptier place: bays differ in nothing else.
CapacityInit ==
  /\ layout \in Layouts /\ size \in [Bays -> Sizes] /\ free = size /\ filled = 0 /\ uneven = FALSE
  /\ Cardinality(InPool) >= ProfileCopies(layout)
CapacityNext == AllocateChunk \/ (\E b \in Bays : AddToPool(b)) \/ BalanceAll
CapacitySpec == CapacityInit /\ [][CapacityNext]_capacityVars

-----------------------------------------------------------------------------
CapacityTypeOK ==
  /\ layout \in Layouts /\ size \in [Bays -> Nat] /\ free \in [Bays -> Nat] /\ filled \in Nat
  /\ uneven \in BOOLEAN

\* The capacity shown is what the allocator can place (computeUsableCapacity): data never
\* exceeds it, and a pool that grew together is full when it reaches it; with raid10 the
\* bisection may promise more than pairs of stripes can hold.
ShownIsPlaced ==
  LET usable == UsableCapacity(layout, size) IN
  /\ filled <= usable
  /\ (~CanAllocate /\ ~uneven /\ layout # "raid10") => filled = usable
\* A pool in which no chunk can be placed any more is announced (checkPoolUnallocated), be
\* it full or lopsided; for the mirrors nothing else is.
StuckIsAnnounced ==
  /\ ~CanAllocate => MarginState = "critical"
  /\ (CanAllocate /\ layout \in {"raid1", "raid1c3"}) => MarginState = "ok"
CapacityConsistent == ShownIsPlaced /\ StuckIsAnnounced
=============================================================================
