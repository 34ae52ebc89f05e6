-------------------------- MODULE SharedPoolsProofs --------------------------
(***************************************************************************)
(* Proofs about PoolSlice, for all options, sizes and capacities, and      *)
(* about SharedPools beside it, for every set of buffers and readers.      *)
(***************************************************************************)
EXTENDS SharedPools, TLAPS

-----------------------------------------------------------------------------
(* Pools of slices *)

\* Values of borrowers only lie below the length, which is within the array: then
\* the Reset of a redeem, which looks no further, clears them all.
SliceShape ==
  /\ o \in Options /\ at \in {"new", "pool", "out"}
  /\ len \in Nat /\ cap \in Nat /\ asked \in Nat
  /\ stale \subseteq Indices(len)

\* CapacityKept and PooledHoldsNothing are inductive with it.
SliceInv == SliceShape /\ CapacityKept /\ PooledHoldsNothing

\* What the options of a pool may be.
LEMMA OptionTypes ==
  ASSUME o \in Options
  PROVE length \in Nat /\ minCapacity \in Nat /\ maxCapacity \in Nat
  BY SliceAssumption DEF length, minCapacity, maxCapacity

\* A Reset clears the array and brings the length back to the configured one; it
\* never allocates, since the length was never below it.
LEMMA ResetClears ==
  ASSUME SliceInv, at # "new", Reset
  PROVE stale' = {} /\ len' = length /\ cap' = cap
  BY OptionTypes DEF SliceInv, SliceShape, CapacityKept, Reset

\* A new array has at least the length and no values in it.
LEMMA FreshIsClean ==
  ASSUME o \in Options, Fresh(minCapacity)
  PROVE /\ stale' = {} /\ len' = length /\ len' \in Nat /\ cap' \in Nat
        /\ length <= cap' /\ cap' = AtLeast(length, minCapacity)
  BY OptionTypes DEF Fresh, AtLeast

\* SliceInv holds initially.
LEMMA SliceInvInit == Init => SliceInv
  BY DEF Init, SliceInv, SliceShape, CapacityKept, PooledHoldsNothing, Indices

\* Every operation on the wrapper keeps SliceInv.
LEMMA SliceInvStep == SliceInv /\ [Next]_vars => SliceInv'
  <1> SUFFICES ASSUME SliceInv, [Next]_vars PROVE SliceInv'
    OBVIOUS
  <1> USE DEF SliceInv, SliceShape, CapacityKept, PooledHoldsNothing,
              length, minCapacity, maxCapacity
  <1>0. o \in Options /\ length \in Nat /\ minCapacity \in Nat /\ maxCapacity \in Nat
    BY OptionTypes
  <1>1. CASE New
    <2>1. o' = o /\ asked' = asked /\ at' = "pool" /\ Fresh(minCapacity)
      BY <1>1 DEF New
    <2>2. QED
      BY <2>1, <1>0, FreshIsClean DEF AtLeast
  <1>2. CASE Borrow
    BY <1>2, <1>0, ResetClears DEF Borrow
  <1>3. CASE ResetByBorrower
    BY <1>3, <1>0, ResetClears DEF ResetByBorrower
  <1>4. CASE Redeem
    <2>1. o' = o /\ asked' = 0 /\ at' = "pool" /\ at = "out"
      BY <1>4 DEF Redeem
    <2>2. CASE Oversized
      BY <2>1, <2>2, <1>4, <1>0, FreshIsClean DEF Redeem, AtLeast
    <2>3. CASE ~Oversized
      <3>1. stale' = {} /\ len' = length /\ cap' = cap
        BY <2>1, <2>3, <1>4, ResetClears DEF Redeem
      <3>2. maxCapacity > 0 => cap <= maxCapacity
        BY <2>3, <1>0 DEF Oversized
      <3>3. QED
        BY <2>1, <3>1, <3>2, <1>0 DEF AtLeast
    <2>4. QED
      BY <2>2, <2>3
  <1>5. CASE Drop
    BY <1>5 DEF Drop
  <1>6. CASE Clip
    BY <1>6, <1>0 DEF Clip
  <1>7. ASSUME NEW n \in Sizes, BorrowWithSize(n) PROVE SliceInv'
    <2>1. n \in Nat /\ AtLeast(length, cap) = cap
      BY <1>7, <1>0, SliceAssumption DEF BorrowWithSize, AtLeast
    <2>2. /\ o' = o /\ at' = "out" /\ len' = length /\ asked' = n
          /\ stale' = stale \ Indices(len)
      BY <1>7 DEF BorrowWithSize
    <2>3. cap' \in Nat /\ length <= cap' /\ cap' - length >= n
      BY <1>7, <1>0, <2>1, SliceAssumption DEF BorrowWithSize
    <2>4. QED
      BY <2>1, <2>2, <2>3, <1>0
  <1>8. ASSUME NEW n \in Sizes, Grow(n) PROVE SliceInv'
    <2>1. n \in Nat
      BY SliceAssumption
    <2>2. o' = o /\ at' = at /\ at = "out" /\ len' = len /\ stale' = stale /\ asked' = asked
      BY <1>8 DEF Grow
    <2>3. cap' \in Nat /\ cap <= cap'
      BY <1>8, <2>1, SliceAssumption DEF Grow, Room
    <2>4. QED
      BY <2>2, <2>3, <1>0
  <1>9. ASSUME NEW n \in Sizes, NEW w \in SUBSET (len .. len + n - 1), Append(n, w)
        PROVE SliceInv'
    <2>1. n \in Nat
      BY SliceAssumption
    <2>2. o' = o /\ at' = at /\ at = "out" /\ len' = len + n /\ asked' = asked
      BY <1>9 DEF Append
    <2>3. cap' \in Nat /\ cap <= cap' /\ len + n <= cap'
      BY <1>9, <2>1, SliceAssumption DEF Append
    <2>4. stale' \subseteq stale \cup w
      BY <1>9 DEF Append
    <2>5. stale' \subseteq Indices(len + n)
      BY <2>1, <2>4 DEF Indices
    <2>6. QED
      BY <2>1, <2>2, <2>3, <2>5, <1>0
  <1>10. ASSUME NEW i \in Indices(len), Write(i) PROVE SliceInv'
    BY <1>10, <1>0 DEF Write, Indices
  <1>11. CASE UNCHANGED vars
    BY <1>11, <1>0 DEF vars
  <1>12. QED
    BY <1>1, <1>2, <1>3, <1>4, <1>5, <1>6, <1>7, <1>8, <1>9, <1>10, <1>11 DEF Next

\* The invariant holds at all times.
THEOREM SliceSafe == Spec => []SliceInv
  BY SliceInvInit, SliceInvStep, PTL DEF Spec

\* Between loans no cell of the array keeps a value, whatever a borrower appended,
\* wrote, grew, clipped or reset before it gave the slice back.
THEOREM NothingLeftBehind == Spec => []PooledHoldsNothing
  <1>1. SliceInv => PooledHoldsNothing
    BY DEF SliceInv
  <1>2. QED
    BY <1>1, SliceSafe, PTL

\* Capacities stay within the cap between loans, with the room asked for during
\* them, and never below the length.
THEOREM CapacityAlwaysKept == Spec => []CapacityKept
  <1>1. SliceInv => CapacityKept
    BY DEF SliceInv
  <1>2. QED
    BY <1>1, SliceSafe, PTL

-----------------------------------------------------------------------------
(* The process-wide pools *)

\* The tables of the pools, of which what is known of a single object can change
\* without a word on the others.
SharedTypes ==
  /\ place \in [Objects -> {"none", "pool", "lent"}]
  /\ big \in [Objects -> BOOLEAN] /\ holds \in [Objects -> BOOLEAN]

SharedInv == SharedTypes /\ IdleIsLight

\* The process-wide pools do not disturb the pool of slices beside them.
LEMMA SliceAlone == SSpec => Spec
  <1>1. SInit => Init
    BY DEF SInit
  <1>2. [SNext]_svars => [Next]_vars
    BY DEF SNext, svars
  <1>3. QED
    BY <1>1, <1>2, PTL DEF SSpec, Spec

\* A borrow leaves what idles as it is.
LEMMA BorrowKeeps ==
  ASSUME SharedInv, NEW x \in Objects, NEW after \in BOOLEAN, BorrowObject(x, after)
  PROVE SharedInv'
  BY SharedAssumption
  DEF SharedInv, SharedTypes, IdleIsLight, BorrowObject, Objects

\* A redeem of an object that holds nothing any more, and is not oversized if it
\* goes where that matters.
LEMMA RedeemKeeps ==
  ASSUME SharedInv, NEW x \in Objects, x \in Buffers => ~big[x], RedeemObject(x, FALSE)
  PROVE SharedInv'
  BY SharedAssumption
  DEF SharedInv, SharedTypes, IdleIsLight, RedeemObject, Objects

\* Buffers are Resettable.
LEMMA BuffersCleared ==
  ASSUME NEW x \in Buffers \cup RBuffers
  PROVE Cleared(x) = FALSE
  BY SharedAssumption DEF Cleared

\* Every step keeps what idles light.
LEMMA SharedInvStep == SharedInv /\ [SNext]_svars => SharedInv'
  <1> SUFFICES ASSUME SharedInv, [SNext]_svars PROVE SharedInv'
    OBVIOUS
  <1>1. CASE UNCHANGED buffersVars
    BY <1>1 DEF SharedInv, SharedTypes, IdleIsLight, buffersVars
  <1>2. ASSUME NEW b \in Objects, BorrowBuffer(b) \/ BorrowBufferWithRedeem(b)
        PROVE SharedInv'
    BY <1>2, BorrowKeeps, BuffersCleared DEF BorrowBuffer, BorrowBufferWithRedeem
  <1>3. ASSUME NEW b \in Objects, RedeemClosure(b) PROVE SharedInv'
    <2>1. b \notin Buffers
      BY <1>3, SharedAssumption DEF RedeemClosure
    <2>2. RedeemObject(b, FALSE)
      BY <1>3, BuffersCleared DEF RedeemClosure
    <2>3. QED
      BY <2>1, <2>2, RedeemKeeps
  <1>4. ASSUME NEW b \in Objects, RedeemBuffer(b) PROVE SharedInv'
    <2>1. CASE big[b] /\ place' = [place EXCEPT ![b] = "none"] /\ UNCHANGED <<big, holds, tracked>>
      BY <2>1, SharedAssumption DEF SharedInv, SharedTypes, IdleIsLight, Objects
    <2>2. CASE ~big[b] /\ RedeemObject(b, Cleared(b))
      <3>1. RedeemObject(b, FALSE)
        BY <1>4, <2>2, BuffersCleared DEF RedeemBuffer
      <3>2. QED
        BY <2>2, <3>1, RedeemKeeps
    <2>3. QED
      BY <1>4, <2>1, <2>2 DEF RedeemBuffer
  <1>5. ASSUME NEW b \in Objects, BorrowReader(b) PROVE SharedInv'
    BY <1>5, BorrowKeeps DEF BorrowReader
  <1>6. ASSUME NEW b \in Objects, RedeemReader(b) PROVE SharedInv'
    BY <1>6, RedeemKeeps, SharedAssumption DEF RedeemReader
  <1>7. ASSUME NEW b \in Objects, WriteBuffer(b) PROVE SharedInv'
    BY <1>7, SharedAssumption DEF WriteBuffer, SharedInv, SharedTypes, IdleIsLight, Objects
  <1>8. ASSUME NEW b \in Objects, Collect(b) PROVE SharedInv'
    BY <1>8, SharedAssumption DEF Collect, SharedInv, SharedTypes, IdleIsLight, Objects
  <1>9. QED
    BY <1>1, <1>2, <1>3, <1>4, <1>5, <1>6, <1>7, <1>8
    DEF SNext, BufferStep, svars

\* However buffers grow and whoever keeps them, nothing that idles in the shared
\* pools holds data, and BorrowBuffer's pool keeps no oversized buffer.
THEOREM IdleStaysLight == SSpec => []IdleIsLight
  <1>1. SInit => SharedInv
    BY DEF SInit, SharedInv, SharedTypes, IdleIsLight, Objects
  <1>2. SharedInv => IdleIsLight
    BY DEF SharedInv
  <1>3. QED
    BY <1>1, <1>2, SharedInvStep, PTL DEF SSpec

\* Beside the other pools too, the pool of slices keeps nothing of its borrowers,
\* and its capacities within bounds.
THEOREM SharedSlicesSafe == SSpec => [](PooledHoldsNothing /\ CapacityKept)
  BY SliceAlone, NothingLeftBehind, CapacityAlwaysKept, PTL

=============================================================================
