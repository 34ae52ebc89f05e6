------------------------------ MODULE PoolSlice ------------------------------
(***************************************************************************)
(* The life of one Slice wrapper of a PoolSlice: built, borrowed, grown by *)
(* its borrower, redeemed, borrowed again.  Pools shows that a wrapper has *)
(* one borrower at a time, so the operations on it are sequential.         *)
(*                                                                         *)
(* Of the backing array only its length and capacity matter, and which of  *)
(* its cells hold a borrower's value (stale): the others are zero.         *)
(***************************************************************************)
EXTENDS Integers, FiniteSets

CONSTANTS
  Options,       \* the options pools are made with
  Sizes,         \* how much a borrower appends or asks for at a time
  MaxCap         \* bound on the capacities allocated

ASSUME SliceAssumption ==
  /\ MaxCap \in Nat /\ Sizes \subseteq Nat
  /\ Options \subseteq [length : 0 .. MaxCap, minCapacity : 0 .. MaxCap,
                       maxCapacity : Nat]

VARIABLES
  o,       \* the options of this pool: constant
  at,      \* "new" | "pool" | "out": never built, in the pool, borrowed
  len, cap, stale,
  asked    \* what the last borrow asked for beyond length (history)

slice == <<len, cap, stale>>
vars == <<o, at, len, cap, stale, asked>>

length == o.length
minCapacity == o.minCapacity
maxCapacity == o.maxCapacity   \* 0: no cap

AtLeast(a, b) == IF a >= b THEN a ELSE b

Indices(n) == 0 .. n - 1

Init ==
  /\ o \in Options
  /\ at = "new" /\ len = 0 /\ cap = 0 /\ stale = {} /\ asked = 0

\* make([]T, length, max(length, capacity))
Fresh(capacity) ==
  len' = length /\ cap' = AtLeast(length, capacity) /\ stale' = {}

\* The length restored first, then what is left of it zeroed.
ResetLengthFirst ==
  /\ stale' = stale \ Indices(length)
  /\ len' = length
  /\ IF length > cap THEN cap' \in length .. MaxCap ELSE UNCHANGED cap

\* Slice.Reset: zero the elements, then restore the length.
Reset ==
  /\ stale' = stale \ Indices(len)
  /\ len' = length
  /\ IF length > cap THEN cap' \in length .. MaxCap ELSE UNCHANGED cap

\* slices.Grow(inner, n): cells beyond len are kept when the array moves.
Room(n) ==
  IF n > cap - len THEN cap' \in len + n .. MaxCap ELSE UNCHANGED cap

\* The length compared, for the capacity.
OversizedByLength == maxCapacity > 0 /\ len > maxCapacity

\* resetWithCapacity only when the array has outgrown the cap.
Oversized == maxCapacity > 0 /\ cap > maxCapacity

-----------------------------------------------------------------------------
New ==
  /\ at = "new"
  /\ at' = "pool" /\ Fresh(minCapacity)
  /\ UNCHANGED <<o, asked>>

\* BorrowWithRedeem, which resets the wrapper.
Borrow ==
  /\ at = "pool"
  /\ at' = "out" /\ Reset
  /\ asked' = 0 /\ UNCHANGED o

\* BorrowWithSizeAndRedeem: the borrow, then Grow(n) on the reset wrapper.
BorrowWithSize(n) ==
  /\ at = "pool"
  /\ at' = "out"
  /\ stale' = stale \ Indices(len)
  /\ len' = length
  /\ LET c == AtLeast(length, cap) IN
     IF n > c - length THEN cap' \in length + n .. MaxCap ELSE cap' = c
  /\ asked' = n /\ UNCHANGED o

\* Append and Concat of n elements, those of w not zero.
Append(n, w) ==
  /\ at = "out"
  /\ len' = len + n
  /\ IF len + n <= cap
     THEN /\ UNCHANGED cap
          /\ stale' = (stale \ (len .. len + n - 1)) \cup w
     ELSE /\ cap' \in len + n .. MaxCap
          /\ stale' = (stale \cap Indices(len)) \cup w
  /\ UNCHANGED <<o, at, asked>>

Grow(n) ==
  /\ at = "out" /\ Room(n)
  /\ UNCHANGED <<o, at, len, stale, asked>>

Clip ==
  /\ at = "out"
  /\ cap' = len /\ stale' = stale \cap Indices(len)
  /\ UNCHANGED <<o, at, len>> /\ asked' = 0

ResetByBorrower ==
  /\ at = "out" /\ Reset
  /\ UNCHANGED <<o, at, asked>>

\* The borrower writes an element of the slice it was given.
Write(i) ==
  /\ at = "out"
  /\ stale' = stale \cup {i}
  /\ UNCHANGED <<o, at, len, cap, asked>>

Redeem ==
  /\ at = "out"
  /\ at' = "pool"
  /\ IF Oversized THEN Fresh(minCapacity) ELSE Reset
  /\ asked' = 0 /\ UNCHANGED o

\* The garbage collector takes the wrapper out of the sync.Pool.
Drop ==
  /\ at = "pool"
  /\ at' = "new" /\ len' = 0 /\ cap' = 0 /\ stale' = {} /\ asked' = 0 /\ UNCHANGED o

Next ==
  \/ New \/ Borrow \/ Clip \/ ResetByBorrower \/ Redeem \/ Drop
  \/ \E n \in Sizes : BorrowWithSize(n) \/ Grow(n)
  \/ \E n \in Sizes : \E w \in SUBSET (len .. len + n - 1) : Append(n, w)
  \/ \E i \in Indices(len) : Write(i)

Spec == Init /\ [][Next]_vars

-----------------------------------------------------------------------------
(* Properties *)

\* Between loans no cell of the array, not even beyond its length, keeps a
\* value of a borrower: nothing is kept alive by the pool, nothing leaks to the
\* next borrower.  It needs stale cells to stay below len while on loan.
PooledHoldsNothing == at = "pool" => stale = {}

\* The capacity is what it should be at each moment, across any sequence of
\* loans: at least the length, which is at least the configured one; between
\* loans within the cap of the pool, whatever borrowers did (unless it was
\* configured to allocate more to begin with); and during a loan with the room
\* its borrower asked for beyond the configured length, until it clips it.
CapacityKept ==
  /\ at # "new" => length <= len /\ len <= cap
  /\ at = "pool" /\ maxCapacity > 0
       => cap <= AtLeast(maxCapacity, AtLeast(length, minCapacity))
  /\ at = "out" => cap - length >= asked

=============================================================================
