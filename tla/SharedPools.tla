----------------------------- MODULE SharedPools -----------------------------
(***************************************************************************)
(* The process-wide pools of package pools/shared: Bytes (a PoolSlice: the *)
(* module extended), buffers (a Pool), redeemBuffers (a PoolRedeemable)    *)
(* and readers (a Pool), in the debug build.  Each borrow and redeem is    *)
(* one step here: Pools has their interleavings.                           *)
(*                                                                         *)
(* A capacity is either within maxSharedCapacity or beyond it (big).       *)
(***************************************************************************)
EXTENDS PoolSlice

CONSTANTS Buffers,   \* the objects of the pool buffers
          RBuffers,  \* of redeemBuffers
          Readers    \* of readers

\* Pools that share no object: each makes its own.
ASSUME SharedAssumption ==
  Buffers \cap RBuffers = {} /\ Readers \cap (Buffers \cup RBuffers) = {}

Objects == Buffers \cup RBuffers \cup Readers

VARIABLES
  place,    \* "none" (not built, or collected) | "pool" | "lent"
  big,      \* the object's buffer has outgrown maxSharedCapacity
  holds,    \* a reader's reference to the data it reads, or a buffer's content
  tracked   \* the tracker has the object as borrowed

buffersVars == <<place, big, holds, tracked>>
svars == <<vars, buffersVars>>

SInit ==
  /\ Init
  /\ place = [x \in Objects |-> "none"]
  /\ big = [x \in Objects |-> FALSE]
  /\ holds = [x \in Objects |-> FALSE]
  /\ tracked = [x \in Objects |-> FALSE]

\* bytes.Buffer is Resettable, and keeps its capacity when reset;
\* bytes.Reader is not.
Cleared(x) == IF x \in Readers THEN holds[x] ELSE FALSE

\* Pool.Borrow and PoolRedeemable.BorrowWithRedeem; after is what the object
\* holds when the caller gets it.  The tracker keeps every pointer it has an
\* entry for, so that a lost object is not allocated again.
BorrowObject(x, after) ==
  /\ place[x] \in {"none", "pool"}
  /\ ~tracked[x]
  /\ place' = [place EXCEPT ![x] = "lent"]
  /\ big' = [big EXCEPT ![x] = place[x] = "pool" /\ @]
  /\ holds' = [holds EXCEPT ![x] = after]
  /\ tracked' = [tracked EXCEPT ![x] = TRUE]

\* Pool.Redeem and the closure of a PoolRedeemable.
RedeemObject(x, after) ==
  /\ place[x] = "lent"
  /\ tracked' = [tracked EXCEPT ![x] = FALSE]
  /\ holds' = [holds EXCEPT ![x] = after]
  /\ place' = [place EXCEPT ![x] = "pool"]
  /\ UNCHANGED big

BorrowBuffer(b) == b \in Buffers /\ BorrowObject(b, Cleared(b))

BorrowBufferWithRedeem(b) == b \in RBuffers /\ BorrowObject(b, Cleared(b))

\* The closure of BorrowBufferWithRedeem.
RedeemClosure(b) == b \in RBuffers /\ RedeemObject(b, Cleared(b))

\* The capacity not looked at.
RedeemBufferUnchecked(b) == b \in Buffers /\ RedeemObject(b, Cleared(b))

\* An oversized buffer is left for the garbage collector, and the pool is
\* not told.
RedeemBuffer(b) ==
  /\ b \in Buffers
  /\ \/ /\ big[b] /\ place[b] = "lent"
        /\ place' = [place EXCEPT ![b] = "none"]
        /\ UNCHANGED <<big, holds, tracked>>
     \/ /\ ~big[b]
        /\ RedeemObject(b, Cleared(b))

\* r.Reset(b) after the borrow.
BorrowReader(r) == r \in Readers /\ BorrowObject(r, TRUE)

\* r.Reset(nil) before the redeem.
RedeemReader(r) == r \in Readers /\ RedeemObject(r, FALSE)

\* A borrower writes to its buffer, which may grow.
WriteBuffer(b) ==
  /\ b \in Buffers \cup RBuffers /\ place[b] = "lent"
  /\ holds' = [holds EXCEPT ![b] = TRUE]
  /\ \E g \in BOOLEAN : big' = [big EXCEPT ![b] = @ \/ g]
  /\ UNCHANGED <<place, tracked>>

\* The garbage collector empties the sync.Pool.
Collect(x) ==
  /\ place[x] = "pool"
  /\ place' = [place EXCEPT ![x] = "none"]
  /\ big' = [big EXCEPT ![x] = FALSE] /\ holds' = [holds EXCEPT ![x] = FALSE]
  /\ UNCHANGED tracked

BufferStep ==
  \E b \in Objects :
    \/ BorrowBuffer(b) \/ RedeemBuffer(b)
    \/ BorrowBufferWithRedeem(b) \/ RedeemClosure(b)
    \/ BorrowReader(b) \/ RedeemReader(b)
    \/ WriteBuffer(b) \/ Collect(b)

SNext ==
  \/ Next /\ UNCHANGED buffersVars
  \/ BufferStep /\ UNCHANGED vars

SSpec == SInit /\ [][SNext]_svars

-----------------------------------------------------------------------------
\* What idles in the shared pools is light: a reader keeps no data alive, a
\* buffer has no content, and the pool behind BorrowBuffer keeps no buffer
\* beyond 64 KiB, however it grew and however often it was borrowed.
IdleIsLight ==
  /\ \A x \in Objects : place[x] = "pool" => ~holds[x]
  /\ \A b \in Buffers : place[b] = "pool" => ~big[b]

=============================================================================
