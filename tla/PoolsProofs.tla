----------------------------- MODULE PoolsProofs -----------------------------
(***************************************************************************)
(* Proofs about Pools, for every set of goroutines and objects: the types, *)
(* and the wrappers, which are pooled once at most whatever clients do.    *)
(* Then the loans: in the modes that keep them exclusive, for any number   *)
(* of them, nobody shares an object, what is pooled is clean, and the      *)
(* tracker is right.  Last, each promise that follows from these, and that *)
(* the pools implement ExclusiveLoans.                                     *)
(***************************************************************************)
EXTENDS Pools, TLAPS

-----------------------------------------------------------------------------
(* Type correctness *)

LEMMA StartType ==
  ASSUME TypeOK, NEW p \in Procs, NEW s \in Objects, Start(p, s)
  PROVE  /\ issued' \in Nat
         /\ current' \in [Objects -> Nat]
         /\ pc' \in [Procs -> Steps]
         /\ arg' \in [Procs -> Handles \cup {NoHandle}]
         /\ \A q \in Procs : pc'[q] # "idle" => arg'[q] \in Handles
  <1>1. [slot |-> s, id |-> issued + 1, gen |-> 0] \in Handles
    BY DEF TypeOK, Handles
  <1>2. QED
    BY <1>1 DEF TypeOK, Start, Goto, Steps

\* Every variable keeps its type, in every mode.
THEOREM TypeCorrect == Spec => []TypeOK
  <1>1. Init => TypeOK
    BY DEF Init, TypeOK, NoEntry, Steps
  <1>2. TypeOK /\ [Next]_vars => TypeOK'
    <2> SUFFICES ASSUME TypeOK, [Next]_vars PROVE TypeOK'
      OBVIOUS
    <2>1. ASSUME NEW p \in Procs, NEW s \in Objects, GetPooled(p, s)
          PROVE TypeOK'
      BY <2>1, StartType DEF TypeOK, GetPooled, tracker, clients
    <2>2. ASSUME NEW p \in Procs, NEW s \in Objects, GetNew(p, s)
          PROVE TypeOK'
      BY <2>2, StartType DEF TypeOK, GetNew, tracker, clients
    <2>3. ASSUME NEW p \in Procs, StoreBorrowed(p) PROVE TypeOK'
      BY <2>3 DEF TypeOK, StoreBorrowed, Goto, Steps, tracker, clients, history
    <2>4. ASSUME NEW p \in Procs, ResetOnBorrow(p) PROVE TypeOK'
      BY <2>4 DEF TypeOK, ResetOnBorrow, Goto, Steps, tracker, clients, history
    <2>5. ASSUME NEW p \in Procs, NEW g \in Nat, pc[p] = "clean", Deliver(p, g)
          PROVE /\ held' \in [Procs -> SUBSET Handles]
                /\ pc' \in [Procs -> Steps]
                /\ arg' \in [Procs -> Handles \cup {NoHandle}]
                /\ \A q \in Procs : pc'[q] # "idle" => arg'[q] \in Handles
      <3>1. [arg[p] EXCEPT !.gen = g] \in Handles
        BY <2>5 DEF TypeOK, Handles
      <3>2. QED
        BY <2>5, <3>1 DEF TypeOK, Deliver, Finish, Goto, Steps
    <2>6. ASSUME NEW p \in Procs, HandOut(p) PROVE TypeOK'
      BY <2>6, <2>5 DEF TypeOK, HandOut, tracker, history
    <2>7. ASSUME NEW p \in Procs, MarkBorrow(p) PROVE TypeOK'
      <3>1. CASE CheckedOut(arg[p].slot)
        BY <3>1, <2>7 DEF TypeOK, MarkBorrow, Panic, Goto, Steps, tracker, history
      <3>2. CASE ~CheckedOut(arg[p].slot)
        <4>1. nextGen + 1 \in Nat /\ pc[p] = "clean" /\ Deliver(p, nextGen + 1)
          BY <3>2, <2>7 DEF TypeOK, MarkBorrow
        <4>2. entries' \in [Objects -> [status : {"none", "borrowed", "redeemed"},
                                        gen : Nat]]
          BY <3>2, <2>7, <4>1 DEF TypeOK, MarkBorrow
        <4>3. QED
          BY <3>2, <2>7, <2>5, <4>1, <4>2 DEF TypeOK, MarkBorrow, history
      <3>3. QED
        BY <3>1, <3>2
    <2>8. ASSUME NEW p \in Procs, NEW h \in held[p], CallRedeem(p, h)
          PROVE TypeOK'
      BY <2>8 DEF TypeOK, CallRedeem, Goto, Steps, tracker, history
    <2>9. ASSUME NEW p \in Procs,
                 NEW h \in spent \cup [slot : Foreign, id : {0}, gen : {0}],
                 CallAgain(p, h)
          PROVE TypeOK'
      <3>1. h \in Handles
        BY DEF TypeOK, Handles, Objects
      <3>2. QED
        BY <2>9, <3>1 DEF TypeOK, CallAgain, Goto, Steps, tracker, history, clients
    <2>10. ASSUME NEW p \in Procs, MarkRedeem(p) PROVE TypeOK'
      <3>1. arg[p].slot \in Objects /\ entries[arg[p].slot].gen \in Nat
        BY <2>10 DEF TypeOK, MarkRedeem, Handles
      <3>2. [entries[arg[p].slot] EXCEPT !.status = "redeemed"]
              \in [status : {"none", "borrowed", "redeemed"}, gen : Nat]
        BY <3>1 DEF TypeOK
      <3>3. entries' \in [Objects -> [status : {"none", "borrowed", "redeemed"},
                                      gen : Nat]]
        BY <2>10, <3>1, <3>2 DEF TypeOK, MarkRedeem
      <3>4. QED
        BY <2>10, <3>3
        DEF TypeOK, MarkRedeem, Panic, Goto, Steps, history, clients
    <2>11. ASSUME NEW p \in Procs, CompareAndSwap(p) PROVE TypeOK'
      BY <2>11 DEF TypeOK, CompareAndSwap, Redeeming, Panic, Goto, Steps,
                   tracker, history, clients
    <2>12. ASSUME NEW p \in Procs, ResetOnRedeem(p) PROVE TypeOK'
      BY <2>12 DEF TypeOK, ResetOnRedeem, Redeeming, Goto, Steps,
                   tracker, history, clients
    <2>13. ASSUME NEW p \in Procs, Put(p) PROVE TypeOK'
      <3>1. pooled' \in [Objects -> Nat]
        <4>1. arg[p].slot \in Objects
          BY <2>13 DEF TypeOK, Put, Handles
        <4>2. pooled[arg[p].slot] + 1 \in Nat
          BY <4>1 DEF TypeOK
        <4>3. QED
          BY <2>13, <4>1, <4>2 DEF TypeOK, Put
      <3>2. QED
        BY <2>13, <3>1
        DEF TypeOK, Put, Finish, Goto, Steps, tracker, history, clients
    <2>14. ASSUME NEW p \in Procs, Recover(p) PROVE TypeOK'
      BY <2>14 DEF TypeOK, Recover, Finish, Goto, Steps, tracker, history, clients
    <2>15. ASSUME NEW p \in Procs, NEW h \in held[p], Use(p, h) PROVE TypeOK'
      BY <2>15 DEF TypeOK, Use, tracker, history, clients
    <2>16. ASSUME NEW s \in Objects, Drop(s) PROVE TypeOK'
      BY <2>16 DEF TypeOK, Drop, tracker, history, clients
    <2>17. CASE ResetTracking
      BY <2>17 DEF TypeOK, ResetTracking, NoEntry, history, clients
    <2>18. CASE UNCHANGED vars
      BY <2>18 DEF TypeOK, vars
    <2>19. QED
      BY <2>1, <2>2, <2>3, <2>4, <2>6, <2>7, <2>8, <2>9, <2>10, <2>11, <2>12,
         <2>13, <2>14, <2>15, <2>16, <2>17, <2>18
      DEF Next, Borrowing, Redeemed
  <1>3. QED
    BY <1>1, <1>2, PTL DEF Spec

-----------------------------------------------------------------------------
(* The guard of PoolRedeemable: one token per wrapper *)

\* p has taken s from the pool and not armed it yet, or has won it back.
InHand(p, s) == pc[p] \in {"got", "won", "returning"} /\ arg[p].slot = s

\* Each wrapper has at most one token.  It lies in the pool, or is in the hand
\* of one goroutine, or is the wrapper's "borrowed" state, which a successful
\* CompareAndSwap takes.  PooledOnce alone is not inductive: it says nothing
\* of the wrappers that are out, which come back.
TokenInv ==
  /\ \A s \in Objects : pooled[s] \in {0, 1}
  /\ \A s \in Objects : pooled[s] = 1 =>
       state[s] = "idle" /\ \A p \in Procs : ~InHand(p, s)
  /\ \A s \in Objects, p \in Procs : InHand(p, s) => state[s] = "idle"
  /\ \A s \in Objects, p, q \in Procs : InHand(p, s) /\ InHand(q, s) => p = q
  /\ \A s \in Objects \ made :
       pooled[s] = 0 /\ state[s] = "idle" /\ \A p \in Procs : ~InHand(p, s)

\* Steps that move no token.
LEMMA TokenUnmoved ==
  ASSUME TokenInv, UNCHANGED <<pooled, made, state>>,
         \A p \in Procs, s \in Objects : InHand(p, s)' => InHand(p, s)
  PROVE  TokenInv'
  BY DEF TokenInv

LEMMA TokenStep == ASSUME Guarded PROVE TypeOK /\ TokenInv /\ [Next]_vars => TokenInv'
  <1> SUFFICES ASSUME TypeOK, TokenInv, [Next]_vars PROVE TokenInv'
    OBVIOUS
  <1>1. ASSUME NEW p \in Procs, NEW s \in Objects, GetPooled(p, s)
        PROVE TokenInv'
    BY <1>1 DEF TypeOK, TokenInv, InHand, GetPooled, Start, Goto
  <1>2. ASSUME NEW p \in Procs, NEW s \in Objects, GetNew(p, s)
        PROVE TokenInv'
    BY <1>2 DEF TypeOK, TokenInv, InHand, GetNew, Start, Goto
  <1>3. ASSUME NEW p \in Procs, StoreBorrowed(p) PROVE TokenInv'
    <2>1. PICK s \in Objects : s = arg[p].slot
      BY <1>3 DEF TypeOK, StoreBorrowed, Handles
    <2>2. InHand(p, s)
      BY <1>3, <2>1 DEF StoreBorrowed, InHand
    <2>3. pooled[s] = 0 /\ s \in made
      BY <2>2 DEF TokenInv
    <2>4. \A t \in Objects, q \in Procs :
            InHand(q, t)' => q # p /\ InHand(q, t)
      BY <1>3 DEF TypeOK, StoreBorrowed, Goto, InHand
    <2>5. \A q \in Procs : ~InHand(q, s)'
      BY <2>2, <2>4 DEF TokenInv
    <2>6. /\ UNCHANGED <<pooled, made>>
          /\ \A t \in Objects : t # s => state'[t] = state[t]
      BY <1>3, <2>1 DEF TypeOK, StoreBorrowed
    <2>7. QED
      BY <2>3, <2>4, <2>5, <2>6 DEF TokenInv
  <1>4. ASSUME NEW p \in Procs, CompareAndSwap(p) PROVE TokenInv'
    <2>1. PICK s \in Objects : s = arg[p].slot
      BY <1>4 DEF TypeOK, CompareAndSwap, Redeeming, Handles
    <2>2. CASE state[s] = "borrowed"
      <3>1. pooled[s] = 0 /\ s \in made /\ \A q \in Procs : ~InHand(q, s)
        BY <2>2 DEF TokenInv
      <3>2. /\ UNCHANGED <<pooled, made>>
            /\ \A t \in Objects :
                 state'[t] = IF t = s THEN "idle" ELSE state[t]
        BY <1>4, <2>1, <2>2 DEF TypeOK, CompareAndSwap
      <3>3. \A t \in Objects, q \in Procs :
              InHand(q, t)' => (q = p /\ t = s) \/ (q # p /\ InHand(q, t))
        BY <1>4, <2>1, <2>2 DEF TypeOK, CompareAndSwap, Goto, InHand
      <3>4. \A q \in Procs : InHand(q, s)' => q = p
        BY <3>1, <3>3
      <3>5. \A t \in Objects, q \in Procs :
              t # s /\ InHand(q, t)' => InHand(q, t)
        BY <3>3
      <3>6. QED
        BY <3>1, <3>2, <3>4, <3>5 DEF TokenInv
    <2>3. CASE state[s] # "borrowed"
      BY <1>4, <2>1, <2>3, TokenUnmoved
      DEF TypeOK, InHand, CompareAndSwap, Panic, Goto
    <2>4. QED
      BY <2>2, <2>3
  <1>5. ASSUME NEW p \in Procs, Put(p) PROVE TokenInv'
    <2>1. PICK s \in Objects : s = arg[p].slot
      BY <1>5 DEF TypeOK, Put, Handles
    <2>2. InHand(p, s)
      BY <1>5, <2>1 DEF Put, InHand
    <2>3. pooled[s] = 0 /\ state[s] = "idle" /\ s \in made
      BY <2>2 DEF TokenInv
    <2>4. \A t \in Objects, q \in Procs :
            InHand(q, t)' => q # p /\ InHand(q, t)
      BY <1>5 DEF TypeOK, Put, Finish, Goto, InHand
    <2>5. \A q \in Procs : ~InHand(q, s)'
      BY <2>2, <2>4 DEF TokenInv
    <2>6. /\ UNCHANGED <<made, state>>
          /\ \A t \in Objects :
               pooled'[t] = IF t = s THEN 1 ELSE pooled[t]
      BY <1>5, <2>1, <2>3 DEF TypeOK, Put
    <2>7. QED
      BY <2>3, <2>4, <2>5, <2>6 DEF TokenInv
  <1>6. ASSUME NEW s \in Objects, Drop(s) PROVE TokenInv'
    BY <1>6 DEF TypeOK, TokenInv, InHand, Drop
  <1>7. ASSUME NEW p \in Procs, ResetOnBorrow(p) \/ ResetOnRedeem(p)
        PROVE TokenInv'
    BY <1>7, TokenUnmoved DEF TypeOK, InHand, ResetOnBorrow, ResetOnRedeem, Goto
  <1>8. ASSUME NEW p \in Procs, HandOut(p) \/ Recover(p) PROVE TokenInv'
    BY <1>8, TokenUnmoved DEF TypeOK, InHand, HandOut, Deliver, Recover, Finish, Goto
  <1>9. ASSUME NEW p \in Procs, MarkBorrow(p) PROVE TokenInv'
    BY <1>9, TokenUnmoved
    DEF TypeOK, InHand, MarkBorrow, Deliver, Finish, Panic, Goto
  <1>10. ASSUME NEW p \in Procs, MarkRedeem(p) PROVE TokenInv'
    BY <1>10, TokenUnmoved DEF TypeOK, InHand, MarkRedeem, Panic, Goto
  <1>11. ASSUME NEW p \in Procs, NEW h \in held[p], CallRedeem(p, h)
         PROVE TokenInv'
    BY <1>11, TokenUnmoved DEF TypeOK, InHand, CallRedeem, Goto
  <1>12. ASSUME NEW p \in Procs,
                NEW h \in spent \cup [slot : Foreign, id : {0}, gen : {0}],
                CallAgain(p, h)
         PROVE TokenInv'
    BY <1>12, TokenUnmoved DEF TypeOK, InHand, CallAgain, Goto
  <1>13. ASSUME NEW p \in Procs, NEW h \in held[p], Use(p, h) PROVE TokenInv'
    BY <1>13, TokenUnmoved DEF InHand, Use
  <1>14. CASE ResetTracking
    BY <1>14, TokenUnmoved DEF InHand, ResetTracking
  <1>15. CASE UNCHANGED vars
    BY <1>15, TokenUnmoved DEF InHand, vars
  <1>16. QED
    BY <1>1, <1>2, <1>3, <1>4, <1>5, <1>6, <1>7, <1>8, <1>9, <1>10, <1>11,
       <1>12, <1>13, <1>14, <1>15
    DEF Next, Borrowing, Redeemed

LEMMA ModeFixed == [Next]_vars => UNCHANGED mode
  BY DEF Next, Borrowing, Redeemed, GetPooled, GetNew, StoreBorrowed,
         ResetOnBorrow, HandOut, MarkBorrow, CallRedeem, CallAgain, MarkRedeem,
         CompareAndSwap, ResetOnRedeem, Put, Use, Recover, Drop, ResetTracking,
         vars

\* A redeemable wrapper is never in the sync.Pool twice, nor in the pool while
\* a redeem is about to put it there, however often its closures are called and
\* however the calls interleave.
THEOREM NeverPooledTwice == Spec => []PooledOnce
  <1> DEFINE Inv == Guarded => TokenInv
  <1>1. Init => Inv
    BY DEF Init, TokenInv, InHand
  <1>2. TypeOK /\ Inv /\ [Next]_vars => Inv'
    <2> SUFFICES ASSUME TypeOK, Inv, [Next]_vars, Guarded' PROVE TokenInv'
      OBVIOUS
    <2>1. Guarded
      BY ModeFixed DEF Guarded
    <2>2. QED
      BY <2>1, TokenStep
  <1>3. Inv => PooledOnce
    BY DEF TokenInv, PooledOnce, Once, InHand, Has, Returning
  <1>4. QED
    BY <1>1, <1>2, <1>3, TypeCorrect, PTL DEF Spec

-----------------------------------------------------------------------------
USE DEF Guarded, Tracking, Sloppy, Resets

(* The invariant of the loans *)

\* The steps at which a goroutine has an object to itself: from its Get to the
\* return to the client, and from the call that ends its loan to the Put.  What a
\* sloppy client calls may be a closure of nothing.
Moving == {"got", "stored", "clean", "marked", "won", "returning"}
            \cup (IF Sloppy THEN {} ELSE {"calling"})

Moves(p, s) == pc[p] \in Moving /\ arg[p].slot = s

HeldBy(p, s) == \E h \in held[p] : h.slot = s

\* An object lies in the pool, or is moved by one goroutine, or is lent once: each
\* excludes the others.  What was never made is nowhere.
Exclusive ==
  /\ \A s \in Objects : pooled[s] \in {0, 1}
  /\ \A s \in Objects, p \in Procs : pooled[s] = 1 => ~Moves(p, s) /\ ~HeldBy(p, s)
  /\ \A s \in Objects, p, q \in Procs : Moves(p, s) => ~HeldBy(q, s)
  /\ \A s \in Objects, p, q \in Procs : Moves(p, s) /\ Moves(q, s) => p = q
  /\ \A p, q \in Procs : \A h \in held[p], k \in held[q] :
       h.slot = k.slot => p = q /\ h = k
  /\ \A s \in Objects \ made :
       pooled[s] = 0 /\ \A p \in Procs : ~Moves(p, s) /\ ~HeldBy(p, s)

\* What is moved or lent is the last loan of the object, and what was reset stays
\* clean until it is lent again.
Current ==
  /\ \A p \in Procs, s \in Objects : Moves(p, s) => arg[p].id = current[s]
  /\ \A p \in Procs : \A h \in held[p] : h.id = current[h.slot]
  /\ \A s \in Objects : pooled[s] = 1 => ~dirty[s]
  /\ \A p \in Procs : pc[p] = "returning" => ~dirty[arg[p].slot]

\* The tracker has what is lent, by its generation, and nothing else.
Stamped == Tracking /\ ~Resets =>
  /\ \A p \in Procs : \A h \in held[p] :
       entries[h.slot].status = "borrowed" /\ entries[h.slot].gen = h.gen
  /\ \A s \in Objects : pooled[s] = 1 \/ s \notin made => ~CheckedOut(s)
  /\ \A p \in Procs, s \in Objects :
       Moves(p, s) /\ pc[p] # "calling" => ~CheckedOut(s)

\* Generations tell live handles from one another, and from those that were spent.
Generations == Sloppy =>
  /\ \A p \in Procs : \A h \in held[p] : h.gen <= nextGen
  /\ \A k \in spent : k.gen <= nextGen
  /\ \A p, q \in Procs : \A h \in held[p], k \in held[q] : h.gen = k.gen => h = k
  /\ \A p \in Procs : \A h \in held[p], k \in spent : h.gen # k.gen
  /\ \A p \in Procs : pc[p] = "calling" => arg[p] \in spent
  /\ \A k \in spent : CheckedOut(k.slot) /\ entries[k.slot].gen = k.gen
                        => k.id = current[k.slot]

\* NoSharing says nothing of what is on its way, which is what these add.
LoanInv == Exclusive /\ Current /\ Stamped /\ Generations

-----------------------------------------------------------------------------
(* What the steps do to loans *)

\* Only the tracker keeps sloppy clients from sharing.
LEMMA SloppyKept == Kept /\ Sloppy => Guarded /\ Tracking /\ ~Resets
  BY DEF Kept

\* A redeem that was let through moves its object.
LEMMA RedeemingMoves ==
  ASSUME Kept
  PROVE  Redeeming \in Moving /\ (Tracking => Redeeming # "calling")
  BY DEF Kept, Redeeming, Moving

\* Steps that lend nothing and take nothing: an object goes on with the goroutine
\* that moves it, or is lost, and it may be cleaned.
LEMMA Unmoved ==
  ASSUME TypeOK, Kept, LoanInv,
         UNCHANGED <<mode, made, entries, nextGen, held, spent, current, arg>>,
         \A s \in Objects : pooled'[s] = pooled[s] \/ pooled'[s] = 0,
         \A s \in Objects : dirty'[s] => dirty[s],
         \A q \in Procs :
           \/ pc'[q] = pc[q] \/ pc'[q] \in {"idle", "panicked"}
           \/ /\ pc[q] \in Moving /\ (Tracking => pc[q] # "calling")
              /\ pc'[q] \in Moving \ {"calling"}
              /\ pc'[q] = "returning" => ~dirty'[arg[q].slot]
  PROVE  LoanInv'
  <1>1. Moving' = Moving /\ "panicked" \notin Moving /\ "idle" \notin Moving
    BY DEF Moving
  <1>2. \A q \in Procs, s \in Objects : Moves(q, s)' => Moves(q, s)
    BY <1>1 DEF Moves
  <1>3. \A q \in Procs, s \in Objects : HeldBy(q, s)' <=> HeldBy(q, s)
    BY DEF HeldBy
  <1>4. Exclusive'
    BY <1>2, <1>3 DEF LoanInv, Exclusive
  <1>5. Current'
    <2>1. \A q \in Procs : pc'[q] = "returning" => ~dirty'[arg[q].slot]
      BY DEF LoanInv, Current, TypeOK, Handles
    <2>2. \A s \in Objects : pooled'[s] = 1 => ~dirty'[s]
      BY DEF LoanInv, Current
    <2>3. QED
      BY <1>2, <2>1, <2>2 DEF LoanInv, Current
  <1>6. Stamped'
    <2>1. Tracking => \A q \in Procs, s \in Objects :
            Moves(q, s)' /\ pc'[q] # "calling" => Moves(q, s) /\ pc[q] # "calling"
      BY <1>1, <1>2 DEF Moves
    <2>2. \A s \in Objects : CheckedOut(s)' <=> CheckedOut(s)
      BY DEF CheckedOut
    <2>3. QED
      BY <2>1, <2>2 DEF LoanInv, Stamped
  <1>7. Generations'
    BY DEF LoanInv, Generations, CheckedOut, Moving
  <1>8. QED
    BY <1>4, <1>5, <1>6, <1>7 DEF LoanInv

\* The handle that a borrow ends with.
LEMMA Delivered ==
  ASSUME TypeOK, NEW p \in Procs, NEW g \in Nat, pc[p] = "clean", Deliver(p, g)
  PROVE  /\ pc' = [pc EXCEPT ![p] = "idle"]
         /\ \A q \in Procs \ {p} : arg'[q] = arg[q] /\ held'[q] = held[q]
         /\ \E k \in Handles : /\ k.slot = arg[p].slot /\ k.id = arg[p].id /\ k.gen = g
                              /\ held'[p] = held[p] \cup {k}
  <1>1. [arg[p] EXCEPT !.gen = g] \in Handles
    BY DEF TypeOK, Handles
  <1>2. QED
    BY <1>1 DEF TypeOK, Handles, Deliver, Finish, Goto

\* What one goroutine moves goes to its client alone.
LEMMA DeliverKeeps ==
  ASSUME TypeOK, Kept, LoanInv, NEW p \in Procs, NEW g \in Nat, pc[p] = "clean", Deliver(p, g),
         UNCHANGED <<mode, pooled, made, dirty, current>>
  PROVE  Exclusive' /\ Current'
  <1>1. PICK k \in Handles : /\ k.slot = arg[p].slot /\ k.id = arg[p].id /\ k.gen = g
                            /\ held'[p] = held[p] \cup {k}
    BY Delivered
  <1>2. k.slot \in Objects /\ Moves(p, k.slot)
    BY <1>1 DEF Handles, Moves, Moving
  <1>3. \A q \in Procs, s \in Objects : Moves(q, s)' => q # p /\ Moves(q, s)
    BY Delivered DEF TypeOK, Moves, Moving
  <1>4. \A q \in Procs, s \in Objects :
          HeldBy(q, s)' <=> HeldBy(q, s) \/ (q = p /\ s = k.slot)
    BY <1>1, Delivered DEF LoanInv, HeldBy
  <1>5. /\ pooled[k.slot] = 0 /\ k.slot \in made /\ k.id = current[k.slot]
        /\ \A q \in Procs : ~HeldBy(q, k.slot) /\ (Moves(q, k.slot) => q = p)
    BY <1>1, <1>2 DEF LoanInv, Exclusive, Current
  <1>6. \A q, r \in Procs : \A h \in held'[q], j \in held'[r] :
          h.slot = j.slot => q = r /\ h = j
    <2>1. \A q \in Procs : \A h \in held'[q] :
            (h \in held[q] /\ h.slot # k.slot) \/ (q = p /\ h = k)
      BY <1>1, <1>5, Delivered DEF LoanInv, HeldBy
    <2>2. QED
      BY <2>1 DEF LoanInv, Exclusive
  <1>7. Exclusive'
    BY <1>3, <1>4, <1>5, <1>6 DEF LoanInv, Exclusive
  <1>8. Current'
    <2>1. \A q \in Procs : pc'[q] = "returning" => pc[q] = "returning" /\ arg'[q] = arg[q]
      BY Delivered DEF TypeOK
    <2>2. \A q \in Procs, s \in Objects : Moves(q, s)' => arg'[q] = arg[q]
      BY <1>3, Delivered
    <2>3. \A q \in Procs : \A h \in held'[q] : h \in held[q] \/ h = k
      BY <1>1, Delivered
    <2>4. QED
      BY <1>3, <1>5, <2>1, <2>2, <2>3 DEF LoanInv, Current
  <1>9. QED
    BY <1>7, <1>8

\* A redeem that the tracker lets through ends the loan of its own handle.
LEMMA MarkKeeps ==
  ASSUME TypeOK, Kept, LoanInv, NEW p \in Procs, MarkRedeem(p), ~Refused(arg[p])
  PROVE  Exclusive' /\ Current' /\ Stamped' /\ Generations'
  <1> DEFINE s == arg[p].slot
  <1>1. /\ s \in Objects /\ pc[p] = "calling" /\ Tracking /\ CheckedOut(s)
        /\ Guarded => entries[s].gen = arg[p].gen
    BY DEF TypeOK, MarkRedeem, Handles, Refused, StaleGen
  <1>2. /\ pc' = [pc EXCEPT ![p] = "marked"]
        /\ entries' = [entries EXCEPT ![s].status = "redeemed"]
        /\ UNCHANGED <<mode, pooled, made, dirty, nextGen, held, spent, current, arg>>
    BY DEF MarkRedeem, Goto, history, clients
  <1>3. /\ pooled[s] = 0 /\ s \in made /\ arg[p].id = current[s]
        /\ \A q \in Procs : ~HeldBy(q, s) /\ (Moves(q, s) => q = p)
    <2>1. CASE ~Sloppy
      <3>1. Moves(p, s)
        BY <2>1, <1>1 DEF Moves, Moving
      <3>2. QED
        BY <3>1, <1>1 DEF LoanInv, Exclusive, Current
    <2>2. CASE Sloppy
      <3>1. Guarded /\ Tracking /\ ~Resets
        BY <2>2, SloppyKept
      <3>2. arg[p] \in spent /\ entries[s].gen = arg[p].gen
        BY <3>1, <2>2, <1>1 DEF LoanInv, Generations
      <3>3. \A q \in Procs : ~HeldBy(q, s)
        BY <3>1, <3>2, <2>2 DEF LoanInv, Generations, Stamped, HeldBy
      <3>4. \A q \in Procs : ~Moves(q, s)
        BY <3>1, <2>2, <1>1 DEF LoanInv, Stamped, Moves, Moving
      <3>5. pooled[s] = 0 /\ s \in made
        BY <3>1, <1>1 DEF LoanInv, Stamped, Exclusive
      <3>6. arg[p].id = current[s]
        BY <3>2, <2>2, <1>1 DEF LoanInv, Generations
      <3>7. QED
        BY <3>3, <3>4, <3>5, <3>6
    <2>3. QED
      BY <2>1, <2>2
  <1>4. \A q \in Procs, t \in Objects :
          Moves(q, t)' <=> IF q = p THEN t = s ELSE Moves(q, t)
    BY <1>2 DEF TypeOK, Moves, Moving
  <1>5. \A q \in Procs, t \in Objects : HeldBy(q, t)' <=> HeldBy(q, t)
    BY <1>2 DEF HeldBy
  <1>6. Exclusive'
    BY <1>2, <1>3, <1>4, <1>5 DEF LoanInv, Exclusive
  <1>7. Current'
    BY <1>2, <1>3, <1>4 DEF LoanInv, TypeOK, Current
  <1>8. \A t \in Objects : /\ CheckedOut(t)' => t # s /\ CheckedOut(t)
                           /\ entries'[t].gen = entries[t].gen
                           /\ t # s => entries'[t] = entries[t]
    BY <1>1, <1>2 DEF TypeOK, CheckedOut
  <1>9. Stamped'
    <2>1. \A q \in Procs : \A h \in held[q] : h.slot \in Objects /\ h.slot # s
      BY <1>3 DEF TypeOK, HeldBy, Handles
    <2>2. \A q \in Procs, t \in Objects :
            Moves(q, t)' /\ pc'[q] # "calling" /\ t # s => Moves(q, t) /\ pc[q] # "calling"
      BY <1>2, <1>4 DEF TypeOK
    <2>3. QED
      BY <1>2, <1>8, <2>1, <2>2 DEF LoanInv, Stamped
  <1>10. Generations'
    <2>1. \A k \in spent : k.slot \in Objects
      BY DEF TypeOK, Handles
    <2>2. \A q \in Procs : pc'[q] = "calling" => pc[q] = "calling"
      BY <1>2 DEF TypeOK
    <2>3. QED
      BY <1>2, <1>8, <2>1, <2>2 DEF LoanInv, Generations
  <1>11. QED
    BY <1>6, <1>7, <1>9, <1>10

\* A loan that the tracker records has a generation of its own.
LEMMA StampKeeps ==
  ASSUME TypeOK, Kept, LoanInv, NEW p \in Procs, MarkBorrow(p), ~CheckedOut(arg[p].slot)
  PROVE  Stamped' /\ Generations'
  <1> DEFINE s == arg[p].slot
  <1>1. /\ pc[p] = "clean" /\ s \in Objects /\ nextGen' = nextGen + 1 /\ nextGen \in Nat
        /\ entries' = [entries EXCEPT ![s] = [status |-> "borrowed", gen |-> nextGen + 1]]
        /\ Deliver(p, nextGen + 1) /\ UNCHANGED <<mode, pooled, made, dirty, spent, current>>
    BY DEF TypeOK, MarkBorrow, Handles, history
  <1>2. PICK k \in Handles : /\ k.slot = s /\ k.id = arg[p].id /\ k.gen = nextGen + 1
                            /\ held'[p] = held[p] \cup {k}
    BY <1>1, Delivered
  <1>3. /\ pooled[s] = 0 /\ s \in made
        /\ \A q \in Procs : ~HeldBy(q, s) /\ (Moves(q, s) => q = p)
    <2>1. Moves(p, s)
      BY <1>1 DEF Moves, Moving
    <2>2. QED
      BY <2>1, <1>1 DEF LoanInv, Exclusive
  <1>4. \A q \in Procs : \A h \in held'[q] :
          (h \in held[q] /\ h.slot # s) \/ (q = p /\ h = k)
    BY <1>1, <1>2, <1>3, Delivered DEF LoanInv, HeldBy
  <1>5. \A q \in Procs : q # p => pc'[q] = pc[q] /\ arg'[q] = arg[q]
    BY <1>1, Delivered DEF TypeOK
  <1>6. pc'[p] = "idle"
    BY <1>1, Delivered DEF TypeOK
  <1>7. \A t \in Objects : /\ t # s => entries'[t] = entries[t]
                           /\ t = s => entries'[t] = [status |-> "borrowed", gen |-> nextGen + 1]
    BY <1>1 DEF TypeOK
  <1>8. \A q \in Procs, t \in Objects : Moves(q, t)' => q # p /\ Moves(q, t)
    BY <1>1, <1>5, <1>6 DEF Moves, Moving
  <1>9. Stamped'
    <2>1. \A q \in Procs : \A h \in held[q] : h.slot \in Objects
      BY DEF TypeOK, Handles
    <2>2. QED
      BY <1>1, <1>2, <1>3, <1>4, <1>5, <1>7, <1>8, <2>1 DEF LoanInv, Stamped, CheckedOut
  <1>10. Generations'
    <2>1. \A q \in Procs : \A h \in held[q] : h.gen \in Nat
      BY DEF TypeOK, Handles
    <2>2. \A h \in spent : h.gen \in Nat /\ h.slot \in Objects
      BY DEF TypeOK, Handles
    <2>3. SUFFICES ASSUME Sloppy' PROVE Generations'
      BY DEF Generations
    <2>4. Sloppy
      BY <1>1, <2>3
    <2>5. \A q \in Procs : \A h \in held'[q] : h.gen <= nextGen'
      BY <1>1, <1>2, <1>4, <2>1, <2>4 DEF LoanInv, Generations
    <2>6. \A h \in spent : h.gen <= nextGen'
      BY <1>1, <2>2, <2>4 DEF LoanInv, Generations
    <2>7. \A q \in Procs : \A h \in held[q] : h.gen # nextGen + 1
      BY <1>1, <2>1, <2>4 DEF LoanInv, Generations
    <2>8. \A h \in spent : h.gen # nextGen + 1
      BY <1>1, <2>2, <2>4 DEF LoanInv, Generations
    <2>9. \A q, r \in Procs : \A h \in held'[q], j \in held'[r] : h.gen = j.gen => h = j
      BY <1>2, <1>4, <2>4, <2>7 DEF LoanInv, Generations
    <2>10. \A q \in Procs : \A h \in held'[q], j \in spent : h.gen # j.gen
      BY <1>2, <1>4, <2>4, <2>8 DEF LoanInv, Generations
    <2>11. \A q \in Procs : pc'[q] = "calling" => arg'[q] \in spent
      BY <1>5, <1>6, <2>4 DEF LoanInv, Generations
    <2>12. \A h \in spent : CheckedOut(h.slot)' /\ entries'[h.slot].gen = h.gen
             => h.id = current[h.slot]
      BY <1>7, <2>2, <2>4, <2>8 DEF LoanInv, Generations, CheckedOut
    <2>13. QED
      BY <1>1, <2>5, <2>6, <2>9, <2>10, <2>11, <2>12 DEF Generations
  <1>11. QED
    BY <1>9, <1>10

-----------------------------------------------------------------------------
(* The invariant is kept *)

\* Every step keeps it, action by action.
LEMMA LoanStep == ASSUME TypeOK, Kept, LoanInv, [Next]_vars PROVE LoanInv'
  <1>1. ASSUME NEW p \in Procs, NEW s \in Objects, GetPooled(p, s)
        PROVE LoanInv'
    <2>1. Exclusive'
      BY <1>1 DEF LoanInv, GetPooled, Start, Goto, TypeOK, Exclusive, Moving, Moves,
            HeldBy, clients
    <2>2. Current'
      BY <1>1 DEF LoanInv, GetPooled, Start, Goto, TypeOK, Exclusive, Current, Moving,
            Moves, HeldBy, clients
    <2>3. Stamped'
      BY <1>1 DEF LoanInv, GetPooled, Start, Goto, TypeOK, Exclusive, Stamped, Moving,
            Moves, CheckedOut, tracker, clients
    <2>4. Generations'
      BY <1>1 DEF LoanInv, GetPooled, Start, Goto, Kept, Exclusive, Stamped,
            Generations, CheckedOut, tracker, clients
    <2>5. QED
      BY <2>1, <2>2, <2>3, <2>4 DEF LoanInv
  <1>2. ASSUME NEW p \in Procs, NEW s \in Objects, GetNew(p, s)
        PROVE LoanInv'
    <2>1. Exclusive'
      BY <1>2 DEF LoanInv, GetNew, Start, Goto, TypeOK, Exclusive, Moving, Moves,
            HeldBy, clients
    <2>2. Current'
      BY <1>2 DEF LoanInv, GetNew, Start, Goto, TypeOK, Exclusive, Current, Moving,
            Moves, HeldBy, clients
    <2>3. Stamped'
      BY <1>2 DEF LoanInv, GetNew, Start, Goto, TypeOK, Stamped, Moving, Moves,
            CheckedOut, tracker, clients
    <2>4. Generations'
      BY <1>2 DEF LoanInv, GetNew, Start, Goto, Kept, Stamped, Generations, CheckedOut,
            tracker, clients
    <2>5. QED
      BY <2>1, <2>2, <2>3, <2>4 DEF LoanInv
  <1>3. ASSUME NEW p \in Procs, StoreBorrowed(p)
        PROVE LoanInv'
    <2>1. /\ pc[p] = "got"
          /\ pc' = [pc EXCEPT ![p] = "stored"]
          /\ UNCHANGED <<mode, made, entries, nextGen, held, spent, current, arg>>
          /\ UNCHANGED <<pooled, dirty>>
      BY <1>3 DEF StoreBorrowed, Goto, tracker, clients, history
    <2>2. QED
      BY <2>1, Unmoved DEF TypeOK, Moving
  <1>4. ASSUME NEW p \in Procs, ResetOnBorrow(p)
        PROVE LoanInv'
    <2>1. /\ pc[p] \in {"got", "stored"}
          /\ pc' = [pc EXCEPT ![p] = "clean"]
          /\ UNCHANGED <<mode, made, entries, nextGen, held, spent, current, arg>>
          /\ UNCHANGED pooled /\ dirty' = [dirty EXCEPT ![arg[p].slot] = FALSE]
      BY <1>4 DEF ResetOnBorrow, Goto, tracker, clients, history
    <2>2. QED
      BY <2>1, Unmoved DEF TypeOK, Moving
  <1>5. ASSUME NEW p \in Procs, HandOut(p)
        PROVE LoanInv'
    <2>1. pc[p] = "clean" /\ Deliver(p, 0) /\ ~Tracking
          /\ UNCHANGED <<mode, pooled, made, dirty, current>>
      BY <1>5 DEF HandOut, history
    <2>2. Stamped' /\ Generations'
      BY <2>1, SloppyKept DEF Stamped, Generations
    <2>3. QED
      BY <2>1, <2>2, DeliverKeeps DEF LoanInv
  <1>6. ASSUME NEW p \in Procs, MarkBorrow(p)
        PROVE LoanInv'
    <2>1. CASE CheckedOut(arg[p].slot)
      <3>1. /\ pc' = [pc EXCEPT ![p] = "panicked"]
            /\ UNCHANGED <<mode, made, entries, nextGen, held, spent, current, arg>>
            /\ UNCHANGED <<pooled, dirty>>
        BY <1>6, <2>1 DEF MarkBorrow, Panic, Goto, tracker, history
      <3>2. QED
        BY <3>1, Unmoved DEF TypeOK
    <2>2. CASE ~CheckedOut(arg[p].slot)
      <3>1. /\ pc[p] = "clean" /\ Deliver(p, nextGen + 1) /\ nextGen + 1 \in Nat
            /\ UNCHANGED <<mode, pooled, made, dirty, current>>
        BY <1>6, <2>2 DEF MarkBorrow, history, TypeOK
      <3>2. QED
        BY <1>6, <2>2, <3>1, DeliverKeeps, StampKeeps DEF LoanInv
    <2>3. QED
      BY <2>1, <2>2
  <1>7. ASSUME NEW p \in Procs, NEW h \in held[p], CallRedeem(p, h)
        PROVE LoanInv'
    <2>1. Exclusive'
      BY <1>7 DEF LoanInv, CallRedeem, Goto, TypeOK, Exclusive, Moving, Moves, HeldBy
    <2>2. Current'
      BY <1>7 DEF LoanInv, CallRedeem, Goto, TypeOK, Current, Moving, Moves, history
    <2>3. Stamped'
      BY <1>7 DEF LoanInv, CallRedeem, Goto, Stamped, Moving, Moves, CheckedOut,
            tracker
    <2>4. Generations'
      BY <1>7 DEF LoanInv, CallRedeem, Goto, TypeOK, Exclusive, Current, Generations,
            CheckedOut, tracker, history
    <2>5. QED
      BY <2>1, <2>2, <2>3, <2>4 DEF LoanInv
  <1>8. ASSUME NEW p \in Procs,
               NEW h \in spent \cup [slot : Foreign, id : {0}, gen : {0}],
               CallAgain(p, h)
        PROVE LoanInv'
    <2>1. Exclusive'
      BY <1>8 DEF LoanInv, CallAgain, Goto, Exclusive, Moving, Moves, HeldBy, clients
    <2>2. Current'
      BY <1>8 DEF LoanInv, CallAgain, Goto, Current, Moving, Moves, clients, history
    <2>3. Stamped'
      BY <1>8 DEF LoanInv, CallAgain, Goto, Stamped, Moving, Moves, CheckedOut,
            tracker, clients
    <2>4. Generations'
      BY <1>8 DEF LoanInv, CallAgain, Goto, TypeOK, Kept, Generations, CheckedOut,
            tracker, clients, history
    <2>5. QED
      BY <2>1, <2>2, <2>3, <2>4 DEF LoanInv
  <1>9. ASSUME NEW p \in Procs, MarkRedeem(p)
        PROVE LoanInv'
    <2>1. CASE Refused(arg[p])
      <3>1. /\ pc' = [pc EXCEPT ![p] = "panicked"]
            /\ UNCHANGED <<mode, made, entries, nextGen, held, spent, current, arg>>
            /\ UNCHANGED <<pooled, dirty>>
        BY <1>9, <2>1 DEF MarkRedeem, Panic, Goto, history, clients
      <3>2. QED
        BY <3>1, Unmoved DEF TypeOK
    <2>2. CASE ~Refused(arg[p])
      BY <1>9, <2>2, MarkKeeps DEF LoanInv
    <2>3. QED
      BY <2>1, <2>2
  <1>10. ASSUME NEW p \in Procs, CompareAndSwap(p)
        PROVE LoanInv'
    <2>1. /\ \E step \in {"won", "panicked"} : pc' = [pc EXCEPT ![p] = step]
          /\ pc[p] = Redeeming /\ UNCHANGED <<mode, made, entries, nextGen, held, spent, current, arg>>
          /\ UNCHANGED <<pooled, dirty>>
      BY <1>10 DEF CompareAndSwap, Panic, Goto, tracker, history, clients
    <2>2. "won" \in Moving
      BY DEF Moving
    <2>3. QED
      BY <2>1, <2>2, RedeemingMoves, Unmoved DEF TypeOK
  <1>11. ASSUME NEW p \in Procs, ResetOnRedeem(p)
        PROVE LoanInv'
    <2>1. /\ pc[p] \in {"won", Redeeming}
          /\ pc' = [pc EXCEPT ![p] = "returning"]
          /\ UNCHANGED <<mode, made, entries, nextGen, held, spent, current, arg>>
          /\ UNCHANGED pooled /\ dirty' = [dirty EXCEPT ![arg[p].slot] = FALSE]
      BY <1>11 DEF ResetOnRedeem, Goto, tracker, history, clients
    <2>2. "won" \in Moving /\ "returning" \in Moving /\ arg[p].slot \in Objects
      BY <2>1 DEF Moving, TypeOK, Handles, Redeeming
    <2>3. QED
      BY <2>1, <2>2, RedeemingMoves, Unmoved DEF TypeOK
  <1>12. ASSUME NEW p \in Procs, Put(p)
        PROVE LoanInv'
    <2>1. Exclusive'
      BY <1>12 DEF LoanInv, Put, Finish, Goto, TypeOK, Exclusive, Moving, Moves,
            HeldBy, clients
    <2>2. Current'
      BY <1>12 DEF LoanInv, Put, Finish, Goto, TypeOK, Current, Moving, Moves, clients,
            history
    <2>3. Stamped'
      BY <1>12 DEF LoanInv, Put, Finish, Goto, TypeOK, Stamped, Moving, Moves,
            CheckedOut, tracker, clients
    <2>4. Generations'
      BY <1>12 DEF LoanInv, Put, Finish, Goto, Generations, CheckedOut, tracker,
            clients, history
    <2>5. QED
      BY <2>1, <2>2, <2>3, <2>4 DEF LoanInv
  <1>13. ASSUME NEW p \in Procs, Recover(p)
        PROVE LoanInv'
    <2>1. Exclusive'
      BY <1>13 DEF LoanInv, Recover, Finish, Goto, Exclusive, Moving, Moves, HeldBy,
            clients
    <2>2. Current'
      BY <1>13 DEF LoanInv, Recover, Finish, Goto, Current, Moving, Moves, clients,
            history
    <2>3. Stamped'
      BY <1>13 DEF LoanInv, Recover, Finish, Goto, Stamped, Moving, Moves, CheckedOut,
            tracker, clients
    <2>4. Generations'
      BY <1>13 DEF LoanInv, Recover, Finish, Goto, Generations, CheckedOut, tracker,
            clients, history
    <2>5. QED
      BY <2>1, <2>2, <2>3, <2>4 DEF LoanInv
  <1>14. ASSUME NEW p \in Procs, NEW h \in held[p], Use(p, h)
        PROVE LoanInv'
    <2>1. Exclusive'
      BY <1>14 DEF LoanInv, Use, Exclusive, Moving, Moves, HeldBy, clients
    <2>2. Current'
      BY <1>14 DEF LoanInv, Use, TypeOK, Exclusive, Current, Moving, Moves, HeldBy,
            clients, history
    <2>3. Stamped'
      BY <1>14 DEF LoanInv, Use, Stamped, Moving, Moves, CheckedOut, tracker, clients
    <2>4. Generations'
      BY <1>14 DEF LoanInv, Use, Generations, CheckedOut, tracker, clients, history
    <2>5. QED
      BY <2>1, <2>2, <2>3, <2>4 DEF LoanInv
  <1>15. ASSUME NEW s \in Objects, Drop(s)
        PROVE LoanInv'
    <2>1. UNCHANGED <<mode, made, entries, nextGen, held, spent, current, arg>>
          /\ UNCHANGED <<dirty, pc>>
          /\ pooled[s] > 0 /\ pooled' = [pooled EXCEPT ![s] = @ - 1]
      BY <1>15 DEF Drop, tracker, history, clients
    <2>2. pooled[s] = 1
      BY <2>1 DEF LoanInv, Exclusive
    <2>3. QED
      BY <2>1, <2>2, Unmoved DEF TypeOK
  <1>16. CASE ResetTracking
    <2>1. Exclusive'
      BY <1>16 DEF LoanInv, ResetTracking, Exclusive, Moving, Moves, HeldBy, clients
    <2>2. Current'
      BY <1>16 DEF LoanInv, ResetTracking, Current, Moving, Moves, clients, history
    <2>3. Stamped'
      BY <1>16 DEF ResetTracking, Stamped
    <2>4. Generations'
      BY <1>16 DEF ResetTracking, Kept, Generations
    <2>5. QED
      BY <2>1, <2>2, <2>3, <2>4 DEF LoanInv
  <1>17. CASE UNCHANGED vars
    BY <1>17, Unmoved DEF vars
  <1>18. QED
    BY <1>1, <1>2, <1>3, <1>4, <1>5, <1>6, <1>7, <1>8, <1>9, <1>10, <1>11,
       <1>12, <1>13, <1>14, <1>15, <1>16, <1>17
    DEF Next, Borrowing, Redeemed

-----------------------------------------------------------------------------
(* What follows: each promise that Pools makes of its loans *)

USE DEF Guarded, Tracking, Sloppy, Resets

\* LoanInv holds initially.
LEMMA LoanInit == Init => LoanInv
  BY DEF Init, LoanInv, Exclusive, Current, Stamped, Generations, Moves, Moving, HeldBy,
         CheckedOut, NoEntry, Handles

\* LoanInv, where loans are kept exclusive.
KeptLoans == Kept => LoanInv

\* In the modes that keep loans exclusive, LoanInv holds at all times.
THEOREM LoansSafe == Spec => []KeptLoans
  <1>1. Init => KeptLoans
    BY LoanInit DEF KeptLoans
  <1>2. TypeOK /\ KeptLoans /\ [Next]_vars => KeptLoans'
    BY LoanStep, ModeFixed DEF KeptLoans, Kept
  <1>3. QED
    BY <1>1, <1>2, TypeCorrect, PTL DEF Spec

\* No object is lent twice, or lent and in the pool.
THEOREM NeverShared == Spec => []NoSharing
  <1>1. TypeOK /\ KeptLoans => NoSharing
    BY DEF TypeOK, KeptLoans, LoanInv, Exclusive, NoSharing, HeldBy, Handles
  <1>2. QED
    BY <1>1, LoansSafe, TypeCorrect, PTL

\* Nothing of its last borrower is left in a pooled object.
THEOREM PooledStaysClean == Spec => []PooledClean
  <1>1. KeptLoans => PooledClean
    BY DEF KeptLoans, LoanInv, Exclusive, Current, PooledClean
  <1>2. QED
    BY <1>1, LoansSafe, PTL

\* A redeem that is carried out ends the loan that its closure was made for.
THEOREM OwnLoanRedeemed == Spec => []RedeemsOwnLoan
  <1>1. TypeOK /\ KeptLoans => RedeemsOwnLoan
    <2> SUFFICES ASSUME TypeOK, KeptLoans, Kept, NEW p \in Procs, pc[p] \in Returning
                 PROVE  arg[p].id = current[arg[p].slot]
      BY DEF RedeemsOwnLoan
    <2>1. arg[p].slot \in Objects /\ Moves(p, arg[p].slot)
      BY DEF TypeOK, Returning, Moves, Moving, Handles
    <2>2. QED
      BY <2>1 DEF KeptLoans, LoanInv, Current
  <1>2. QED
    BY <1>1, LoansSafe, TypeCorrect, PTL

-----------------------------------------------------------------------------
(* The plain pool *)

\* The steps at which a goroutine has an object of the plain pool to itself, when
\* the tracker watches: before it is marked, and after its redeem was let through.
InPassing(p, s) == pc[p] \in {"got", "clean", "marked", "won", "returning"} /\ arg[p].slot = s

\* Without a wrapper's state to take, the tracker's entry is the token: an object is
\* in the pool, or with one goroutine, or entered as borrowed.
EntryInv == ~Guarded /\ Tracking =>
  /\ \A s \in Objects : pooled[s] \in {0, 1}
  /\ \A s \in Objects : pooled[s] = 1 =>
       ~CheckedOut(s) /\ \A p \in Procs : ~InPassing(p, s)
  /\ \A s \in Objects, p \in Procs : InPassing(p, s) => ~CheckedOut(s)
  /\ \A s \in Objects, p, q \in Procs : InPassing(p, s) /\ InPassing(q, s) => p = q
  /\ \A s \in Objects \ made :
       pooled[s] = 0 /\ ~CheckedOut(s) /\ \A p \in Procs : ~InPassing(p, s)

\* Steps that hand no object on.
LEMMA EntryUnmoved ==
  ASSUME EntryInv, UNCHANGED <<mode, made>>,
         \A s \in Objects : pooled'[s] = pooled[s] \/ pooled'[s] = 0,
         \A s \in Objects : CheckedOut(s)' => CheckedOut(s),
         ~Guarded /\ Tracking =>
           \A p \in Procs, s \in Objects : InPassing(p, s)' => InPassing(p, s)
  PROVE  EntryInv'
  BY DEF EntryInv

\* Every step keeps it.
LEMMA EntryStep ==
  ASSUME TypeOK, EntryInv, [Next]_vars, ~Guarded, Tracking
  PROVE  EntryInv'
  <1>1. ASSUME NEW p \in Procs, NEW s \in Objects, GetPooled(p, s)
        PROVE EntryInv'
    BY <1>1 DEF TypeOK, EntryInv, InPassing, CheckedOut, GetPooled, Start, Goto,
          tracker
  <1>2. ASSUME NEW p \in Procs, NEW s \in Objects, GetNew(p, s)
        PROVE EntryInv'
    BY <1>2 DEF TypeOK, EntryInv, InPassing, CheckedOut, GetNew, Start, Goto, tracker
  <1>3. ASSUME NEW p \in Procs, MarkBorrow(p) PROVE EntryInv'
    <2>1. PICK s \in Objects : s = arg[p].slot
      BY <1>3 DEF TypeOK, MarkBorrow, Handles
    <2>2. InPassing(p, s)
      BY <1>3, <2>1 DEF MarkBorrow, InPassing
    <2>3. pooled[s] = 0 /\ s \in made /\ ~CheckedOut(s)
      BY <2>2 DEF EntryInv
    <2>4. \A t \in Objects, q \in Procs :
            InPassing(q, t)' => q # p /\ InPassing(q, t)
      BY <1>3, <2>1, <2>3 DEF TypeOK, MarkBorrow, Deliver, Finish, Goto, InPassing
    <2>5. \A q \in Procs : ~InPassing(q, s)'
      BY <2>2, <2>4 DEF EntryInv
    <2>6. /\ UNCHANGED <<mode, pooled, made>>
          /\ \A t \in Objects : t # s => (CheckedOut(t)' <=> CheckedOut(t))
      BY <1>3, <2>1, <2>3 DEF TypeOK, MarkBorrow, CheckedOut
    <2>7. QED
      BY <2>3, <2>4, <2>5, <2>6 DEF EntryInv
  <1>4. ASSUME NEW p \in Procs, MarkRedeem(p) PROVE EntryInv'
    <2>1. PICK s \in Objects : s = arg[p].slot
      BY <1>4 DEF TypeOK, MarkRedeem, Handles
    <2>2. CASE Refused(arg[p])
      <3>1. UNCHANGED <<mode, pooled, made, entries>>
        BY <1>4, <2>2 DEF MarkRedeem
      <3>2. \A t \in Objects, q \in Procs : InPassing(q, t)' => InPassing(q, t)
        BY <1>4, <2>2 DEF TypeOK, MarkRedeem, Panic, Goto, InPassing
      <3>3. QED
        BY <3>1, <3>2, EntryUnmoved DEF CheckedOut
    <2>3. CASE ~Refused(arg[p])
      <3>1. CheckedOut(s)
        BY <2>1, <2>3 DEF Refused
      <3>2. pooled[s] = 0 /\ s \in made /\ \A q \in Procs : ~InPassing(q, s)
        BY <3>1 DEF EntryInv
      <3>3. /\ UNCHANGED <<mode, pooled, made>>
            /\ \A t \in Objects : CheckedOut(t)' => t # s /\ CheckedOut(t)
        BY <1>4, <2>1, <2>3 DEF TypeOK, MarkRedeem, CheckedOut
      <3>4. \A t \in Objects, q \in Procs :
              InPassing(q, t)' => (q = p /\ t = s) \/ (q # p /\ InPassing(q, t))
        BY <1>4, <2>1, <2>3 DEF TypeOK, MarkRedeem, Goto, InPassing
      <3>5. \A q \in Procs : InPassing(q, s)' => q = p
        BY <3>2, <3>4
      <3>6. \A t \in Objects, q \in Procs : t # s /\ InPassing(q, t)' => InPassing(q, t)
        BY <3>4
      <3>7. QED
        BY <3>2, <3>3, <3>5, <3>6 DEF EntryInv
    <2>4. QED
      BY <2>2, <2>3
  <1>5. ASSUME NEW p \in Procs, Put(p) PROVE EntryInv'
    <2>1. PICK s \in Objects : s = arg[p].slot
      BY <1>5 DEF TypeOK, Put, Handles
    <2>2. InPassing(p, s)
      BY <1>5, <2>1 DEF Put, InPassing
    <2>3. pooled[s] = 0 /\ ~CheckedOut(s) /\ s \in made
      BY <2>2 DEF EntryInv
    <2>4. \A t \in Objects, q \in Procs :
            InPassing(q, t)' => q # p /\ InPassing(q, t)
      BY <1>5 DEF TypeOK, Put, Finish, Goto, InPassing
    <2>5. \A q \in Procs : ~InPassing(q, s)'
      BY <2>2, <2>4 DEF EntryInv
    <2>6. /\ UNCHANGED <<mode, made, entries>>
          /\ \A t \in Objects :
               pooled'[t] = IF t = s THEN 1 ELSE pooled[t]
      BY <1>5, <2>1, <2>3 DEF TypeOK, Put, tracker
    <2>7. QED
      BY <2>3, <2>4, <2>5, <2>6 DEF EntryInv, CheckedOut
  <1>6. ASSUME NEW s \in Objects, Drop(s) PROVE EntryInv'
    BY <1>6 DEF TypeOK, EntryInv, InPassing, CheckedOut, Drop, tracker
  <1>7. ASSUME NEW p \in Procs, ResetOnBorrow(p) \/ ResetOnRedeem(p)
        PROVE EntryInv'
    BY <1>7, EntryUnmoved
    DEF TypeOK, InPassing, CheckedOut, ResetOnBorrow, ResetOnRedeem, Redeeming, Goto, tracker
  <1>8. ASSUME NEW p \in Procs, Recover(p) PROVE EntryInv'
    BY <1>8, EntryUnmoved DEF TypeOK, InPassing, CheckedOut, Recover, Finish, Goto, tracker
  <1>9. ASSUME NEW p \in Procs, NEW h \in held[p], CallRedeem(p, h)
        PROVE EntryInv'
    BY <1>9, EntryUnmoved DEF TypeOK, InPassing, CheckedOut, CallRedeem, Goto, tracker
  <1>10. ASSUME NEW p \in Procs,
                NEW h \in spent \cup [slot : Foreign, id : {0}, gen : {0}],
                CallAgain(p, h)
         PROVE EntryInv'
    BY <1>10, EntryUnmoved DEF TypeOK, InPassing, CheckedOut, CallAgain, Goto, tracker
  <1>11. ASSUME NEW p \in Procs, NEW h \in held[p], Use(p, h) PROVE EntryInv'
    BY <1>11, EntryUnmoved DEF InPassing, CheckedOut, Use, tracker
  <1>12. CASE ResetTracking
    BY <1>12, EntryUnmoved DEF InPassing, CheckedOut, ResetTracking, NoEntry
  <1>13. CASE UNCHANGED vars
    BY <1>13, EntryUnmoved DEF InPassing, CheckedOut, vars
  <1>14. \A p \in Procs : ~StoreBorrowed(p) /\ ~CompareAndSwap(p) /\ ~HandOut(p)
    BY DEF StoreBorrowed, CompareAndSwap, HandOut
  <1>15. QED
    BY <1>1, <1>2, <1>3, <1>4, <1>5, <1>6, <1>7, <1>8, <1>9, <1>10, <1>11,
       <1>12, <1>13, <1>14
    DEF Next, Borrowing, Redeemed

\* An object of the plain pool is in its sync.Pool once at most, and no object of
\* others is, when clients redeem each loan once or the tracker stops those that do not.
THEOREM PlainNeverPooledTwice == Spec => []PlainPooledOnce
  <1>1. Init => EntryInv
    BY DEF Init, EntryInv, InPassing, CheckedOut, NoEntry
  <1>2. TypeOK /\ EntryInv /\ [Next]_vars => EntryInv'
    BY EntryStep, ModeFixed DEF EntryInv
  <1>3. TypeOK /\ KeptLoans /\ EntryInv => PlainPooledOnce
    <2> SUFFICES ASSUME TypeOK, KeptLoans, EntryInv, ~Guarded, Tracking \/ ~Sloppy
                 PROVE  /\ \A s \in Objects : Once(s)
                        /\ \A s \in Foreign : pooled[s] = 0
      BY DEF PlainPooledOnce
    <2>1. \A s \in Foreign : s \in Objects \ made
      BY PoolAssumption DEF TypeOK, Objects
    <2>2. CASE Tracking
      BY <2>1, <2>2 DEF TypeOK, EntryInv, Once, Has, Returning, InPassing
    <2>3. CASE ~Sloppy
      <3>1. Exclusive
        BY <2>3 DEF KeptLoans, Kept, LoanInv
      <3>2. \A p \in Procs, s \in Objects : Has(p, s, Returning) => Moves(p, s)
        BY DEF Has, Returning, Moves, Moving
      <3>3. QED
        BY <2>1, <3>1, <3>2 DEF Exclusive, Once
    <2>4. QED
      BY <2>2, <2>3
  <1>4. QED
    BY <1>1, <1>2, <1>3, TypeCorrect, LoansSafe, PTL DEF Spec

-----------------------------------------------------------------------------
(* Honest clients are never refused *)

\* From the Store of a borrow to the CompareAndSwap of its redeem, a wrapper is
\* armed.
Armed == Guarded =>
  /\ \A p \in Procs : pc[p] \in {"stored", "clean", "calling", "marked"}
                        => state[arg[p].slot] = "borrowed"
  /\ \A p \in Procs : \A h \in held[p] : state[h.slot] = "borrowed"

\* The tracker accepts whatever is being redeemed.
Accepted == Tracking =>
  \A p \in Procs : pc[p] = "calling" => ~Refused(arg[p])

Calm == \A p \in Procs : pc[p] # "panicked"

Honest == ~Sloppy /\ ~Resets => Armed /\ Accepted /\ Calm

\* A loan that is delivered finds its wrapper armed.
LEMMA DeliverHonest ==
  ASSUME TypeOK, Armed, Calm, NEW p \in Procs, NEW g \in Nat, pc[p] = "clean",
         Deliver(p, g), UNCHANGED <<mode, state>>
  PROVE  Armed' /\ Calm'
  <1>1. PICK k \in Handles : k.slot = arg[p].slot /\ held'[p] = held[p] \cup {k}
    BY Delivered
  <1>2. /\ \A q \in Procs \ {p} : pc'[q] = pc[q] /\ arg'[q] = arg[q]
        /\ pc'[p] = "idle"
    BY Delivered DEF TypeOK
  <1>3. \A q \in Procs : \A h \in held'[q] : h \in held[q] \/ h = k
    BY <1>1, Delivered
  <1>4. Armed'
    BY <1>1, <1>2, <1>3 DEF Armed
  <1>5. Calm'
    BY <1>2 DEF Calm
  <1>6. QED
    BY <1>4, <1>5

\* Every step of honest clients keeps it.
LEMMA HonestStep ==
  ASSUME TypeOK, Kept, LoanInv, Honest, ~Sloppy, ~Resets, [Next]_vars
  PROVE  Armed' /\ Accepted' /\ Calm'
  <1>1. ASSUME NEW p \in Procs, NEW s \in Objects, GetPooled(p, s)
        PROVE Armed' /\ Accepted' /\ Calm'
    <2>1. Armed'
      BY <1>1 DEF GetPooled, Start, Goto, Honest, Armed, clients
    <2>2. Accepted'
      BY <1>1 DEF GetPooled, Start, Goto, Honest, Accepted, Refused, StaleGen,
            CheckedOut, tracker
    <2>3. Calm'
      BY <1>1 DEF GetPooled, Start, Goto, Honest, Calm
    <2>4. QED
      BY <2>1, <2>2, <2>3
  <1>2. ASSUME NEW p \in Procs, NEW s \in Objects, GetNew(p, s)
        PROVE Armed' /\ Accepted' /\ Calm'
    <2>1. Armed'
      BY <1>2 DEF GetNew, Start, Goto, Honest, Armed, clients
    <2>2. Accepted'
      BY <1>2 DEF GetNew, Start, Goto, Honest, Accepted, Refused, StaleGen, CheckedOut,
            tracker
    <2>3. Calm'
      BY <1>2 DEF GetNew, Start, Goto, Honest, Calm
    <2>4. QED
      BY <2>1, <2>2, <2>3
  <1>3. ASSUME NEW p \in Procs, StoreBorrowed(p)
        PROVE Armed' /\ Accepted' /\ Calm'
    <2>1. Armed'
      BY <1>3 DEF StoreBorrowed, Goto, TypeOK, Handles, Honest, Armed, clients
    <2>2. Accepted'
      BY <1>3 DEF StoreBorrowed, Goto, Honest, Accepted, Refused, StaleGen, CheckedOut,
            tracker
    <2>3. Calm'
      BY <1>3 DEF StoreBorrowed, Goto, Honest, Calm
    <2>4. QED
      BY <2>1, <2>2, <2>3
  <1>4. ASSUME NEW p \in Procs, ResetOnBorrow(p)
        PROVE Armed' /\ Accepted' /\ Calm'
    <2>1. Armed'
      BY <1>4 DEF ResetOnBorrow, Goto, Honest, Armed, clients
    <2>2. Accepted'
      BY <1>4 DEF ResetOnBorrow, Goto, Honest, Accepted, Refused, StaleGen, CheckedOut,
            tracker
    <2>3. Calm'
      BY <1>4 DEF ResetOnBorrow, Goto, Honest, Calm
    <2>4. QED
      BY <2>1, <2>2, <2>3
  <1>5. ASSUME NEW p \in Procs, HandOut(p)
        PROVE Armed' /\ Accepted' /\ Calm'
    <2>1. pc[p] = "clean" /\ Deliver(p, 0) /\ UNCHANGED <<mode, state>>
      BY <1>5 DEF HandOut
    <2>2. Accepted'
      BY <1>5 DEF HandOut, Accepted
    <2>3. Armed' /\ Calm'
      BY <2>1, DeliverHonest DEF Honest
    <2>4. QED
      BY <2>2, <2>3
  <1>6. ASSUME NEW p \in Procs, MarkBorrow(p)
        PROVE Armed' /\ Accepted' /\ Calm'
    <2>1. /\ pc[p] = "clean" /\ ~CheckedOut(arg[p].slot) /\ nextGen + 1 \in Nat
          /\ Deliver(p, nextGen + 1) /\ UNCHANGED <<mode, state>>
      BY <1>6 DEF MarkBorrow, TypeOK, Handles, LoanInv, Stamped, Moves, Moving
    <2>2. Accepted'
      BY <1>6 DEF MarkBorrow, Deliver, Finish, Panic, Goto, TypeOK, Handles, LoanInv,
            Stamped, Honest, Accepted, Calm, Refused, StaleGen, CheckedOut, tracker,
            history
    <2>3. Armed' /\ Calm'
      BY <2>1, DeliverHonest DEF Honest
    <2>4. QED
      BY <2>2, <2>3
  <1>7. ASSUME NEW p \in Procs, NEW h \in held[p], CallRedeem(p, h)
        PROVE Armed' /\ Accepted' /\ Calm'
    <2>1. Armed'
      BY <1>7 DEF CallRedeem, Goto, TypeOK, Honest, Armed
    <2>2. Accepted'
      BY <1>7 DEF CallRedeem, Goto, TypeOK, LoanInv, Stamped, Honest, Accepted,
            Refused, StaleGen, CheckedOut, tracker
    <2>3. Calm'
      BY <1>7 DEF CallRedeem, Goto, Honest, Calm
    <2>4. QED
      BY <2>1, <2>2, <2>3
  <1>8. ASSUME NEW p \in Procs,
               NEW h \in spent \cup [slot : Foreign, id : {0}, gen : {0}],
               CallAgain(p, h)
        PROVE Armed' /\ Accepted' /\ Calm'
    BY <1>8 DEF CallAgain
  <1>9. ASSUME NEW p \in Procs, MarkRedeem(p)
        PROVE Armed' /\ Accepted' /\ Calm'
    <2>1. Armed'
      BY <1>9 DEF MarkRedeem, Panic, Goto, TypeOK, Honest, Armed, clients
    <2>2. Accepted'
      BY <1>9 DEF MarkRedeem, Goto, TypeOK, Handles, LoanInv, Exclusive, Honest,
            Accepted, Refused, StaleGen, Moving, Moves, CheckedOut
    <2>3. Calm'
      BY <1>9 DEF MarkRedeem, Goto, TypeOK, Honest, Accepted, Calm
    <2>4. QED
      BY <2>1, <2>2, <2>3
  <1>10. ASSUME NEW p \in Procs, CompareAndSwap(p)
        PROVE Armed' /\ Accepted' /\ Calm'
    <2>1. Armed'
      BY <1>10 DEF CompareAndSwap, Redeeming, Panic, Goto, TypeOK, Handles, LoanInv,
            Exclusive, Stamped, Honest, Armed, Moving, Moves, HeldBy, clients, history
    <2>2. Accepted'
      BY <1>10 DEF CompareAndSwap, Panic, Goto, TypeOK, Honest, Accepted, Refused,
            StaleGen, CheckedOut, tracker
    <2>3. Calm'
      BY <1>10 DEF CompareAndSwap, Redeeming, Goto, TypeOK, Honest, Armed, Calm
    <2>4. QED
      BY <2>1, <2>2, <2>3
  <1>11. ASSUME NEW p \in Procs, ResetOnRedeem(p)
        PROVE Armed' /\ Accepted' /\ Calm'
    <2>1. Armed'
      BY <1>11 DEF ResetOnRedeem, Goto, Honest, Armed, clients
    <2>2. Accepted'
      BY <1>11 DEF ResetOnRedeem, Goto, Honest, Accepted, Refused, StaleGen,
            CheckedOut, tracker
    <2>3. Calm'
      BY <1>11 DEF ResetOnRedeem, Goto, Honest, Calm
    <2>4. QED
      BY <2>1, <2>2, <2>3
  <1>12. ASSUME NEW p \in Procs, Put(p)
        PROVE Armed' /\ Accepted' /\ Calm'
    <2>1. Armed'
      BY <1>12 DEF Put, Finish, Goto, Honest, Armed, clients
    <2>2. Accepted'
      BY <1>12 DEF Put, Finish, Goto, Honest, Accepted, Refused, StaleGen, CheckedOut,
            tracker
    <2>3. Calm'
      BY <1>12 DEF Put, Finish, Goto, Honest, Calm
    <2>4. QED
      BY <2>1, <2>2, <2>3
  <1>13. ASSUME NEW p \in Procs, Recover(p)
        PROVE Armed' /\ Accepted' /\ Calm'
    BY <1>13 DEF Recover, Honest, Calm
  <1>14. ASSUME NEW p \in Procs, NEW h \in held[p], Use(p, h)
        PROVE Armed' /\ Accepted' /\ Calm'
    <2>1. Armed'
      BY <1>14 DEF Use, Honest, Armed, clients
    <2>2. Accepted'
      BY <1>14 DEF Use, Honest, Accepted, Refused, StaleGen, CheckedOut, tracker
    <2>3. Calm'
      BY <1>14 DEF Use, Honest, Calm
    <2>4. QED
      BY <2>1, <2>2, <2>3
  <1>15. ASSUME NEW s \in Objects, Drop(s)
        PROVE Armed' /\ Accepted' /\ Calm'
    <2>1. Armed'
      BY <1>15 DEF Drop, Honest, Armed, clients
    <2>2. Accepted'
      BY <1>15 DEF Drop, Honest, Accepted, Refused, StaleGen, CheckedOut, tracker
    <2>3. Calm'
      BY <1>15 DEF Drop, Honest, Calm
    <2>4. QED
      BY <2>1, <2>2, <2>3
  <1>16. ASSUME ResetTracking
        PROVE Armed' /\ Accepted' /\ Calm'
    BY <1>16 DEF ResetTracking
  <1>17. ASSUME UNCHANGED vars
        PROVE Armed' /\ Accepted' /\ Calm'
    <2>1. Armed'
      BY <1>17 DEF vars, Honest, Armed
    <2>2. Accepted'
      BY <1>17 DEF vars, Honest, Accepted, Refused, StaleGen, CheckedOut
    <2>3. Calm'
      BY <1>17 DEF vars, Honest, Calm
    <2>4. QED
      BY <2>1, <2>2, <2>3
  <1>18. QED
    BY <1>1, <1>2, <1>3, <1>4, <1>5, <1>6, <1>7, <1>8, <1>9, <1>10, <1>11, <1>12,
       <1>13, <1>14, <1>15, <1>16, <1>17
    DEF Next, Borrowing, Redeemed

\* No goroutine panics when clients redeem each loan once.
THEOREM NobodyPanics == Spec => []NoPanic
  <1>1. Init => Honest
    BY DEF Init, Honest, Armed, Accepted, Calm
  <1>2. TypeOK /\ KeptLoans /\ Honest /\ [Next]_vars => Honest'
    BY HonestStep, ModeFixed DEF Honest, KeptLoans, Kept
  <1>3. Honest => NoPanic
    BY DEF Honest, Calm, NoPanic
  <1>4. QED
    BY <1>1, <1>2, <1>3, TypeCorrect, LoansSafe, PTL DEF Spec

-----------------------------------------------------------------------------
(* The leak report *)

\* What the tracker has as borrowed is held, or is about to be marked.
Accounted(s) == \E p \in Procs :
  \/ HeldBy(p, s)
  \/ /\ pc[p] = "calling" /\ arg[p].slot = s
     /\ Guarded => entries[s].gen = arg[p].gen

Exact == Tracking /\ ~Resets /\ (Guarded \/ ~Sloppy)

Reported == Exact => \A s \in Objects : CheckedOut(s) => Accounted(s)

\* Every step keeps it.
LEMMA ReportedStep ==
  ASSUME TypeOK, Kept, LoanInv, Exact, Reported, [Next]_vars
  PROVE  \A t \in Objects : CheckedOut(t)' => Accounted(t)'
  <1>1. ASSUME NEW p \in Procs, NEW s \in Objects, GetPooled(p, s)
        PROVE \A t \in Objects : CheckedOut(t)' => Accounted(t)'
    BY <1>1 DEF GetPooled, Start, Goto, Reported, Accounted, HeldBy, CheckedOut,
          tracker, clients
  <1>2. ASSUME NEW p \in Procs, NEW s \in Objects, GetNew(p, s)
        PROVE \A t \in Objects : CheckedOut(t)' => Accounted(t)'
    BY <1>2 DEF GetNew, Start, Goto, Reported, Accounted, HeldBy, CheckedOut, tracker,
          clients
  <1>3. ASSUME NEW p \in Procs, StoreBorrowed(p)
        PROVE \A t \in Objects : CheckedOut(t)' => Accounted(t)'
    BY <1>3 DEF StoreBorrowed, Goto, Reported, Accounted, HeldBy, CheckedOut, tracker,
          clients
  <1>4. ASSUME NEW p \in Procs, ResetOnBorrow(p)
        PROVE \A t \in Objects : CheckedOut(t)' => Accounted(t)'
    BY <1>4 DEF ResetOnBorrow, Goto, Reported, Accounted, HeldBy, CheckedOut, tracker,
          clients
  <1>5. ASSUME NEW p \in Procs, HandOut(p)
        PROVE \A t \in Objects : CheckedOut(t)' => Accounted(t)'
    BY <1>5 DEF HandOut, Exact
  <1>6. ASSUME NEW p \in Procs, MarkBorrow(p)
        PROVE \A t \in Objects : CheckedOut(t)' => Accounted(t)'
    <2>1. /\ pc[p] = "clean" /\ ~CheckedOut(arg[p].slot) /\ nextGen + 1 \in Nat
          /\ Deliver(p, nextGen + 1) /\ UNCHANGED mode
          /\ \A t \in Objects : t # arg[p].slot => entries'[t] = entries[t]
      BY <1>6 DEF MarkBorrow, TypeOK, Handles, LoanInv, Stamped, Moves, Moving, Exact
    <2>2. PICK k \in Handles : k.slot = arg[p].slot /\ held'[p] = held[p] \cup {k}
      BY <2>1, Delivered
    <2>3. \A q \in Procs, t \in Objects : HeldBy(q, t) => HeldBy(q, t)'
      BY <2>1, <2>2, Delivered DEF HeldBy
    <2>4. \A q \in Procs : pc[q] = "calling" => pc'[q] = "calling" /\ arg'[q] = arg[q]
      BY <2>1, Delivered DEF TypeOK
    <2>5. \A t \in Objects : t = arg[p].slot => HeldBy(p, t)'
      BY <2>2 DEF HeldBy
    <2>6. QED
      BY <2>1, <2>3, <2>4, <2>5 DEF Reported, Accounted, CheckedOut
  <1>7. ASSUME NEW p \in Procs, NEW h \in held[p], CallRedeem(p, h)
        PROVE \A t \in Objects : CheckedOut(t)' => Accounted(t)'
    BY <1>7 DEF CallRedeem, Goto, TypeOK, LoanInv, Stamped, Exact, Reported, Accounted,
          HeldBy, CheckedOut, tracker
  <1>8. ASSUME NEW p \in Procs,
               NEW h \in spent \cup [slot : Foreign, id : {0}, gen : {0}],
               CallAgain(p, h)
        PROVE \A t \in Objects : CheckedOut(t)' => Accounted(t)'
    BY <1>8 DEF CallAgain, Goto, Reported, Accounted, HeldBy, CheckedOut, tracker,
          clients
  <1>9. ASSUME NEW p \in Procs, MarkRedeem(p)
        PROVE \A t \in Objects : CheckedOut(t)' => Accounted(t)'
    <2>1. /\ pc[p] = "calling" /\ UNCHANGED <<mode, held, arg>>
          /\ \A q \in Procs : q # p => pc'[q] = pc[q]
      BY <1>9 DEF MarkRedeem, Panic, Goto, TypeOK, clients
    <2>2. CASE Refused(arg[p])
      <3>1. UNCHANGED entries
        BY <1>9, <2>2 DEF MarkRedeem
      <3>2. \A t \in Objects : ~(/\ CheckedOut(t) /\ arg[p].slot = t
                                 /\ (Guarded => entries[t].gen = arg[p].gen))
        BY <2>2 DEF Refused, StaleGen, CheckedOut
      <3>3. QED
        BY <2>1, <3>1, <3>2 DEF Reported, Accounted, CheckedOut, HeldBy
    <2>3. CASE ~Refused(arg[p])
      <3>1. \A t \in Objects : /\ CheckedOut(t)' => t # arg[p].slot /\ CheckedOut(t)
                               /\ entries'[t].gen = entries[t].gen
        BY <1>9, <2>3 DEF MarkRedeem, TypeOK, Handles, CheckedOut
      <3>2. QED
        BY <2>1, <3>1 DEF Reported, Accounted, HeldBy
    <2>4. QED
      BY <2>2, <2>3
  <1>10. ASSUME NEW p \in Procs, CompareAndSwap(p)
        PROVE \A t \in Objects : CheckedOut(t)' => Accounted(t)'
    BY <1>10 DEF CompareAndSwap, Redeeming, Panic, Goto, TypeOK, Exact, Reported,
          Accounted, HeldBy, CheckedOut, tracker, clients
  <1>11. ASSUME NEW p \in Procs, ResetOnRedeem(p)
        PROVE \A t \in Objects : CheckedOut(t)' => Accounted(t)'
    BY <1>11 DEF ResetOnRedeem, Redeeming, Goto, Exact, Reported, Accounted, HeldBy,
          CheckedOut, tracker, clients
  <1>12. ASSUME NEW p \in Procs, Put(p)
        PROVE \A t \in Objects : CheckedOut(t)' => Accounted(t)'
    BY <1>12 DEF Put, Finish, Goto, Reported, Accounted, HeldBy, CheckedOut, tracker,
          clients
  <1>13. ASSUME NEW p \in Procs, Recover(p)
        PROVE \A t \in Objects : CheckedOut(t)' => Accounted(t)'
    BY <1>13 DEF Recover, Finish, Goto, Reported, Accounted, HeldBy, CheckedOut,
          tracker, clients
  <1>14. ASSUME NEW p \in Procs, NEW h \in held[p], Use(p, h)
        PROVE \A t \in Objects : CheckedOut(t)' => Accounted(t)'
    BY <1>14 DEF Use, Reported, Accounted, HeldBy, CheckedOut, tracker, clients
  <1>15. ASSUME NEW s \in Objects, Drop(s)
        PROVE \A t \in Objects : CheckedOut(t)' => Accounted(t)'
    BY <1>15 DEF Drop, Reported, Accounted, HeldBy, CheckedOut, tracker, clients
  <1>16. ASSUME ResetTracking
        PROVE \A t \in Objects : CheckedOut(t)' => Accounted(t)'
    BY <1>16 DEF ResetTracking, Exact
  <1>17. ASSUME UNCHANGED vars
        PROVE \A t \in Objects : CheckedOut(t)' => Accounted(t)'
    BY <1>17 DEF vars, Reported, Accounted, HeldBy, CheckedOut
  <1>18. QED
    BY <1>1, <1>2, <1>3, <1>4, <1>5, <1>6, <1>7, <1>8, <1>9, <1>10, <1>11, <1>12,
       <1>13, <1>14, <1>15, <1>16, <1>17
    DEF Next, Borrowing, Redeemed

\* AssertNoLeaks, at rest, reports what clients hold and nothing else.
THEOREM LeaksExact == Spec => []LeakReportExact
  <1>1. Init => Reported
    BY DEF Init, Reported, CheckedOut, NoEntry
  <1>2. Exact => Kept
    BY DEF Exact, Kept
  <1>3. TypeOK /\ KeptLoans /\ Reported /\ [Next]_vars => Reported'
    BY <1>2, ReportedStep, ModeFixed DEF Reported, KeptLoans, Exact
  <1>4. TypeOK /\ KeptLoans /\ Reported => LeakReportExact
    <2> SUFFICES ASSUME TypeOK, KeptLoans, Reported, Exact,
                        \A p \in Procs : pc[p] \in {"idle", "panicked"}
                 PROVE  Leaks = {h.slot : h \in UNION {held[p] : p \in Procs}}
      BY DEF LeakReportExact, Exact
    <2>1. \A s \in Objects : CheckedOut(s) => \E p \in Procs : HeldBy(p, s)
      BY DEF Reported, Accounted
    <2>2. \A p \in Procs : \A h \in held[p] : h.slot \in Objects /\ CheckedOut(h.slot)
      BY <1>2 DEF TypeOK, Handles, KeptLoans, LoanInv, Stamped, Exact, CheckedOut
    <2>3. QED
      BY <2>1, <2>2 DEF Leaks, HeldBy
  <1>5. QED
    BY <1>1, <1>3, <1>4, TypeCorrect, LoansSafe, PTL DEF Spec

-----------------------------------------------------------------------------
(* The pools implement exclusive lending *)

\* The refinement mapping by who holds what.
LEMMA LentHeld == \A p \in Procs, s \in Objects : <<p, s>> \in Lent <=> HeldBy(p, s)
  BY DEF Lent, HeldBy

\* A loan that reaches its client is a Lend of the abstract specification.
LEMMA DeliverLends ==
  ASSUME TypeOK, Kept, LoanInv, NEW p \in Procs, NEW g \in Nat, pc[p] = "clean",
         Deliver(p, g), UNCHANGED mode
  PROVE  Loans!Next
  <1> DEFINE s == arg[p].slot
  <1>1. PICK k \in Handles : k.slot = s /\ held'[p] = held[p] \cup {k}
    BY Delivered
  <1>2. s \in Objects /\ Moves(p, s)
    BY <1>1 DEF Handles, Moves, Moving
  <1>3. \A q \in Procs : <<q, s>> \notin Lent
    BY <1>2, LentHeld DEF LoanInv, Exclusive
  <1>4. Lent' = Lent \cup {<<p, s>>}
    BY <1>1, <1>2, Delivered DEF Lent
  <1>5. Kept'
    BY DEF Kept
  <1>6. Loans!Lend(p, s)
    BY <1>3, <1>4, <1>5 DEF Loans!Lend, Loans!Lendable
  <1>7. QED
    BY <1>2, <1>6 DEF Loans!Next

\* The call that ends a loan is its GiveBack.
LEMMA RedeemGivesBack ==
  ASSUME TypeOK, Kept, LoanInv, NEW p \in Procs, NEW h \in held[p], CallRedeem(p, h)
  PROVE  Loans!Next
  <1>1. h.slot \in Objects /\ HeldBy(p, h.slot)
    BY DEF TypeOK, Handles, HeldBy
  <1>2. Lent' = Lent \ {<<p, h.slot>>}
    <2>1. \A q \in Procs : held'[q] = IF q = p THEN held[p] \ {h} ELSE held[q]
      BY DEF CallRedeem, TypeOK
    <2>2. \A k \in held[p] : k.slot = h.slot => k = h
      BY DEF LoanInv, Exclusive
    <2>3. QED
      BY <2>1, <2>2 DEF Lent
  <1>3. Kept'
    BY DEF CallRedeem, Kept
  <1>4. Loans!GiveBack(p, h.slot)
    BY <1>1, <1>2, <1>3, LentHeld DEF Loans!GiveBack
  <1>5. QED
    BY <1>1, <1>4 DEF Loans!Next

\* Every step of a pool is a step of the abstract specification, or changes
\* nothing that it sees.
LEMMA LoanRefines ==
  ASSUME TypeOK, KeptLoans, [Next]_vars
  PROVE  [Loans!Next]_(IF Kept THEN Lent ELSE {})
  <1>0. UNCHANGED mode /\ (Kept' <=> Kept)
    BY ModeFixed DEF Kept
  <1>1. SUFFICES ASSUME Kept PROVE Loans!Next \/ Lent' = Lent
    BY <1>0
  <1>2. LoanInv
    BY <1>1 DEF KeptLoans
  <1>3. ASSUME UNCHANGED held PROVE Lent' = Lent
    BY <1>3 DEF Lent
  <1>4. ASSUME NEW p \in Procs, HandOut(p) PROVE Loans!Next
    BY <1>4, <1>0, <1>1, <1>2, DeliverLends DEF HandOut
  <1>5. ASSUME NEW p \in Procs, MarkBorrow(p) PROVE Loans!Next \/ Lent' = Lent
    <2>1. CASE CheckedOut(arg[p].slot)
      BY <1>3, <1>5, <2>1 DEF MarkBorrow
    <2>2. CASE ~CheckedOut(arg[p].slot)
      <3>1. pc[p] = "clean" /\ nextGen + 1 \in Nat /\ Deliver(p, nextGen + 1)
        BY <1>5, <2>2 DEF MarkBorrow, TypeOK
      <3>2. QED
        BY <3>1, <1>0, <1>1, <1>2, DeliverLends
    <2>3. QED
      BY <2>1, <2>2
  <1>6. ASSUME NEW p \in Procs, NEW h \in held[p], CallRedeem(p, h) PROVE Loans!Next
    BY <1>6, <1>1, <1>2, RedeemGivesBack
  <1>7. ASSUME NEW p \in Procs, NEW s \in Objects, GetPooled(p, s) \/ GetNew(p, s)
        PROVE Lent' = Lent
    BY <1>3, <1>7 DEF GetPooled, GetNew, clients
  <1>8. ASSUME NEW p \in Procs,
               \/ StoreBorrowed(p) \/ ResetOnBorrow(p) \/ MarkRedeem(p) \/ CompareAndSwap(p)
               \/ ResetOnRedeem(p) \/ Put(p) \/ Recover(p)
        PROVE Lent' = Lent
    BY <1>3, <1>8 DEF StoreBorrowed, ResetOnBorrow, MarkRedeem, CompareAndSwap,
                      ResetOnRedeem, Put, Recover, clients
  <1>9. ASSUME NEW p \in Procs,
               NEW h \in spent \cup [slot : Foreign, id : {0}, gen : {0}], CallAgain(p, h)
        PROVE Lent' = Lent
    BY <1>3, <1>9 DEF CallAgain, clients
  <1>10. ASSUME NEW p \in Procs, NEW h \in held[p], Use(p, h) PROVE Lent' = Lent
    BY <1>3, <1>10 DEF Use, clients
  <1>11. ASSUME (\E s \in Objects : Drop(s)) \/ ResetTracking \/ UNCHANGED vars
         PROVE Lent' = Lent
    BY <1>3, <1>11 DEF Drop, ResetTracking, vars, clients
  <1>12. QED
    BY <1>4, <1>5, <1>6, <1>7, <1>8, <1>9, <1>10, <1>11 DEF Next, Borrowing, Redeemed

\* Pools lend exclusively: they implement ExclusiveLoans.
THEOREM PoolsImplementLoans == Spec => ImplementsLoans
  <1>1. Init => Loans!Init
    BY DEF Init, Loans!Init, Lent
  <1>2. QED
    BY <1>1, LoanRefines, TypeCorrect, LoansSafe, PTL DEF Spec, ImplementsLoans, Loans!Spec

=============================================================================
