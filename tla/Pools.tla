-------------------------------- MODULE Pools --------------------------------
(***************************************************************************)
(* Pool[T] and PoolRedeemable[T] of package pools, in both builds.         *)
(*                                                                         *)
(* Goroutines (Procs) borrow pooled objects (Slots) and redeem them.  An   *)
(* operation is a series of atomic steps: sync.Pool's Get and Put, the     *)
(* atomic Store and CompareAndSwap on a wrapper's state, a reset of the    *)
(* object, and, under the poolsdebug build tag, one critical section of    *)
(* the tracker's mutex.  Steps of different goroutines interleave freely.  *)
(*                                                                         *)
(* mode says which pool, which build and which clients, once and for all:  *)
(*   guarded   PoolRedeemable (closure + CAS); otherwise the plain Pool.   *)
(*   tracking  the poolsdebug build.                                       *)
(*   sloppy    clients may call a redeem closure again after its first     *)
(*             call, and hand foreign objects to Pool.Redeem.              *)
(*   resets    ResetTracking may be called at any moment.                  *)
(*                                                                         *)
(* id and current are history: they number the loans, so that properties   *)
(* can tell which loan a closure was made for.                             *)
(***************************************************************************)
EXTENDS Naturals

CONSTANTS Procs, Slots, Foreign, NoHandle,
          Modes,                \* the modes considered
          MaxLoans              \* bound on the loans of a behaviour

ASSUME PoolAssumption ==
  /\ Modes \subseteq [guarded : BOOLEAN, tracking : BOOLEAN,
                     sloppy : BOOLEAN, resets : BOOLEAN]
  /\ MaxLoans \in Nat
  /\ Slots \cap Foreign = {}

Objects == Slots \cup Foreign

\* What a borrower gets: the object and its redeem closure.  The closure is
\* the same for every loan of a wrapper; only the tracker stamps it (gen).
Handles == [slot : Objects, id : Nat, gen : Nat]

Steps == {"idle", "got", "stored", "clean",
          "calling", "marked", "won", "returning", "panicked"}

NoEntry == [status |-> "none", gen |-> 0]

VARIABLES
  mode,     \* see above: constant
  pooled,   \* [Objects -> Nat] copies of the object lying in the sync.Pool
  made,     \* the wrappers built by the pool's New function
  state,    \* redeemable.state
  dirty,    \* does the object hold data of a borrower?
  entries,  \* tracker.entries ("none": no entry)
  nextGen,  \* tracker.nextGen
  issued,   \* number of loans so far (history)
  current,  \* the last loan of each object (history)
  held,     \* the live loans of each goroutine
  spent,    \* loans whose closure was called: a sloppy client keeps them
  pc,       \* the step each goroutine is at
  arg       \* the handle it is working on

vars == <<mode, pooled, made, state, dirty, entries, nextGen, issued, current,
          held, spent, pc, arg>>

Guarded == mode.guarded
Tracking == mode.tracking
Sloppy == mode.sloppy
Resets == mode.resets

tracker == <<entries, nextGen>>
clients == <<held, spent>>
history == <<issued, current>>

Init ==
  /\ mode \in Modes
  /\ pooled = [s \in Objects |-> 0]
  /\ made = {}
  /\ state = [s \in Objects |-> "idle"]
  /\ dirty = [s \in Objects |-> FALSE]
  /\ entries = [s \in Objects |-> NoEntry]
  /\ nextGen = 0
  /\ issued = 0
  /\ current = [s \in Objects |-> 0]
  /\ held = [p \in Procs |-> {}]
  /\ spent = {}
  /\ pc = [p \in Procs |-> "idle"]
  /\ arg = [p \in Procs |-> NoHandle]

Goto(p, step) == pc' = [pc EXCEPT ![p] = step]

Finish(p) == Goto(p, "idle") /\ arg' = [arg EXCEPT ![p] = NoHandle]

\* A Go panic unwinds the operation; the client may recover from it.
Panic(p) == Goto(p, "panicked") /\ UNCHANGED arg

-----------------------------------------------------------------------------
(* Borrow, BorrowWithRedeem *)

\* The goroutine starts a new loan of s.
Start(p, s) ==
  /\ pc[p] = "idle"
  /\ issued < MaxLoans
  /\ issued' = issued + 1
  /\ current' = [current EXCEPT ![s] = issued + 1]
  /\ arg' = [arg EXCEPT ![p] = [slot |-> s, id |-> issued + 1, gen |-> 0]]
  /\ Goto(p, "got")

\* sync.Pool.Get finds an object.
GetPooled(p, s) ==
  /\ pooled[s] > 0
  /\ pooled' = [pooled EXCEPT ![s] = @ - 1]
  /\ Start(p, s)
  /\ UNCHANGED <<mode, made, state, dirty, tracker, clients>>

\* New, had it one object for everybody.
GetNewShared(p, s) ==
  /\ s \in Slots
  /\ made' = made \cup {s}
  /\ Start(p, s)
  /\ UNCHANGED <<mode, pooled, state, dirty, tracker, clients>>

\* sync.Pool.Get finds none (it may overlook those it has) and calls New.
GetNew(p, s) ==
  /\ s \in Slots \ made
  /\ made' = made \cup {s}
  /\ Start(p, s)
  /\ UNCHANGED <<mode, pooled, state, dirty, tracker, clients>>

\* The store forgotten.
StoreNothing(p) ==
  /\ Guarded /\ pc[p] = "got"
  /\ Goto(p, "stored")
  /\ UNCHANGED <<mode, pooled, made, state, dirty, tracker, history, clients, arg>>

\* container.state.Store(stateBorrowed)
StoreBorrowed(p) ==
  /\ Guarded /\ pc[p] = "got"
  /\ state' = [state EXCEPT ![arg[p].slot] = "borrowed"]
  /\ Goto(p, "stored")
  /\ UNCHANGED <<mode, pooled, made, dirty, tracker, history, clients, arg>>

ResetOnBorrow(p) ==
  /\ pc[p] = IF Guarded THEN "stored" ELSE "got"
  /\ dirty' = [dirty EXCEPT ![arg[p].slot] = FALSE]
  /\ Goto(p, "clean")
  /\ UNCHANGED <<mode, pooled, made, state, tracker, history, clients, arg>>

\* The loan reaches the client, with the closure of generation g.
Deliver(p, g) ==
  /\ held' = [held EXCEPT ![p] = @ \cup {[arg[p] EXCEPT !.gen = g]}]
  /\ Finish(p)

\* Release build: onBorrow and borrowRedeemer do nothing.
HandOut(p) ==
  /\ ~Tracking /\ pc[p] = "clean"
  /\ Deliver(p, 0)
  /\ UNCHANGED <<mode, pooled, made, state, dirty, tracker, history, spent>>

CheckedOut(s) == entries[s].status = "borrowed"

\* tracker.markBorrow, then the return to the client.
MarkBorrow(p) ==
  LET s == arg[p].slot IN
  /\ Tracking /\ pc[p] = "clean"
  /\ \/ /\ CheckedOut(s)
        /\ Panic(p)
        /\ UNCHANGED <<tracker, held>>
     \/ /\ ~CheckedOut(s)
        /\ nextGen' = nextGen + 1
        /\ entries' = [entries EXCEPT
                         ![s] = [status |-> "borrowed", gen |-> nextGen + 1]]
        /\ Deliver(p, nextGen + 1)
  /\ UNCHANGED <<mode, pooled, made, state, dirty, history, spent>>

-----------------------------------------------------------------------------
(* Redeem, and the redeem closures *)

\* The closure called on no object.
CallUnbound(p, h) ==
  /\ pc[p] = "idle" /\ h \in held[p]
  /\ held' = [held EXCEPT ![p] = @ \ {h}]
  /\ Goto(p, "calling")
  /\ UNCHANGED <<mode, pooled, made, state, dirty, tracker, history, spent, arg>>

\* A borrower ends its loan.  Only a sloppy client remembers the handle.
CallRedeem(p, h) ==
  /\ pc[p] = "idle" /\ h \in held[p]
  /\ held' = [held EXCEPT ![p] = @ \ {h}]
  /\ spent' = IF Sloppy THEN spent \cup {h} ELSE spent
  /\ arg' = [arg EXCEPT ![p] = h]
  /\ Goto(p, "calling")
  /\ UNCHANGED <<mode, pooled, made, state, dirty, tracker, history>>

\* Any goroutine calls a closure that was called before, or redeems an object
\* the pool never made.
CallAgain(p, h) ==
  /\ Sloppy /\ pc[p] = "idle"
  /\ \/ h \in spent
     \/ ~Guarded /\ h \in [slot : Foreign, id : {0}, gen : {0}]
  /\ arg' = [arg EXCEPT ![p] = h]
  /\ Goto(p, "calling")
  /\ UNCHANGED <<mode, pooled, made, state, dirty, tracker, history, clients>>

\* Without generations.
NeverStale(h) == FALSE

\* tracker.markRedeem's checks: no entry, not borrowed, another generation
\* (the plain pool passes none).
StaleGen(h) == Guarded /\ entries[h.slot].gen # h.gen

\* An object already redeemed let through.
RefusedIfUnknown(h) == entries[h.slot].status = "none" \/ StaleGen(h)

Refused(h) == ~CheckedOut(h.slot) \/ StaleGen(h)

\* The redeem validated and not recorded.
MarkNothing(p) ==
  /\ Tracking /\ pc[p] = "calling"
  /\ IF Refused(arg[p]) THEN Panic(p) ELSE Goto(p, "marked") /\ UNCHANGED arg
  /\ UNCHANGED <<mode, pooled, made, state, dirty, tracker, history, clients>>

MarkRedeem(p) ==
  /\ Tracking /\ pc[p] = "calling"
  /\ IF Refused(arg[p])
     THEN Panic(p) /\ UNCHANGED entries
     ELSE /\ entries' = [entries EXCEPT ![arg[p].slot].status = "redeemed"]
          /\ Goto(p, "marked") /\ UNCHANGED arg
  /\ UNCHANGED <<mode, pooled, made, state, dirty, nextGen, history, clients>>

\* Where the redeemer proper begins.
Redeeming == IF Tracking THEN "marked" ELSE "calling"

\* The state loaded and compared, the swap forgotten.
CompareOnly(p) ==
  /\ Guarded /\ pc[p] = Redeeming
  /\ IF state[arg[p].slot] = "borrowed"
     THEN Goto(p, "won") /\ UNCHANGED arg
     ELSE Panic(p)
  /\ UNCHANGED <<mode, pooled, made, state, dirty, tracker, history, clients>>

\* r.state.CompareAndSwap(stateBorrowed, stateIdle), or the panic.
CompareAndSwap(p) ==
  /\ Guarded /\ pc[p] = Redeeming
  /\ IF state[arg[p].slot] = "borrowed"
     THEN /\ state' = [state EXCEPT ![arg[p].slot] = "idle"]
          /\ Goto(p, "won") /\ UNCHANGED arg
     ELSE Panic(p) /\ UNCHANGED state
  /\ UNCHANGED <<mode, pooled, made, dirty, tracker, history, clients>>

\* The object put back as its borrower left it.
NoResetOnRedeem(p) ==
  /\ pc[p] = IF Guarded THEN "won" ELSE Redeeming
  /\ Goto(p, "returning")
  /\ UNCHANGED <<mode, pooled, made, state, dirty, tracker, history, clients, arg>>

ResetOnRedeem(p) ==
  /\ pc[p] = IF Guarded THEN "won" ELSE Redeeming
  /\ dirty' = [dirty EXCEPT ![arg[p].slot] = FALSE]
  /\ Goto(p, "returning")
  /\ UNCHANGED <<mode, pooled, made, state, tracker, history, clients, arg>>

Put(p) ==
  /\ pc[p] = "returning"
  /\ pooled' = [pooled EXCEPT ![arg[p].slot] = @ + 1]
  /\ Finish(p)
  /\ UNCHANGED <<mode, made, state, dirty, tracker, history, clients>>

-----------------------------------------------------------------------------
(* The environment *)

\* A borrower writes to an object it holds.
Use(p, h) ==
  /\ pc[p] = "idle" /\ h \in held[p]
  /\ dirty' = [dirty EXCEPT ![h.slot] = TRUE]
  /\ UNCHANGED <<mode, pooled, made, state, tracker, history, clients, pc, arg>>

Recover(p) ==
  /\ pc[p] = "panicked"
  /\ Finish(p)
  /\ UNCHANGED <<mode, pooled, made, state, dirty, tracker, history, clients>>

\* The garbage collector empties part of the sync.Pool.
Drop(s) ==
  /\ pooled[s] > 0
  /\ pooled' = [pooled EXCEPT ![s] = @ - 1]
  /\ UNCHANGED <<mode, made, state, dirty, tracker, history, clients, pc, arg>>

\* pools.ResetTracking, for this pool's tracker.
ResetTracking ==
  /\ Tracking /\ Resets
  /\ entries' = [s \in Objects |-> NoEntry]
  /\ nextGen' = 0
  /\ UNCHANGED <<mode, pooled, made, state, dirty, history, clients, pc, arg>>

-----------------------------------------------------------------------------
Borrowing(p) ==
  \/ \E s \in Objects : GetPooled(p, s) \/ GetNew(p, s)
  \/ StoreBorrowed(p) \/ ResetOnBorrow(p) \/ HandOut(p) \/ MarkBorrow(p)

Redeemed(p) ==
  \/ \E h \in held[p] : CallRedeem(p, h)
  \/ \E h \in spent \cup [slot : Foreign, id : {0}, gen : {0}] : CallAgain(p, h)
  \/ MarkRedeem(p) \/ CompareAndSwap(p) \/ ResetOnRedeem(p) \/ Put(p)

Next ==
  \/ \E p \in Procs : Borrowing(p) \/ Redeemed(p) \/ Recover(p)
  \/ \E p \in Procs : \E h \in held[p] : Use(p, h)
  \/ \E s \in Objects : Drop(s)
  \/ ResetTracking

Spec == Init /\ [][Next]_vars

-----------------------------------------------------------------------------
(* Properties *)

\* The variables have their types, and a busy goroutine has a handle.
TypeOK ==
  /\ mode \in Modes
  /\ pooled \in [Objects -> Nat]
  /\ made \subseteq Slots
  /\ state \in [Objects -> {"idle", "borrowed"}]
  /\ dirty \in [Objects -> BOOLEAN]
  /\ entries \in [Objects -> [status : {"none", "borrowed", "redeemed"},
                              gen : Nat]]
  /\ nextGen \in Nat
  /\ issued \in Nat
  /\ current \in [Objects -> Nat]
  /\ held \in [Procs -> SUBSET Handles]
  /\ spent \subseteq Handles
  /\ pc \in [Procs -> Steps]
  /\ arg \in [Procs -> Handles \cup {NoHandle}]
  /\ \A p \in Procs : pc[p] # "idle" => arg[p] \in Handles

\* Steps at which a goroutine has s in hand: won back and not yet put.
Has(p, s, steps) == pc[p] \in steps /\ arg[p].slot = s

Returning == {"won", "returning"}

\* The wrapper is not in the sync.Pool twice, nor in the pool and in the hands
\* of a goroutine that will put it there.
Once(s) ==
  /\ pooled[s] <= 1
  /\ pooled[s] = 1 => \A p \in Procs : ~Has(p, s, Returning)

\* The same wrapper of a PoolRedeemable is never in the sync.Pool twice, or
\* about to be: what redeemable.state is for.  It holds in both builds,
\* whatever the clients do with their closures and whenever tracking is reset.
PooledOnce == Guarded => \A s \in Objects : Once(s)

\* The plain Pool has no such guard: its clients must redeem once and their own
\* objects, or the tracker must stop those that do not.
PlainPooledOnce ==
  ~Guarded /\ (Tracking \/ ~Sloppy) =>
    /\ \A s \in Objects : Once(s)
    /\ \A s \in Foreign : pooled[s] = 0

\* The modes in which loans are exclusive: clients that redeem each loan once,
\* or a tracker with generations and its memory.
Kept == ~Sloppy \/ (Guarded /\ Tracking /\ ~Resets)

\* No object is lent to two borrowers, or lent and lying in the pool.
NoSharing ==
  Kept => \A p, q \in Procs : \A h \in held[p], k \in held[q] :
    h.slot = k.slot => p = q /\ h = k /\ pooled[h.slot] = 0

\* No goroutine panics: pools never accuse a client that redeems each loan
\* exactly once.
NoPanic == ~Sloppy /\ ~Resets => \A p \in Procs : pc[p] # "panicked"

\* An object in the pool carries nothing of its last borrower.
PooledClean == Kept => \A s \in Objects : pooled[s] > 0 => ~dirty[s]

\* The poolsdebug build refuses every call of a closure that would give back a
\* later loan of the wrapper: a redeem that is carried out ends the loan that
\* the closure was made for.
RedeemsOwnLoan == Kept => \A p \in Procs :
  pc[p] \in Returning => arg[p].id = current[arg[p].slot]

\* AssertNoLeaks, called when no operation is under way, reports exactly the
\* objects some client holds.
Leaks == {s \in Objects : CheckedOut(s)}
LeakReportExact ==
  /\ Tracking /\ ~Resets /\ (Guarded \/ ~Sloppy)
  /\ \A p \in Procs : pc[p] \in {"idle", "panicked"}
  => Leaks = {h.slot : h \in UNION {held[p] : p \in Procs}}

\* Who has which object on loan.
Lent == {l \in Procs \X Objects : \E h \in held[l[1]] : h.slot = l[2]}

\* The pools implement exclusive lending, in the modes that keep it.
Loans == INSTANCE ExclusiveLoans
           WITH Borrowers <- Procs, lent <- IF Kept THEN Lent ELSE {}
ImplementsLoans == Loans!Spec

=============================================================================
