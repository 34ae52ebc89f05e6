------------------------------ MODULE Registrar ------------------------------
(***************************************************************************)
(* The Registrar of package adapters: for each JSON capability, a list of  *)
(* the adapters registered, last one first, and a cache that remembers     *)
(* which adapter serves a type.                                            *)
(*                                                                         *)
(* Every critical section of gmx is one step.  A lookup is not one         *)
(* critical section: AdapterFor reads the slice of the registry before it  *)
(* takes the lock, scans it under the read lock, and writes the cache      *)
(* under another lock.  Go slices are modelled as they are in memory, an   *)
(* array and a length, because slices.Insert shifts the array in place     *)
(* when it has room, under the feet of a reader that holds an old header.  *)
(*                                                                         *)
(* mode says how the program behaves, once and for all:                    *)
(*   quiet     changes are made while no lookup runs.                      *)
(*   whole     nothing is registered or looked up in the middle of Reset.  *)
(*   clearing  once anything is cached, a registration is followed by      *)
(*             ClearCache.                                                 *)
(*   maxRegs   bound on the registrations, those of Reset included.        *)
(***************************************************************************)
EXTENDS Naturals, Sequences

CONSTANTS
  Goroutines, Caps, Types, Adapters,
  Std,             \* the default adapter
  What,            \* What[a]: the capabilities a is registered for
  Supports,        \* Supports[a]: the types a.Support accepts
  None, Crash,
  Modes            \* the modes considered

ASSUME RegistrarAssumption ==
  /\ Std \in Adapters
  /\ What \in [Adapters -> SUBSET Caps] /\ Supports \in [Adapters -> SUBSET Types]
  /\ What[Std] = Caps /\ Supports[Std] = Types
  /\ None \notin Adapters /\ Crash \notin Adapters /\ None # Crash
  /\ Modes \subseteq [quiet : BOOLEAN, whole : BOOLEAN, clearing : BOOLEAN,
                     maxRegs : Nat]

VARIABLES
  mode,      \* see above: constant
  lock,      \* the read lock of gmx: "free" between critical sections, "leaked"
             \* when a lookup crashed with it, "jammed" once a writer waits for it
  heap,      \* heap[c]: the arrays allocated for capability c
  reg,       \* reg[c] = [arr, len]: the registry slice
  cache,     \* cache[c][t]: an adapter, or None
  pending,   \* goroutines in Reset, before it registers the default again
  pc, look,  \* the step and the data of each goroutine's lookup
  cleared,   \* no registration since the cache was emptied (history)
  regs       \* the registrations so far

vars == <<mode, lock, heap, reg, cache, pending, pc, look, cleared, regs>>

NoLookup == [cap |-> None, type |-> None, arr |-> 0, len |-> None,
             found |-> None, seen |-> {}]

\* The cells a slice header (array and length) gives access to.  A header
\* whose halves were read around an insertion may reach beyond its array.
Cells(array, len) ==
  [i \in 1 .. len |-> IF i <= Len(array) THEN array[i] ELSE None]

\* The registry of capability c in memory hp with header r.
Listed(hp, r, c) == Cells(hp[c][r[c].arr], r[c].len)

Order(c) == Listed(heap, reg, c)

\* The first entry, whatever it supports.
ScanFirst(cells, t) == IF cells = <<>> THEN None ELSE cells[1]

\* The loop over the entries: the first that supports t.  Calling Support on
\* what is not an entry crashes.
Scan(cells, t) ==
  LET stops == {i \in DOMAIN cells :
                  cells[i] \notin Adapters \/ t \in Supports[cells[i]]}
      first == CHOOSE i \in stops : \A j \in stops : i <= j
  IN CASE stops = {} -> None
       [] stops # {} /\ cells[first] \in Adapters -> cells[first]
       [] OTHER -> Crash

EmptyCache == [c \in Caps |-> [t \in Types |-> None]]

Looking == {g \in Goroutines : pc[g] \in {"header", "fill"}}

Init ==
  /\ mode \in Modes
  /\ lock = "free"
  /\ heap = [c \in Caps |-> << <<Std>> >>]
  /\ reg = [c \in Caps |-> [arr |-> 1, len |-> 1]]
  /\ cache = EmptyCache
  /\ pending = {}
  /\ pc = [g \in Goroutines |-> "idle"]
  /\ look = [g \in Goroutines |-> NoLookup]
  /\ cleared = TRUE
  /\ regs = 0

\* Lookups under way remember the lists that were current (history).
Witness ==
  look' = [g \in Goroutines |->
             IF g \notin Looking THEN look[g]
             ELSE [look[g] EXCEPT
                     !.seen = @ \cup {Listed(heap', reg', look[g].cap)}]]

-----------------------------------------------------------------------------
(* Changes of the registry *)

HasRoom(c) == reg[c].len < Len(heap[c][reg[c].arr])

\* The elements not moved.
ShiftNone(array, len, a) == [i \in DOMAIN array |-> IF i = 1 THEN a ELSE array[i]]

\* slices.Insert(s, 0, a), in place: the elements move one cell up.
Shift(array, len, a) ==
  [i \in DOMAIN array |-> CASE i = 1 -> a
                            [] i \in 2 .. len + 1 -> array[i - 1]
                            [] OTHER -> array[i]]

\* slices.Insert(s, 0, a) into a new array, of twice the capacity.
Regrow(array, len, a) ==
  [i \in 1 .. 2 * Len(array) |-> CASE i = 1 -> a
                                   [] i \in 2 .. len + 1 -> array[i - 1]
                                   [] OTHER -> None]

\* RegisterFor, for every capability of the entry.
Insert(a) ==
  /\ heap' = [c \in Caps |->
       LET r == reg[c]  array == heap[c][r.arr] IN
       CASE c \notin What[a] -> heap[c]
         [] c \in What[a] /\ HasRoom(c) ->
              [heap[c] EXCEPT ![r.arr] = Shift(array, r.len, a)]
         [] OTHER -> Append(heap[c], Regrow(array, r.len, a))]
  /\ reg' = [c \in Caps |->
       CASE c \notin What[a] -> reg[c]
         [] c \in What[a] /\ HasRoom(c) -> [reg[c] EXCEPT !.len = @ + 1]
         [] OTHER -> [arr |-> Len(heap[c]) + 1, len |-> reg[c].len + 1]]

Calm == mode.quiet => Looking = {}

RegisterFor(a) ==
  /\ lock = "free" /\ Calm /\ (mode.whole => pending = {})
  /\ regs < mode.maxRegs
  /\ Insert(a)
  /\ regs' = regs + 1
  /\ cleared' = (cache = EmptyCache)
  /\ Witness
  /\ UNCHANGED <<mode, lock, cache, pending, pc>>

\* One of the caches forgotten.
ClearOneCache ==
  /\ lock = "free" /\ Calm
  /\ \E c \in Caps : cache' = [cache EXCEPT ![c] = EmptyCache[c]]
  /\ cleared' = TRUE
  /\ UNCHANGED <<mode, lock, heap, reg, pending, pc, look, regs>>

ClearCache ==
  /\ lock = "free" /\ Calm
  /\ cache' = EmptyCache
  /\ cleared' = TRUE
  /\ UNCHANGED <<mode, lock, heap, reg, pending, pc, look, regs>>

\* Reset without the cache.
ResetKeepsCache(g) ==
  /\ lock = "free" /\ Calm
  /\ pc[g] = "idle" /\ g \notin pending
  /\ regs < mode.maxRegs
  /\ reg' = [c \in Caps |-> [reg[c] EXCEPT !.len = 0]]
  /\ pending' = pending \cup {g}
  /\ cleared' = TRUE
  /\ Witness
  /\ UNCHANGED <<mode, lock, heap, cache, pc, regs>>

\* Reset, up to the Unlock: the lists are truncated, their arrays kept.
Reset(g) ==
  /\ lock = "free" /\ Calm
  /\ pc[g] = "idle" /\ g \notin pending
  /\ regs < mode.maxRegs
  /\ cache' = EmptyCache
  /\ reg' = [c \in Caps |-> [reg[c] EXCEPT !.len = 0]]
  /\ UNCHANGED heap
  /\ pending' = pending \cup {g}
  /\ cleared' = TRUE
  /\ Witness
  /\ UNCHANGED <<mode, lock, pc, regs>>

\* Reset, the end: defaultRegistered(r) takes the lock again.
ResetDone(g) ==
  /\ lock = "free" /\ g \in pending /\ Calm
  /\ Insert(Std)
  /\ regs' = regs + 1
  /\ pending' = pending \ {g}
  /\ Witness
  /\ UNCHANGED <<mode, lock, cache, pc, cleared>>

\* Any of these, or the filling of a cache, where the read lock was leaked: Lock
\* waits for ever, and from now on RLock waits behind it.
WriterWaits ==
  /\ lock = "leaked"
  /\ lock' = "jammed"
  /\ UNCHANGED <<mode, heap, reg, cache, pending, pc, look, cleared, regs>>

-----------------------------------------------------------------------------
(* AdapterFor *)

Lookup(g, c, t) ==
  /\ pc[g] = "idle" /\ g \notin pending
  /\ mode.whole => pending = {}
  /\ mode.clearing => cleared
  /\ look' = [look EXCEPT ![g] = [NoLookup EXCEPT !.cap = c, !.type = t,
                                                  !.seen = {Order(c)}]]
  /\ pc' = [pc EXCEPT ![g] = "header"]
  /\ UNCHANGED <<mode, lock, heap, reg, cache, pending, cleared, regs>>

\* findFirstFor loads the slice header without the lock, word by word.
ReadArray(g) ==
  /\ pc[g] = "header" /\ look[g].arr = 0
  /\ look' = [look EXCEPT ![g].arr = reg[look[g].cap].arr]
  /\ UNCHANGED <<mode, lock, heap, reg, cache, pending, pc, cleared, regs>>

ReadLength(g) ==
  /\ pc[g] = "header" /\ look[g].len = None
  /\ look' = [look EXCEPT ![g].len = reg[look[g].cap].len]
  /\ UNCHANGED <<mode, lock, heap, reg, cache, pending, pc, cleared, regs>>

HeaderRead(g) == pc[g] = "header" /\ look[g].arr # 0 /\ look[g].len # None

Cached(g) == cache[look[g].cap][look[g].type]

CacheHit(g) == look[g].len > 1 /\ Cached(g) # None

\* Under the read lock: the cache, when there is a choice of adapters.
ReadCache(g) ==
  /\ lock # "jammed" /\ HeaderRead(g) /\ CacheHit(g)
  /\ look' = [look EXCEPT ![g].found = Cached(g)]
  /\ pc' = [pc EXCEPT ![g] = "done"]
  /\ UNCHANGED <<mode, lock, heap, reg, cache, pending, cleared, regs>>

\* The RUnlock after the loop forgotten.
ScanEntriesKeepsLock(g) ==
  /\ lock # "jammed" /\ HeaderRead(g) /\ ~CacheHit(g)
  /\ LET found == Scan(Cells(heap[look[g].cap][look[g].arr], look[g].len),
                       look[g].type)
     IN /\ look' = [look EXCEPT ![g].found = found]
        /\ pc' = [pc EXCEPT ![g] = IF found \in Adapters THEN "fill" ELSE "done"]
        /\ lock' = IF found \notin Adapters THEN "leaked" ELSE lock
  /\ UNCHANGED <<mode, heap, reg, cache, pending, cleared, regs>>

\* Under the read lock: the entries, through the header read before.  The three
\* ways out of the code each unlock; a panic in the loop unlocks nothing.
ScanEntries(g) ==
  /\ lock # "jammed" /\ HeaderRead(g) /\ ~CacheHit(g)
  /\ LET found == Scan(Cells(heap[look[g].cap][look[g].arr], look[g].len),
                       look[g].type)
     IN /\ look' = [look EXCEPT ![g].found = found]
        /\ pc' = [pc EXCEPT ![g] = IF found \in Adapters THEN "fill" ELSE "done"]
        /\ lock' = IF found = Crash THEN "leaked" ELSE lock
  /\ UNCHANGED <<mode, heap, reg, cache, pending, cleared, regs>>

\* Under the write lock: the cache entry.
FillCache(g) ==
  /\ lock = "free" /\ pc[g] = "fill"
  /\ cache' = [cache EXCEPT ![look[g].cap][look[g].type] = look[g].found]
  /\ pc' = [pc EXCEPT ![g] = "done"]
  /\ UNCHANGED <<mode, lock, heap, reg, pending, look, cleared, regs>>

\* The caller has its adapter, or nil.
Answer(g) ==
  /\ pc[g] = "done"
  /\ pc' = [pc EXCEPT ![g] = "idle"]
  /\ look' = [look EXCEPT ![g] = NoLookup]
  /\ UNCHANGED <<mode, lock, heap, reg, cache, pending, cleared, regs>>

\* The steps of a lookup, once it has begun.
AdapterFor(g) ==
  ReadArray(g) \/ ReadLength(g) \/ ReadCache(g) \/ ScanEntries(g) \/ FillCache(g)

-----------------------------------------------------------------------------
(* Properties *)

Answered == {g \in Goroutines : pc[g] = "done"}

\* The adapter served is the last registered of those that support the type,
\* in a list that was current at some moment of the call: provided that changes
\* are made between lookups, and the cache cleared after a registration.
LastRegisteredFirst ==
  mode.quiet /\ mode.whole /\ mode.clearing => \A g \in Answered :
    look[g].found \in {Scan(s, look[g].type) : s \in look[g].seen}

\* A lookup that meets no change of the registry is answered from it: by an
\* adapter that was registered at some moment of the call, never by one that a
\* Reset removed, and always by one, the default if need be, unless it comes in
\* the middle of a Reset.
AlwaysServed ==
  mode.quiet => \A g \in Answered :
    /\ mode.whole => look[g].found \in Adapters
    /\ look[g].found \in Adapters =>
         \E s \in look[g].seen : \E i \in DOMAIN s : s[i] = look[g].found

\* Whatever races there are, an adapter is only served for a type and for a
\* capability it supports, and the cache never says otherwise.
ServesSupporting ==
  /\ \A g \in Answered : look[g].found \in Adapters =>
       /\ look[g].type \in Supports[look[g].found]
       /\ look[g].cap \in What[look[g].found]
  /\ \A c \in Caps, t \in Types : cache[c][t] # None =>
       t \in Supports[cache[c][t]] /\ c \in What[cache[c][t]]

\* An adapter is added before all others, or all of them are gone.
OrderKept == \A c \in Caps :
  \/ Order(c)' = Order(c)
  \/ Order(c)' = <<>>
  \/ \E a \in Adapters : Order(c)' = <<a>> \o Order(c)

\* A registration never loses or reorders the adapters registered before,
\* wherever slices.Insert puts them.
KeepsOrder == [][OrderKept]_vars

=============================================================================
