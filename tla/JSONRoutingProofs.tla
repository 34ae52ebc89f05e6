-------------------------- MODULE JSONRoutingProofs --------------------------
(***************************************************************************)
(* Proofs about the Registrar and the calls that go through it, for every  *)
(* set of goroutines, adapters, capabilities and types, any number of      *)
(* registrations, and each discipline of the program.                      *)
(***************************************************************************)
EXTENDS JSONRouting, TLAPS, WellFoundedInduction, SequenceTheorems

Entries == Adapters \cup {None}

Serves(a, c, t) == a \in Adapters /\ t \in Supports[a] /\ c \in What[a]

\* The list has adapter a.
Registered(a, list) == \E i \in DOMAIN list : list[i] = a

Looks == [cap : Caps \cup {None}, type : Types \cup {None}, arr : Nat,
          len : Nat \cup {None}, found : Entries \cup {Crash},
          seen : SUBSET Seq(Adapters)]

-----------------------------------------------------------------------------
(* The invariants *)

\* A list of capability c in memory: the header lies within its array, and the
\* arrays hold entries registered for c, without a gap below the length.
Holds(arrays, r, c) ==
  /\ arrays \in Seq(Seq(Entries)) /\ r \in [arr : Nat, len : Nat]
  /\ r.arr \in 1 .. Len(arrays) /\ r.len <= Len(arrays[r.arr])
  /\ \A k \in 1 .. Len(arrays) :
       /\ Len(arrays[k]) > 0
       /\ \A i \in 1 .. Len(arrays[k]) :
            arrays[k][i] # None => c \in What[arrays[k][i]]
  /\ \A i \in 1 .. r.len : arrays[r.arr][i] \in Adapters

MemoryOK ==
  /\ heap \in [Caps -> Seq(Seq(Entries))]
  /\ reg \in [Caps -> [arr : Nat, len : Nat]]
  /\ \A c \in Caps : Holds(heap[c], reg[c], c)

CacheOK ==
  /\ cache \in [Caps -> [Types -> Entries]]
  /\ \A c \in Caps, t \in Types : cache[c][t] # None => Serves(cache[c][t], c, t)

\* Whatever a lookup has in hand, be it half of a header, leads to entries.
LookOK ==
  /\ pc \in [Goroutines -> {"idle", "header", "fill", "done"}]
  /\ look \in [Goroutines -> Looks]
  /\ \A g \in Goroutines : pc[g] # "idle" => look[g].cap \in Caps /\ look[g].type \in Types
  /\ \A g \in Goroutines : pc[g] = "header" => look[g].arr <= Len(heap[look[g].cap])
  /\ \A g \in Goroutines : pc[g] = "fill" => look[g].found \in Adapters
  /\ \A g \in Goroutines : pc[g] \in {"fill", "done"} /\ look[g].found \in Adapters
       => Serves(look[g].found, look[g].cap, look[g].type)

\* The default adapter is there, unless a Reset is half done.
DefaultThere == pending = {} => \A c \in Caps : Registered(Std, Order(c))

\* What holds whatever the program does.
RegInv == mode \in Modes /\ MemoryOK /\ CacheOK /\ LookOK /\ DefaultThere

Orderly == mode.whole /\ mode.clearing

\* In a quiet program, a lookup under way sees the registry as it is, and its
\* answer is from the registry that it saw.
InTouch(g) ==
  /\ pc[g] \in {"header", "fill"} =>
       /\ look[g].seen = {Order(look[g].cap)}
       /\ mode.whole => pending = {}
       /\ Orderly => cleared
  /\ pc[g] = "header" => /\ look[g].arr \in {0, reg[look[g].cap].arr}
                         /\ look[g].len \in {None, reg[look[g].cap].len}
  /\ pc[g] = "fill" =>
       /\ Registered(look[g].found, Order(look[g].cap))
       /\ Orderly => look[g].found = Scan(Order(look[g].cap), look[g].type)
  /\ pc[g] = "done" =>
       /\ mode.whole => look[g].found \in Adapters
       /\ look[g].found \in Adapters => \E s \in look[g].seen : Registered(look[g].found, s)
       /\ Orderly => \E s \in look[g].seen : look[g].found = Scan(s, look[g].type)

\* The cache has adapters that are registered, and, unless it is about to be
\* cleared, those that the lists give.
CacheInTouch ==
  /\ \A c \in Caps, t \in Types : cache[c][t] # None =>
       /\ Registered(cache[c][t], Order(c))
       /\ Orderly /\ cleared => cache[c][t] = Scan(Order(c), t)
  /\ Orderly /\ pending # {} => cache = EmptyCache

QuietInv == mode.quiet => CacheInTouch /\ \A g \in Goroutines : InTouch(g)

\* A quiet program leaks no lock.
LockInv == mode.quiet => lock = "free"

\* What a call has left to try.
Todos == {<<>>, <<plain>>}

Calls == [api : {"none", "WriteJSON", "MapSlice", "panic", "crash"}, type : Types \cup {None},
          todo : Todos]

CallOK == call \in [Goroutines -> Calls]
          /\ \A g \in Goroutines : call[g].todo # <<>> => call[g].type \in Types

-----------------------------------------------------------------------------
(* The loop over the entries *)

LEMMA LeastIndex ==
  ASSUME NEW S, S \subseteq Nat, S # {}
  PROVE  \E i \in S : \A j \in S : i <= j
  <1>1. PICK i \in S : \A j \in S : <<j, i>> \notin OpToRel(<, Nat)
    BY NatLessThanWellFounded, WFMin
  <1>2. \A j \in S : ~(j < i)
    BY <1>1 DEF OpToRel
  <1>3. QED
    BY <1>2

\* A scan answers with an entry of the list that supports the type, or with none
\* that does; without one the default is missing.
LEMMA ScanFinds ==
  ASSUME NEW n \in Nat, NEW cells \in [1 .. n -> Entries], NEW t \in Types
  PROVE  /\ Scan(cells, t) \in Entries \cup {Crash}
         /\ Scan(cells, t) \in Adapters =>
              /\ t \in Supports[Scan(cells, t)]
              /\ \E i \in 1 .. n : cells[i] = Scan(cells, t)
         /\ (\A i \in 1 .. n : cells[i] \in Adapters) =>
              /\ Scan(cells, t) # Crash
              /\ (\E i \in 1 .. n : cells[i] = Std) => Scan(cells, t) \in Adapters
  <1> DEFINE stops == {i \in 1 .. n : cells[i] \notin Adapters \/ t \in Supports[cells[i]]}
             first == CHOOSE i \in stops : \A j \in stops : i <= j
  <1>0. DOMAIN cells = 1 .. n
    OBVIOUS
  <1>1. Scan(cells, t) = CASE stops = {} -> None
                           [] stops # {} /\ cells[first] \in Adapters -> cells[first]
                           [] OTHER -> Crash
    BY <1>0 DEF Scan
  <1>2. stops # {} => first \in stops
    <2>1. stops \subseteq Nat
      OBVIOUS
    <2>2. QED
      BY <2>1, LeastIndex
  <1>3. (\E i \in 1 .. n : cells[i] = Std) => stops # {}
    BY RegistrarAssumption
  <1> HIDE DEF first
  <1>4. CASE stops = {}
    BY <1>1, <1>3, <1>4, RegistrarAssumption DEF Entries
  <1>5. CASE stops # {} /\ cells[first] \in Adapters
    BY <1>1, <1>2, <1>5, RegistrarAssumption DEF Entries
  <1>6. CASE stops # {} /\ cells[first] \notin Adapters
    BY <1>1, <1>2, <1>6, RegistrarAssumption
  <1>7. QED
    BY <1>4, <1>5, <1>6

-----------------------------------------------------------------------------
(* slices.Insert *)

Below(arrays, r) == Cells(arrays[r.arr], r.len)

\* What is below the length of a list are its adapters.
LEMMA BelowIsArray ==
  ASSUME NEW c \in Caps, NEW arrays, NEW r, Holds(arrays, r, c)
  PROVE  /\ Below(arrays, r) \in [1 .. r.len -> Adapters]
         /\ Below(arrays, r) \in Seq(Adapters) /\ Len(Below(arrays, r)) = r.len
         /\ \A i \in 1 .. r.len : Below(arrays, r)[i] = arrays[r.arr][i]
  <1>1. \A i \in 1 .. r.len : i <= Len(arrays[r.arr])
    BY DEF Holds
  <1>2. Below(arrays, r) = [i \in 1 .. r.len |-> arrays[r.arr][i]]
    BY <1>1 DEF Below, Cells
  <1>3. r.len \in Nat /\ \A i \in 1 .. r.len : arrays[r.arr][i] \in Adapters
    BY DEF Holds
  <1>4. QED
    BY <1>2, <1>3

\* With the adapter put before the others, one cell up.
LEMMA Prepended ==
  ASSUME NEW c \in Caps, NEW arrays, NEW r, Holds(arrays, r, c),
         NEW more, NEW q, Holds(more, q, c), NEW a \in Adapters,
         q.len = r.len + 1, more[q.arr][1] = a,
         \A i \in 2 .. q.len : more[q.arr][i] = arrays[r.arr][i - 1]
  PROVE  Below(more, q) = <<a>> \o Below(arrays, r)
  <1>1. r.len \in Nat
    BY DEF Holds
  <1>2. /\ Below(more, q) \in Seq(Adapters) /\ Len(Below(more, q)) = r.len + 1
        /\ \A i \in 1 .. r.len + 1 : Below(more, q)[i] = more[q.arr][i]
        /\ Below(arrays, r) \in Seq(Adapters) /\ Len(Below(arrays, r)) = r.len
        /\ \A i \in 1 .. r.len : Below(arrays, r)[i] = arrays[r.arr][i]
    BY BelowIsArray
  <1>3. <<a>> \in Seq(Adapters) /\ Len(<<a>>) = 1 /\ <<a>>[1] = a
    OBVIOUS
  <1> DEFINE s == <<a>> \o Below(arrays, r)
  <1>4. /\ s \in Seq(Adapters) /\ Len(s) = r.len + 1
        /\ \A i \in 1 .. r.len + 1 : s[i] = IF i <= 1 THEN a ELSE Below(arrays, r)[i - 1]
    BY <1>1, <1>2, <1>3, ConcatProperties
  <1>5. \A i \in 1 .. r.len + 1 : s[i] = Below(more, q)[i]
    <2> SUFFICES ASSUME NEW i \in 1 .. r.len + 1 PROVE s[i] = Below(more, q)[i]
      OBVIOUS
    <2>1. CASE i = 1
      BY <1>1, <1>2, <1>4, <2>1
    <2>2. CASE i # 1
      BY <1>1, <1>2, <1>4, <2>2
    <2>3. QED
      BY <2>1, <2>2
  <1>6. QED
    BY <1>2, <1>4, <1>5, SeqEqual

\* In arrays more, list q is what list r was in arrays, with an adapter of
\* capability c before, and the other arrays are as they were.
Prefixed(more, q, arrays, r, a, c) ==
  /\ more \in Seq(Seq(Entries)) /\ q \in [arr : Nat, len : Nat]
  /\ q.len = r.len + 1 /\ q.arr \in 1 .. Len(more) /\ q.len <= Len(more[q.arr])
  /\ more[q.arr][1] = a
  /\ \A i \in 2 .. q.len : more[q.arr][i] = arrays[r.arr][i - 1]
  /\ \A i \in q.len + 1 .. Len(more[q.arr]) : more[q.arr][i] # None => c \in What[more[q.arr][i]]
  /\ \A k \in 1 .. Len(more) : k # q.arr => k \in 1 .. Len(arrays) /\ more[k] = arrays[k]

\* Such a list is well formed too.
LEMMA FrontInserted ==
  ASSUME NEW c \in Caps, NEW arrays, NEW r, Holds(arrays, r, c),
         NEW a \in Adapters, c \in What[a],
         NEW more, NEW q, Prefixed(more, q, arrays, r, a, c)
  PROVE  Holds(more, q, c) /\ Below(more, q) = <<a>> \o Below(arrays, r)
  <1>0. /\ more \in Seq(Seq(Entries)) /\ q \in [arr : Nat, len : Nat]
        /\ q.len = r.len + 1 /\ q.arr \in 1 .. Len(more) /\ q.len <= Len(more[q.arr])
        /\ more[q.arr][1] = a
        /\ \A i \in 2 .. q.len : more[q.arr][i] = arrays[r.arr][i - 1]
        /\ \A i \in q.len + 1 .. Len(more[q.arr]) : more[q.arr][i] # None => c \in What[more[q.arr][i]]
        /\ \A k \in 1 .. Len(more) : k # q.arr => k \in 1 .. Len(arrays) /\ more[k] = arrays[k]
    BY DEF Prefixed
  <1> DEFINE array == arrays[r.arr]  new == more[q.arr]
  <1>1. r.len \in Nat /\ r.len <= Len(array) /\ Len(array) \in Nat
    <2>1. r \in [arr : Nat, len : Nat] /\ array \in Seq(Entries) /\ r.len <= Len(array)
      BY DEF Holds
    <2>2. QED
      BY <2>1
  <1>2. \A i \in 1 .. r.len : array[i] \in Adapters /\ c \in What[array[i]]
    <2>1. \A i \in 1 .. Len(array) : array[i] # None => c \in What[array[i]]
      BY DEF Holds
    <2>2. \A i \in 1 .. r.len : array[i] \in Adapters
      BY DEF Holds
    <2>3. ASSUME NEW i \in 1 .. r.len PROVE array[i] \in Adapters /\ c \in What[array[i]]
      <3>1. i \in 1 .. Len(array)
        BY <1>1
      <3>2. array[i] \in Adapters /\ array[i] # None
        BY <2>2, RegistrarAssumption
      <3>3. QED
        BY <2>1, <3>1, <3>2
    <2>4. QED
      BY <2>3
  <1>3. new \in Seq(Entries) /\ Len(new) \in Nat
    BY <1>0
  <1>4. \A i \in 1 .. q.len : new[i] \in Adapters /\ c \in What[new[i]]
    <2> SUFFICES ASSUME NEW i \in 1 .. q.len PROVE new[i] \in Adapters /\ c \in What[new[i]]
      OBVIOUS
    <2>1. CASE i = 1
      BY <1>0, <2>1
    <2>2. CASE i # 1
      <3>1. i \in 2 .. q.len /\ i - 1 \in 1 .. r.len
        BY <1>0, <1>1, <2>2
      <3>2. new[i] = array[i - 1]
        BY <1>0, <3>1
      <3>3. QED
        BY <1>2, <3>1, <3>2
    <2>3. QED
      BY <2>1, <2>2
  <1>5. \A i \in 1 .. Len(new) : new[i] # None => c \in What[new[i]]
    <2> SUFFICES ASSUME NEW i \in 1 .. Len(new), new[i] # None PROVE c \in What[new[i]]
      OBVIOUS
    <2>1. i \in 1 .. q.len \/ i \in q.len + 1 .. Len(new)
      BY <1>0, <1>1, <1>3
    <2>2. QED
      BY <1>0, <1>4, <2>1
  <1>6. Holds(more, q, c)
    <2>1. ASSUME NEW k \in 1 .. Len(more)
          PROVE  /\ Len(more[k]) > 0
                 /\ \A i \in 1 .. Len(more[k]) : more[k][i] # None => c \in What[more[k][i]]
      <3>1. CASE k = q.arr
        BY <1>0, <1>1, <1>3, <1>5, <3>1
      <3>2. CASE k # q.arr
        BY <1>0, <3>2 DEF Holds
      <3>3. QED
        BY <3>1, <3>2
    <2>2. QED
      BY <1>0, <1>4, <2>1 DEF Holds
  <1>7. Below(more, q) = <<a>> \o Below(arrays, r)
    BY <1>6, Prepended DEF Prefixed
  <1>8. QED
    BY <1>6, <1>7

\* In place, when there is room.
LEMMA Shifted ==
  ASSUME NEW array \in Seq(Entries), NEW n \in Nat, n < Len(array), NEW a \in Adapters
  PROVE  /\ Shift(array, n, a) \in Seq(Entries) /\ Len(Shift(array, n, a)) = Len(array)
         /\ \A i \in 1 .. Len(array) :
              Shift(array, n, a)[i] = IF i = 1 THEN a
                                      ELSE IF i \in 2 .. n + 1 THEN array[i - 1] ELSE array[i]
  <1>1. /\ DOMAIN array = 1 .. Len(array) /\ Len(array) \in Nat
        /\ \A i \in 1 .. Len(array) : array[i] \in Entries
    OBVIOUS
  <1>2. Shift(array, n, a) =
          [i \in 1 .. Len(array) |->
             IF i = 1 THEN a ELSE IF i \in 2 .. n + 1 THEN array[i - 1] ELSE array[i]]
    BY <1>1 DEF Shift
  <1>3. \A i \in 1 .. Len(array) :
          (IF i = 1 THEN a ELSE IF i \in 2 .. n + 1 THEN array[i - 1] ELSE array[i]) \in Entries
    BY <1>1 DEF Entries
  <1>4. QED
    BY <1>1, <1>2, <1>3

\* In an array of twice the capacity, when there is none.
LEMMA Regrown ==
  ASSUME NEW array \in Seq(Entries), Len(array) > 0, NEW a \in Adapters
  PROVE  /\ Regrow(array, Len(array), a) \in Seq(Entries)
         /\ Len(Regrow(array, Len(array), a)) = 2 * Len(array)
         /\ \A i \in 1 .. 2 * Len(array) :
              Regrow(array, Len(array), a)[i] =
                IF i = 1 THEN a ELSE IF i \in 2 .. Len(array) + 1 THEN array[i - 1] ELSE None
  <1>1. Len(array) \in Nat /\ \A i \in 1 .. Len(array) : array[i] \in Entries
    OBVIOUS
  <1>2. Regrow(array, Len(array), a) =
          [i \in 1 .. 2 * Len(array) |->
             IF i = 1 THEN a ELSE IF i \in 2 .. Len(array) + 1 THEN array[i - 1] ELSE None]
    BY <1>1 DEF Regrow
  <1>3. \A i \in 1 .. 2 * Len(array) :
          (IF i = 1 THEN a ELSE IF i \in 2 .. Len(array) + 1 THEN array[i - 1] ELSE None) \in Entries
    BY <1>1 DEF Entries
  <1>4. 2 * Len(array) \in Nat
    BY <1>1
  <1>5. QED
    BY <1>2, <1>3, <1>4

\* A registration keeps the lists in memory well formed, puts the adapter before
\* the others in those of its capabilities, and moves no array.
LEMMA InsertLists ==
  ASSUME MemoryOK, NEW a \in Adapters, Insert(a)
  PROVE  /\ MemoryOK'
         /\ \A c \in Caps : Len(heap[c]) <= Len(heap'[c])
         /\ \A c \in Caps : Order(c)' = IF c \in What[a] THEN <<a>> \o Order(c) ELSE Order(c)
  <1>1. ASSUME NEW c \in Caps
        PROVE  /\ Holds(heap'[c], reg'[c], c) /\ Len(heap[c]) <= Len(heap'[c])
               /\ Below(heap'[c], reg'[c]) = IF c \in What[a] THEN <<a>> \o Below(heap[c], reg[c])
                                             ELSE Below(heap[c], reg[c])
    <2> DEFINE arrays == heap[c]  r == reg[c]  more == heap'[c]  q == reg'[c]
               array == arrays[r.arr]
    <2>1. /\ Holds(arrays, r, c) /\ arrays \in Seq(Seq(Entries)) /\ Len(arrays) \in Nat
          /\ r \in [arr : Nat, len : Nat] /\ r.arr \in 1 .. Len(arrays)
          /\ r.len \in Nat /\ r.len <= Len(array)
          /\ array \in Seq(Entries) /\ Len(array) \in Nat /\ Len(array) > 0
      <3>1. Holds(arrays, r, c) /\ arrays \in Seq(Seq(Entries)) /\ r \in [arr : Nat, len : Nat]
        BY DEF MemoryOK
      <3> HIDE DEF arrays, r
      <3>2. r.arr \in 1 .. Len(arrays) /\ r.len <= Len(array) /\ Len(array) > 0
        BY <3>1 DEF Holds
      <3>3. QED
        BY <3>1, <3>2
    <2>2. CASE c \notin What[a]
      <3>1. heap'[c] = heap[c] /\ reg'[c] = reg[c]
        BY <2>2 DEF Insert
      <3>2. QED
        BY <2>1, <2>2, <3>1
    <2>3. CASE c \in What[a] /\ HasRoom(c)
      <3>1. /\ more = [arrays EXCEPT ![r.arr] = Shift(array, r.len, a)]
            /\ q = [r EXCEPT !.len = r.len + 1]
        BY <2>3 DEF Insert
      <3>2. /\ Shift(array, r.len, a) \in Seq(Entries) /\ Len(Shift(array, r.len, a)) = Len(array)
            /\ \A i \in 1 .. Len(array) :
                 Shift(array, r.len, a)[i] = IF i = 1 THEN a
                                      ELSE IF i \in 2 .. r.len + 1 THEN array[i - 1] ELSE array[i]
        <4>1. r.len < Len(array)
          BY <2>3 DEF HasRoom
        <4> HIDE DEF arrays, r, more, q, array
        <4>2. /\ Shift(array, r.len, a) \in Seq(Entries)
          BY <2>1, <4>1, Shifted
        <4>3. Len(Shift(array, r.len, a)) = Len(array)
          BY <2>1, <4>1, Shifted
        <4>4. \A i \in 1 .. Len(array) :
                 Shift(array, r.len, a)[i] = IF i = 1 THEN a
                                      ELSE IF i \in 2 .. r.len + 1 THEN array[i - 1] ELSE array[i]
          BY <2>1, <4>1, Shifted
        <4>5. QED
          BY <4>2, <4>3, <4>4
      <3>3. /\ q \in [arr : Nat, len : Nat] /\ q.arr = r.arr /\ q.len = r.len + 1
        BY <2>1, <3>1
      <3>4. /\ more \in Seq(Seq(Entries)) /\ Len(more) = Len(arrays)
            /\ \A k \in 1 .. Len(arrays) : more[k] = IF k = r.arr THEN Shift(array, r.len, a) ELSE arrays[k]
        BY <2>1, <3>1, <3>2, ExceptSeq
      <3>5. more[q.arr] = Shift(array, r.len, a) /\ r.len < Len(array)
        BY <2>1, <2>3, <3>3, <3>4 DEF HasRoom
      <3> HIDE DEF arrays, r, more, q, array
      <3>6. /\ q.arr \in 1 .. Len(more) /\ q.len <= Len(more[q.arr])
            /\ more[q.arr][1] = a
            /\ \A i \in 2 .. q.len : more[q.arr][i] = array[i - 1]
        <4>1. 1 \in 1 .. Len(array) /\ \A i \in 2 .. r.len + 1 : i \in 1 .. Len(array) /\ i # 1
          BY <2>1, <3>5
        <4>2. more[q.arr][1] = a /\ \A i \in 2 .. q.len : more[q.arr][i] = array[i - 1]
          BY <3>2, <3>3, <3>5, <4>1
        <4>3. q.len <= Len(more[q.arr])
          BY <2>1, <3>2, <3>3, <3>5
        <4>4. q.arr \in 1 .. Len(more)
          BY <2>1, <3>3, <3>4
        <4>5. QED
          BY <4>2, <4>3, <4>4
      <3>7. ASSUME NEW i \in q.len + 1 .. Len(more[q.arr]), more[q.arr][i] # None
            PROVE  c \in What[more[q.arr][i]]
        <4>1. i \in 1 .. Len(array) /\ i # 1 /\ i \notin 2 .. r.len + 1
          BY <2>1, <3>2, <3>3, <3>5
        <4>2. more[q.arr][i] = array[i]
          BY <3>2, <3>5, <4>1
        <4>3. QED
          BY <2>1, <3>7, <4>1, <4>2 DEF Holds, array
      <3>8. \A k \in 1 .. Len(more) : k # q.arr => k \in 1 .. Len(arrays) /\ more[k] = arrays[k]
        BY <3>3, <3>4
      <3>9. Holds(more, q, c) /\ Below(more, q) = <<a>> \o Below(arrays, r)
        <4>1. /\ q.len = r.len + 1 /\ more \in Seq(Seq(Entries)) /\ q \in [arr : Nat, len : Nat]
              /\ \A i \in 2 .. q.len : more[q.arr][i] = arrays[r.arr][i - 1]
          BY <3>3, <3>4, <3>6 DEF array
        <4>2. Prefixed(more, q, arrays, r, a, c)
          BY <3>6, <3>7, <3>8, <4>1 DEF Prefixed
        <4>3. QED
          BY <2>1, <2>3, <4>2, FrontInserted
      <3>10. Len(arrays) <= Len(more)
        BY <2>1, <3>4
      <3>11. QED
        BY <2>3, <3>9, <3>10 DEF arrays, r, more, q
    <2>4. CASE c \in What[a] /\ ~HasRoom(c)
      <3>1. more = Append(arrays, Regrow(array, r.len, a)) /\ q = [arr |-> Len(arrays) + 1, len |-> r.len + 1]
        BY <2>4 DEF Insert
      <3>2. r.len = Len(array)
        BY <2>1, <2>4 DEF HasRoom
      <3> DEFINE grown == Regrow(array, r.len, a)
      <3>3. /\ grown \in Seq(Entries) /\ Len(grown) = 2 * Len(array)
            /\ \A i \in 1 .. 2 * Len(array) :
                 grown[i] = IF i = 1 THEN a ELSE IF i \in 2 .. Len(array) + 1 THEN array[i - 1] ELSE None
        <4>1. array \in Seq(Entries) /\ Len(array) > 0
          BY <2>1
        <4> HIDE DEF array
        <4>2. QED
          BY <3>2, <4>1, Regrown
      <3>4. q \in [arr : Nat, len : Nat] /\ q.arr = Len(arrays) + 1 /\ q.len = r.len + 1
        BY <2>1, <3>1
      <3> HIDE DEF grown
      <3>5. /\ more \in Seq(Seq(Entries)) /\ Len(more) = Len(arrays) + 1
            /\ \A k \in 1 .. Len(arrays) : more[k] = arrays[k]
            /\ more[Len(arrays) + 1] = grown
        BY <2>1, <3>1, <3>3, AppendProperties DEF grown
      <3> HIDE DEF arrays, r, more, q, array
      <3>6. /\ q.arr \in 1 .. Len(more) /\ q.len <= Len(more[q.arr]) /\ more[q.arr] = grown
            /\ more[q.arr][1] = a
            /\ \A i \in 2 .. q.len : more[q.arr][i] = array[i - 1]
        <4>1. /\ 1 \in 1 .. 2 * Len(array)
              /\ \A i \in 2 .. r.len + 1 : i \in 1 .. 2 * Len(array) /\ i # 1 /\ i \in 2 .. Len(array) + 1
          BY <2>1, <3>2
        <4>2. r.len + 1 <= 2 * Len(array)
          BY <2>1, <3>2
        <4>3. more[q.arr] = grown /\ q.arr \in 1 .. Len(more)
          BY <2>1, <3>4, <3>5
        <4>4. QED
          BY <3>3, <3>4, <4>1, <4>2, <4>3
      <3>7. \A i \in q.len + 1 .. Len(more[q.arr]) : more[q.arr][i] = None
        <4>1. \A i \in q.len + 1 .. 2 * Len(array) :
                i \in 1 .. 2 * Len(array) /\ i # 1 /\ i \notin 2 .. Len(array) + 1
          BY <2>1, <3>2, <3>4
        <4>2. QED
          BY <3>3, <3>6, <4>1
      <3>8. \A k \in 1 .. Len(more) : k # q.arr => k \in 1 .. Len(arrays) /\ more[k] = arrays[k]
        BY <2>1, <3>4, <3>5
      <3>9. Holds(more, q, c) /\ Below(more, q) = <<a>> \o Below(arrays, r)
        <4>1. /\ q.len = r.len + 1 /\ more \in Seq(Seq(Entries)) /\ q \in [arr : Nat, len : Nat]
              /\ \A i \in 2 .. q.len : more[q.arr][i] = arrays[r.arr][i - 1]
          BY <3>4, <3>5, <3>6 DEF array
        <4>2. Prefixed(more, q, arrays, r, a, c)
          BY <3>6, <3>7, <3>8, <4>1 DEF Prefixed
        <4>3. QED
          BY <2>1, <2>4, <4>2, FrontInserted
      <3>10. Len(arrays) <= Len(more)
        BY <2>1, <3>5
      <3>11. QED
        BY <2>4, <3>9, <3>10 DEF arrays, r, more, q
    <2>5. QED
      BY <2>2, <2>3, <2>4
  <1>2. /\ heap' \in [Caps -> Seq(Seq(Entries))] /\ reg' \in [Caps -> [arr : Nat, len : Nat]]
    <2>1. heap' = [c \in Caps |-> heap'[c]] /\ reg' = [c \in Caps |-> reg'[c]]
      BY DEF Insert
    <2>2. \A c \in Caps : heap'[c] \in Seq(Seq(Entries)) /\ reg'[c] \in [arr : Nat, len : Nat]
      BY <1>1 DEF Holds
    <2>3. QED
      BY <2>1, <2>2
  <1>3. MemoryOK'
    BY <1>1, <1>2 DEF MemoryOK
  <1>4. \A c \in Caps : Order(c) = Below(heap[c], reg[c]) /\ Order(c)' = Below(heap'[c], reg'[c])
    BY DEF Order, Listed, Below
  <1>5. QED
    BY <1>1, <1>3, <1>4

\* A list in force is a sequence of adapters.
LEMMA OrderAdapters ==
  ASSUME MemoryOK, NEW c \in Caps
  PROVE  Order(c) \in Seq(Adapters)
  <1>1. Holds(heap[c], reg[c], c) /\ Order(c) = Below(heap[c], reg[c])
    BY DEF MemoryOK, Order, Listed, Below
  <1>2. QED
    BY <1>1, BelowIsArray

\* The adapter registered is there, and so are those that were.
LEMMA InsertRegisters ==
  ASSUME MemoryOK, NEW a \in Adapters, Insert(a), NEW c \in Caps
  PROVE  /\ c \in What[a] => Registered(a, Order(c)')
         /\ \A b : Registered(b, Order(c)) => Registered(b, Order(c)')
  <1>1. CASE c \notin What[a]
    BY <1>1, InsertLists
  <1>2. CASE c \in What[a]
    <2> DEFINE s == Order(c)
    <2>1. s \in Seq(Adapters) /\ Order(c)' = <<a>> \o s
      BY <1>2, InsertLists, OrderAdapters
    <2> HIDE DEF s
    <2>2. <<a>> \in Seq(Adapters) /\ Len(<<a>>) = 1 /\ <<a>>[1] = a /\ Len(s) \in Nat
      BY <2>1
    <2>3. /\ DOMAIN (<<a>> \o s) = 1 .. Len(s) + 1 /\ (<<a>> \o s)[1] = a
          /\ \A i \in 1 .. Len(s) : (<<a>> \o s)[i + 1] = s[i]
      <3>1. /\ <<a>> \o s \in Seq(Adapters) /\ Len(<<a>> \o s) = Len(s) + 1
            /\ \A i \in 1 .. Len(s) + 1 : (<<a>> \o s)[i] = IF i <= 1 THEN <<a>>[i] ELSE s[i - 1]
        BY <2>1, <2>2, ConcatProperties
      <3>2. \A i \in 1 .. Len(s) : i + 1 \in 1 .. Len(s) + 1 /\ ~(i + 1 <= 1) /\ (i + 1) - 1 = i
        BY <2>2
      <3>3. QED
        BY <2>2, <3>1, <3>2
    <2>4. 1 \in DOMAIN (<<a>> \o s) /\ \A i \in 1 .. Len(s) : i + 1 \in DOMAIN (<<a>> \o s)
      BY <2>2, <2>3
    <2>5. DOMAIN s = 1 .. Len(s)
      BY <2>1
    <2>6. QED
      BY <2>1, <2>3, <2>4, <2>5 DEF Registered, s
  <1>3. QED
    BY <1>1, <1>2

\* The lists truncated.
LEMMA TruncatedLists ==
  ASSUME MemoryOK, UNCHANGED heap, reg' = [c \in Caps |-> [reg[c] EXCEPT !.len = 0]]
  PROVE  MemoryOK' /\ \A c \in Caps : Order(c)' = <<>>
  <1>1. ASSUME NEW c \in Caps
        PROVE  reg'[c].arr = reg[c].arr /\ reg'[c].len = 0 /\ reg'[c] \in [arr : Nat, len : Nat]
    BY DEF MemoryOK
  <1>2. ASSUME NEW c \in Caps PROVE Holds(heap'[c], reg'[c], c)
    <2>1. Len(heap[c][reg[c].arr]) \in Nat
      BY DEF MemoryOK, Holds
    <2>2. QED
      BY <1>1, <2>1 DEF MemoryOK, Holds
  <1>3. MemoryOK'
    BY <1>1, <1>2 DEF MemoryOK
  <1>4. ASSUME NEW c \in Caps PROVE Order(c)' = <<>>
    BY <1>1 DEF Order, Listed, Cells
  <1>5. QED
    BY <1>3, <1>4

-----------------------------------------------------------------------------
(* What holds whatever the program does *)

\* The steps of the registry and of its users, in a program that makes its calls
\* in any order.
RegNext ==
  \/ \E g \in Goroutines :
       \/ \E c \in Caps, t \in Types : Lookup(g, c, t)
       \/ AdapterFor(g) \/ Answer(g) \/ Reset(g) \/ ResetDone(g)
  \/ ClearCache \/ WriterWaits \/ \E a \in Adapters : RegisterFor(a)

\* What a scan through any header finds is registered for the capability and
\* supports the type.
LEMMA ScanServes ==
  ASSUME RegInv, NEW c \in Caps, NEW t \in Types, NEW k \in 1 .. Len(heap[c]), NEW n \in Nat,
         NEW a \in Adapters, a = Scan(Cells(heap[c][k], n), t)
  PROVE  Serves(a, c, t)
  <1> DEFINE array == heap[c][k]  cells == Cells(array, n)
  <1>1. array \in Seq(Entries) /\ \A i \in 1 .. Len(array) : array[i] # None => c \in What[array[i]]
    <2>1. heap[c] \in Seq(Seq(Entries)) /\ Holds(heap[c], reg[c], c)
      BY DEF RegInv, MemoryOK
    <2>2. QED
      BY <2>1 DEF Holds
  <1>2. \A i \in 1 .. n : /\ cells[i] = IF i <= Len(array) THEN array[i] ELSE None
                          /\ cells[i] \in Entries
    <2>1. Len(array) \in Nat /\ \A i \in 1 .. n : i <= Len(array) => array[i] \in Entries
      BY <1>1
    <2>2. QED
      BY <2>1 DEF Cells, Entries
  <1>3. cells \in [1 .. n -> Entries]
    BY <1>2 DEF Cells
  <1>4. PICK i \in 1 .. n : cells[i] = a /\ t \in Supports[a]
    BY <1>3, ScanFinds
  <1>5. array[i] = a /\ i \in 1 .. Len(array)
    BY <1>1, <1>2, <1>4, RegistrarAssumption
  <1>6. QED
    BY <1>1, <1>4, <1>5, RegistrarAssumption DEF Serves

\* A scan answers with an entry, with none or crashes.
LEMMA ScanTyped ==
  ASSUME RegInv, NEW c \in Caps, NEW t \in Types, NEW k \in 1 .. Len(heap[c]), NEW n \in Nat
  PROVE  Scan(Cells(heap[c][k], n), t) \in Entries \cup {Crash}
  <1> DEFINE array == heap[c][k]  cells == Cells(array, n)
  <1>1. array \in Seq(Entries)
    <2>1. heap[c] \in Seq(Seq(Entries))
      BY DEF RegInv, MemoryOK
    <2>2. QED
      BY <2>1
  <1>2. \A i \in 1 .. n : cells[i] \in Entries
    <2>1. Len(array) \in Nat /\ \A i \in 1 .. n : i <= Len(array) => array[i] \in Entries
      BY <1>1
    <2>2. QED
      BY <2>1 DEF Cells, Entries
  <1>3. cells \in [1 .. n -> Entries]
    BY <1>2 DEF Cells
  <1>4. QED
    BY <1>3, ScanFinds

\* RegInv holds initially.
LEMMA RegInit == Init => RegInv
  <1> SUFFICES ASSUME Init PROVE RegInv
    OBVIOUS
  <1>1. <<Std>> \in Seq(Entries) /\ << <<Std>> >> \in Seq(Seq(Entries)) /\ Std \in Adapters
        /\ Len(<<Std>>) = 1 /\ Len(<< <<Std>> >>) = 1 /\ << <<Std>> >>[1] = <<Std>> /\ <<Std>>[1] = Std
    BY RegistrarAssumption DEF Entries
  <1>2. ASSUME NEW c \in Caps
        PROVE  /\ heap[c] = << <<Std>> >> /\ reg[c] = [arr |-> 1, len |-> 1]
               /\ reg[c].arr = 1 /\ reg[c].len = 1
    BY DEF Init
  <1>3. ASSUME NEW c \in Caps PROVE Holds(heap[c], reg[c], c)
    <2>0. [arr |-> 1, len |-> 1] \in [arr : Nat, len : Nat]
      OBVIOUS
    <2>1. heap[c] \in Seq(Seq(Entries)) /\ reg[c] \in [arr : Nat, len : Nat]
      BY <1>1, <1>2, <2>0
    <2>2. c \in What[Std]
      BY RegistrarAssumption
    <2>3. \A k \in 1 .. Len(heap[c]) : heap[c][k] = <<Std>>
      BY <1>1, <1>2
    <2>4. \A i \in 1 .. 1 : <<Std>>[i] = Std
      BY <1>1
    <2>5. QED
      BY <1>1, <1>2, <2>1, <2>2, <2>3, <2>4 DEF Holds
  <1>4. MemoryOK
    BY <1>1, <1>2, <1>3 DEF MemoryOK, Init
  <1>5. \A c \in Caps : Registered(Std, Order(c))
    <2> SUFFICES ASSUME NEW c \in Caps PROVE Registered(Std, Order(c))
      OBVIOUS
    <2>1. Order(c) = [i \in 1 .. 1 |-> IF i <= Len(<<Std>>) THEN <<Std>>[i] ELSE None]
      BY <1>1, <1>2 DEF Order, Listed, Cells
    <2>2. DOMAIN Order(c) = 1 .. 1 /\ 1 \in 1 .. 1 /\ Order(c)[1] = Std
      BY <1>1, <2>1
    <2>3. QED
      BY <2>2 DEF Registered
  <1>6. CacheOK
    BY DEF Init, CacheOK, EmptyCache, Entries
  <1>7. LookOK
    BY DEF Init, LookOK, Looks, NoLookup, Entries
  <1>8. QED
    BY <1>4, <1>5, <1>6, <1>7 DEF RegInv, DefaultThere, Init

\* It is kept by the steps of a lookup, which leave the registry as it is.
LEMMA LookupKeeps ==
  ASSUME RegInv, NEW g \in Goroutines, NEW c \in Caps, NEW t \in Types,
         Lookup(g, c, t) \/ AdapterFor(g) \/ Answer(g)
  PROVE  RegInv'
  <1>1. /\ MemoryOK' /\ DefaultThere' /\ mode' \in Modes
        /\ UNCHANGED <<heap, reg, pending>>
    BY DEF RegInv, MemoryOK, DefaultThere, Order, Listed, Lookup, AdapterFor, ReadArray,
           ReadLength, ReadCache, ScanEntries, FillCache, Answer
  <1>2. /\ pc \in [Goroutines -> {"idle", "header", "fill", "done"}]
        /\ look \in [Goroutines -> Looks]
    BY DEF RegInv, LookOK
  <1>3. CASE Lookup(g, c, t)
    <2>1. CacheOK'
      BY <1>3 DEF RegInv, CacheOK, Lookup, Serves
    <2>2. [NoLookup EXCEPT !.cap = c, !.type = t, !.seen = {Order(c)}] \in Looks
      <3>1. Order(c) \in Seq(Adapters)
        BY OrderAdapters DEF RegInv
      <3>2. QED
        BY <3>1 DEF NoLookup, Looks, Entries
    <2>3. LookOK'
      BY <1>1, <1>3, <2>2 DEF RegInv, LookOK, Lookup, Serves, NoLookup
    <2>4. QED
      BY <1>1, <2>1, <2>3 DEF RegInv
  <1>4. CASE ReadArray(g)
    <2>1. CacheOK'
      BY <1>4 DEF RegInv, CacheOK, ReadArray, Serves
    <2>2. look[g].cap \in Caps
      BY <1>4 DEF RegInv, LookOK, ReadArray
    <2>3. reg[look[g].cap].arr \in Nat /\ reg[look[g].cap].arr <= Len(heap[look[g].cap])
      BY <2>2 DEF RegInv, MemoryOK, Holds
    <2>4. LookOK'
      BY <1>1, <1>2, <1>4, <2>2, <2>3 DEF RegInv, LookOK, ReadArray, Serves, Looks
    <2>5. QED
      BY <1>1, <2>1, <2>4 DEF RegInv
  <1>5. CASE ReadLength(g)
    <2>1. CacheOK'
      BY <1>5 DEF RegInv, CacheOK, ReadLength, Serves
    <2>2. reg[look[g].cap].len \in Nat
      BY <1>5 DEF RegInv, LookOK, MemoryOK, ReadLength
    <2>3. look[g] \in Looks /\ [look[g] EXCEPT !.len = reg[look[g].cap].len] \in Looks
      BY <1>2, <2>2 DEF Looks
    <2>4. look' = [look EXCEPT ![g] = [look[g] EXCEPT !.len = reg[look[g].cap].len]] /\ pc' = pc
      BY <1>5 DEF ReadLength
    <2>5. /\ look' \in [Goroutines -> Looks]
          /\ \A h \in Goroutines : /\ look'[h].cap = look[h].cap /\ look'[h].type = look[h].type
                                   /\ look'[h].arr = look[h].arr /\ look'[h].found = look[h].found
      BY <1>2, <2>3, <2>4 DEF Looks
    <2>6. LookOK'
      BY <1>1, <2>4, <2>5 DEF RegInv, LookOK, Serves
    <2>7. QED
      BY <1>1, <2>1, <2>6 DEF RegInv
  <1>6. CASE ReadCache(g)
    <2>1. CacheOK'
      BY <1>6 DEF RegInv, CacheOK, ReadCache, Serves
    <2>2. /\ look[g].cap \in Caps /\ look[g].type \in Types
          /\ Cached(g) \in Entries /\ Serves(Cached(g), look[g].cap, look[g].type)
      BY <1>6 DEF RegInv, LookOK, CacheOK, ReadCache, HeaderRead, CacheHit, Cached
    <2>3. LookOK'
      BY <1>1, <1>2, <1>6, <2>2 DEF RegInv, LookOK, ReadCache, Serves, Looks
    <2>4. QED
      BY <1>1, <2>1, <2>3 DEF RegInv
  <1>7. CASE ScanEntries(g)
    <2>1. CacheOK'
      BY <1>7 DEF RegInv, CacheOK, ScanEntries, Serves
    <2> DEFINE cap == look[g].cap  type == look[g].type
               found == Scan(Cells(heap[cap][look[g].arr], look[g].len), type)
    <2>2. /\ cap \in Caps /\ type \in Types /\ look[g].arr \in Nat \ {0} /\ look[g].len \in Nat
          /\ look[g].arr <= Len(heap[cap])
      BY <1>2, <1>7 DEF RegInv, LookOK, ScanEntries, HeaderRead, Looks
    <2>3. look[g].arr \in 1 .. Len(heap[cap])
      <3>1. heap[cap] \in Seq(Seq(Entries))
        BY <2>2 DEF RegInv, MemoryOK
      <3>2. Len(heap[cap]) \in Nat
        BY <3>1
      <3>3. QED
        BY <2>2, <3>2
    <2>4. found \in Entries \cup {Crash} /\ (found \in Adapters => Serves(found, cap, type))
      BY <2>2, <2>3, ScanTyped, ScanServes
    <2>5. /\ look' = [look EXCEPT ![g].found = found]
          /\ pc' = [pc EXCEPT ![g] = IF found \in Adapters THEN "fill" ELSE "done"]
      BY <1>7 DEF ScanEntries
    <2> HIDE DEF found
    <2>6. LookOK'
      BY <1>1, <1>2, <2>2, <2>4, <2>5 DEF RegInv, LookOK, Serves, Looks
    <2>7. QED
      BY <1>1, <2>1, <2>6 DEF RegInv
  <1>8. CASE FillCache(g)
    <2>1. Serves(look[g].found, look[g].cap, look[g].type)
      BY <1>8 DEF RegInv, LookOK, FillCache
    <2>2. CacheOK'
      BY <1>8, <2>1 DEF RegInv, CacheOK, LookOK, FillCache, Serves, Entries
    <2>3. LookOK'
      BY <1>1, <1>2, <1>8 DEF RegInv, LookOK, FillCache, Serves
    <2>4. QED
      BY <1>1, <2>2, <2>3 DEF RegInv
  <1>9. CASE Answer(g)
    <2>1. CacheOK'
      BY <1>9 DEF RegInv, CacheOK, Answer, Serves
    <2>2. NoLookup \in Looks
      BY DEF NoLookup, Looks, Entries
    <2>3. LookOK'
      BY <1>1, <1>2, <1>9, <2>2 DEF RegInv, LookOK, Answer, Serves
    <2>4. QED
      BY <1>1, <2>1, <2>3 DEF RegInv
  <1>10. QED
    BY <1>3, <1>4, <1>5, <1>6, <1>7, <1>8, <1>9 DEF AdapterFor

\* Lookups under way remember one more list, and no more changes of them.
LEMMA WitnessKeeps ==
  ASSUME RegInv, MemoryOK', Witness, UNCHANGED pc,
         \A c \in Caps : Len(heap[c]) <= Len(heap'[c])
  PROVE  LookOK'
  <1>1. /\ pc \in [Goroutines -> {"idle", "header", "fill", "done"}]
        /\ look \in [Goroutines -> Looks]
    BY DEF RegInv, LookOK
  <1>2. ASSUME NEW g \in Goroutines
        PROVE  /\ look'[g] \in Looks
               /\ look'[g].cap = look[g].cap /\ look'[g].type = look[g].type
               /\ look'[g].arr = look[g].arr /\ look'[g].found = look[g].found
    <2>1. CASE g \notin Looking
      BY <1>1, <2>1 DEF Witness
    <2>2. CASE g \in Looking
      <3> DEFINE list == Listed(heap', reg', look[g].cap)
      <3>1. list \in Seq(Adapters)
        <4>1. look[g].cap \in Caps
          BY <2>2 DEF RegInv, LookOK, Looking
        <4>2. Holds(heap'[look[g].cap], reg'[look[g].cap], look[g].cap)
          BY <4>1 DEF MemoryOK
        <4>3. list = Below(heap'[look[g].cap], reg'[look[g].cap])
          BY DEF Listed, Below
        <4>4. QED
          BY <4>1, <4>2, <4>3, BelowIsArray
      <3>2. look'[g] = [look[g] EXCEPT !.seen = look[g].seen \cup {list}]
        BY <2>2 DEF Witness
      <3> HIDE DEF list
      <3>3. look[g].seen \cup {list} \in SUBSET Seq(Adapters)
        BY <1>1, <3>1 DEF Looks
      <3>4. QED
        BY <1>1, <3>2, <3>3 DEF Looks
    <2>3. QED
      BY <2>1, <2>2
  <1>3. look' \in [Goroutines -> Looks]
    BY <1>2 DEF Witness
  <1>4. \A g \in Goroutines : pc[g] = "header" => look[g].arr <= Len(heap'[look[g].cap])
    <2> SUFFICES ASSUME NEW g \in Goroutines, pc[g] = "header"
                 PROVE  look[g].arr <= Len(heap'[look[g].cap])
      OBVIOUS
    <2>1. look[g].cap \in Caps /\ look[g].arr <= Len(heap[look[g].cap]) /\ look[g].arr \in Nat
      BY <1>1 DEF RegInv, LookOK, Looks
    <2>2. /\ heap[look[g].cap] \in Seq(Seq(Entries)) /\ heap'[look[g].cap] \in Seq(Seq(Entries))
          /\ Len(heap[look[g].cap]) <= Len(heap'[look[g].cap])
      BY <2>1 DEF RegInv, MemoryOK
    <2>3. Len(heap[look[g].cap]) \in Nat /\ Len(heap'[look[g].cap]) \in Nat
      BY <2>2
    <2>4. QED
      BY <2>1, <2>2, <2>3
  <1>5. QED
    BY <1>1, <1>2, <1>3, <1>4 DEF RegInv, LookOK, Serves

\* RegInv is kept by the changes of the registry.
LEMMA ChangeKeeps ==
  ASSUME RegInv,
         ClearCache \/ WriterWaits \/ (\E a \in Adapters : RegisterFor(a))
           \/ (\E g \in Goroutines : Reset(g) \/ ResetDone(g))
  PROVE  RegInv'
  <1>1. CASE ClearCache
    <2>1. CacheOK'
      BY <1>1 DEF ClearCache, CacheOK, EmptyCache, Entries
    <2>2. MemoryOK' /\ DefaultThere' /\ LookOK' /\ mode' \in Modes
      BY <1>1 DEF RegInv, MemoryOK, DefaultThere, Order, Listed, LookOK, Serves, ClearCache
    <2>3. QED
      BY <2>1, <2>2 DEF RegInv
  <1>2. ASSUME NEW a \in Adapters, RegisterFor(a) PROVE RegInv'
    <2>1. MemoryOK /\ Insert(a) /\ Witness /\ UNCHANGED <<mode, cache, pending, pc>>
      BY <1>2 DEF RegInv, RegisterFor
    <2>2. MemoryOK' /\ \A c \in Caps : Len(heap[c]) <= Len(heap'[c])
      BY <2>1, InsertLists
    <2>3. LookOK'
      BY <2>1, <2>2, WitnessKeeps
    <2>4. CacheOK' /\ mode' \in Modes
      BY <2>1 DEF RegInv, CacheOK, Serves
    <2>5. DefaultThere'
      BY <2>1, InsertRegisters DEF RegInv, DefaultThere
    <2>6. QED
      BY <2>2, <2>3, <2>4, <2>5 DEF RegInv
  <1>3. ASSUME NEW g \in Goroutines, Reset(g) PROVE RegInv'
    <2>1. /\ MemoryOK /\ Witness /\ UNCHANGED <<mode, heap, pc>> /\ cache' = EmptyCache
          /\ reg' = [c \in Caps |-> [reg[c] EXCEPT !.len = 0]] /\ pending' # {}
      BY <1>3 DEF RegInv, Reset
    <2>2. MemoryOK'
      BY <2>1, TruncatedLists
    <2>3. \A c \in Caps : Len(heap[c]) <= Len(heap'[c])
      <3> SUFFICES ASSUME NEW c \in Caps PROVE Len(heap[c]) <= Len(heap[c])
        BY <2>1
      <3>1. heap[c] \in Seq(Seq(Entries))
        BY <2>1 DEF MemoryOK
      <3>2. QED
        BY <3>1
    <2>4. LookOK'
      BY <2>1, <2>2, <2>3, WitnessKeeps
    <2>5. CacheOK'
      BY <2>1 DEF CacheOK, EmptyCache, Entries
    <2>6. QED
      BY <2>1, <2>2, <2>4, <2>5 DEF RegInv, DefaultThere
  <1>4. ASSUME NEW g \in Goroutines, ResetDone(g) PROVE RegInv'
    <2>1. MemoryOK /\ Insert(Std) /\ Witness /\ UNCHANGED <<mode, cache, pc>> /\ Std \in Adapters
      BY <1>4, RegistrarAssumption DEF RegInv, ResetDone
    <2>2. MemoryOK' /\ \A c \in Caps : Len(heap[c]) <= Len(heap'[c])
      BY <2>1, InsertLists
    <2>3. LookOK'
      BY <2>1, <2>2, WitnessKeeps
    <2>4. CacheOK' /\ mode' \in Modes
      BY <2>1 DEF RegInv, CacheOK, Serves
    <2>5. DefaultThere'
      BY <2>1, InsertRegisters, RegistrarAssumption DEF DefaultThere
    <2>6. QED
      BY <2>2, <2>3, <2>4, <2>5 DEF RegInv
  <1>5. CASE WriterWaits
    BY <1>5 DEF RegInv, MemoryOK, CacheOK, DefaultThere, Order, Listed, LookOK, Serves, WriterWaits
  <1>6. QED
    BY <1>1, <1>2, <1>3, <1>4, <1>5

LEMMA RegStep == RegInv /\ [RegNext]_vars => RegInv'
  <1> SUFFICES ASSUME RegInv, [RegNext]_vars PROVE RegInv'
    OBVIOUS
  <1>1. CASE UNCHANGED vars
    BY <1>1 DEF RegInv, MemoryOK, CacheOK, Serves, LookOK, DefaultThere, Order, Listed, vars
  <1>2. CASE RegNext
    <2>1. ASSUME NEW g \in Goroutines, NEW c \in Caps, NEW t \in Types, Lookup(g, c, t) PROVE RegInv'
      BY <2>1, LookupKeeps
    <2>2. ASSUME NEW g \in Goroutines, AdapterFor(g) \/ Answer(g) PROVE RegInv'
      <3>1. look[g].cap \in Caps /\ look[g].type \in Types
        BY <2>2 DEF RegInv, LookOK, AdapterFor, Answer, ReadArray, ReadLength, ReadCache,
                    ScanEntries, HeaderRead, FillCache
      <3>2. QED
        BY <2>2, <3>1, LookupKeeps
    <2>3. QED
      BY <1>2, <2>1, <2>2, ChangeKeeps DEF RegNext
  <1>3. QED
    BY <1>1, <1>2

-----------------------------------------------------------------------------
(* What holds of a quiet program *)

\* A scan of a list in force.
LEMMA ScanOrder ==
  ASSUME RegInv, NEW c \in Caps, NEW t \in Types
  PROVE  /\ Scan(Order(c), t) \in Adapters => Registered(Scan(Order(c), t), Order(c))
         /\ Registered(Std, Order(c)) => Scan(Order(c), t) \in Adapters
         /\ Scan(Order(c), t) # Crash
  <1> DEFINE cells == Order(c)
  <1>1. cells \in Seq(Adapters)
    BY OrderAdapters DEF RegInv
  <1> HIDE DEF cells
  <1>2. /\ Len(cells) \in Nat /\ DOMAIN cells = 1 .. Len(cells)
        /\ \A i \in 1 .. Len(cells) : cells[i] \in Adapters
    BY <1>1
  <1>3. cells \in [1 .. Len(cells) -> Entries]
    BY <1>1, <1>2 DEF Entries
  <1>4. /\ Scan(cells, t) \in Adapters => \E i \in 1 .. Len(cells) : cells[i] = Scan(cells, t)
        /\ (\E i \in 1 .. Len(cells) : cells[i] = Std) => Scan(cells, t) \in Adapters
        /\ Scan(cells, t) # Crash
    BY <1>2, <1>3, ScanFinds
  <1>5. QED
    BY <1>2, <1>4 DEF Registered, cells

\* A step of one lookup, which leaves the registry as it is, is no concern of the
\* others.
LEMMA OthersInTouch ==
  ASSUME QuietInv, mode.quiet, NEW g \in Goroutines,
         UNCHANGED <<mode, heap, reg, pending, cleared>>,
         \A h \in Goroutines \ {g} : pc'[h] = pc[h] /\ look'[h] = look[h],
         InTouch(g)', CacheInTouch'
  PROVE  QuietInv'
  <1>1. ASSUME NEW h \in Goroutines PROVE InTouch(h)'
    <2>1. CASE h = g
      BY <2>1
    <2>2. CASE h # g
      <3>1. InTouch(h)
        BY DEF QuietInv
      <3>2. UNCHANGED <<pc[h], look[h]>>
        BY <2>2
      <3>3. \A c \in Caps : Order(c)' = Order(c)
        BY DEF Order, Listed
      <3>4. QED
        BY <3>1, <3>2 DEF InTouch, Order, Listed, Orderly
    <2>3. QED
      BY <2>1, <2>2
  <1>2. QED
    BY <1>1 DEF QuietInv

\* A lookup begins in touch, and stays so.
LEMMA LookupQuiet ==
  ASSUME RegInv, QuietInv, mode.quiet, NEW g \in Goroutines, NEW c \in Caps, NEW t \in Types,
         Lookup(g, c, t) \/ AdapterFor(g) \/ Answer(g)
  PROVE  QuietInv'
  <1>1. /\ UNCHANGED <<mode, heap, reg, pending, cleared>>
        /\ \A b \in Caps : Order(b)' = Order(b)
    BY DEF Order, Listed, Lookup, AdapterFor, ReadArray, ReadLength, ReadCache, ScanEntries,
           FillCache, Answer
  <1>2. /\ pc \in [Goroutines -> {"idle", "header", "fill", "done"}]
        /\ look \in [Goroutines -> Looks] /\ InTouch(g) /\ CacheInTouch
    BY DEF RegInv, LookOK, QuietInv
  <1>3. \A h \in Goroutines \ {g} : pc'[h] = pc[h] /\ look'[h] = look[h]
    BY <1>2 DEF Lookup, AdapterFor, ReadArray, ReadLength, ReadCache, ScanEntries, FillCache, Answer
  <1>4. UNCHANGED cache => CacheInTouch'
    BY <1>1, <1>2 DEF CacheInTouch, Orderly, Order, Listed
  <1> DEFINE cap == look[g].cap  type == look[g].type
  <1>5. CASE Lookup(g, c, t)
    <2>1. pc'[g] = "header" /\ look'[g] = [NoLookup EXCEPT !.cap = c, !.type = t, !.seen = {Order(c)}]
      BY <1>2, <1>5 DEF Lookup
    <2>2. look'[g].cap = c /\ look'[g].arr = 0 /\ look'[g].len = None /\ look'[g].seen = {Order(c)}
      BY <2>1 DEF NoLookup
    <2>3. (mode.whole => pending = {}) /\ (mode.clearing => cleared) /\ UNCHANGED cache
      BY <1>5 DEF Lookup
    <2>4. InTouch(g)'
      BY <1>1, <2>1, <2>2, <2>3 DEF InTouch, Orderly
    <2>5. QED
      BY <1>1, <1>3, <1>4, <2>3, <2>4, OthersInTouch
  <1>6. CASE ReadArray(g) \/ ReadLength(g)
    <2>1. /\ cap \in Caps /\ pc[g] = "header" /\ pc'[g] = "header" /\ UNCHANGED cache
          /\ look'[g].cap = cap /\ look'[g].seen = look[g].seen
          /\ look'[g].arr \in {look[g].arr, reg[cap].arr}
          /\ look'[g].len \in {look[g].len, reg[cap].len}
      BY <1>2, <1>6 DEF ReadArray, ReadLength, RegInv, LookOK, Looks
    <2>2. InTouch(g)'
      BY <1>1, <1>2, <2>1 DEF InTouch, Orderly
    <2>3. QED
      BY <1>1, <1>3, <1>4, <2>1, <2>2, OthersInTouch
  <1>7. CASE ReadCache(g)
    <2>1. /\ cap \in Caps /\ type \in Types /\ pc[g] = "header" /\ pc'[g] = "done"
          /\ cache[cap][type] # None /\ UNCHANGED cache
          /\ look'[g].type = type /\ look'[g].seen = look[g].seen /\ look'[g].found = cache[cap][type]
      BY <1>2, <1>7 DEF ReadCache, HeaderRead, CacheHit, Cached, RegInv, LookOK, Looks
    <2>2. cache[cap][type] \in Adapters
      BY <2>1 DEF RegInv, CacheOK, Serves
    <2>3. /\ Registered(cache[cap][type], Order(cap)) /\ look[g].seen = {Order(cap)}
          /\ Orderly => cache[cap][type] = Scan(Order(cap), type)
      BY <1>2, <2>1 DEF CacheInTouch, InTouch
    <2>4. InTouch(g)'
      BY <1>1, <2>1, <2>2, <2>3 DEF InTouch, Orderly
    <2>5. QED
      BY <1>1, <1>3, <1>4, <2>1, <2>4, OthersInTouch
  <1>8. CASE ScanEntries(g)
    <2> DEFINE found == Scan(Order(cap), type)
    <2>1. /\ cap \in Caps /\ type \in Types /\ pc[g] = "header" /\ UNCHANGED cache
          /\ look[g].arr # 0 /\ look[g].len # None
      BY <1>2, <1>8 DEF ScanEntries, HeaderRead, RegInv, LookOK
    <2>2. look[g].arr = reg[cap].arr /\ look[g].len = reg[cap].len /\ look[g].seen = {Order(cap)}
      BY <1>2, <2>1 DEF InTouch
    <2>3. Scan(Cells(heap[cap][look[g].arr], look[g].len), type) = found
      BY <2>2 DEF Order, Listed
    <2>4. /\ found \in Adapters => Registered(found, Order(cap))
          /\ mode.whole => found \in Adapters
      <3>1. mode.whole => Registered(Std, Order(cap))
        BY <1>2, <2>1 DEF InTouch, RegInv, DefaultThere
      <3>2. QED
        BY <2>1, <3>1, ScanOrder
    <2>5. /\ look' = [look EXCEPT ![g].found = found]
          /\ pc' = [pc EXCEPT ![g] = IF found \in Adapters THEN "fill" ELSE "done"]
      BY <1>8, <2>3 DEF ScanEntries
    <2> HIDE DEF found
    <2>6. /\ pc'[g] = IF found \in Adapters THEN "fill" ELSE "done"
          /\ look'[g].found = found /\ look'[g].cap = cap /\ look'[g].type = type
          /\ look'[g].seen = {Order(cap)}
      BY <1>2, <2>2, <2>5 DEF Looks
    <2>7. InTouch(g)'
      BY <1>1, <1>2, <2>1, <2>4, <2>6 DEF InTouch, Orderly, found
    <2>8. QED
      BY <1>1, <1>3, <1>4, <2>1, <2>7, OthersInTouch
  <1>9. CASE FillCache(g)
    <2>1. /\ cap \in Caps /\ type \in Types /\ look[g].found \in Adapters
          /\ pc[g] = "fill" /\ pc'[g] = "done" /\ look' = look
          /\ cache' = [cache EXCEPT ![cap][type] = look[g].found]
      BY <1>2, <1>9 DEF FillCache, RegInv, LookOK
    <2>2. /\ Registered(look[g].found, Order(cap)) /\ look[g].seen = {Order(cap)}
          /\ mode.whole => pending = {}
          /\ Orderly => look[g].found = Scan(Order(cap), type)
      BY <1>2, <2>1 DEF InTouch
    <2>3. InTouch(g)'
      BY <1>1, <2>1, <2>2 DEF InTouch, Orderly
    <2>4. \A b \in Caps, u \in Types :
            cache'[b][u] = IF b = cap /\ u = type THEN look[g].found ELSE cache[b][u]
      BY <2>1 DEF RegInv, CacheOK
    <2>5. CacheInTouch'
      BY <1>1, <1>2, <2>1, <2>2, <2>4 DEF CacheInTouch, Orderly
    <2>6. QED
      BY <1>1, <1>3, <2>3, <2>5, OthersInTouch
  <1>10. CASE Answer(g)
    <2>1. pc'[g] = "idle" /\ UNCHANGED cache
      BY <1>2, <1>10 DEF Answer
    <2>2. InTouch(g)'
      BY <2>1 DEF InTouch
    <2>3. QED
      BY <1>1, <1>3, <1>4, <2>1, <2>2, OthersInTouch
  <1>11. QED
    BY <1>5, <1>6, <1>7, <1>8, <1>9, <1>10 DEF AdapterFor

\* While no lookup runs, what is answered stays so.
LEMMA CalmInTouch ==
  ASSUME QuietInv, mode.quiet, Looking = {}, UNCHANGED <<mode, pc>>,
         look' = look \/ Witness, look \in [Goroutines -> Looks], CacheInTouch'
  PROVE  QuietInv'
  <1>1. look' = look
    BY DEF Witness
  <1>2. ASSUME NEW g \in Goroutines PROVE InTouch(g)'
    <2>1. pc[g] \notin {"header", "fill"} /\ InTouch(g)
      BY DEF Looking, QuietInv
    <2>2. QED
      BY <1>1, <2>1 DEF InTouch, Orderly
  <1>3. QED
    BY <1>2 DEF QuietInv

\* The changes of the registry leave the cache in touch with it.
LEMMA ChangeQuiet ==
  ASSUME RegInv, QuietInv, mode.quiet,
         ClearCache \/ (\E a \in Adapters : RegisterFor(a))
           \/ (\E g \in Goroutines : Reset(g) \/ ResetDone(g))
  PROVE  QuietInv'
  <1>1. Looking = {} /\ UNCHANGED <<mode, pc>> /\ (look' = look \/ Witness)
    BY DEF ClearCache, RegisterFor, Reset, ResetDone, Calm
  <1>2. MemoryOK /\ CacheInTouch /\ look \in [Goroutines -> Looks] /\ Std \in Adapters
    BY RegistrarAssumption DEF RegInv, LookOK, QuietInv
  <1>3. CacheInTouch'
    <2>1. CASE cache' = EmptyCache
      BY <2>1 DEF CacheInTouch, EmptyCache
    <2>2. ASSUME NEW a \in Adapters, RegisterFor(a) PROVE CacheInTouch'
      <3>1. Insert(a) /\ UNCHANGED <<cache, pending>> /\ cleared' = (cache = EmptyCache)
            /\ (mode.whole => pending = {})
        BY <2>2 DEF RegisterFor
      <3>2. ASSUME NEW c \in Caps, NEW t \in Types, cache[c][t] # None
            PROVE  Registered(cache[c][t], Order(c)') /\ ~cleared'
        <4>1. Registered(cache[c][t], Order(c)')
          BY <1>2, <3>1, <3>2, InsertRegisters DEF CacheInTouch
        <4>2. cache # EmptyCache
          BY <3>2 DEF EmptyCache
        <4>3. QED
          BY <3>1, <4>1, <4>2
      <3>3. QED
        BY <1>1, <3>1, <3>2 DEF CacheInTouch, Orderly
    <2>3. ASSUME NEW g \in Goroutines, ResetDone(g) PROVE CacheInTouch'
      <3>1. Insert(Std) /\ UNCHANGED <<cache, cleared>> /\ pending # {}
        BY <2>3 DEF ResetDone
      <3>2. ASSUME NEW c \in Caps, NEW t \in Types, cache[c][t] # None
            PROVE  Registered(cache[c][t], Order(c)')
        BY <1>2, <3>1, <3>2, InsertRegisters DEF CacheInTouch
      <3>3. Orderly => cache = EmptyCache
        BY <1>2, <3>1 DEF CacheInTouch
      <3>4. QED
        BY <1>1, <3>1, <3>2, <3>3 DEF CacheInTouch, Orderly, EmptyCache
    <2>4. QED
      BY <2>1, <2>2, <2>3 DEF ClearCache, Reset
  <1>4. QED
    BY <1>1, <1>2, <1>3, CalmInTouch

LEMMA QuietInit == Init => QuietInv
  BY DEF Init, QuietInv, CacheInTouch, InTouch, EmptyCache, Orderly

LEMMA QuietStep == RegInv /\ QuietInv /\ [RegNext]_vars => QuietInv'
  <1> SUFFICES ASSUME RegInv, QuietInv, [RegNext]_vars PROVE QuietInv'
    OBVIOUS
  <1>1. CASE UNCHANGED vars
    BY <1>1 DEF QuietInv, CacheInTouch, InTouch, Order, Listed, Orderly, vars
  <1>2. CASE RegNext /\ ~mode.quiet
    BY <1>2 DEF QuietInv, RegNext, Lookup, AdapterFor, ReadArray, ReadLength, ReadCache, ScanEntries,
                FillCache, Answer, ClearCache, WriterWaits, RegisterFor, Reset, ResetDone
  <1>3. CASE RegNext /\ mode.quiet
    <2>0. ASSUME WriterWaits PROVE QuietInv'
      BY <2>0 DEF QuietInv, CacheInTouch, InTouch, Order, Listed, Orderly, WriterWaits
    <2>1. ASSUME NEW g \in Goroutines, NEW c \in Caps, NEW t \in Types, Lookup(g, c, t)
          PROVE  QuietInv'
      BY <1>3, <2>1, LookupQuiet
    <2>2. ASSUME NEW g \in Goroutines, AdapterFor(g) \/ Answer(g) PROVE QuietInv'
      <3>1. look[g].cap \in Caps /\ look[g].type \in Types
        BY <2>2 DEF RegInv, LookOK, AdapterFor, Answer, ReadArray, ReadLength, ReadCache,
                    ScanEntries, HeaderRead, FillCache
      <3>2. QED
        BY <1>3, <2>2, <3>1, LookupQuiet
    <2>3. QED
      BY <1>3, <2>0, <2>1, <2>2, ChangeQuiet DEF RegNext
  <1>4. QED
    BY <1>1, <1>2, <1>3

\* A scan of a list in force crashes on none of its entries.
LEMMA LockStep == RegInv /\ QuietInv /\ LockInv /\ [RegNext]_vars => LockInv'
  <1> SUFFICES ASSUME RegInv, QuietInv, mode.quiet, lock = "free", [RegNext]_vars
               PROVE  lock' = "free"
    BY DEF LockInv, RegNext, vars, Lookup, AdapterFor, ReadArray, ReadLength, ReadCache, ScanEntries,
           FillCache, Answer, ClearCache, WriterWaits, RegisterFor, Reset, ResetDone
  <1>1. ASSUME NEW g \in Goroutines, ScanEntries(g) PROVE lock' = "free"
    <2> DEFINE cap == look[g].cap  type == look[g].type
    <2>1. /\ cap \in Caps /\ type \in Types /\ pc[g] = "header"
          /\ look[g].arr # 0 /\ look[g].len # None
      BY <1>1 DEF ScanEntries, HeaderRead, RegInv, LookOK
    <2>2. look[g].arr = reg[cap].arr /\ look[g].len = reg[cap].len
      BY <2>1 DEF QuietInv, InTouch
    <2>3. Scan(Cells(heap[cap][look[g].arr], look[g].len), type) # Crash
      BY <2>1, <2>2, ScanOrder DEF Order, Listed
    <2>4. QED
      BY <1>1, <2>3 DEF ScanEntries
  <1>2. QED
    BY <1>1 DEF RegNext, vars, Lookup, AdapterFor, ReadArray, ReadLength, ReadCache, FillCache,
                Answer, ClearCache, WriterWaits, RegisterFor, Reset, ResetDone

-----------------------------------------------------------------------------
(* The calls through the registry *)

\* A call looks up capabilities for types, one after the other.
LEMMA RouteCaps ==
  ASSUME NEW api \in {"WriteJSON", "MapSlice"}, NEW t \in Types
  PROVE  Head(Route(api, t)) \in Caps /\ Tail(Route(api, t)) \in Todos
  <1>1. Route(api, t) \in {<<ordered>>, <<plain>>, <<ordered, plain>>}
    BY DEF Route
  <1>2. /\ Head(<<ordered>>) = ordered /\ Head(<<plain>>) = plain /\ Head(<<ordered, plain>>) = ordered
        /\ Tail(<<ordered>>) = <<>> /\ Tail(<<plain>>) = <<>> /\ Tail(<<ordered, plain>>) = <<plain>>
    OBVIOUS
  <1>3. QED
    BY <1>1, <1>2, RoutingAssumption DEF Todos

LEMMA NoCallOK == NoCall \in Calls /\ NoCall.todo = <<>>
  <1>1. <<>> \in Todos
    BY DEF Todos
  <1>2. QED
    BY <1>1 DEF NoCall, Calls

LEMMA CallInit == RInit => CallOK
  <1> SUFFICES ASSUME RInit PROVE CallOK
    OBVIOUS
  <1>1. call = [g \in Goroutines |-> NoCall]
    BY DEF RInit
  <1>2. QED
    BY <1>1, NoCallOK DEF CallOK

LEMMA CallStep == CallOK /\ [RNext]_rvars => CallOK'
  <1> SUFFICES ASSUME CallOK, [RNext]_rvars PROVE CallOK'
    OBVIOUS
  <1>1. /\ call \in [Goroutines -> Calls]
        /\ \A g \in Goroutines : call[g].todo # <<>> => call[g].type \in Types
    BY DEF CallOK
  <1>2. ASSUME NEW g \in Goroutines, NEW next \in Calls, SetCall(g, next),
               next.todo # <<>> => next.type \in Types
        PROVE  CallOK'
    <2>1. \A h \in Goroutines : call'[h] = IF h = g THEN next ELSE call[h]
      BY <1>1, <1>2 DEF SetCall
    <2>2. call' \in [Goroutines -> Calls]
      BY <1>1, <1>2 DEF SetCall
    <2>3. QED
      BY <1>1, <1>2, <2>1, <2>2 DEF CallOK
  <1>3. CASE UNCHANGED call
    BY <1>3 DEF CallOK
  <1>4. ASSUME NEW g \in Goroutines, NEW api \in {"WriteJSON", "MapSlice"}, NEW t \in Types,
               Call(g, api, t)
        PROVE  CallOK'
    <2>1. SetCall(g, [api |-> api, type |-> t, todo |-> Tail(Route(api, t))])
      BY <1>4 DEF Call
    <2>2. [api |-> api, type |-> t, todo |-> Tail(Route(api, t))] \in Calls
      BY RouteCaps DEF Calls
    <2>3. QED
      BY <1>2, <2>1, <2>2
  <1>5. ASSUME NEW g \in Goroutines, SetCall(g, NoCall) PROVE CallOK'
    BY <1>2, <1>5, NoCallOK
  <1>6. ASSUME NEW g \in Goroutines, TryNext(g) PROVE CallOK'
    <2> DEFINE next == [call[g] EXCEPT !.todo = Tail(call[g].todo)]
    <2>1. SetCall(g, next) /\ call[g] \in Calls /\ call[g].todo # <<>>
      BY <1>1, <1>6 DEF TryNext
    <2>2. call[g].todo = <<plain>> /\ Tail(<<plain>>) = <<>>
      BY <2>1 DEF Calls, Todos
    <2>3. next \in Calls /\ next.todo = <<>>
      BY <2>1, <2>2 DEF Calls, Todos
    <2>4. QED
      BY <1>2, <2>1, <2>3
  <1>7. ASSUME NEW g \in Goroutines, LastResort(g) PROVE CallOK'
    <2>1. CASE call[g].api = "WriteJSON"
      BY <1>5, <1>7, <2>1 DEF LastResort
    <2>2. CASE call[g].api # "WriteJSON"
      <3> DEFINE next == [call[g] EXCEPT !.api = "panic"]
      <3>1. SetCall(g, next) /\ call[g] \in Calls
        BY <1>1, <1>7, <2>2 DEF LastResort
      <3>2. next \in Calls /\ next.todo = call[g].todo /\ next.type = call[g].type
        BY <3>1 DEF Calls
      <3>3. QED
        BY <1>1, <1>2, <3>1, <3>2
    <2>3. QED
      BY <2>1, <2>2
  <1>8. ASSUME NEW g \in Goroutines, Crashed(g) PROVE CallOK'
    <2> DEFINE next == [call[g] EXCEPT !.api = "crash", !.todo = <<>>]
    <2>1. SetCall(g, next) /\ call[g] \in Calls
      BY <1>1, <1>8 DEF Crashed
    <2>2. <<>> \in Todos
      BY DEF Todos
    <2>3. next \in Calls /\ next.todo = <<>>
      BY <2>1, <2>2 DEF Calls
    <2>4. QED
      BY <1>2, <2>1, <2>3
  <1>9. QED
    BY <1>3, <1>4, <1>5, <1>6, <1>7, <1>8
    DEF RNext, rvars, Proceed, GiveUp, Serve, Recover

\* Each step of a call is a step of the registry, or leaves it as it is.
LEMMA RegSteps == CallOK /\ [RNext]_rvars => [RegNext]_vars
  <1> SUFFICES ASSUME CallOK, RNext, ~UNCHANGED vars PROVE RegNext
    BY DEF rvars
  <1>1. ASSUME NEW g \in Goroutines, NEW api \in {"WriteJSON", "MapSlice"}, NEW t \in Types,
               Call(g, api, t)
        PROVE  RegNext
    BY <1>1, RouteCaps DEF Call, RegNext
  <1>2. ASSUME NEW g \in Goroutines, TryNext(g) PROVE RegNext
    <2>1. call[g].todo = <<plain>> /\ call[g].type \in Types
      BY <1>2 DEF CallOK, Calls, Todos, TryNext
    <2>2. Head(<<plain>>) = plain /\ plain \in Caps
      BY RoutingAssumption
    <2>3. Lookup(g, plain, call[g].type)
      BY <1>2, <2>1, <2>2 DEF TryNext
    <2>4. QED
      BY <2>1, <2>2, <2>3 DEF RegNext
  <1>3. ASSUME NEW g \in Goroutines, Proceed(g) PROVE RegNext
    BY <1>2, <1>3 DEF Proceed, GiveUp, Serve, LastResort, Crashed, RegNext
  <1>4. ASSUME NEW g \in Goroutines, Reset(g) \/ ResetDone(g) PROVE RegNext
    BY <1>4 DEF RegNext
  <1>5. ASSUME ClearCache \/ WriterWaits \/ \E a \in Adapters \ {Std} : RegisterFor(a)
        PROVE  RegNext
    BY <1>5 DEF RegNext
  <1>6. QED
    BY <1>1, <1>3, <1>4, <1>5 DEF RNext, Recover

\* What becomes of the lists in a step.
LEMMA OrderStep == RegInv /\ [RegNext]_vars => [OrderKept]_vars
  <1> DEFINE ListKept(c) == \/ Order(c)' = Order(c)
                            \/ Order(c)' = <<>>
                            \/ \E a \in Adapters : Order(c)' = <<a>> \o Order(c)
  <1> SUFFICES ASSUME RegInv, [RegNext]_vars, NEW c \in Caps PROVE ListKept(c)
    BY DEF OrderKept
  <1>1. MemoryOK
    BY DEF RegInv
  <1>2. CASE UNCHANGED <<heap, reg>>
    BY <1>2 DEF Order, Listed
  <1>3. ASSUME NEW a \in Adapters, Insert(a) PROVE ListKept(c)
    <2>1. Order(c)' = IF c \in What[a] THEN <<a>> \o Order(c) ELSE Order(c)
      BY <1>1, <1>3, InsertLists
    <2>2. QED
      BY <2>1
  <1>4. ASSUME NEW g \in Goroutines, Reset(g) PROVE ListKept(c)
    BY <1>1, <1>4, TruncatedLists DEF Reset
  <1>5. QED
    BY <1>2, <1>3, <1>4, RegistrarAssumption
    DEF RegNext, vars, Lookup, AdapterFor, ReadArray, ReadLength, ReadCache, ScanEntries, FillCache,
        Answer, ClearCache, WriterWaits, RegisterFor, ResetDone

-----------------------------------------------------------------------------
(* The theorems *)

RInv == RegInv /\ QuietInv /\ LockInv /\ CallOK

LEMMA RegistryInvariant == RSpec => []RInv
  <1>1. RInit => RInv
    BY RegInit, QuietInit, CallInit DEF RInit, RInv, LockInv, Init
  <1>2. RInv /\ [RNext]_rvars => RInv'
    BY RegStep, QuietStep, LockStep, CallStep, RegSteps DEF RInv
  <1>3. QED
    BY <1>1, <1>2, PTL DEF RSpec

\* Whatever calls, registrations and resets race, an adapter is only served for a
\* type and a capability it supports (Registrar.AdapterFor and its cache).
THEOREM ServesSupportingProved == RSpec => []ServesSupporting
  <1>1. RInv => ServesSupporting
    BY DEF RInv, RegInv, CacheOK, LookOK, Serves, ServesSupporting, Answered
  <1>2. QED
    BY <1>1, RegistryInvariant, PTL

\* In a program that changes the registry between lookups, a lookup is answered
\* by an adapter that was registered during it, and is always answered, unless
\* it comes in the middle of a Reset.
THEOREM AlwaysServedProved == RSpec => []AlwaysServed
  <1>1. RInv => AlwaysServed
    BY DEF RInv, QuietInv, InTouch, Registered, AlwaysServed, Answered
  <1>2. QED
    BY <1>1, RegistryInvariant, PTL

\* If it clears the cache after its registrations too, the answer is the adapter
\* registered last among those that support the type.
THEOREM LastRegisteredFirstProved == RSpec => []LastRegisteredFirst
  <1>1. RInv => LastRegisteredFirst
    <2> SUFFICES ASSUME RInv, mode.quiet, mode.whole, mode.clearing, NEW g \in Goroutines, pc[g] = "done"
                 PROVE  look[g].found \in {Scan(s, look[g].type) : s \in look[g].seen}
      BY DEF LastRegisteredFirst, Answered
    <2>1. \E s \in look[g].seen : look[g].found = Scan(s, look[g].type)
      BY DEF RInv, QuietInv, InTouch, Orderly
    <2>2. QED
      BY <2>1
  <1>2. QED
    BY <1>1, RegistryInvariant, PTL

\* A registration puts its adapter before those of the list, and neither loses
\* nor reorders them, in place or in a new array (slices.Insert).
THEOREM KeepsOrderProved == RSpec => KeepsOrder
  <1>1. RInv /\ [RNext]_rvars => [OrderKept]_vars
    BY OrderStep, RegSteps DEF RInv
  <1>2. QED
    BY <1>1, RegistryInvariant, PTL DEF RSpec, KeepsOrder

\* In a program that changes the registry between lookups, no lookup crashes with
\* the read lock in hand: the lock is free after each critical section, and no
\* writer ever waits for nothing (the RUnlocks of findFirstInRegistryFor).
THEOREM LockGivenBack == RSpec => [](mode.quiet => lock = "free")
  <1>1. RInv => (mode.quiet => lock = "free")
    BY DEF RInv, LockInv
  <1>2. QED
    BY <1>1, RegistryInvariant, PTL

=============================================================================
