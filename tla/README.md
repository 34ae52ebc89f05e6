# Verification of go-openapi/swag

TLA+ models of the parts of this repository that carry logic of their own,
TLC runs that check them on small instances, and TLAPS proofs that most of what
the runs check holds for every value of the parameters. Paths are relative to the repository; `[Name]` is a
module of this directory. `PROJECT.json` lists, for every definition, the
lines it models, the runs, a bug each property was seen to catch, the
theorems, the hazards and what was found.

## 1. Inventory

The repository is a set of small Go modules used by code generators and
OpenAPI tooling. Most are libraries without processes of their own: what runs
concurrently is the caller's goroutines, and they meet in process-wide objects
(pools, the registry of JSON adapters, the index of initialisms).

| Component | State | Operations | Interacts with | What makes it correct |
|---|---|---|---|---|
| `pools` (`pools.go`, `debug_on.go`, `debug_off.go`) | a `sync.Pool`; per wrapper an atomic `state` and one cached closure; under `poolsdebug` a tracker with entries and generations | `Borrow`, `BorrowWithRedeem`, `Redeem`, closures, `AssertNoLeaks`, `ResetTracking` | used by `pools/shared`, `mangling`, the JSON adapters | an object has one borrower; it is in the pool once, and clean; the debug build accuses the guilty only |
| `PoolSlice` (`pools.go:189-420`) | per wrapper a backing array, its length; per pool, options | borrow (with a size), append, grow, clip, reset, redeem | `pools/shared` | legal slice headers, caps respected, nothing left behind |
| `pools/shared` | four process-wide pools | borrow and redeem of buffers, readers, slices | callers | nothing idle is large or keeps data alive |
| `jsonutils/adapters` registry | per capability a slice of entries and a cache by type, one RW mutex | `RegisterFor`, `AdapterFor` (six wrappers), `ClearCache`, `Reset` | called by `jsonutils` on each call | last registered first; only what is supported; the default is always there |
| `jsonutils` routing | none | `WriteJSON`, `ReadJSON`, `JSONMapSlice` methods | registry, adapters, `encoding/json` | each call is served, and ends, and gives the lock back |
| JSON adapters (`stdlib`, `easyjson`) | recycled lexers and writers | ordered read, write, update of ordered maps | `encoding/json`, `mailru/easyjson` | order kept, depth bounded, round trip, failures change nothing |
| `jsonutils` `ConcatJSON` | none | joins JSON containers | - | the result is JSON, with all that the containers had, in order |
| `fileutils` overlay and opaque | layers | `Open`, `ReadFile`, `Stat`, `ReadDir`, paging | the layers, any `fs.FS` | one file system as a union mount; lookups and listings agree |
| `fileutils` map file system | files, index of directories; per open directory an offset | construction, lookups, paged listings | - | accepts the right maps, the index is the tree, pages cover it |
| `mangling` | an index of initialisms, its cache, recycled buffers and lexems | `AddInitialisms`, nine styles of names | `pools` | the initialisms are found, no letter is lost, Go names are exported |
| `yamlutils` | a walker: depth, aliases being expanded, counts | read, write, `YAMLToJSON` | `go.yaml.in/yaml/v3`, `jsonutils` | aliases expanded, cycles refused, work bounded |
| `loading` | options, from defaults at each call; per call a context with a timer, a response body, an `os.Root` | file, `fs.FS`, confined or HTTP loads | `net/http`, `os.Root`, `yamlutils` | a path leads to the same file however it is spelled; the loader asked for is used; no part of an answer passes for the whole; what was opened is closed, and a load with a timeout ends |
| `conv`, `typeutils`, `stringutils`, `netutils`, `cmdutils` | none | conversions and predicates | - | tests of each case |
| root package, `jsonname` | none | deprecated aliases | all of the above | - |

What is hard to test here: lock-free hand-offs between borrowers (`pools`), a
registry read before its lock is taken and written between two locks
(`adapters`), sharing of Go arrays through slices (registry, `fileutils`
pages), mutual recursion with a budget and a sticky error (`lexer.go`,
`yaml.go`), resolution that depends on all layers at all levels
(`overlay.go`), a deadline that races an answer and its body (`loading.go`),
matches advanced together by an index that moves (`split.go`),
and Go maps ranged over in any order (`mapfs.go`, `initialism_index.go`).
`PROJECT.json` lists these as hazards at their lines.

## 2. The modules

    ExclusiveLoans <-- refines -- Pools ----- MCPools, PoolsProofs
    PoolSlice <-- extends -- SharedPools ---- MCSharedPools, SharedPoolsProofs
    Registrar <-- extends -- JSONRouting ---- MCJSONRouting, JSONRoutingProofs
    OverlayFS ------------------------------- MCOverlayFS, OverlayFSProofs
    MapFS <-- extends -- MapDirReader ------- MCMapFS, MapFSProofs
    Initialisms <- Splitter <- NameMangler -- MCNameMangler
    OrderedJSON, ConcatJSON <- OrderedWriter  MCOrderedJSON
         `----------------------------------- OrderedJSONProofs
    YAMLWalker <-- extends -- YAMLWriter ---- MCYAMLWalker, YAMLWalkerProofs
    LocalPaths <-- extends -- Loading ------- MCLoading, LoadingProofs

Each module declares its parameters as constants with named assumptions, and
ends with its properties. Definitions in `PROJECT.json` "mutants" (such as
`CompareOnly` in [Pools]) are plausible bugs of the code, placed before what
they stand in for and used by nothing: put in place of the correct definition,
each makes the property beside it fail under the run's own configuration.

**[Pools]** is `Pool[T]` and `PoolRedeemable[T]`. A step is what the hardware
or a lock makes atomic: `sync.Pool`'s `Get` (`GetPooled`, `GetNew`) and `Put`,
the `Store` and `CompareAndSwap` of a wrapper's `state`, a reset, a critical
section of the tracker (`MarkBorrow`, `MarkRedeem`, `ResetTracking`). `Drop` is
the garbage collector emptying a `sync.Pool`. `mode`, chosen once, says which
of the two pools it is, whether the build is `poolsdebug`, whether clients are
*sloppy* (call closures again, or redeem foreign objects), and whether tracking
may be *reset*. Every property says in which modes it is claimed. Loans are
numbered by the history variables `issued` and `current`.
**[ExclusiveLoans]** is what a pool promises: an object is lent to one borrower
at a time and only that one gives it back. `ImplementsLoans` maps what clients
hold onto it.

**[PoolSlice]** follows one `Slice` wrapper, whose operations are sequential
because a wrapper has one borrower (`NoSharing` of [Pools]). Of its array it
keeps the length, the capacity and the set of cells that hold a borrower's
value. The capacity that `append` rounds up to is any up to `MaxCap`.
**[SharedPools]** adds the pools of `pools/shared` beside it.

**[Registrar]** models Go slices as they are in memory, an array and a length:
`slices.Insert` shifts in place when there is room, and `findFirstFor` reads
the header (`ReadArray`, `ReadLength`) before it takes the lock, so a reader
may hold half of a header, or a header whose array is being shifted. Reading
the two words separately is one of the outcomes of the data race the build can
produce. `ReadCache`, `ScanEntries` and `FillCache` are the critical sections
of a lookup; `Reset` and `ResetDone` the two of a reset. Steps under the lock are
atomic, so that `lock` is free between them, but for the panic that is possible under
the read lock (`registry.go:177`), which no `defer` unlocks: it leaves the lock
`leaked`, other readers go on, and from the moment a writer waits (`WriterWaits`) it is
`jammed`, since a waiting writer holds up new readers. `mode` names four
disciplines of the program: *quiet* (changes only between lookups), *whole*
(nothing happens in the middle of `Reset`), *clearing* (`ClearCache` after a
registration), and a bound on registrations. **[JSONRouting]** puts the
clients on top: the list of capabilities each API tries, and what it does when
there is none left.

**[OverlayFS]** is a pure function of the layers, so its state is just the
stack, which grows a layer at a time; loops over layers are written as the set
of layers they reach. A layer may have a directory that cannot be listed
(`"unreadable"`), or one that cannot be looked up, nor anything below it (`"error"`):
a listing fails when the merge gets to either (`Lists`), and a lookup resolves to the
layer that fails. `ResolvesAsUnionMount` compares it with a definition by
recursion on the name, `Contributors`.

**[MapFS]** is `NewMapFS` with one step per iteration over a Go map, in any
order, and then what the methods answer. **[MapDirReader]** opens
directories and reads them by pages, with the arrays the pages are cut from:
`OpenDir` is a handle of the map file system, on the array of its index,
`OpenMerged` one of an overlay above it (`mergedDir`), on an array of its own.
`AppendToPage` is a client that appends to a page.

**[Initialisms]**, **[Splitter]** and **[NameMangler]** are the index, the rune-by-rune
splitter, one step per rune for the search of matches and one per match for
the assembly of lexems, and the styles of names as words. A rune is a member
of a small set and what package `unicode` says of it is a constant.

**[OrderedJSON]** is the reading half of the two adapters. Their recursion is a
stack of frames, their lexer one token of look-ahead and a sticky error. The
stdlib adapter guards its depth by a count in the lexer (`Enter`), the easyjson
adapter by a budget its routines hand on (`EasyEnter`). The decoder chooses the
document token by token, so every document within the bounds is read, including
those that stop or go wrong anywhere. Calls follow one another on the same
lexer, as it is recycled. A scalar is a spelling; numbers become what `Number` makes of
them, through `ParseFloat` to a float64 and, if it passes for an integer, through
`Truncated` to an `int64` (`Valuation`). The decoder of the stdlib adapter refuses a
number that no float64 holds (`Huge`); the easyjson adapter takes it for an infinity,
which `Marshal` refuses. **[OrderedWriter]** writes the values back
(`marshalObject`, `marshalEasyJSON`), with recursive operators, which is why it
is a module apart: nothing is proved in it. **[ConcatJSON]** is `ConcatJSON`, as a
fold over the containers it is given; [OrderedWriter] hands it the documents it
has just written, their empty and null versions included. The lexer and the
writer of `mailru/easyjson` are external: they nest tokens properly, fail on the
end of the input and escape keys.

**[YAMLWalker]** is the walk of a parsed document, with its stack explicit,
from `YAMLToJSON` and from `UnmarshalYAML`, the latter on a receiver that may
have items and room for more (`Receive` says which of them a call overwrites,
and when it sets the receiver). The thresholds of `yaml.go:24-67` are constants. **[YAMLWriter]** is `MarshalYAML` and `json2yaml`, on the values
that were read.

**[LocalPaths]** is pure: what the options of `loading` make of one another
(`WithRoot`, `WithFS`, `WithCustomHeaders`), and what becomes of a path, a
sequence of elements, in `LoadStrategy` and in the reader it calls, on Unix and
on Windows. What packages `path`, `path/filepath` and `os` do with elements is
external (`Climb`, `Follow`, `Rel`, `InRoot`). **[Loading]** is a call: the
choice of a loader (`Begin`), the local one (`Local`, `OpenRoot`, `ReadLocal`)
or `loadHTTPBytes` with one step for each call of `net/http` it makes and each
chunk of the body (`NewRequest`, `SetHeader`, in any order since a Go map is
ranged over, `Do`, `Status`, `ReadChunk`), then what was deferred, last first
(`Close`, `Cancel`), and what `JSONDoc` and `YAMLDoc` make of the result
(`Finish`). `TimerFires`, `Answer`, `SendChunk` and `SendEnd` are the deadline and
the server, which come at any time, or never. `cancelled` is the call of the
context's cancel function, `body` and `root` what has to be closed.

## 3. The runs

| Run | Question | Bounds, and why they are enough |
|---|---|---|
| `PoolLoans` | what each pool guarantees in each build to each kind of client | 2 goroutines, 2 wrappers, 1 foreign object, 3 loans: two loans of one wrapper by two goroutines while a stale closure of the first is kept is the longest story here |
| `SharedPools` | what idles in the pools of `pools/shared` | capacities to 4, options on both sides of each comparison in `NewPoolSlice`, appends of 0 to 2: an array outgrows each cap, and is clipped below each length |
| `JSONRouting` | which adapter serves; do calls end | 2 goroutines, 3 adapters, 2 types, 1 to 3 registrations by mode: one insertion that fits the array and one that does not, and a lookup that crashes and jams the lock in the mode without discipline |
| `JSONRoutingRace` | (violated) can a call panic | 1 goroutine, no discipline |
| `OverlayResolve` | is the overlay a union mount | 866 495 states: all stacks of 3 layers on 5 names, one level deeper than the opaque directory, with a directory that is unreadable or fails in any of them |
| `MapFS` | is the file system the tree of the names | all maps of at most 3 of 12 names, pages of -1 to 3, on both kinds of handles |
| `NameMangler` | are initialisms found and letters kept | 375 760 states: all names of up to 4 of 5 runes, of 5 of 4, and runes of each class, with initialisms that contain, overlap and pluralize one another |
| `NamePlurals` | (violated) are plurals detected | 3 default initialisms, 3 names |
| `OrderedJSON` | reading, failing, updating, writing back, joining | two adapters, documents of 8 tokens: the depth limit 2 and one beyond, twice the same key, with scalars of which one is a number that is truncated (2.9999999999) and one a number that no float64 holds (1e400); the objects read joined in threes with empty ones and nulls in every place |
| `KeyEscapes` | (violated) is what is written JSON | 4 tokens |
| `YAMLWalk` | expansions, cycles, work, writing back | all documents of 5 values, bombs of up to 6 levels, chains one below, at and above the depth of 6: past each threshold, which are scaled down to 2, 6, 12 and 40; receivers without items, with items and without room, with both |
| `Loading` | which file is read; what an HTTP load asks for and returns, does it close what it opened, does it end | 33 689 states: 20 forms of paths with and without `file://`, through links and out of the root, under any two of the options on where to look; remote calls under any two options on how; bodies of 2 chunks that end, break off or stall after any of them |

The properties, by run:

- `PoolLoans`: a wrapper is in the `sync.Pool` once at most (`PooledOnce`; for
  the plain pool under the conditions of `PlainPooledOnce`), nobody shares a
  loan (`NoSharing`, `ImplementsLoans`), no honest client panics (`NoPanic`),
  pooled objects are clean (`PooledClean`), the debug build stops calls of
  stale closures (`RedeemsOwnLoan`) and reports exactly what is out
  (`LeakReportExact`).
- `SharedPools`: `PooledHoldsNothing`, `CapacityKept` (within the cap when idle,
  with the room asked for on loan, never below the length), `IdleIsLight`.
- `JSONRouting`: `LastRegisteredFirst` and `AlwaysServed` (by an adapter still
  registered) under the disciplines they name; `ServesSupporting` and `KeepsOrder` under
  none. `CallsEnd` holds under none either, of the behaviours in which no lookup
  crashes: it fails if one of the ways out of a lookup does not unlock. After a crash
  that the caller recovers from it is not claimed, and would not hold (section 5); under
  the quiet discipline there is no crash (`LockGivenBack`).
- `OverlayResolve`: `ResolvesAsUnionMount` and `ListsWhatResolves` when no layer has a
  file where another has a directory with something in it, failing layers included; that
  an owned directory hides what is below it, the second half of the first, always.
- `MapFS`: `FailsWhenWrong`, `IndexIsTree` in every order of iteration;
  `PagesAreListing`, up to the `io.EOF`.
- `NameMangler`: `InitialismsFromTheLeft` (against a definition on whole
  names) and `LettersKept`, each unless a plural moves the scan of another
  initialism (section 5); `GoNameExported`.
- `OrderedJSON`, for both adapters: `DepthIsNesting`, `FailureChangesNothing`,
  `UpdatesInPlace`, `JoinsDocuments`. `AcceptsObjects` says of a call that succeeds that
  what it read is an object within the depth, or null, and of one that fails that what it
  read begins no such document: it did not give up early, nor on an error that its lexer
  brought from a call before. `WritesWhatItRead` is about order, duplicates, nesting and
  separators, token by token; numbers are written as what they became when they were read,
  which is not always what they were (section 5), and an infinite one makes the writer fail.
- `YAMLWalk`: `ExpansionsBalanced`, `ExpandsOrRefuses`, `WorkBounded`,
  `WritesWhatItWalked`.
- `Loading`: `ReadsWhereTold` (against what the documentation says of paths and
  URIs), `AsksAsTold`, `AnswerIsWhole`, `Released`, `LoadEnds`.

**Fairness.** There are two liveness properties. `CallsEnd` assumes that a
goroutine inside a call keeps running (`WF` of `Proceed`, for each goroutine):
Go's scheduler does not starve runnable goroutines, and `sync.RWMutex` blocks
new readers while a writer waits, so no side starves. Nothing is assumed of
registrations, resets or the start of calls. `LoadEnds` assumes that the
goroutine inside of a load keeps running (`WF` of `LoadHTTP \/ Deferred`) and that
a timer that was started fires (`WF` of `TimerFires`): the runtime's. Nothing is assumed
of the server and of the transport, except that a request whose context is
done fails, as `net/http` promises: this is what ends a load whose body stalls.

**Deadlock.** It is checked in `SharedPools`, `NameMangler`,
`OrderedJSON` and the runs beside them. `CHECK_DEADLOCK FALSE` is set where the
model really stops: a read lock that a crashed lookup kept, and everyone waiting behind
it (`JSONRouting`, where `CallsEnd` says that nothing else stops a call), all loans made and given back (`PoolLoans`), a stack of full
height (`OverlayResolve`), a construction that failed (`MapFS`), a walk that is
over (`YAMLWalk`), a load that has returned (`Loading`).

## 4. The proofs

Each theorem holds for every value of the constants that meets the named
assumption of its module, and TLC evaluates these assumptions in every run.

**The pools**, from `PoolAssumption`: the modes are modes, and no foreign object
is one of the pool's. No bound is put on goroutines, objects or loans.

| Theorem | Property of [Pools] | Module | Follows from |
|---|---|---|---|
| `TypeCorrect` | `TypeOK` | [PoolsProofs] | itself |
| `NeverPooledTwice` | `PooledOnce` | [PoolsProofs] | `TokenInv` |
| `NeverShared` | `NoSharing` | [PoolsProofs] | `LoanInv` |
| `PooledStaysClean` | `PooledClean` | [PoolsProofs] | `LoanInv` |
| `OwnLoanRedeemed` | `RedeemsOwnLoan` | [PoolsProofs] | `LoanInv` |
| `PlainNeverPooledTwice` | `PlainPooledOnce` | [PoolsProofs] | `LoanInv`, `EntryInv` |
| `NobodyPanics` | `NoPanic` | [PoolsProofs] | `LoanInv`, `Honest` |
| `LeaksExact` | `LeakReportExact` | [PoolsProofs] | `LoanInv`, `Reported` |
| `PoolsImplementLoans` | `ImplementsLoans` | [PoolsProofs] | `LoanInv` |

`PooledOnce` is not inductive: it says nothing of the wrappers that are out and
will come back. `TokenInv` says that each wrapper has at most one token, which
lies in the pool, or is in the hand of a goroutine that has taken the wrapper
and not armed it or has won its `CompareAndSwap`, or is the wrapper's
`stateBorrowed`. `Store` and the successful `CompareAndSwap` move it; nothing
else makes one. It holds in every mode of a redeemable pool.

`NoSharing` is not inductive either: the object that is being handed over belongs
to nobody. `LoanInv`, in the modes `Kept`, has four parts. `Exclusive`: an
object is in the pool, or is moved by one goroutine (`Moves`), or is lent once,
and each excludes the others. `Current`: who moves or holds an object has its
last loan, and what was reset stays clean. `Stamped`: the tracker has as
borrowed what is held, by its generation, and not what is pooled or moved.
`Generations`: no two handles have the same one. The last is what makes loans
exclusive for sloppy clients, who may call any closure they ever had: a spent
handle whose generation is the entry's is the handle of the current loan, and
there is no other. [PoolsProofs] shows that it is kept (`LoanStep`): by
`Unmoved` for the steps that only go on, and by a lemma each for the
delivery of a loan (`DeliverKeeps`, `StampKeeps`) and for the redeem that the
tracker lets through (`MarkKeeps`).

`Honest` adds that the wrapper of a loan is armed until its redeem swaps it, and
that the tracker will accept the call under way. `Reported` adds that what is
entered as borrowed is held, or is about to be marked redeemed by the goroutine
that gives it back; at rest only the former is left. `EntryInv` is `TokenInv` for a plain
pool, with the tracker's entry in the place of the state it does not have.
The refinement maps what clients hold, in the modes `Kept`, to `lent`: `HandOut`
and `MarkBorrow` are a `Lend` (`DeliverLends`), `CallRedeem` is a `GiveBack`
(`RedeemGivesBack`), and the rest stutters.

**The slices**, from `SliceAssumption`: the configured length and minimum are
within the capacity `append` may reach. In [SharedPoolsProofs] `NothingLeftBehind`
proves `PooledHoldsNothing` and `CapacityAlwaysKept` proves `CapacityKept`, for
all options and sizes. What they need besides themselves is that values lie below
the length only (`SliceShape`): `Reset` clears no further.

**The shared pools**, from `SharedAssumption`: the pools have no object in common.
[SharedPoolsProofs] proves `IdleIsLight` (`IdleStaysLight`), and that a behaviour of
[SharedPools] is one of [PoolSlice], so that the theorems above hold there too
(`SharedSlicesSafe`).

**The registry and the routes to it**, from `RegistrarAssumption` (the default
adapter supports every type and capability) and `RoutingAssumption` (the two
capabilities differ): [JSONRoutingProofs], for any goroutines, adapters and
types, and with no bound on registrations.

| Theorem | Property | Follows from |
|---|---|---|
| `ServesSupportingProved` | `ServesSupporting`, under every race | `RegInv` |
| `AlwaysServedProved` | `AlwaysServed` | `RegInv`, `QuietInv` |
| `LastRegisteredFirstProved` | `LastRegisteredFirst` | `QuietInv` |
| `KeepsOrderProved` | `KeepsOrder`, an action property | `RegInv`, `InsertLists` |
| `LockGivenBack` | the read lock is never leaked, under the quiet discipline | `LockInv`, `QuietInv` |

`RegInv` is what memory keeps while it is shared: a header lies within its array,
below its length an array has adapters without a gap, no entry of any array, old
ones included, is an adapter registered for something else, and the cache has
what supports its type. That is why a reader with half of a header is
served something that fits or nothing: whatever it follows leads to an entry of some
array of the right capability (`Holds`). `QuietInv` is what a lookup knows when
nothing changes under it: it has in hand the registry as it is (`InTouch`), and the
cache has what the lists give, or is about to be cleared (`CacheInTouch`). A lookup
then meets adapters only, and no panic leaves the lock held (`LockStep`).
`KeepsOrder` rests on what `slices.Insert` makes of an array,
with room (`Shifted`) and without (`Regrown`). A step of [JSONRouting] is one
of [Registrar], so that everything said of the one holds of the other
(`RegSteps`); there is an invariant of its own for what calls have left to try.

**The ordered readers**, from `OrderedJSONAssumption`: the depth is positive, and
keys and scalars are taken neither for one another nor for another token; and from
`NumbersAssumption`: numbers are scalars, and infinities are not truncated.
[OrderedJSONProofs], for both adapters, documents of any length and any number
of calls on a recycled lexer.

| Theorem | Property | Follows from |
|---|---|---|
| `DepthIsNestingProved` | `DepthIsNesting` | `StackInv` |
| `AcceptsObjectsProved` | `AcceptsObjects` | `IInv` |
| `NoContinuationAccepted` | a call that fails has read what no accepted document continues | `AcceptsObjects`, `AcceptedBegins` |
| `FailureChangesNothingProved` | `FailureChangesNothing` | `HeldInv` |
| `UpdatesInPlaceProved` | `UpdatesInPlace` | `UpdateInv` |

`AcceptsObjects` compares two readings of a document. The decoder's is a fold
of the tokens into what it awaits next (`Open`); that of the routines is a stack.
`ReadInv` says that as long as there is no error the tokens consumed are the beginning of
an object within the depth, and the stack has the shape of what the decoder
awaits (`ReadSoFar`); and that from an error on they are the beginning of no document
that could be accepted (`NotBeginning`, `TooDeep`). `StackInv` is needed to
know that the count of the lexer and the budgets of the routines measure the
same stack. The fold is unrolled by a least counterexample (`FoldExists`, `OpenAppend`),
since the library's induction cannot be used.

`UpdatesInPlace` is about `SetOrderedItems`, which looks every key up in an index made
before it starts. `UpdateInv` says that what the routines make are lists of items, and
that the receiver ends as the update of what it held. The work is in the fold: after
any number of the items read (`Updated`), the old part of the list has the keys it had,
what was appended has none of those, and the last place of each key read so far holds the
value read last. A receiver is a list of keys with values, in which a key may
come twice (`HeldAssumption`).

**The overlay**, from `OverlayAssumption`: the root is a name, names are
sequences, the parent of a name is a name, and layers are trees.
[OverlayFSProofs], for stacks of any height, names of any depth, any trees.

| Theorem | Property | Follows from |
|---|---|---|
| `ListsWhatResolvesProved` | `ListsWhatResolves` | `TypeInv` |
| `ResolvesAsUnionMountProved` | `ResolvesAsUnionMount` | `TypeInv`, `ContributorsAre` |

A stack of layers does not change once it is made, so the invariant is that the
layers are trees, and the work is in the operators. `Contributors`, the union
mount by recursion from the root, is solved: `Parts` says in one formula which
layers take part in a name, and `ContributorsAre` proves by the shortest name
without it that this is what the recursion gives. The look-up in one pass then
finds the least of them (`FoundInParts`). That a listing never passes over what a failing
layer may hold is `FoundIsSource`: a lookup that resolves to that layer, or to one below
it, would be a merge that got there, and failed.

**The map file system**, from `MapFSAssumption` (names are sequences of elements, not
empty ones) and `MapDirReaderAssumption` (pages have sizes): [MapFSProofs], for
all maps, in every order in which a Go map may be ranged over.

| Theorem | Property | Follows from |
|---|---|---|
| `ReaderInvariant` | - | itself |
| `FailsWhenWrongProved` | `FailsWhenWrong` | `MapInv` |
| `IndexIsTreeProved` | `IndexIsTree` | `MapInv` |
| `PagesAreListingProved` | `PagesAreListing` | `ReaderInv` |

`MapInv` says of each loop of `NewMapFS` what it has done to the keys it has seen, whichever
these are: `Filed`, the names are clean and two keys do not denote one;
`Indexed`, the children are the names and the directories above them, and no name is a
directory; `Listed`, each directory has its entries. At the end there is
nothing left to see. `ReaderInv` adds that the arrays of the index are the
listings and stay so, whatever clients append to their pages, and that an open
directory has handed out what lies before its offset (`HandleInv`); this excludes a merged
handle whose client appended to a page (`spoiled`), as the property does.

**The walk of a YAML document**, from `YAMLWalkerAssumption` on the thresholds and
`DocumentsAssumption`: a document is a tree around one value, as the parser makes
one, in which aliases may lead anywhere, so that it may be cyclic; a receiver is a list.
[YAMLWalkerProofs], for every such document, of any size.

| Theorem | Property | Follows from |
|---|---|---|
| `WalkInvariant` | - | itself |
| `ExpansionsBalancedProved` | `ExpansionsBalanced` | `Balanced` |
| `RecursionBounded` | at most `MaxDepth + 1` routines are active | `StackInv` |
| `ExpandsOrRefusesProved` | `ExpandsOrRefuses` | `Reads` |
| `WorkBoundedProved` | `WorkBounded` | `Counting` |
| `WritesWhatItWalkedProved` | `WritesWhatItWalked` | `Writes` |

`ExpansionsBalanced` lacks that the aliases on the stack have different
anchors (`Balanced`), without which the removal of an anchor on the way out might
be that of another alias, and that a frame is as deep as it lies
(`StackInv`), which is also what bounds the recursion.

`ExpandsOrRefuses` speaks of the end of a walk only. On the way there the stack is a
path in the document (`OnPath`), the tokens put out are what each frame puts out
before the child it is at (`Prior`), and the nodes that the walk is through can
be ranked so that whatever lies below one ranks lower (`Ranked`). When the
root is one of them there is no cycle (`NoCycle`); and an anchor that is met while it
is being expanded lies below itself, since the stack is a path (`AliasCycle`).

`WorkBounded` follows from the last counts the walker accepted, by arithmetic
(`FairBounds`), once it is known that no more nodes are walked outside of the aliases than the
document has. That is a matter of places: each is met once (`Seen`), since a container
lies at one place only and would have to be met again there (`Placed`).

`WritesWhatItWalked` compares two recursions, of which `json2yaml` counts its depth from the
value and the walk from the document. Of a node that was read, `json2yaml` makes what the
node stands for, at the depth of the walk and at any smaller one (`Agrees`), and the stack knows
this of the children it is past (`Written`). Where the walk was refused for its depth
without an alias on the stack, the stack is the path on which `json2yaml` is refused
too (`TooDeepRefused`).

All three rest on recursive functions of a number: what a node stands for, what lies below
it, what is written of it. That these satisfy their equations is not given; it is proved by
the least number for which there would be no function (`Iterated`, `ExpansionIs`, `DownToIs`,
`JsonIs`). That what lies below a node is found in as many steps as there are nodes is proved
by counting (`UnderClosed`).

**A load**, from `LoadingAssumption`, which says what options there are: for any
set of calls, bodies of any length and any server, [LoadingProofs] proves
`Released` (`AlwaysReleased`), `AnswerIsWhole` (`AnswerAlwaysWhole`) and `AsksAsTold`
(`AlwaysAsksAsTold`). `LoadInv` says where a load is by its kind (`Control`), what
is open and running there (`Tidy`), what was heard (`Heard`), and that a result
without an error is the whole of a body that came to its end (`Decided`); the
first two speak of the end only. For the third, `Told` says what the options given
so far make of the headers and of the credentials, one more option at a time
(`ToldMore`), and `AskInv` that a request has the headers that were set so far,
in whatever order they come (`Asks`).

Every inductive invariant was checked by TLC on the run's instance before it was proved,
apart from the ranking in `Reads` and the set of places in `Counting`, which TLC
cannot enumerate: what these are for, the end of the walk, it checks as the property.
An assumption was made stronger where a proof needed it and the code gives it: names
are sequences of elements (`OverlayAssumption`, `MapFSAssumption`), tokens are told apart
(`OrderedJSONAssumption`), an option is one of the `With` functions' (`LoadingAssumption`),
a YAML document is a tree with aliases in it, and an anchor no alias (`DocumentsAssumption`:
the parser resolves an alias to the value, and `BytesToYAMLDoc` lets only mappings through),
and what a receiver holds is a list of items (`HeldAssumption`).
In [YAMLWalker] a node of no known kind became the error that it is in the source,
rather than an assumption that there is none.

Only model-checked:

- `CallsEnd` and `LoadEnds`: liveness is beyond the prover.
- `WritesWhatItRead` and `JoinsDocuments` of [OrderedWriter]: recursive operators.
- `InitialismsFromTheLeft`, `LettersKept`, `GoNameExported` of [NameMangler]: they
  relate nested folds over the runes of a name to one another, each of which needs its own
  lemmas. The search for the invariant of the scan showed that the first two were not
  true of all names: a plural can make a letter disappear (section 5). They were then
  checked, beyond the run, on all sets of up to three words of 2 to 4 runes over two letters,
  and on all pairs over three letters with the `s`.
- `ReadsWhereTold` of [Loading]: what a path stands for is given with each call
  (`asks`), read off the documentation, and is nothing that the model defines.

## 5. What the models showed

Violated by the code, each by a run:

- `JSONRoutingRace`: `registry.go:152` reads the registry without its lock; a
  `JSONMapSlice` method that races a registration can find no adapter, and
  calls a method on nil (`jsonutils/ordered_map.go:83`).
- `NamePlurals`: `split.go:166` moves the position for the rest of the matches
  when it meets a plural: `CPUIDs` is split `CPU`, `I`, `Ds`. The same step can
  lose letters: in `DNSSHs`, when the `s` makes a plural of `SSH`, the `SSH` that was begun at
  the second `S` is compared one rune further on, takes `H` for its third letter,
  and replaces `SHs`, since the first one overlaps `DNS`: the name becomes `DNSSSH`.
  `NameMangler` has such a name in its instance (`ACCBs`), and `LettersKept` and
  `InitialismsFromTheLeft` leave these out (`PluralSkipsLetter`, `PluralEndsTwo`).
- `KeyEscapes`: `writer.go:66` writes control characters in keys as they are.

Met while modelling, and described by the models, without a run of their own:

- `pools.go:104`: a second call of a closure *after* its wrapper was lent again
  finds it borrowed, and redeems the later loan instead of panicking as
  `pools.go:166-167` says. Only the debug build can tell, by its generations;
  hence the mode `Kept` under which loans are exclusive.
- `debug_on.go:155`: `ResetTracking` restarts the generations, so that a
  closure from before it can pass for a current one, and a first redeem after
  it is taken for a redeem of something unknown.
- `shared.go:67`: an oversized buffer is dropped before the tracker hears of
  it, and stays in the leak report. `shared.go:45` caps only one of the two
  pools of buffers.
- `registry.go:177`: `Support` is called under the read lock and no unlock is deferred.
  Where a lookup that races a registration meets a cell that has no entry, or an
  adapter's `Support` panics, and the caller recovers, the lock stays held: the next
  `RegisterFor`, `ClearCache`, `Reset` or first use of a type waits for ever, and all
  lookups behind it. `JSONRouting` has such behaviours, and `CallsEnd` leaves them out.
- `lexer.go:278-290`, `easyjson/json/ordered_map.go:244-250`: numbers go through float64,
  and those that `IsFloat64AJSONInteger` takes for integers through `math.Trunc`. So
  9007199254740993 is written back as another number and 1.0 as 1; and since the test
  compares with the rounded value (`conv/convert.go:26-38`), relative to it,
  2.9999999999 passes for 3 and is read as 2. The easyjson adapter ignores the error of
  `ParseFloat`, so that 1e400 is read as an infinity, which cannot be written; the stdlib
  adapter refuses it.
- `registry.go:98`: a registration does not clear the cache, so a type already
  cached keeps its adapter (`LastRegisteredFirst` asks for `ClearCache`);
  `registry.go:92` releases the lock between the emptying of the lists and the
  registration of the default; `registry.go:182` can cache an adapter just
  unregistered.
- `overlay.go:205` resolves `d/x` in a lower layer though `d` is a regular file
  above, unlike the listing of `d`, and the comment of `overlay.go:116-117`
  (`ResolvesAsUnionMount` compares the rest only where no name is both).
- `overlay.go:322`: pages of a merged directory share an array; a client that
  appends to one overwrites the next, unlike those of the map file system.
- `name_lexem.go:48`: an initialism that starts with a lower-case letter or one
  without case makes `ToGoName` return an unexported name (`GoNameExported` is
  stated for the others). A letter without upper case at the start of a name
  is prefixed in `ToGoName` and not in `ToVarName`.
- `split.go:153`: appends to the spare capacity of runes shared by all calls;
  every writer writes what no one reads.
- `stdlib/json/ordered_map.go:191`: an ordered map inside of an array is
  written by `MarshalJSON`, which counts its depth from one again. The input
  after an object is not read (`AcceptsObjects` says "what follows").
- `easyjson/json/ordered_map.go:219`: keys alias the caller's bytes, and `:175`
  sets the receiver of `UnmarshalJSON` even when the document is wrong
  (`FailureChangesNothing` leaves that method out).
- `yamlutils/ordered_map.go:191`: a list given to `UnmarshalYAML` is read in
  pairs, and past its end when its length is odd; `:178` writes in the
  receiver's array before the rest is known to be good, so that a call that
  fails leaves the receiver its length and other items.
- `concat.go:64`: emptiness is less than three bytes, and brackets the first and
  the last byte: `{ }`, or a newline at the end, make the result no JSON.
  Containers of two kinds are joined as if they were of the first.
- `mangling/options.go:91`: `WithAdditionalInitialisms` appends to the slice that
  was given to `WithInitialisms`, in its spare capacity when there is some.
- `loading.go:82`: for an `embed.FS` all leading dots and slashes are cut, so that
  `.x` reads `x`, and `../x` too. `loading.go:99`: a URI is decoded a second
  time on Windows. Under `WithRoot`, a `file://` URI with a host is a relative
  name there.
- `loading.go:168`: two spellings of one custom header are set in the order of a
  Go map. `loading.go:188`: `LoadFromFileOrHTTP` returns the part of a body
  that was read with the error. `yaml.go:23` returns errors as they are, where
  `json.go:22` joins them with `ErrLoader`.

## 6. Not modelled, and the plan

Not modelled because there is nothing to interleave or to get out of order:
`conv`, `typeutils`, `stringutils`, `netutils`, `cmdutils`, the deprecated
aliases, the file systems of package `os`, generated mocks, benchmarks and
fixtures. External, and modelled from their use: `sync.Pool`, the JSON decoder,
the YAML parser, package `unicode`, `net/http`, contexts and timers, `os.Root`,
package `path/filepath`. The transport that `WithHTTPClient` replaces is any
server of the model.

Order of the work. The core (the pools) came first, then the shared state of
`jsonutils`, then the algorithms by difficulty. What is left:

1. `FromDynamicJSON`, a `WriteJSON` followed by a `ReadJSON` that may be served by
   two adapters, the normalisation of Go values in `transformData`, and the
   recycled buffers of `mangling`, which [Pools] says have one borrower.
2. Proofs: `LettersKept` and `GoNameExported` of [NameMangler], fold by fold, and the
   writers of ordered objects, once their recursion is a function of the depth, as that of
   [YAMLWriter] is.
