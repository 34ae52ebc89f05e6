----------------------------- MODULE JSONRouting -----------------------------
(***************************************************************************)
(* The clients of the Registrar in package jsonutils.  WriteJSON (ReadJSON *)
(* is its mirror image) tries the ordered capability for ordered values,   *)
(* then the plain one, then encoding/json.  JSONMapSlice.MarshalJSON       *)
(* (UnmarshalJSON) asks for the ordered capability only, and uses what it  *)
(* gets without a look.                                                    *)
(***************************************************************************)
EXTENDS Registrar

CONSTANTS ordered, plain,     \* the two capabilities
          Ordered             \* the types with an OrderedItems method

ASSUME RoutingAssumption ==
  /\ Caps = {ordered, plain} /\ ordered # plain
  /\ Ordered \subseteq Types

VARIABLE call   \* call[g]: the API call g is in, the capabilities left to try

rvars == <<vars, call>>

NoCall == [api |-> "none", type |-> None, todo |-> <<>>]

\* The capabilities an API call tries, in order.
Route(api, t) ==
  CASE api = "MapSlice" -> <<ordered>>
    [] api = "WriteJSON" /\ t \in Ordered -> <<ordered, plain>>
    [] OTHER -> <<plain>>

RInit == Init /\ call = [g \in Goroutines |-> NoCall]

SetCall(g, c) == call' = [call EXCEPT ![g] = c]

Call(g, api, t) ==
  /\ call[g] = NoCall
  /\ api = "MapSlice" => t \in Ordered
  /\ LET route == Route(api, t) IN
     /\ Lookup(g, Head(route), t)
     /\ SetCall(g, [api |-> api, type |-> t, todo |-> Tail(route)])

\* No adapter: the next capability.
GiveUp(g) ==
  /\ pc[g] = "done" /\ look[g].found = None /\ call[g].todo # <<>>
  /\ Answer(g) /\ UNCHANGED call

TryNext(g) ==
  /\ call[g].todo # <<>>
  /\ Lookup(g, Head(call[g].todo), call[g].type)
  /\ SetCall(g, [call[g] EXCEPT !.todo = Tail(@)])

\* An adapter: marshal, and redeem it on the way out.
Serve(g) ==
  /\ pc[g] = "done" /\ look[g].found \in Adapters
  /\ Answer(g) /\ SetCall(g, NoCall)

\* No adapter and nothing left to try: encoding/json for WriteJSON; the method
\* call on a nil adapter for JSONMapSlice.
LastResort(g) ==
  /\ pc[g] = "done" /\ look[g].found = None /\ call[g].todo = <<>>
  /\ Answer(g)
  /\ SetCall(g, IF call[g].api = "WriteJSON" THEN NoCall
                ELSE [call[g] EXCEPT !.api = "panic"])

\* The lookup itself crashed: the panic leaves the call, and the lock as it is.
Crashed(g) ==
  /\ pc[g] = "done" /\ look[g].found = Crash
  /\ Answer(g) /\ SetCall(g, [call[g] EXCEPT !.api = "crash", !.todo = <<>>])

Recover(g) ==
  /\ call[g].api \in {"panic", "crash"} /\ pc[g] = "idle"
  /\ SetCall(g, NoCall) /\ UNCHANGED vars

\* A goroutine in a call keeps running it.
Proceed(g) ==
  \/ GiveUp(g) \/ TryNext(g) \/ Serve(g) \/ LastResort(g) \/ Crashed(g)
  \/ AdapterFor(g) /\ UNCHANGED call

RNext ==
  \/ \E g \in Goroutines :
       \/ \E api \in {"WriteJSON", "MapSlice"}, t \in Types : Call(g, api, t)
       \/ Proceed(g) \/ Recover(g)
       \/ Reset(g) /\ call[g] = NoCall /\ UNCHANGED call
       \/ ResetDone(g) /\ UNCHANGED call
  \/ (ClearCache \/ WriterWaits \/ \E a \in Adapters \ {Std} : RegisterFor(a)) /\ UNCHANGED call

RSpec == RInit /\ [][RNext]_rvars

FairRSpec == RSpec /\ \A g \in Goroutines : WF_rvars(Proceed(g))

-----------------------------------------------------------------------------
\* No call panics, as the safeguards of WriteJSON and ReadJSON announce.
NoCallPanics == \A g \in Goroutines : call[g].api \notin {"panic", "crash"}

\* Unless a lookup crashes with the read lock, every call ends, served, on
\* encoding/json or in a panic, whatever happens to the registry meanwhile: each
\* way out of a lookup gives the lock back, to the writers that wait for it.
Over(g) == call[g].api \in {"none", "panic", "crash"}
CallsEnd ==
  (\A g \in Goroutines : [](look[g].found # Crash)) =>
    \A g \in Goroutines : call[g].api # "none" ~> Over(g)

=============================================================================
