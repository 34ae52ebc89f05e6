----------------------------- MODULE OrderedJSON -----------------------------
(***************************************************************************)
(* Reading JSON objects with the order of their keys kept, in both         *)
(* adapters: mutually recursive routines, with their stack made explicit,  *)
(* over a lexer with one token of look-ahead and a sticky error, recycled  *)
(* from one call to the next.  The lexer of the stdlib adapter counts the  *)
(* containers it is in; the routines of the easyjson adapter pass a budget *)
(* on to one another.                                                      *)
(*                                                                         *)
(* The document is what the decoder (external) chooses to answer: tokens   *)
(* that nest properly, the end of the input or an error at any time.       *)
(*                                                                         *)
(* A value is a record of its kind and its items; an item is a key, which  *)
(* arrays leave empty, and a value; a scalar is its own kind, as it is     *)
(* spelled when it is written.                                             *)
(***************************************************************************)
EXTENDS Naturals, SequencesExt

CONSTANTS
  Keys, Scalars,
  ParseFloat,  \* ParseFloat[s]: the float64 of s, for the scalars that are numbers
  Truncated,   \* Truncated[f]: f as an int64, if IsFloat64AJSONInteger(f)
  Infinite,    \* the infinite float64s
  MaxDepth,    \* WithMaxNestingDepth
  MaxTokens,   \* bound on the tokens of a document
  Held         \* what a receiver may hold when it is called

ASSUME NumbersAssumption ==
  DOMAIN ParseFloat \subseteq Scalars /\ DOMAIN Truncated \cap Infinite = {}

ASSUME OrderedJSONAssumption ==
  /\ MaxDepth \in Nat \ {0} /\ MaxTokens \in Nat /\ Keys \cap Scalars = {}
  \* Neither is taken for another token, or for none.
  /\ (Keys \cup Scalars) \cap {"{", "}", "[", "]", "null", "eof", "error", "undefToken"} = {}

\* What a receiver holds is a list of keys with their values, or Nil, which is one
\* of its own.
ASSUME HeldAssumption ==
  \A h \in Held : LET items == {h[i] : i \in DOMAIN h} IN
    h \in Seq(items) /\ \A x \in items : x = [key |-> x.key, value |-> x.value]

VARIABLES
  adapter,  \* "stdlib" | "easyjson"
  doc,      \* the tokens read in this call, the one looked ahead with them
  next,     \* jlexer: the token looked ahead, or Undef
  err,      \* jlexer: has it failed?
  depth,    \* jlexer: nesting
  pc,       \* "idle" | "top" | "loop" | "value" | "done" | "returned"
  frames,   \* containers being read, the innermost last
  made,     \* what unmarshalObject leaves: items, or Nil
  via,      \* the method called
  held,     \* what the receiver holds
  before,   \* what it held before the call (history)
  outcome   \* "ok" | "error"

lexer == <<next, err, depth>>
receiver == <<via, held, before, outcome>>
vars == <<adapter, doc, lexer, pc, frames, made, receiver>>

Easy == adapter = "easyjson"

Undef == "undefToken"
Nil == <<[key |-> "nil", value |-> "nil"]>>

\* A number in Go: its fraction is cut off if it passes for an integer.
Number(s) ==
  LET f == ParseFloat[s] IN IF f \in DOMAIN Truncated THEN Truncated[f] ELSE f

\* The value of a plain token.
Valuation(t) == IF t \in DOMAIN ParseFloat THEN Number(t) ELSE t

\* The numbers that no float64 holds.
Huge == {s \in DOMAIN ParseFloat : ParseFloat[s] \in Infinite}

Plain == Scalars \cup {"null"}
Opens == {"{", "["}
Stops == {"eof", "error"}

-----------------------------------------------------------------------------
(* The decoder: what it awaits, container by container: "{" a key or the   *)
(* end of an object, ":" the value of a key, "[" an item or the end.       *)

Valued(open) == IF open # <<>> /\ Last(open) = ":" THEN Append(Front(open), "{") ELSE open

After(open, t) ==
  CASE t \in Opens -> Append(Valued(open), t)
    [] t \in {"}", "]"} -> Front(open)
    [] t \in Keys -> Append(Front(open), ":")
    [] OTHER -> Valued(open)

Open(tokens) == FoldLeft(After, <<>>, tokens)

Allowed(open) ==
  IF open = <<>> THEN Opens \cup Plain
  ELSE CASE Last(open) = "{" -> Keys \cup {"}"}
         [] Last(open) = ":" -> Opens \cup Plain
         [] Last(open) = "[" -> Opens \cup Plain \cup {"]"}

\* fetchToken, from PeekToken: an error is sticky.  io.EOF is a token in the
\* stdlib adapter, and an error in the lexer of easyjson.  The decoder of the
\* stdlib adapter converts numbers itself, and has an error for huge ones.
Fetch ==
  /\ pc \in {"top", "loop", "value"} /\ next = Undef /\ ~err
  /\ \E t \in Stops \cup (IF Len(doc) < MaxTokens THEN Allowed(Open(doc)) ELSE {}) :
       /\ t \in Huge => Easy
       /\ next' = t /\ doc' = Append(doc, t)
       /\ err' = (t = "error" \/ (Easy /\ t = "eof"))
  /\ UNCHANGED <<adapter, depth, pc, frames, made, receiver>>

-----------------------------------------------------------------------------
(* Consuming the token looked ahead *)

Fail == next' = Undef /\ err' = TRUE /\ UNCHANGED <<depth, pc, frames>>

Top == Last(frames)
Closing(kind) == IF kind = "{" THEN "}" ELSE "]"

\* What the routines of the easyjson adapter have left for what they contain.
Budget == IF frames = <<>> THEN MaxDepth ELSE Top.budget - 1

Frame(t) == [kind |-> t, items |-> <<>>, key |-> "", budget |-> Budget]

\* Not counting arrays.
DeeperInObjects(t) == IF t = "{" THEN depth + 1 ELSE depth

\* Delim of an opening delimiter.
Deeper(t) == depth + 1

\* Enters a container: the depth is checked here, for objects and arrays.
Enter(t) ==
  /\ next' = Undef /\ depth' = Deeper(t)
  /\ err' = (Deeper(t) > MaxDepth)
  /\ frames' = Append(frames, Frame(t))
  /\ pc' = "loop"

\* Enters a container if the budget allows it; the token is not consumed
\* otherwise.
EasyEnter(t) ==
  IF Budget <= 0
  THEN err' = TRUE /\ UNCHANGED <<next, depth, pc, frames>>
  ELSE /\ next' = Undef /\ frames' = Append(frames, Frame(t)) /\ pc' = "loop"
       /\ UNCHANGED <<err, depth>>

\* A key takes the place of the same key.
DeliveredOnce(fs, v) ==
  LET f == fs[Len(fs)]
      other(item) == f.kind = "[" \/ item.key # f.key
  IN [fs EXCEPT ![Len(fs)].items =
        Append(SelectSeq(@, other), [key |-> f.key, value |-> v])]

\* The value goes into the innermost container, under the key that was read.
Delivered(fs, v) ==
  [fs EXCEPT ![Len(fs)].items = Append(@, [key |-> fs[Len(fs)].key, value |-> v])]

\* unmarshalObject, first call: null leaves nothing, and what is not an object
\* is an error.
Top0 ==
  /\ ~Easy /\ pc = "top" /\ next # Undef /\ ~err
  /\ \/ /\ next = "null" /\ next' = Undef /\ pc' = "done" /\ UNCHANGED <<err, depth, frames>>
     \/ next = "{" /\ Enter("{")
     \/ next \notin {"null", "{"} /\ Fail
  /\ UNCHANGED <<adapter, doc, made, receiver>>

\* unmarshalEasyJSON, first call.
EasyTop0 ==
  /\ Easy /\ pc = "top" /\ next # Undef /\ ~err
  /\ \/ /\ next = "null" /\ next' = Undef /\ pc' = "done" /\ UNCHANGED <<err, depth, frames>>
     \/ next = "{" /\ EasyEnter("{")
     \/ next \notin {"null", "{"} /\ Fail
  /\ UNCHANGED <<adapter, doc, made, receiver>>

\* asInterface: any value, where one is due.
AsInterface ==
  \/ next \in Plain /\ frames' = Delivered(frames, [kind |-> Valuation(next), items |-> <<>>])
       /\ next' = Undef /\ pc' = "loop" /\ UNCHANGED <<err, depth>>
  \/ next \in Opens /\ Enter(next)
  \/ next \notin Plain \cup Opens /\ Fail

\* asInterface of the easyjson adapter.
EasyAsInterface ==
  \/ next \in Plain /\ frames' = Delivered(frames, [kind |-> Valuation(next), items |-> <<>>])
       /\ next' = Undef /\ pc' = "loop" /\ UNCHANGED <<err, depth>>
  \/ next \in Opens /\ EasyEnter(next)
  \/ next \notin Plain \cup Opens /\ Fail

\* Ends a container, in both routines, and delivers it to the one around it.
Leave ==
  /\ pc = "loop" /\ ~err /\ next = Closing(Top.kind)
  /\ next' = Undef /\ depth' = IF Easy THEN depth ELSE depth - 1
  /\ LET value == [kind |-> Top.kind, items |-> Top.items] IN
     IF Len(frames) = 1
     THEN made' = Top.items /\ frames' = <<>> /\ pc' = "done"
     ELSE frames' = Delivered(Front(frames), value) /\ UNCHANGED <<made, pc>>
  /\ UNCHANGED <<adapter, doc, err, receiver>>

\* unmarshalKeyValue: the key.
KeyOf ==
  /\ pc = "loop" /\ ~err /\ next \notin {Undef, "}"} /\ Top.kind = "{"
  /\ \/ /\ next \in Keys
        /\ frames' = [frames EXCEPT ![Len(frames)].key = next]
        /\ next' = Undef /\ pc' = "value" /\ UNCHANGED <<err, depth>>
     \/ next \notin Keys /\ Fail
  /\ UNCHANGED <<adapter, doc, made, receiver>>

\* unmarshalKeyValue: the value.
ValueOf ==
  /\ pc = "value" /\ ~err /\ next # Undef
  /\ IF Easy THEN EasyAsInterface ELSE AsInterface
  /\ UNCHANGED <<adapter, doc, made, receiver>>

\* unmarshalArray: an item.
ItemOf ==
  /\ pc = "loop" /\ ~err /\ next \notin {Undef, "]"} /\ Top.kind = "["
  /\ IF Easy THEN EasyAsInterface ELSE AsInterface
  /\ UNCHANGED <<adapter, doc, made, receiver>>

\* What was read so far is kept.
UnwindKeeping ==
  /\ ~Easy /\ err /\ pc \in {"top", "loop", "value"}
  /\ pc' = "done" /\ frames' = <<>>
  /\ made' = IF frames = <<>> THEN made ELSE frames[1].items
  /\ UNCHANGED <<adapter, doc, lexer, receiver>>

\* Once the lexer has failed nothing more is read: every routine returns, and
\* none of them keeps what it has.
Unwind ==
  /\ ~Easy /\ err /\ pc \in {"top", "loop", "value"}
  /\ pc' = "done" /\ frames' = <<>>
  /\ UNCHANGED <<adapter, doc, lexer, made, receiver>>

\* The routines of the easyjson adapter keep the items they have, the one that
\* was being read with them.
EasyUnwind ==
  /\ Easy /\ err /\ pc \in {"top", "loop", "value"}
  /\ pc' = "done" /\ frames' = <<>>
  /\ made' = IF frames = <<>> THEN <<>>
             ELSE IF pc = "value" \/ Len(frames) > 1
             THEN Append(frames[1].items,
                         [key |-> frames[1].key, value |-> [kind |-> "null", items |-> <<>>]])
             ELSE frames[1].items
  /\ UNCHANGED <<adapter, doc, lexer, receiver>>

-----------------------------------------------------------------------------
\* The items in the place of all others.
SetOrderedItemsReplacing(m, items) == items

\* SetOrderedItems: in the place of the keys it holds, the others after them.  A
\* nil slice that nothing is appended to stays nil.
SetOrderedItems(m, items) ==
  IF items = Nil \/ (m = Nil /\ items = <<>>) THEN Nil
  ELSE LET old == IF m = Nil THEN <<>> ELSE m
           at(k) == {i \in DOMAIN old : old[i].key = k}
           put(acc, item) ==
             IF at(item.key) = {} THEN Append(acc, item)
             ELSE [acc EXCEPT ![Max(at(item.key))].value = item.value]
       IN FoldLeft(put, old, items)

\* The error not forgotten.
ResetKeepsError == next' = Undef /\ depth' = 0 /\ UNCHANGED err

\* jlexer.Reset, as the lexer goes back to its pool.
Reset == next' = Undef /\ err' = FALSE /\ depth' = 0

\* The method returns: UnmarshalJSON has set its receiver already, unless it
\* read null or failed before it set anything, and OrderedUnmarshal sets the
\* items of its own.
Return ==
  /\ pc = "done"
  /\ pc' = "returned" /\ outcome' = (IF err THEN "error" ELSE "ok")
  /\ held' = CASE via = "UnmarshalJSON" -> IF made = Nil THEN held ELSE made
               [] via = "OrderedUnmarshal" -> IF err THEN held ELSE SetOrderedItems(held, made)
  /\ Reset
  /\ UNCHANGED <<adapter, doc, frames, made, via, before>>

\* A call, with a lexer of the pool.
Call(method, h) ==
  /\ pc \in {"idle", "returned"}
  /\ pc' = "top" /\ via' = method /\ held' = h /\ before' = h
  /\ doc' = <<>> /\ made' = Nil
  /\ UNCHANGED <<adapter, lexer, frames, outcome>>

Methods == {"UnmarshalJSON", "OrderedUnmarshal"}

Init ==
  /\ adapter \in {"stdlib", "easyjson"}
  /\ doc = <<>> /\ next = Undef /\ err = FALSE /\ depth = 0
  /\ pc = "idle" /\ frames = <<>> /\ made = Nil
  /\ via \in Methods /\ held = Nil /\ before = Nil /\ outcome = "ok"

Next ==
  \/ \E method \in Methods, h \in Held : Call(method, h)
  \/ EasyTop0 \/ EasyUnwind
  \/ Fetch \/ Top0 \/ KeyOf \/ ValueOf \/ ItemOf \/ Leave \/ Unwind \/ Return

Spec == Init /\ [][Next]_vars

-----------------------------------------------------------------------------
\* The guard bounds the stack of the routines: the stdlib lexer counts the
\* containers on it, and the budgets of the easyjson routines have one less
\* for each.
DepthIsNesting ==
  /\ pc \in {"loop", "value"} /\ ~Easy => depth = Len(frames)
  /\ Easy => \A i \in DOMAIN frames : frames[i].budget = MaxDepth + 1 - i
  /\ ~err => Len(frames) <= MaxDepth

\* Tokens that an object may begin with, or null: they nest no deeper than
\* allowed, and none of them comes after the end.
Beginning(tokens) ==
  \/ tokens \in {<<>>, <<"null">>}
  \/ /\ Head(tokens) = "{"
     /\ \A i \in DOMAIN tokens :
          /\ tokens[i] \notin Stops
          /\ Len(Open(SubSeq(tokens, 1, i))) <= MaxDepth
          /\ i < Len(tokens) => Open(SubSeq(tokens, 1, i)) # <<>>

\* The tokens of a whole object, or null.
Accepted(tokens) == tokens # <<>> /\ Beginning(tokens) /\ Open(tokens) = <<>>

\* A call succeeds on a well-formed object within the depth, whatever calls the
\* lexer served before, and on nothing else.  It fails at no other token than one
\* that no such object has there, or before any token at all.  What follows the
\* object in the input is not read.
AcceptsObjects ==
  pc = "returned" => IF outcome = "ok" THEN Accepted(doc) ELSE ~Beginning(doc)

\* A call that fails changes nothing of what the receiver holds: except for
\* MapSlice.UnmarshalJSON in the easyjson adapter, which sets it as it goes.
FailureChangesNothing ==
  pc = "returned" /\ outcome = "error" /\ (Easy => via = "OrderedUnmarshal") =>
    held = before

\* What a receiver of OrderedUnmarshal held keeps its place, and its value but for
\* the keys that are read; what is read last for a key is there.
UpdatesInPlace ==
  pc = "returned" /\ outcome = "ok" /\ via = "OrderedUnmarshal" /\ made # Nil =>
    LET given == {made[i].key : i \in DOMAIN made} IN
    /\ before # Nil => \A i \in DOMAIN before :
         /\ i \in DOMAIN held /\ held[i].key = before[i].key
         /\ before[i].key \notin given => held[i] = before[i]
    /\ \A k \in given :
         LET last == Max({i \in DOMAIN made : made[i].key = k})
             known == {j \in DOMAIN held : held[j].key = k}
         IN known # {} /\ held[Max(known)].value = made[last].value

=============================================================================
