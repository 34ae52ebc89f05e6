---------------------------- MODULE OrderedWriter ----------------------------
(***************************************************************************)
(* Writing ordered maps back, in both adapters: a recursive routine over a *)
(* writer with a sticky error, and the marshaler of the standard library   *)
(* for what is not an ordered map.  The writer is kept as tokens, with     *)
(* their commas.  ConcatJSON joins what is written.                        *)
(***************************************************************************)
EXTENDS OrderedJSON, ConcatJSON

CONSTANTS
  Rough    \* the keys with characters that JSON wants escaped, other than quotes

Writer == [out |-> <<>>, err |-> FALSE]

\* RawString, RawByte, Raw, String: nothing is written after an error.
Write(w, tokens) == IF w.err THEN w ELSE [w EXCEPT !.out = @ \o tokens]
SetErr(w) == [w EXCEPT !.err = TRUE]

\* A comma before all items but the first.
Comma(w) == IF Last(w.out) \in Opens THEN w ELSE Write(w, <<",">>)

\* jwriter.String escapes quotes and backslashes: the decoder stops at the
\* other control characters.
Written(key) == IF key \in Rough THEN "error" ELSE key

RECURSIVE marshalObject(_, _, _), marshalEasyJSON(_, _, _), Marshal(_)

\* stdjson.Marshal: what it does with a MapSlice inside of an array is to call
\* MarshalJSON, which starts over with a writer of its own.
Marshal(value) ==
  CASE value.kind = "{" -> IF Easy THEN marshalEasyJSON(Writer, value.items, MaxDepth)
                           ELSE marshalObject(Writer, value.items, 1)
    [] value.kind = "[" ->
         LET put(w, item) == LET inner == Marshal(item.value) IN
               IF inner.err THEN SetErr(w) ELSE Write(Comma(w), inner.out)
         IN Write(FoldLeft(put, Write(Writer, <<"[">>), value.items), <<"]">>)
    [] value.kind \in Infinite -> SetErr(Writer)
    [] OTHER -> Write(Writer, <<value.kind>>)

\* MapItem.marshalJSON, and the object around its items.
marshalObject(w, s, level) ==
  IF s = Nil THEN Write(w, <<"null">>)
  ELSE IF level > MaxDepth THEN SetErr(w)
  ELSE LET put(acc, item) ==
             LET keyed == Write(Comma(acc), <<Written(item.key)>>) IN
             IF item.value.kind = "{" THEN marshalObject(keyed, item.value.items, level + 1)
             ELSE LET raw == Marshal(item.value) IN
                  IF raw.err THEN SetErr(keyed) ELSE Write(keyed, raw.out)
       IN Write(FoldLeft(put, Write(w, <<"{">>), s), <<"}">>)

\* The same in the easyjson adapter, whose writer escapes keys as it should and
\* whose maps have a budget.
marshalEasyJSON(w, s, budget) ==
  IF s = Nil THEN Write(w, <<"null">>)
  ELSE IF budget <= 0 THEN SetErr(w)
  ELSE LET put(acc, item) ==
             LET keyed == Write(Comma(acc), <<item.key>>) IN
             IF item.value.kind = "{" THEN marshalEasyJSON(keyed, item.value.items, budget - 1)
             ELSE LET raw == Marshal(item.value) IN
                  IF raw.err THEN SetErr(keyed) ELSE Write(keyed, raw.out)
       IN Write(FoldLeft(put, Write(w, <<"{">>), s), <<"}">>)

\* OrderedMarshalJSON
OrderedMarshal(s) ==
  IF Easy THEN marshalEasyJSON(Writer, s, MaxDepth) ELSE marshalObject(Writer, s, 1)

-----------------------------------------------------------------------------
\* The text of a document: a comma before what follows an item of the same
\* container.
Text(tokens) ==
  LET upto(i) == SubSeq(tokens, 1, i - 1)
      follows(i) == /\ i > 1 /\ tokens[i - 1] \notin Opens /\ tokens[i] \notin {"}", "]"}
                    /\ Last(Open(upto(i))) # ":"
      put(out, i) == out \o (IF follows(i) THEN <<",">> ELSE <<>>) \o <<tokens[i]>>
  IN FoldLeft(put, <<>>, [i \in DOMAIN tokens |-> i])

\* The document with its numbers as Go has them.
InGo(tokens) == [i \in DOMAIN tokens |-> Valuation(tokens[i])]

\* What was read is written back as the document it came from: every key, in the
\* order of the document, duplicates with it, and every value.  Numbers are what
\* they became when they were read, rounded to a float64 and some of them
\* truncated; an infinite one, and nothing else, cannot be written.
WritesWhatItRead ==
  pc = "returned" /\ outcome = "ok" =>
    LET w == OrderedMarshal(made) IN
    IF ToSet(doc) \cap Huge = {} THEN ~w.err /\ w.out = Text(InGo(doc)) ELSE w.err

\* Documents that were written, joined with one another and with nulls, nothing
\* and empty containers in any order, are one document: it has all their items,
\* in order, and there is none when there was none to join.
JoinsDocuments ==
  pc = "returned" /\ outcome = "ok" /\ made # Nil /\ before = Nil /\ ToSet(doc) \cap Huge = {} =>
    LET whole == InGo(doc)
        body == SubSeq(whole, 2, Len(whole) - 1)
        one == <<"b", "null">>
        \* What is joined, and what is in it.
        object == {<<"{">> \o body \o <<"}">>, <<"{">> \o one \o <<"}">>, <<"{", "}">>}
        array == {<<"[">> \o whole \o <<"]">>, <<"[", "]">>}
        nothing == {<<"null">>, NoBytes, <<>>}
        bytes(b) == IF b \in nothing THEN b
                    ELSE IF b = whole THEN OrderedMarshal(made).out ELSE Text(b)
        inside(b) == IF b \in nothing THEN <<>> ELSE SubSeq(b, 2, Len(b) - 1)
    IN \A kind \in {object, array} :
         \A blobs \in SeqOf(kind \cup nothing, 3) :
           LET joined == Concat([i \in DOMAIN blobs |-> bytes(blobs[i])])
               present == ToSet(blobs) \cap kind
               all == FlattenSeq([i \in DOMAIN blobs |-> inside(blobs[i])])
               some == CHOOSE b \in present : TRUE
           IN IF present = {} THEN joined \in nothing
              ELSE joined = Text(<<Head(some)>> \o all \o <<Last(some)>>)

=============================================================================
