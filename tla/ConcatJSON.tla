------------------------------ MODULE ConcatJSON ------------------------------
(***************************************************************************)
(* ConcatJSON joins JSON objects, or arrays, by cutting their brackets off *)
(* and putting commas between them, without a look inside.  Bytes are      *)
(* grouped into tokens, brackets and commas included; a container with     *)
(* anything in it has three or more, as it has three bytes or more.        *)
(***************************************************************************)
EXTENDS Naturals, FiniteSetsExt, SequencesExt

NoBytes == <<"nil">>
Nothing == {NoBytes, <<"null">>}

Closers == [opening \in {"{", "["} |-> IF opening = "{" THEN "}" ELSE "]"]

\* The loop: what is written, for how many containers, and their bracket.
Joining == [opening |-> "", a |-> 0, out |-> <<>>]

\* A container without anything in it, wherever it is.
EmptySkipped(w, isLast) == w

\* The last container is empty: what was written before it lacks its end.
Empty(w, isLast) ==
  IF isLast /\ w.a > 0 THEN [w EXCEPT !.out = Append(@, Closers[w.opening])] ELSE w

\* A comma in the place of the opening bracket of all but the first; only the
\* last keeps its closing bracket.
Full(w, b, isLast) ==
  LET from == IF w.a > 0 THEN 2 ELSE 1
      to == IF isLast THEN Len(b) ELSE Len(b) - 1
      comma == IF w.a > 0 THEN <<",">> ELSE <<>>
  IN [w EXCEPT !.out = @ \o comma \o SubSeq(b, from, to), !.a = @ + 1]

\* An iteration on blob b.
Join(w, b, isLast) ==
  LET seen == IF b # <<>> /\ w.opening = "" THEN [w EXCEPT !.opening = Head(b)] ELSE w
  IN CASE b \in Nothing -> w
       [] b \notin Nothing /\ seen.opening \notin DOMAIN Closers -> seen
       [] b \notin Nothing /\ seen.opening \in DOMAIN Closers ->
            IF Len(b) < 3 THEN Empty(seen, isLast) ELSE Full(seen, b, isLast)

Concat(blobs) ==
  LET there == {i \in DOMAIN blobs : blobs[i] \notin Nothing} IN
  IF there = {} THEN NoBytes
  ELSE IF Max(there) = 1 THEN blobs[1]
  ELSE LET last == Max(there)
           iterate(w, i) == Join(w, blobs[i], i = last)
           w == FoldLeft(iterate, Joining, [i \in 1 .. last |-> i])
       IN IF w.out = <<>> /\ w.opening \in DOMAIN Closers
          THEN <<w.opening, Closers[w.opening]>> ELSE w.out

=============================================================================
