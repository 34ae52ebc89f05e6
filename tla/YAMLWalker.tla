------------------------------ MODULE YAMLWalker ------------------------------
(***************************************************************************)
(* The walk of a YAML document that makes ordered maps of it, with its     *)
(* recursion made explicit.  Aliases turn the document into a graph that   *)
(* may have cycles, or stand for far more than its size: the walker        *)
(* detects the first and bounds the second.                                *)
(*                                                                         *)
(* A document is what the parser (external) yields: nodes of a kind, what  *)
(* they contain in order, keys and values in turn for a mapping, and what  *)
(* an alias stands for.  What is built is kept as tokens.                  *)
(***************************************************************************)
EXTENDS Integers, FiniteSets, SequencesExt

CONSTANTS
  Documents,      \* records root, kind, content and alias
  Receivers,      \* records items (zeros) and room: what UnmarshalYAML is called on
  MaxDepth,       \* defaultMaxNestingDepth
  AliasThreshold, DecodeThreshold,  \* below them anything goes
  RangeLow, RangeHigh,              \* the ratio tightens between these counts
  RatioSmall, RatioLarge            \* from the first, in percent, to the second

ASSUME YAMLWalkerAssumption ==
  /\ MaxDepth \in Nat /\ AliasThreshold \in Nat /\ DecodeThreshold \in Nat
  /\ RangeLow \in Nat /\ RangeHigh \in Nat /\ RangeLow < RangeHigh
  /\ RatioLarge \in 0 .. 100 /\ RatioSmall \in RatioLarge .. 99

\* A document, as the parser makes one of it and BytesToYAMLDoc lets it through:
\* a tree around one value, with nothing in scalars and aliases, and for a mapping
\* as many keys as values; an anchor is a value that is not an alias.  0 is no node.
IsDocument(d) ==
  LET nodes == DOMAIN d.kind IN
  /\ IsFiniteSet(nodes) /\ 0 \notin nodes /\ d.root \in nodes
  /\ d.kind \in [nodes -> {"document", "seq", "map", "scalar", "bad", "alias"}]
  /\ d.content \in [nodes -> Seq(nodes)]
  /\ d.kind[d.root] = "document" /\ Len(d.content[d.root]) = 1
  /\ \A m, n \in nodes : \A i \in DOMAIN d.content[m], j \in DOMAIN d.content[n] :
       d.content[m][i] = d.content[n][j] =>
         <<m, i>> = <<n, j>> \/ d.content[d.content[n][j]] = <<>>
  /\ \A n \in nodes :
       /\ \A i \in DOMAIN d.content[n] : d.kind[d.content[n][i]] # "document"
       /\ d.kind[n] = "alias" =>
            d.alias[n] \in nodes /\ d.kind[d.alias[n]] \notin {"document", "alias"}
       /\ d.kind[n] \in {"scalar", "bad", "alias"} => d.content[n] = <<>>
       /\ d.kind[n] = "map" => Len(d.content[n]) % 2 = 0

ASSUME DocumentsAssumption ==
  /\ \A d \in Documents : IsDocument(d)
  /\ Receivers \subseteq [items : Seq({0}), room : Nat]

VARIABLES
  document,
  entry,       \* "YAMLToJSON" | "UnmarshalYAML"
  visit,       \* the node about to be walked and its depth, or Nowhere
  frames,      \* containers and aliases being walked, the innermost last
  decodeCount, aliasCount, aliasDepth,
  aliases,     \* anchors being expanded
  out,         \* tokens of the value built
  receiver,    \* of UnmarshalYAML: items, one that was set is its position; room
  err          \* "none" | "depth" | "aliasing" | "cycle" | "scalar" | "key" | "panic"

budget == <<decodeCount, aliasCount>>
expansion == <<aliasDepth, aliases>>
input == <<document, entry>>
vars == <<input, visit, frames, budget, expansion, out, receiver, err>>

Nowhere == [node |-> 0, depth |-> 0]

Kind(n) == document.kind[n]
Content(n) == document.content[n]
Anchor(n) == document.alias[n]

\* What is read: the document, or the mapping in it.
Target == IF entry = "YAMLToJSON" THEN document.root ELSE Content(document.root)[1]

Walking == visit # Nowhere /\ err = "none"
Idle == visit = Nowhere /\ err = "none" /\ frames # <<>>
Top == Last(frames)

-----------------------------------------------------------------------------
(* account *)

\* allowedAliasRatio, in percents of the range: from RatioSmall down to
\* RatioLarge.
allowedAliasRatio(count) ==
  LET range == RangeHigh - RangeLow IN
  IF count <= RangeLow THEN RatioSmall * range
  ELSE IF count >= RangeHigh THEN RatioLarge * range
  ELSE RatioSmall * range - (RatioSmall - RatioLarge) * (count - RangeLow)

\* Is the share of alias-driven nodes more than what is allowed?
Excessive(aliased, decoded) ==
  /\ aliased > AliasThreshold /\ decoded > DecodeThreshold
  /\ aliased * 100 * (RangeHigh - RangeLow) > decoded * allowedAliasRatio(decoded)

\* Counts the anchor only, not what it contains.
AliasedAtAnchor == IF frames # <<>> /\ Top.routine = "alias" THEN aliasCount + 1 ELSE aliasCount

Aliased == IF aliasDepth > 0 THEN aliasCount + 1 ELSE aliasCount

account == decodeCount' = decodeCount + 1 /\ aliasCount' = Aliased

Broke == Excessive(Aliased, decodeCount + 1)

-----------------------------------------------------------------------------
\* An error returns from every routine.
Fail(e) == err' = e /\ visit' = Nowhere /\ UNCHANGED <<frames, expansion, out>>

Frame(n, routine, depth) == [node |-> n, routine |-> routine, at |-> 0, depth |-> depth]

\* Enters a container.
Push(n, routine, token) ==
  /\ frames' = Append(frames, Frame(n, routine, visit.depth))
  /\ visit' = Nowhere /\ out' = Append(out, token)
  /\ UNCHANGED <<expansion, err>>

\* yamlScalar, for a scalar; a "bad" one, or a node of no known kind, is an error.
Scalar(n) ==
  IF Kind(n) # "scalar" THEN Fail("scalar")
  ELSE out' = Append(out, n) /\ visit' = Nowhere /\ UNCHANGED <<frames, expansion, err>>

\* An anchor that is entered again is not noticed.
AliasUnchecked(n) ==
  /\ aliases' = aliases \cup {Anchor(n)} /\ aliasDepth' = aliasDepth + 1
  /\ frames' = Append(frames, Frame(n, "alias", visit.depth))
  /\ visit' = [node |-> Anchor(n), depth |-> visit.depth + 1]
  /\ UNCHANGED <<out, err>>

\* yamlWalker.alias: expands the anchor, unless it is being expanded.
Alias(n) ==
  IF Anchor(n) \in aliases THEN Fail("cycle")
  ELSE /\ aliases' = aliases \cup {Anchor(n)} /\ aliasDepth' = aliasDepth + 1
       /\ frames' = Append(frames, Frame(n, "alias", visit.depth))
       /\ visit' = [node |-> Anchor(n), depth |-> visit.depth + 1]
       /\ UNCHANGED <<out, err>>

\* yamlWalker.node
Node ==
  /\ Walking /\ UNCHANGED input
  /\ IF visit.depth > MaxDepth THEN Fail("depth") /\ UNCHANGED budget
     ELSE /\ account
          /\ LET n == visit.node IN
             IF Broke THEN Fail("aliasing")
             ELSE CASE Kind(n) = "document" -> Push(n, "list", "---")
                    [] Kind(n) = "seq" -> Push(n, "list", "[")
                    [] Kind(n) = "map" -> Push(n, "pairs", "{")
                    [] Kind(n) = "alias" -> Alias(n)
                    [] OTHER -> Scalar(n)

\* One more child of the container on top.
Child(step) ==
  /\ visit' = [node |-> Content(Top.node)[Top.at + step], depth |-> Top.depth + 1]
  /\ frames' = [frames EXCEPT ![Len(frames)].at = @ + step]

\* document and sequence, their loop.
NextItem ==
  /\ Idle /\ Top.routine = "list" /\ Top.at < Len(Content(Top.node))
  /\ Child(1)
  /\ UNCHANGED <<input, budget, expansion, out, err>>

\* unmarshalYAML, its loop: a key, which is a string or a number, and its
\* value.  A list of odd length ends in the middle.
NextPair ==
  /\ Idle /\ Top.routine = "pairs" /\ Top.at < Len(Content(Top.node))
  /\ account
  /\ LET key == Content(Top.node)[Top.at + 1] IN
     IF Broke THEN Fail("aliasing")
     ELSE IF Kind(key) # "scalar" THEN Fail("key")
     ELSE IF Top.at + 2 > Len(Content(Top.node)) THEN Fail("panic")
     ELSE /\ Child(2) /\ out' = Append(out, key)
          /\ UNCHANGED <<expansion, err>>
  /\ UNCHANGED input

\* The end of a container.
Leave ==
  /\ Idle /\ Top.routine # "alias" /\ Top.at >= Len(Content(Top.node))
  /\ frames' = Front(frames) /\ out' = Append(out, "end")
  /\ UNCHANGED <<input, visit, budget, expansion, err>>

\* An anchor is expanded once in a document.
ExpandedOnce == aliasDepth' = aliasDepth - 1 /\ aliases' = aliases

\* After node returns to alias, with an error or without.
Expanded ==
  /\ aliasDepth' = aliasDepth - 1
  /\ aliases' = aliases \ {Anchor(Top.node)}

LeaveAlias ==
  /\ Idle /\ Top.routine = "alias"
  /\ frames' = Front(frames) /\ Expanded
  /\ UNCHANGED <<input, visit, budget, out, err>>

\* One routine returns an error.
Unwind ==
  /\ err # "none" /\ frames # <<>>
  /\ frames' = Front(frames)
  /\ IF Top.routine = "alias" THEN Expanded ELSE UNCHANGED expansion
  /\ UNCHANGED <<input, visit, budget, out, err>>

-----------------------------------------------------------------------------
(* The receiver of UnmarshalYAML *)

Pairs == Len(Content(Target)) \div 2

\* slices.Grow: the array of the receiver has the room for all the pairs as well.
InPlace == receiver.room >= Pairs

\* append(m, nmi) to an array that is the receiver's from its start: the item
\* that is there is lost.
Stored(i) ==
  IF InPlace /\ i \in DOMAIN receiver.items THEN [receiver EXCEPT !.items[i] = i] ELSE receiver

\* *s = m, once all pairs are read.
Assigned == [receiver EXCEPT !.items = [i \in 1 .. Pairs |-> i]]

\* What a step does to the receiver: nothing, but at the end of a value of the
\* mapping and at the end of all.
Receive ==
  receiver' = CASE entry # "UnmarshalYAML" \/ err' # "none" \/ visit' # Nowhere -> receiver
                [] entry = "UnmarshalYAML" /\ err' = "none" /\ frames' = <<>> -> Assigned
                [] entry = "UnmarshalYAML" /\ err' = "none" /\ visit' = Nowhere /\ Len(frames') = 1 ->
                     Stored(frames'[1].at \div 2)
                [] OTHER -> receiver

-----------------------------------------------------------------------------
Start ==
  /\ document \in Documents
  /\ decodeCount = 0 /\ aliasCount = 0 /\ aliasDepth = 0 /\ aliases = {}
  /\ err = "none"

\* transformData: a fresh walker, from the document node.
YAMLToJSON ==
  /\ Start /\ entry = "YAMLToJSON" /\ receiver = [items |-> <<>>, room |-> 0]
  /\ visit = [node |-> document.root, depth |-> 0] /\ frames = <<>> /\ out = <<>>

\* UnmarshalYAML: the node it is given is taken for a mapping.
UnmarshalYAML ==
  /\ Start /\ entry = "UnmarshalYAML" /\ receiver \in Receivers
  /\ visit = Nowhere /\ out = <<"{">>
  /\ frames = <<Frame(Content(document.root)[1], "pairs", 0)>>

Init == YAMLToJSON \/ UnmarshalYAML

Next == (Node \/ NextItem \/ NextPair \/ Leave \/ LeaveAlias \/ Unwind) /\ Receive

Spec == Init /\ [][Next]_vars

-----------------------------------------------------------------------------
(* The document, by definition *)

Nodes == DOMAIN document.kind

\* One step down, into a container or through an alias.
Below(n) == IF Kind(n) = "alias" THEN {Anchor(n)} ELSE ToSet(Content(n))

\* What lies below n, at most k steps down.
DownTo[k \in 0 .. Cardinality(Nodes)] ==
  [n \in Nodes |->
     IF k = 0 THEN {} ELSE Below(n) \cup UNION {DownTo[k - 1][m] : m \in Below(n)}]

Under(n) == DownTo[Cardinality(Nodes)][n]

Cyclic == \E n \in {document.root} \cup Under(document.root) : n \in Under(n)

\* The tokens n stands for, aliases expanded, k levels down.
Expansion[k \in 0 .. MaxDepth + 1] == [n \in Nodes |->
  IF k = 0 THEN <<>>
  ELSE LET items == [i \in DOMAIN Content(n) |-> Expansion[k - 1][Content(n)[i]]] IN
    CASE Kind(n) \in {"scalar", "bad"} -> <<n>>
      [] Kind(n) = "alias" -> Expansion[k - 1][Anchor(n)]
      [] Kind(n) = "document" -> <<"---">> \o FlattenSeq(items) \o <<"end">>
      [] Kind(n) = "seq" -> <<"[">> \o FlattenSeq(items) \o <<"end">>
      [] Kind(n) = "map" -> <<"{">> \o FlattenSeq(items) \o <<"end">>]

\* The walker counts as many expansions as there are aliases on the stack, and
\* knows their anchors, which are all different: it leaves as it came.
ExpansionsBalanced ==
  LET open == {i \in DOMAIN frames : frames[i].routine = "alias"} IN
  /\ aliasDepth = Cardinality(open)
  /\ aliases = {Anchor(frames[i].node) : i \in open}
  /\ Cardinality(aliases) = aliasDepth

Done == frames = <<>> /\ visit = Nowhere

\* What is built is the document with its aliases expanded, and a document that
\* contains itself is refused: for a cycle there is no other way out than an
\* error.  The receiver of UnmarshalYAML has all of it, or keeps its items: except
\* for the first of them, when its array had room enough for what was read before
\* the error.  A list given to UnmarshalYAML is read in pairs, and left out here.
ExpandsOrRefuses ==
  Done /\ (entry = "UnmarshalYAML" => Kind(Target) = "map") =>
    /\ err = "none" => ~Cyclic /\ out = Expansion[MaxDepth + 1][Target]
    /\ err = "cycle" => Cyclic
    /\ err # "panic"
    /\ entry = "UnmarshalYAML" =>
         IF err = "none" THEN DOMAIN receiver.items = 1 .. Pairs /\ 0 \notin ToSet(receiver.items)
         ELSE \A i \in DOMAIN receiver.items : receiver.items[i] # 0 => InPlace /\ i < Pairs

\* Where the document has a node: in it, at a place of its content.
Places == UNION {{n} \X DOMAIN Content(n) : n \in Nodes}

\* Nodes of the document itself, keys that are shared counted each time.
Size == 1 + Cardinality(Places)

\* However aliases multiply, the walk does no more than a fixed multiple of the
\* document's size, past the thresholds.
WorkBounded ==
  \/ decodeCount <= DecodeThreshold + 1
  \/ decodeCount - 1 <= Size + AliasThreshold
  \/ (decodeCount - 1) * (100 - RatioSmall) <= Size * 100

=============================================================================
