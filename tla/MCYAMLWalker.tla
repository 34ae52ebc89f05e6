---------------------------- MODULE MCYAMLWalker ----------------------------
(***************************************************************************)
(* YAMLWriter for TLC: all documents of five values, in lists and mappings,*)
(* their leaves scalars, bad or aliases of what comes before or around;    *)
(* alias bombs, whose lists double one another; and chains of lists and    *)
(* mappings, on both sides of the depth allowed.  The thresholds are       *)
(* scaled down with the documents.                                         *)
(***************************************************************************)
EXTENDS YAMLWriter

\* Node 9 is the document, node 8 the key of every pair, node 1 the root.
Values == 1 .. 5

\* Trees: each value but the root lies in one that comes before.
Parents == {p \in [2 .. 5 -> 1 .. 4] : \A n \in 2 .. 5 : p[n] < n}

ChildrenIn(p, n) == SetToSortSeq({m \in 2 .. 5 : p[m] = n}, <)

WithKeys(children) == FlattenSeq([i \in DOMAIN children |-> <<8, children[i]>>])

Leaves(p) == {n \in Values : ChildrenIn(p, n) = <<>>}

\* What a leaf may be: a scalar (0), bad (-1), or an alias of a value before.
LeafChoices(p) ==
  {c \in [Leaves(p) -> -1 .. 4] : \A n \in Leaves(p) : c[n] < n}

ContainerChoices(p) == [Values \ Leaves(p) -> {"seq", "map"}]

Tree(p, leaf, container) ==
  LET kind(n) == IF n = 9 THEN "document" ELSE IF n = 8 THEN "scalar"
                 ELSE IF n \in DOMAIN container THEN container[n]
                 ELSE CASE leaf[n] = 0 -> "scalar" [] leaf[n] = -1 -> "bad" [] OTHER -> "alias"
      content(n) == IF n = 9 THEN <<1>> ELSE IF n = 8 THEN <<>>
                    ELSE IF n \in DOMAIN leaf THEN <<>>
                    ELSE IF container[n] = "map" THEN WithKeys(ChildrenIn(p, n))
                    ELSE ChildrenIn(p, n)
      all == Values \cup {8, 9}
  IN [root |-> 9, kind |-> [n \in all |-> kind(n)], content |-> [n \in all |-> content(n)],
      alias |-> [n \in all |-> IF n \in DOMAIN leaf /\ leaf[n] > 0 THEN leaf[n] ELSE 0]]

\* An anchor is not an alias.
Proper(d) == \A n \in Values : d.kind[n] = "alias" => d.kind[d.alias[n]] # "alias"

Trees ==
  {d \in UNION {{Tree(p, l, c) : l \in LeafChoices(p), c \in ContainerChoices(p)} : p \in Parents} :
     Proper(d)}

\* A list of k lists, each of two aliases of the one before.
Bomb(k) ==
  LET item(i) == 10 * i  \* the lists; 10 * i + 1 and 10 * i + 2 are in them
      lists == {item(i) : i \in 1 .. k}
      inside == UNION {{item(i) + 1, item(i) + 2} : i \in 1 .. k}
      all == {1, 8, 9} \cup lists \cup inside
      content(n) == CASE n = 9 -> <<1>> [] n = 1 -> WithKeys([i \in 1 .. k |-> item(i)])
                      [] n \in lists -> <<n + 1, n + 2>> [] OTHER -> <<>>
      kind(n) == CASE n = 9 -> "document" [] n = 1 -> "map" [] n \in lists -> "seq"
                   [] n = 8 \/ n \in {11, 12} -> "scalar" [] OTHER -> "alias"
      before(n) == 10 * ((n \div 10) - 1)
  IN [root |-> 9, kind |-> [n \in all |-> kind(n)], content |-> [n \in all |-> content(n)],
      alias |-> [n \in all |-> IF kind(n) = "alias" THEN before(n) ELSE 0]]

\* A mapping around k containers, one in the other, of a scalar.
Chain(k, inner) ==
  LET all == 1 .. k + 2 \cup {88, 99}
      kind(n) == CASE n = 99 -> "document" [] n \in {88, k + 2} -> "scalar" [] n = 1 -> "map"
                   [] OTHER -> inner[n - 1]
      content(n) == CASE n = 99 -> <<1>> [] kind(n) = "scalar" -> <<>>
                      [] kind(n) = "seq" -> <<n + 1>> [] kind(n) = "map" -> <<88, n + 1>>
  IN [root |-> 99, kind |-> [n \in all |-> kind(n)], content |-> [n \in all |-> content(n)],
      alias |-> [n \in all |-> 0]]

Chains == UNION {{Chain(k, inner) : inner \in [1 .. k -> {"seq", "map"}]} : k \in 4 .. 6}

MCDocuments == Trees \cup Chains \cup {Bomb(k) : k \in 2 .. 6}

\* Nothing, and two items with no room left and with room for three more.
MCReceivers == [items : {<<>>}, room : {0}] \cup [items : {<<0, 0>>}, room : {0, 3}]

=============================================================================
