------------------------------ MODULE YAMLWriter ------------------------------
(***************************************************************************)
(* Writing an ordered map back as YAML: MarshalYAML turns the values into  *)
(* nodes, to the same depth as they are read.  A value is known by the     *)
(* node it was read from, aliases being expanded; what is written is kept  *)
(* as the tokens it would be read as.                                      *)
(***************************************************************************)
EXTENDS YAMLWalker

\* Nothing is written of a value that is too deep, nor of what contains it.
Refused == <<>>

TooDeepEarly(depth) == depth >= MaxDepth

TooDeep(depth) == depth > MaxDepth

Around(token, parts) ==
  IF \E i \in DOMAIN parts : parts[i] = Refused THEN Refused
  ELSE <<token>> \o FlattenSeq(parts) \o <<"end">>

\* orderedYAML and the loop of MarshalYAML: keys are written as they are.
PairWise(content, values) == [i \in DOMAIN content |-> IF i % 2 = 1 THEN <<content[i]>> ELSE values[i]]

\* What an alias was read as is its anchor.
Value(n) == IF Kind(n) = "alias" THEN Anchor(n) ELSE n

\* json2yaml
json2yaml[depth \in 1 .. MaxDepth + 1] == [n \in Nodes |->
  IF TooDeep(depth) THEN Refused
  ELSE LET content == Content(Value(n))
           values == [i \in DOMAIN content |-> json2yaml[depth + 1][content[i]]] IN
    CASE Kind(Value(n)) = "scalar" -> <<Value(n)>>
      [] Kind(Value(n)) = "seq" -> Around("[", values)
      [] OTHER -> Around("{", PairWise(content, values))]

\* Of the map read from n.
MarshalYAML(n) ==
  Around("{", PairWise(Content(n), [i \in DOMAIN Content(n) |-> json2yaml[1][Content(n)[i]]]))

-----------------------------------------------------------------------------
\* What UnmarshalYAML read, MarshalYAML writes back, aliases expanded: the two
\* limits on depth agree, aliases only counting in the first.  And a document
\* without aliases that is too deep for one is too deep for the other.
WritesWhatItWalked ==
  Done /\ entry = "UnmarshalYAML" /\ Kind(Target) = "map" =>
    /\ err = "none" => MarshalYAML(Target) = out
    /\ err = "depth" /\ (\A n \in Nodes : Kind(n) \notin {"alias", "bad"}) =>
         MarshalYAML(Target) = Refused

=============================================================================
