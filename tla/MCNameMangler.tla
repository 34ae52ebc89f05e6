---------------------------- MODULE MCNameMangler ----------------------------
(***************************************************************************)
(* NameMangler for TLC: all names of up to four of five runes and of five  *)
(* of four, and some of runes of other classes, with initialisms that      *)
(* contain, overlap and pluralize one another.                             *)
(***************************************************************************)
EXTENDS NameMangler

\* Two letters that are not ASCII: one has no upper case.
MCCaps ==
  [a |-> "A", b |-> "B", c |-> "C", d |-> "D", i |-> "I", p |-> "P",
   s |-> "S", t |-> "T", u |-> "U", x |-> "X"]
    @@ ("e-acute" :> "E-acute") @@ ("kra" :> "kra")
MCCaseless == {"han"}
MCDigits == {"4"}
MCBlanks == {" "}
MCWide == {"e-acute", "E-acute", "han", "kra"}
MCReplace == ("@" :> <<"A", "t", " ">>) @@ ("_" :> <<>>)
MCPrefix == <<"X">>

AB == <<"A", "B">>
BC == <<"B", "C">>
ABC == <<"A", "B", "C">>

\* Lower-case, blank and misplaced words are sanitized; S ends a word or
\* makes a plural; At is what a symbol stands for; in ACCBs the second C is
\* skipped.
MCCommons ==
  { {AB, BC, <<" ", "c", "a">>, <<"4", "A">>}, {ABC, BC}, {<<"A", "t">>, <<"a", "B">>},
    {<<"A", "C">>, <<"C", "C", "B">>} }
MCAdditions == { {AB, <<"A", "B", "S">>}, {<<"a", "s">>, ABC} }

MCRunes == {"A", "B", "C", "s", "c"}

MCNames ==
  UNION {[1 .. n -> MCRunes] : n \in 0 .. 4} \cup [1 .. 5 -> {"A", "B", "C", "s"}] \cup
  { <<"A", "B", "S", "s">>, <<"a", "b", "S">>, <<"a", "_", "b", "s">>, <<"@">>, <<"@", "@", "b">>,
    <<"4", "A">>, <<"4", "_", "A">>, <<"e-acute", "E-acute", "c">>, <<"han", "a">>, <<"kra", "A", "B">>,
    <<" ", "a", " ", "B", ".">>, <<"_", "_">>, <<"A", "B", "C", "s", "A", "B", "s">>,
    <<"c", "A", "B", "C", "A", "B", "C", "s">>, <<"a", "_", "t">>, <<"a", "_", "e-acute">> }

\* Three of the default initialisms, and names with a plural at the end.
MCDefaults == {{<<"C", "P", "U">>, <<"U", "I", "D">>, <<"I", "D">>}}
MCPlurals == {<<"I", "D", "s">>, <<"C", "P", "U", "s">>, <<"C", "P", "U", "I", "D", "s">>}

=============================================================================
