------------------------------- MODULE MCMapFS -------------------------------
(***************************************************************************)
(* MapDirReader for TLC: all maps of at most three of twelve names, chosen *)
(* so that names coincide once cleaned, lie below one another, or are      *)
(* wrong.                                                                  *)
(***************************************************************************)
EXTENDS MapDirReader, FiniteSetsExt

MCNames ==
  { <<"a">>, <<".", "a">>, <<"", "a">>, <<"b", "..", "a", "">>,
    <<"a", "b">>, <<"a", "", "b">>, <<"a", "b", "c">>, <<"b", "c", "d">>,
    <<"..", "a">>, <<"", "", "a">>, <<".">>, <<"">> }

MCInputs == UNION {kSubset(k, MCNames) : k \in 0 .. 3} \cup {{<<"a">>, <<"b">>, <<"c">>, <<"d">>}}

MCPageSizes == {-1, 0, 1, 2, 3}

MCAlien == [base |-> "alien", isDir |-> FALSE]

=============================================================================
