---------------------------- MODULE MCOrderedJSON ----------------------------
(***************************************************************************)
(* OrderedWriter for TLC: all documents of up to eight tokens over the     *)
(* keys, nested one deeper than allowed, with a number that Go truncates   *)
(* and one that no float64 holds, read by receivers that hold nothing, or  *)
(* either of the keys.                                                     *)
(***************************************************************************)
EXTENDS OrderedWriter

\* 2.9999999999 passes for an integer, and 1e400 for infinity.
MCParseFloat == ("2.9999999999" :> "2.9999999999") @@ ("1e400" :> "+Inf")
MCTruncated == "2.9999999999" :> "2"

MCItem(k) == [key |-> k, value |-> [kind |-> "old", items |-> <<>>]]
MCHeld == {Nil, <<>>, <<MCItem("b")>>, <<MCItem("a"), MCItem("c")>>}

=============================================================================
