--------------------------- MODULE ExclusiveLoans ---------------------------
(***************************************************************************)
(* What an object pool promises to its clients, with nothing said of how:  *)
(* an object is lent to one borrower at a time, and only the borrower that *)
(* holds it gives it back.                                                 *)
(***************************************************************************)
CONSTANTS Borrowers, Objects

VARIABLE lent   \* the pairs <<p, s>>: borrower p holds object s

Lendable(s) == \A p \in Borrowers : <<p, s>> \notin lent

Init == lent = {}

Lend(p, s) ==
  /\ Lendable(s)
  /\ lent' = lent \cup {<<p, s>>}

GiveBack(p, s) ==
  /\ <<p, s>> \in lent
  /\ lent' = lent \ {<<p, s>>}

Next == \E p \in Borrowers, s \in Objects : Lend(p, s) \/ GiveBack(p, s)

Spec == Init /\ [][Next]_lent

=============================================================================
