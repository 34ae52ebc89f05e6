---------------------------- MODULE MCJSONRouting ----------------------------
(***************************************************************************)
(* JSONRouting for TLC: an ordered type and one that is not; the default   *)
(* adapter, one of a single capability, and one that only knows structs.   *)
(***************************************************************************)
EXTENDS JSONRouting, TLC

CONSTANTS A, B, map, struct

MCAdapters == {Std, A, B}
MCCaps == {ordered, plain}
MCTypes == {map, struct}
MCWhat == (Std :> Caps) @@ (A :> {plain}) @@ (B :> Caps)
MCSupports == (Std :> Types) @@ (A :> Types) @@ (B :> {struct})

Mode(quiet, whole, clearing, n) ==
  [quiet |-> quiet, whole |-> whole, clearing |-> clearing, maxRegs |-> n]

\* Orderly programs; calls while Reset is half done; anything.
MCModes ==
  {Mode(TRUE, TRUE, TRUE, 3), Mode(TRUE, TRUE, FALSE, 2),
   Mode(TRUE, FALSE, FALSE, 1), Mode(FALSE, FALSE, FALSE, 1)}

MCFree == {Mode(FALSE, FALSE, FALSE, 4)}

=============================================================================
