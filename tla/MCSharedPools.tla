---------------------------- MODULE MCSharedPools ----------------------------
(***************************************************************************)
(* SharedPools for TLC.  The pool of slices is tried with options on both  *)
(* sides of every comparison: no cap, a cap above and below the configured *)
(* length and capacity, a length above the capacity.                       *)
(***************************************************************************)
EXTENDS SharedPools

MCOptions ==
  { [length |-> 0, minCapacity |-> 0, maxCapacity |-> 2],
    [length |-> 1, minCapacity |-> 2, maxCapacity |-> 0],
    [length |-> 1, minCapacity |-> 2, maxCapacity |-> 3],
    [length |-> 2, minCapacity |-> 1, maxCapacity |-> 1] }

=============================================================================
