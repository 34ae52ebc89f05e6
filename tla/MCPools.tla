------------------------------- MODULE MCPools -------------------------------
(***************************************************************************)
(* Pools for TLC: interchangeable goroutines and wrappers, a foreign       *)
(* object, and every mode but one: a plain Pool in the release build whose *)
(* clients redeem twice, which promises nothing.                           *)
(***************************************************************************)
EXTENDS Pools, TLC

CONSTANTS f1

MCModes ==
  {m \in [guarded : BOOLEAN, tracking : BOOLEAN, sloppy : BOOLEAN, resets : BOOLEAN] :
     /\ m.resets => m.tracking
     /\ m.guarded \/ m.tracking \/ ~m.sloppy}

Symmetry == Permutations(Procs) \cup Permutations(Slots)

=============================================================================
