----------------------------- MODULE MCOverlayFS -----------------------------
(***************************************************************************)
(* OverlayFS for TLC: the names ".", "d", "d/e", "d/x" and "d/e/x", trees  *)
(* on them in which d may be unreadable or an error and so may d/x, and    *)
(* layers that own one directory, all of them or none.                     *)
(***************************************************************************)
EXTENDS OverlayFS

D == <<"d">>
DE == <<"d", "e">>
DX == <<"d", "x">>
DEX == <<"d", "e", "x">>

MCNames == {<<>>, D, DE, DX, DEX}

MCTrees ==
  {t \in [MCNames -> Kinds] :
     /\ t[<<>>] = "dir"
     /\ \A n \in MCNames \ {<<>>} :
          IF t[Front(n)] = "error" THEN t[n] = "error"
          ELSE t[n] # "absent" => t[Front(n)] \in Dirs
     /\ t[D] # "error" => /\ t[DE] \in {"absent", "file", "dir"}
                          /\ t[DX] \in {"absent", "error"}
                          /\ t[DEX] \in {"absent", "file"}}

MCOwned ==
  [dirs : {{}, {<<>>}, {D}, {DE}}, all : {FALSE}] \cup {[dirs |-> {}, all |-> TRUE]}

=============================================================================
