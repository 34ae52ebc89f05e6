--------------------------- MODULE OverlayFSProofs ---------------------------
(***************************************************************************)
(* What OverlayFS promises, for stacks of any height over any trees: a     *)
(* directory lists exactly the names that resolve, to the layer they       *)
(* resolve to, and names resolve as a walk from the root says.             *)
(***************************************************************************)
EXTENDS OverlayFS, TLAPS, WellFoundedInduction, SequenceTheorems

\* The layers are trees.
TypeInv ==
  /\ layers \in Seq(Trees) /\ opaque \in Seq(Owned)
  /\ Len(opaque) = Len(layers)

LEMMA TypeCorrect == Spec => []TypeInv
  <1>1. Init => TypeInv
    <2> SUFFICES ASSUME Init PROVE TypeInv
      OBVIOUS
    <2>1. PICK t \in Trees, o \in Owned : layers = <<t>> /\ opaque = <<o>>
      BY DEF Init
    <2>2. QED
      BY <2>1 DEF TypeInv
  <1>2. TypeInv /\ [Next]_vars => TypeInv'
    <2> SUFFICES ASSUME TypeInv, [Next]_vars PROVE TypeInv'
      OBVIOUS
    <2>1. CASE Next
      <3>1. PICK t \in Trees, o \in Owned : layers' = <<t>> \o layers /\ opaque' = <<o>> \o opaque
        BY <2>1 DEF Next, Overlay
      <3>2. <<t>> \in Seq(Trees) /\ Len(<<t>>) = 1 /\ <<o>> \in Seq(Owned) /\ Len(<<o>>) = 1
        OBVIOUS
      <3>3. layers' \in Seq(Trees) /\ Len(layers') = 1 + Len(layers)
        BY <3>1, <3>2, ConcatProperties DEF TypeInv
      <3>4. opaque' \in Seq(Owned) /\ Len(opaque') = 1 + Len(opaque)
        BY <3>1, <3>2, ConcatProperties DEF TypeInv
      <3>5. QED
        BY <3>3, <3>4 DEF TypeInv
    <2>2. CASE UNCHANGED vars
      BY <2>2 DEF TypeInv, vars
    <2>3. QED
      BY <2>1, <2>2
  <1>3. QED
    BY <1>1, <1>2, PTL DEF Spec

-----------------------------------------------------------------------------
(* Names and layers *)

LEMMA LeastIndex ==
  ASSUME NEW S, S \subseteq Nat, S # {}
  PROVE  \E i \in S : \A j \in S : i <= j
  <1>1. PICK i \in S : \A j \in S : <<j, i>> \notin OpToRel(<, Nat)
    BY NatLessThanWellFounded, WFMin
  <1>2. \A j \in S : ~(j < i)
    BY <1>1 DEF OpToRel
  <1>3. QED
    BY <1>2

\* The least of some numbers.
LEMMA MinOf ==
  ASSUME NEW S, S \subseteq Nat, S # {}
  PROVE  Min(S) \in S /\ \A j \in S : Min(S) <= j
  <1>1. \E i \in S : \A j \in S : i <= j
    BY LeastIndex
  <1>2. QED
    BY <1>1 DEF Min

LEMMA MinIs ==
  ASSUME NEW S, S \subseteq Nat, NEW i \in S, \A j \in S : ~(j < i)
  PROVE  Min(S) = i
  <1>1. Min(S) \in S /\ Min(S) <= i
    BY MinOf
  <1>2. Min(S) \in Nat /\ i \in Nat /\ ~(Min(S) < i)
    BY <1>1
  <1>3. QED
    BY <1>1, <1>2

LEMMA NameProperties ==
  ASSUME NEW c \in Names, c # <<>>, NEW m \in Nat, Len(c) = m
  PROVE  /\ Front(c) \in Names /\ m >= 1 /\ Len(Front(c)) = m - 1
         /\ \A k \in 0 .. m - 1 : SubSeq(Front(c), 1, k) = SubSeq(c, 1, k)
         /\ Front(c) = SubSeq(c, 1, m - 1)
  <1> DEFINE S == {c[k] : k \in DOMAIN c}
  <1>1. c \in Seq(S) /\ Front(c) \in Names
    BY OverlayAssumption
  <1>2. m >= 1 /\ \A i \in 1 .. m : c[i] \in S
    <2> HIDE DEF S
    <2>1. QED
      BY <1>1
  <1> HIDE DEF S
  <1>3. Front(c) = SubSeq(c, 1, m - 1)
    BY DEF Front
  <1>4. m - 1 \in Nat
    BY <1>2
  <1>5. SubSeq(c, 1, m - 1) = [i \in 1 .. m - 1 |-> c[i]]
    BY <1>1, <1>2
  <1>6. Len(Front(c)) = m - 1 /\ \A i \in 1 .. m - 1 : Front(c)[i] = c[i]
    BY <1>3, <1>4, <1>5
  <1>7. ASSUME NEW k \in 0 .. m - 1
        PROVE  SubSeq(Front(c), 1, k) = SubSeq(c, 1, k)
    <2>1. \A i \in 1 .. k : Front(c)[i] = c[i]
      BY <1>6
    <2>2. Front(c) \in Seq(S)
      BY <1>1, <1>2, <1>3
    <2>3. SubSeq(Front(c), 1, k) = [i \in 1 .. k |-> Front(c)[i]]
      BY <2>2
    <2>4. SubSeq(c, 1, k) = [i \in 1 .. k |-> c[i]]
      BY <1>1
    <2>5. QED
      BY <2>1, <2>3, <2>4
  <1>8. QED
    BY <1>1, <1>2, <1>3, <1>6, <1>7

LEMMA ParentsOf ==
  ASSUME NEW c \in Names, c # <<>>
  PROVE  Parents(c) = Parents(Front(c)) \cup {Front(c)}
  <1>0. c \in Seq({c[k] : k \in DOMAIN c})
    BY OverlayAssumption
  <1>1. PICK m \in Nat : m = Len(c)
    BY <1>0, LenProperties
  <1>2. /\ m >= 1 /\ Len(Front(c)) = m - 1 /\ Front(c) = SubSeq(c, 1, m - 1)
        /\ \A k \in 0 .. m - 1 : SubSeq(Front(c), 1, k) = SubSeq(c, 1, k)
        /\ Front(c) \in Names
    BY <1>1, NameProperties
  <1>3. Parents(c) = {SubSeq(c, 1, k) : k \in 0 .. m - 1}
    BY <1>1 DEF Parents
  <1>4. CASE Front(c) = <<>>
    <2>1. m - 1 = 0
      BY <1>2, <1>4
    <2>2. 0 .. m - 1 = {0} /\ SubSeq(c, 1, 0) = Front(c)
      BY <1>2, <2>1
    <2>3. Parents(c) = {Front(c)}
      BY <1>3, <2>2
    <2>4. QED
      BY <1>4, <2>3 DEF Parents
  <1>5. CASE Front(c) # <<>>
    <2>1. m - 1 \in Nat /\ (m - 1) - 1 = m - 2
      BY <1>2
    <2>2. m - 1 >= 1
      BY <1>2, <1>5, <2>1, NameProperties
    <2>3. Parents(Front(c)) = {SubSeq(Front(c), 1, k) : k \in 0 .. m - 2}
      BY <1>2, <1>5, <2>1 DEF Parents
    <2>4. 0 .. m - 1 = (0 .. m - 2) \cup {m - 1} /\ \A k \in 0 .. m - 2 : k \in 0 .. m - 1
      BY <2>1, <2>2
    <2>5. {SubSeq(Front(c), 1, k) : k \in 0 .. m - 2} = {SubSeq(c, 1, k) : k \in 0 .. m - 2}
      BY <1>2, <2>4
    <2>6. {SubSeq(c, 1, k) : k \in 0 .. m - 1}
            = {SubSeq(c, 1, k) : k \in 0 .. m - 2} \cup {SubSeq(c, 1, m - 1)}
      BY <2>4
    <2>7. QED
      BY <1>2, <1>3, <2>3, <2>5, <2>6
  <1>6. QED
    BY <1>4, <1>5

\* An owner of a parent of a name owns its directory, or a parent of that one.
LEMMA OwnsAbove ==
  ASSUME NEW c \in Names, c # <<>>, NEW i
  PROVE  OwnsSubtreeOf(i, c) <=> OwnsDir(i, Front(c)) \/ OwnsSubtreeOf(i, Front(c))
  <1>1. Parents(c) = Parents(Front(c)) \cup {Front(c)}
    BY ParentsOf
  <1>2. QED
    BY <1>1 DEF OwnsSubtreeOf

\* What cannot be looked up.
Fails(i, name) == layers[i][name] = "error"

\* What a layer holds is in a directory of that layer, or below a failure.
LEMMA InDirectory ==
  ASSUME TypeInv, NEW i \in Stack, NEW c \in Names, c # <<>>, Holds(i, c)
  PROVE  /\ IsDir(i, Front(c)) \/ Fails(i, Front(c))
         /\ Holds(i, Front(c)) /\ Front(c) \in Names
  <1>1. layers[i] \in Trees /\ Front(c) \in Names
    BY OverlayAssumption DEF TypeInv, Stack
  <1>2. layers[i][Front(c)] = "error" \/ layers[i][Front(c)] \in Dirs
    BY <1>1, OverlayAssumption DEF Holds
  <1>3. QED
    BY <1>1, <1>2 DEF Holds, IsDir, Fails, Dirs

\* A layer that fails on a directory fails on what is below.
LEMMA FailsBelow ==
  ASSUME TypeInv, NEW i \in Stack, NEW c \in Names, c # <<>>, Fails(i, Front(c))
  PROVE  Holds(i, c) /\ ~IsDir(i, c)
  <1>1. layers[i] \in Trees
    BY DEF TypeInv, Stack
  <1>2. layers[i][c] = "error"
    BY <1>1, OverlayAssumption DEF Fails
  <1>3. QED
    BY <1>2 DEF Holds, IsDir, Dirs

\* There is a directory, a file, a failure or nothing.
LEMMA KindOf ==
  ASSUME TypeInv, NEW i \in Stack, NEW n \in Names, Holds(i, n), layers[i][n] # "file", ~Fails(i, n)
  PROVE  IsDir(i, n)
  <1>1. layers[i] \in [Names -> Kinds]
    BY OverlayAssumption DEF TypeInv, Stack
  <1>2. layers[i][n] \in Kinds
    BY <1>1
  <1>3. QED
    BY <1>2 DEF Kinds, Dirs, Holds, IsDir, Fails

LEMMA RootIsDir ==
  ASSUME TypeInv, NEW i \in Stack
  PROVE  IsDir(i, <<>>)
  <1>1. layers[i] \in Trees
    BY DEF TypeInv, Stack
  <1>2. QED
    BY <1>1, OverlayAssumption DEF IsDir, Dirs

LEMMA DirHeld == ASSUME NEW i, NEW n, IsDir(i, n) PROVE Holds(i, n)
  BY DEF IsDir, Holds, Dirs

\* The layers above one of the stack are of the stack.
LEMMA AboveInStack ==
  ASSUME TypeInv
  PROVE  /\ Stack \subseteq Nat /\ 0 \notin Stack
         /\ \A i \in Stack : \A j \in 1 .. i - 1 : j \in Stack /\ j < i /\ ~(i < j)
         /\ \A i \in Stack : \A j \in Stack : j < i => j \in 1 .. i - 1
         /\ \A i \in Stack : \A j \in 1 .. i - 1 : \A k \in 1 .. j - 1 : k \in 1 .. i - 1
  <1>1. PICK n \in Nat : n = Len(layers)
    BY DEF TypeInv
  <1>2. Stack = 1 .. n
    BY <1>1 DEF Stack
  <1>3. QED
    BY <1>2

-----------------------------------------------------------------------------
(* Lookups *)

\* The layers that hold a name and that a lookup of it gets to.
Holders(name) == {i \in Reached(name) : Holds(i, name)}

LEMMA FindMin ==
  ASSUME NEW name
  PROVE  Find(name) = IF Holders(name) = {} THEN NotFound ELSE Min(Holders(name))
  BY DEF Find, Holders

LEMMA HolderIn ==
  ASSUME NEW name, NEW i
  PROVE  i \in Holders(name) <=>
           /\ i \in Stack /\ Holds(i, name)
           /\ \A j \in 1 .. i - 1 : ~Holds(j, name) /\ ~OwnsSubtreeOf(j, name)
  BY DEF Holders, Reached

\* There is one at most.
LEMMA FindIs ==
  ASSUME TypeInv, NEW name, NEW i \in Holders(name)
  PROVE  Find(name) = i
  <1>1. Holders(name) \subseteq Nat
    BY HolderIn, AboveInStack
  <1>2. \A j \in Holders(name) : ~(j < i)
    <2>1. i \in Stack
      BY HolderIn
    <2>2. ASSUME NEW j \in Holders(name), j < i PROVE FALSE
      <3>1. j \in Stack /\ Holds(j, name)
        BY HolderIn
      <3>2. j \in 1 .. i - 1
        BY <2>1, <2>2, <3>1, AboveInStack
      <3>3. QED
        BY <3>1, <3>2, HolderIn
    <2>3. QED
      BY <2>2
  <1>3. Min(Holders(name)) = i
    BY <1>1, <1>2, MinIs
  <1>4. QED
    BY <1>3, FindMin

LEMMA FoundIs ==
  ASSUME TypeInv, NEW name, Find(name) # NotFound
  PROVE  Find(name) \in Holders(name)
  <1>1. Holders(name) # {}
    BY FindMin
  <1>2. Holders(name) \subseteq Nat
    BY HolderIn, AboveInStack
  <1>3. QED
    BY <1>1, <1>2, FindMin, MinOf

\* What is found is found in a layer.
LEMMA FoundInStack ==
  ASSUME TypeInv, NEW name, NEW i \in Holders(name)
  PROVE  i # NotFound
  BY HolderIn, AboveInStack DEF NotFound

-----------------------------------------------------------------------------
(* Listings *)

\* The layers merged that hold c.
Sources(n, c) == {i \in Merged(n) : Holds(i, c)}

LEMMA MergedIn ==
  ASSUME NEW n, NEW i
  PROVE  i \in Merged(n) <=>
           i \in Stack /\ IsDir(i, n) /\ \A j \in 1 .. i - 1 : ~EndsMerge(j, n)
  BY DEF Merged, Merging

\* The layer a lookup of c finds it in is merged, and is the first of those.
LEMMA FoundIsSource ==
  ASSUME TypeInv, FilesHideNothing, NEW c \in Names, c # <<>>, NEW i \in Holders(c),
         Lists(Front(c))
  PROVE  i \in Sources(Front(c), c) /\ \A j \in Sources(Front(c), c) : ~(j < i)
  <1> DEFINE n == Front(c)
  <1>1. i \in Stack /\ Holds(i, c) /\ \A j \in 1 .. i - 1 : ~Holds(j, c) /\ ~OwnsSubtreeOf(j, c)
    BY HolderIn
  <1>2. (IsDir(i, n) \/ Fails(i, n)) /\ n \in Names
    BY <1>1, InDirectory
  <1>3. ASSUME NEW j \in 1 .. i - 1 PROVE ~EndsMerge(j, n)
    <2>1. j \in Stack
      BY <1>1, AboveInStack
    <2>2. ~OwnsDir(j, n) /\ ~OwnsSubtreeOf(j, n)
      BY <1>1, OwnsAbove
    <2>3. layers[j][n] # "file"
      BY <1>1, <2>1 DEF FilesHideNothing
    <2>4. ~Fails(j, n)
      BY <1>1, <2>1, FailsBelow
    <2>5. Holds(j, n) => IsDir(j, n)
      BY <1>2, <2>1, <2>3, <2>4, KindOf
    <2>6. QED
      BY <2>2, <2>5 DEF EndsMerge, OwnsDir
  <1>4. i \in Merging(n)
    BY <1>1, <1>3 DEF Merging
  <1>5. IsDir(i, n)
    BY <1>2, <1>4 DEF Lists, Fails
  <1>6. i \in Merged(n)
    BY <1>4, <1>5 DEF Merged
  <1>7. ASSUME NEW j \in Sources(n, c), j < i PROVE FALSE
    <2>1. j \in Stack /\ Holds(j, c)
      BY MergedIn DEF Sources
    <2>2. j \in 1 .. i - 1
      BY <1>1, <1>7, <2>1, AboveInStack
    <2>3. QED
      BY <1>1, <2>1, <2>2
  <1>8. QED
    BY <1>1, <1>6, <1>7 DEF Sources

\* The first of the layers merged that hold c is the one found.
LEMMA SourceIsFound ==
  ASSUME TypeInv, NEW c \in Names, c # <<>>, NEW i \in Sources(Front(c), c),
         \A j \in Sources(Front(c), c) : ~(j < i)
  PROVE  i \in Holders(c)
  <1> DEFINE n == Front(c)
  <1>1. i \in Stack /\ Holds(i, c) /\ IsDir(i, n) /\ \A j \in 1 .. i - 1 : ~EndsMerge(j, n)
    BY MergedIn DEF Sources
  <1>2. ASSUME NEW j \in 1 .. i - 1 PROVE ~Holds(j, c) /\ ~OwnsSubtreeOf(j, c)
    <2>1. j \in Stack /\ j < i /\ \A k \in 1 .. j - 1 : k \in 1 .. i - 1
      BY <1>1, AboveInStack
    <2>2. ~EndsMerge(j, n)
      BY <1>1
    <2>3. ~Holds(j, c)
      <3>1. SUFFICES ASSUME Holds(j, c) PROVE FALSE
        OBVIOUS
      <3>2. IsDir(j, n)
        BY <2>1, <2>2, <3>1, InDirectory DEF EndsMerge
      <3>3. j \in Merged(n)
        BY <1>1, <2>1, <3>2, MergedIn
      <3>4. j \in Sources(n, c)
        BY <3>1, <3>3 DEF Sources
      <3>5. QED
        BY <2>1, <3>4
    <2>4. ~OwnsDir(j, n) /\ ~OwnsSubtreeOf(j, n)
      BY <2>2, DirHeld DEF EndsMerge, OwnsDir
    <2>5. QED
      BY <2>3, <2>4, OwnsAbove
  <1>3. QED
    BY <1>1, <1>2, HolderIn

LEMMA EntriesIn ==
  ASSUME NEW n, NEW c \in Children(n), NEW i
  PROVE  <<c, i>> \in Entries(n) <=> Sources(n, c) # {} /\ i = Min(Sources(n, c))
  BY DEF Entries, Sources

LEMMA ListsChild ==
  ASSUME TypeInv, FilesHideNothing, NEW n \in Names, Lists(n), NEW c \in Children(n)
  PROVE  /\ Find(c) # NotFound <=> <<c, Find(c)>> \in Entries(n)
         /\ \A i \in Stack : <<c, i>> \in Entries(n) => Find(c) = i
  <1>1. c \in Names /\ c # <<>> /\ Front(c) = n
    BY DEF Children
  <1>2. Sources(n, c) \subseteq Nat
    BY MergedIn, AboveInStack DEF Sources
  <1>3. ASSUME NEW i, <<c, i>> \in Entries(n) PROVE i \in Holders(c) /\ Find(c) = i
    <2>1. Sources(n, c) # {} /\ i = Min(Sources(n, c))
      BY <1>3, EntriesIn
    <2>2. i \in Sources(n, c) /\ \A j \in Sources(n, c) : i <= j
      BY <1>2, <2>1, MinOf
    <2>3. \A j \in Sources(n, c) : ~(j < i)
      BY <1>2, <2>2
    <2>4. i \in Holders(c)
      BY <1>1, <2>2, <2>3, SourceIsFound
    <2>5. QED
      BY <2>4, FindIs
  <1>4. ASSUME Find(c) # NotFound PROVE <<c, Find(c)>> \in Entries(n)
    <2>1. Find(c) \in Holders(c)
      BY <1>4, FoundIs
    <2>2. Find(c) \in Sources(n, c) /\ \A j \in Sources(n, c) : ~(j < Find(c))
      BY <1>1, <2>1, FoundIsSource
    <2>3. Min(Sources(n, c)) = Find(c)
      BY <1>2, <2>2, MinIs
    <2>4. QED
      BY <2>2, <2>3, EntriesIn
  <1>5. ASSUME <<c, Find(c)>> \in Entries(n) PROVE Find(c) # NotFound
    BY <1>3, <1>5, FoundInStack
  <1>6. QED
    BY <1>3, <1>4, <1>5

\* ReadDir and Open never disagree: a directory lists a name exactly when the
\* name resolves, and to the same layer.
THEOREM ListsWhatResolvesProved == Spec => []ListsWhatResolves
  <1>1. TypeInv => ListsWhatResolves
    BY ListsChild DEF ListsWhatResolves
  <1>2. QED
    BY <1>1, TypeCorrect, PTL

-----------------------------------------------------------------------------
(* The walk from the root *)

\* The layers that take part in a name: those that hold it with nothing above
\* that hides it.
Parts(name) ==
  {i \in Stack :
     /\ Holds(i, name)
     /\ \A j \in 1 .. i - 1 :
          /\ Holds(j, name) => IsDir(j, name) /\ ~DeclaresOpaque(j, name)
          /\ ~OwnsSubtreeOf(j, name)}

\* One step of the walk, from the layers that take part in the parent.
Walk(parts, name) ==
  LET above == {i \in parts : Holds(i, name)}
  IN {i \in above : \A j \in above : j < i => IsDir(j, name) /\ ~DeclaresOpaque(j, name)}

AtRoot == {i \in Stack : Below(i, <<>>)}

LEMMA RootParts ==
  ASSUME TypeInv
  PROVE  AtRoot = Parts(<<>>)
  <1>1. Parents(<<>>) = {<<>>}
    BY DEF Parents
  <1>2. \A j \in Stack : IsDir(j, <<>>) /\ Holds(j, <<>>)
    BY RootIsDir, DirHeld
  <1>3. \A i \in Stack : \A j \in 1 .. i - 1 : j \in Stack
    BY AboveInStack
  <1>4. ASSUME NEW i \in Stack
        PROVE  i \in AtRoot <=> i \in Parts(<<>>)
    <2>1. i \in AtRoot <=> \A j \in 1 .. i - 1 : ~DeclaresOpaque(j, <<>>)
      BY <1>2, <1>3 DEF AtRoot, Below
    <2>2. \A j \in 1 .. i - 1 : OwnsSubtreeOf(j, <<>>) <=> DeclaresOpaque(j, <<>>)
      BY <1>1, <1>2, <1>3 DEF OwnsSubtreeOf, OwnsDir
    <2>3. i \in Parts(<<>>) <=> \A j \in 1 .. i - 1 : ~DeclaresOpaque(j, <<>>)
      BY <1>2, <1>3, <2>2 DEF Parts
    <2>4. QED
      BY <2>1, <2>3
  <1>5. QED
    BY <1>4 DEF AtRoot, Parts

LEMMA WalkParts ==
  ASSUME TypeInv, FilesHideNothing, NEW c \in Names, c # <<>>
  PROVE  Walk(Parts(Front(c)), c) = Parts(c)
  <1> DEFINE n == Front(c)
             above == {i \in Parts(n) : Holds(i, c)}
             free(i) == \A j \in 1 .. i - 1 : ~OwnsSubtreeOf(j, c) /\ ~Fails(j, n)
  <1>1. \A i \in Stack : \A j \in 1 .. i - 1 : j \in Stack
    BY AboveInStack
  <1>2. ASSUME NEW i
        PROVE  i \in above <=> i \in Stack /\ Holds(i, c) /\ free(i)
    <2>1. ASSUME i \in above PROVE i \in Stack /\ Holds(i, c) /\ free(i)
      <3>1. i \in Stack /\ Holds(i, c)
        BY <2>1 DEF Parts
      <3>2. ASSUME NEW j \in 1 .. i - 1 PROVE ~OwnsSubtreeOf(j, c) /\ ~Fails(j, n)
        <4>1. ~OwnsSubtreeOf(j, n) /\ (Holds(j, n) => IsDir(j, n) /\ ~DeclaresOpaque(j, n))
          BY <2>1 DEF Parts
        <4>2. ~OwnsDir(j, n)
          BY <4>1, DirHeld DEF OwnsDir
        <4>3. ~Fails(j, n)
          BY <4>1 DEF Fails, Holds, IsDir, Dirs
        <4>4. QED
          BY <4>1, <4>2, <4>3, OwnsAbove
      <3>3. QED
        BY <3>1, <3>2
    <2>2. ASSUME i \in Stack, Holds(i, c), free(i) PROVE i \in above
      <3>1. Holds(i, n) /\ n \in Names
        BY <2>2, InDirectory
      <3>2. ASSUME NEW j \in 1 .. i - 1
            PROVE  /\ Holds(j, n) => IsDir(j, n) /\ ~DeclaresOpaque(j, n)
                   /\ ~OwnsSubtreeOf(j, n)
        <4>1. ~OwnsDir(j, n) /\ ~OwnsSubtreeOf(j, n)
          BY <2>2, OwnsAbove
        <4>2. Holds(j, n) => IsDir(j, n)
          <5>1. j \in Stack /\ ~Fails(j, n)
            BY <1>1, <2>2
          <5>2. layers[j][n] # "file"
            BY <2>2, <5>1 DEF FilesHideNothing
          <5>3. QED
            BY <3>1, <5>1, <5>2, KindOf
        <4>3. QED
          BY <4>1, <4>2 DEF OwnsDir
      <3>3. i \in Parts(n)
        BY <2>2, <3>1, <3>2 DEF Parts
      <3>4. QED
        BY <2>2, <3>1, <3>3
    <2>3. QED
      BY <2>1, <2>2
  <1>3. Walk(Parts(n), c) =
          {i \in above : \A j \in above : j < i => IsDir(j, c) /\ ~DeclaresOpaque(j, c)}
    BY DEF Walk
  <1> HIDE DEF above
  <1>4. ASSUME NEW i \in above, NEW j \in 1 .. i - 1, Holds(j, c) PROVE j \in above
    <2>1. i \in Stack /\ free(i)
      BY <1>2
    <2>2. j \in Stack /\ \A k \in 1 .. j - 1 : k \in 1 .. i - 1
      BY <2>1, AboveInStack
    <2>3. free(j)
      BY <2>1, <2>2
    <2>4. QED
      BY <1>2, <1>4, <2>2, <2>3
  <1>5. ASSUME NEW i
        PROVE  i \in Walk(Parts(n), c) <=> i \in Parts(c)
    <2>1. ASSUME i \in Walk(Parts(n), c) PROVE i \in Parts(c)
      <3>1. i \in above /\ \A j \in above : j < i => IsDir(j, c) /\ ~DeclaresOpaque(j, c)
        BY <1>3, <2>1
      <3>2. i \in Stack /\ Holds(i, c) /\ free(i)
        BY <1>2, <3>1
      <3>3. ASSUME NEW j \in 1 .. i - 1, Holds(j, c)
            PROVE  IsDir(j, c) /\ ~DeclaresOpaque(j, c)
        <4>1. j \in above
          BY <1>4, <3>1, <3>3
        <4>2. j < i
          BY <3>2, AboveInStack
        <4>3. QED
          BY <3>1, <4>1, <4>2
      <3>4. QED
        BY <3>2, <3>3 DEF Parts
    <2>2. ASSUME i \in Parts(c) PROVE i \in Walk(Parts(n), c)
      <3>1. /\ i \in Stack /\ Holds(i, c) /\ free(i)
            /\ \A j \in 1 .. i - 1 : Holds(j, c) => IsDir(j, c) /\ ~DeclaresOpaque(j, c)
        BY <1>1, <2>2, FailsBelow DEF Parts
      <3>2. i \in above
        BY <1>2, <3>1
      <3>3. ASSUME NEW j \in above, j < i PROVE IsDir(j, c) /\ ~DeclaresOpaque(j, c)
        <4>1. j \in Stack /\ Holds(j, c)
          BY <1>2
        <4>2. j \in 1 .. i - 1
          BY <3>1, <3>3, <4>1, AboveInStack
        <4>3. QED
          BY <3>1, <4>1, <4>2
      <3>4. QED
        BY <1>3, <3>2, <3>3
    <2>3. QED
      BY <2>1, <2>2
  <1>6. QED
    BY <1>5 DEF Walk, Parts

\* What defines the contributors of a name.
Walks(f) ==
  f = [name \in Names |-> IF name = <<>> THEN AtRoot ELSE Walk(f[Front(name)], name)]

LEMMA ContributorsWalk ==
  ASSUME TypeInv, FilesHideNothing
  PROVE  Walks(Contributors)
  <1> DEFINE parts == [name \in Names |-> Parts(name)]
  <1>1. ASSUME NEW name \in Names
        PROVE  parts[name] = IF name = <<>> THEN AtRoot ELSE Walk(parts[Front(name)], name)
    <2>1. CASE name = <<>>
      BY <2>1, RootParts
    <2>2. CASE name # <<>>
      <3>1. Front(name) \in Names
        BY <2>2, OverlayAssumption
      <3>2. QED
        BY <2>2, <3>1, WalkParts
    <2>3. QED
      BY <2>1, <2>2
  <1>2. parts = [name \in Names |-> parts[name]]
    OBVIOUS
  <1> HIDE DEF parts
  <1>3. Walks(parts)
    BY <1>1, <1>2 DEF Walks
  <1> DEFINE F(f) ==
        f = [name \in Names |->
               IF name = <<>>
               THEN {i \in Stack : Below(i, name)}
               ELSE LET above == {i \in f[Front(name)] : Holds(i, name)}
                    IN {i \in above : \A j \in above : j < i =>
                                        IsDir(j, name) /\ ~DeclaresOpaque(j, name)}]
  <1>4. ASSUME NEW f PROVE F(f) <=> Walks(f)
    BY DEF Walks, Walk, AtRoot
  <1>5. Contributors = CHOOSE f : F(f)
    BY DEF Contributors
  <1> HIDE DEF F
  <1>6. F(CHOOSE f : F(f))
    BY <1>3, <1>4
  <1>7. QED
    BY <1>4, <1>5, <1>6

\* There is one walk: no name is the shortest on which another differs.
LEMMA ContributorsAre ==
  ASSUME TypeInv, FilesHideNothing, NEW n \in Names
  PROVE  Contributors[n] = Parts(n)
  <1> DEFINE bad == {k \in Nat : \E m \in Names : Len(m) = k /\ Contributors[m] # Parts(m)}
  <1>1. \A m \in Names : Len(m) \in Nat
    <2> SUFFICES ASSUME NEW m \in Names PROVE Len(m) \in Nat
      OBVIOUS
    <2>1. m \in Seq({m[k] : k \in DOMAIN m})
      BY OverlayAssumption
    <2>2. QED
      BY <2>1, LenProperties
  <1>2. SUFFICES ASSUME bad # {} PROVE FALSE
    BY <1>1
  <1>3. PICK k \in bad : \A j \in bad : k <= j
    BY <1>2, LeastIndex
  <1>4. PICK m \in Names : Len(m) = k /\ Contributors[m] # Parts(m)
    BY <1>3
  <1>5. Contributors[m] = IF m = <<>> THEN AtRoot ELSE Walk(Contributors[Front(m)], m)
    BY ContributorsWalk DEF Walks
  <1>6. CASE m = <<>>
    BY <1>4, <1>5, <1>6, RootParts
  <1>7. CASE m # <<>>
    <2>1. k \in Nat /\ Front(m) \in Names /\ k >= 1 /\ Len(Front(m)) = k - 1
      BY <1>3, <1>4, <1>7, NameProperties
    <2>2. k - 1 \in Nat /\ k - 1 \notin bad
      BY <1>3, <2>1
    <2>3. Contributors[Front(m)] = Parts(Front(m))
      BY <2>1, <2>2
    <2>4. QED
      BY <1>4, <1>5, <1>7, <2>3, WalkParts
  <1>8. QED
    BY <1>6, <1>7

\* The first of those that take part is the one found.
LEMMA FoundInParts ==
  ASSUME TypeInv, NEW n
  PROVE  Find(n) = IF Parts(n) = {} THEN NotFound ELSE Min(Parts(n))
  <1>1. Parts(n) \subseteq Nat
    BY AboveInStack DEF Parts
  <1>2. Holders(n) \subseteq Parts(n)
    BY HolderIn DEF Parts
  <1>3. CASE Parts(n) = {}
    BY <1>2, <1>3, FindMin
  <1>4. CASE Parts(n) # {}
    <2>1. PICK i \in Parts(n) : \A j \in Parts(n) : i <= j
      BY <1>1, <1>4, LeastIndex
    <2>2. i \in Stack /\ Holds(i, n) /\ \A j \in 1 .. i - 1 : ~OwnsSubtreeOf(j, n)
      BY DEF Parts
    <2>3. ASSUME NEW j \in 1 .. i - 1 PROVE ~Holds(j, n)
      <3>1. SUFFICES ASSUME Holds(j, n) PROVE FALSE
        OBVIOUS
      <3>2. j \in Stack /\ j < i /\ \A k \in 1 .. j - 1 : k \in 1 .. i - 1
        BY <2>2, AboveInStack
      <3>3. j \in Parts(n)
        BY <3>1, <3>2 DEF Parts
      <3>4. i <= j /\ i \in Nat /\ j \in Nat
        BY <1>1, <2>1, <3>3
      <3>5. QED
        BY <3>2, <3>4
    <2>4. i \in Holders(n)
      BY <2>2, <2>3, HolderIn
    <2>5. \A j \in Parts(n) : ~(j < i)
      BY <1>1, <2>1
    <2>6. Min(Parts(n)) = i
      BY <1>1, <2>5, MinIs
    <2>7. QED
      BY <1>4, <2>4, <2>6, FindIs
  <1>5. QED
    BY <1>3, <1>4

\* Nothing below an owner of a directory is seen in it.
LEMMA OwnerHides ==
  ASSUME TypeInv, NEW m, NEW i \in Stack, OwnsSubtreeOf(i, m)
  PROVE  Find(m) <= i
  <1>1. CASE Find(m) = NotFound
    BY <1>1, AboveInStack DEF NotFound
  <1>2. CASE Find(m) # NotFound
    <2>1. Find(m) \in Holders(m)
      BY <1>2, FoundIs
    <2>2. Find(m) \in Stack /\ \A j \in 1 .. Find(m) - 1 : ~OwnsSubtreeOf(j, m)
      BY <2>1, HolderIn
    <2>3. ~(i < Find(m))
      BY <2>2, AboveInStack
    <2>4. Find(m) \in Nat /\ i \in Nat
      BY <2>2, AboveInStack
    <2>5. QED
      BY <2>3, <2>4
  <1>3. QED
    BY <1>1, <1>2

\* Open, Stat and ReadFile resolve names as a union mount does, walked from the
\* root, and never to what is below an owner of a directory in it.
THEOREM ResolvesAsUnionMountProved == Spec => []ResolvesAsUnionMount
  <1>1. TypeInv => ResolvesAsUnionMount
    <2> SUFFICES ASSUME TypeInv PROVE ResolvesAsUnionMount
      OBVIOUS
    <2>1. ASSUME FilesHideNothing, NEW n \in Names
          PROVE  Find(n) = IF Contributors[n] = {} THEN NotFound ELSE Min(Contributors[n])
      <3>1. Contributors[n] = Parts(n)
        BY <2>1, ContributorsAre
      <3>2. QED
        BY <3>1, FoundInParts
    <2>2. ASSUME NEW m \in Names, NEW i \in Stack, \E d \in Parents(m) : OwnsDir(i, d)
          PROVE  Find(m) <= i
      BY <2>2, OwnerHides DEF OwnsSubtreeOf
    <2>3. QED
      BY <2>1, <2>2 DEF ResolvesAsUnionMount
  <1>2. QED
    BY <1>1, TypeCorrect, PTL

=============================================================================
