------------------------------ MODULE OverlayFS ------------------------------
(***************************************************************************)
(* The resolution of names in an OverlayFS: a stack of layers, the topmost *)
(* first and the base last, some of which own directories (NewOpaqueFS).   *)
(* A name is the sequence of its path elements; the root "." is <<>>.      *)
(*                                                                         *)
(* Loops over the layers are written by what they reach: a layer is        *)
(* reached when no layer above it ends the loop.                           *)
(***************************************************************************)
EXTENDS Naturals, Sequences, SequencesExt, FiniteSetsExt

CONSTANTS
  Names,     \* the names asked for, closed under parents
  Trees,     \* what a layer may hold: [Names -> Kinds]
  Owned,     \* what it may declare to own: [dirs : SUBSET Names, all : BOOLEAN]
  Height     \* bound on the number of layers

\* An "unreadable" directory cannot be listed, and what is an "error" cannot be
\* looked up at all, nor can anything below it.
Kinds == {"absent", "file", "dir", "unreadable", "error"}
Dirs == {"dir", "unreadable"}

ASSUME OverlayAssumption ==
  /\ <<>> \in Names /\ Height \in Nat \ {0}
  /\ \A n \in Names : n \in Seq({n[k] : k \in DOMAIN n})
  /\ \A n \in Names : n # <<>> => Front(n) \in Names
  /\ Trees \subseteq [Names -> Kinds]
  /\ \A t \in Trees : /\ t[<<>>] = "dir"
                      /\ \A n \in Names \ {<<>>} :
                           IF t[Front(n)] = "error" THEN t[n] = "error"
                           ELSE t[n] # "absent" => t[Front(n)] \in Dirs

VARIABLES
  layers,   \* layers[i]: the tree of layer i, 1 on top
  opaque    \* opaque[i]: its opaque directories

vars == <<layers, opaque>>

Stack == 1 .. Len(layers)

Holds(i, name) == layers[i][name] # "absent"
IsDir(i, name) == layers[i][name] \in Dirs

Children(name) == {c \in Names : c # <<>> /\ Front(c) = name}

\* The parents of a name; path.Dir(".") is ".".
Parents(name) ==
  IF name = <<>> THEN {<<>>} ELSE {SubSeq(name, 1, k) : k \in 0 .. Len(name) - 1}

\* OpaqueFS.IsOpaqueDir: "*" is every directory but the root.
DeclaresOpaque(i, name) ==
  name \in opaque[i].dirs \/ (opaque[i].all /\ name # <<>>)

OwnsDir(i, name) == DeclaresOpaque(i, name) /\ IsDir(i, name)

\* Ownership, if only the closest parent were asked.
OwnsParentOf(i, name) == OwnsDir(i, IF name = <<>> THEN name ELSE Front(name))

\* ownsSubtreeOf: does layer i own a parent of the name?
OwnsSubtreeOf(i, name) == \E d \in Parents(name) : OwnsDir(i, d)

-----------------------------------------------------------------------------
(* findInLayers, openInLayers: what Open, Stat and ReadFile resolve to *)

NotFound == 0

\* The layers a lookup of name gets to.
Reached(name) ==
  {i \in Stack : \A j \in 1 .. i - 1 : ~Holds(j, name) /\ ~OwnsSubtreeOf(j, name)}

\* The layer a name resolves to.
Find(name) ==
  LET holders == {i \in Reached(name) : Holds(i, name)}
  IN IF holders = {} THEN NotFound ELSE Min(holders)

-----------------------------------------------------------------------------
(* readMergedDir *)

\* What ends the merge at layer i: an owner of the directory or of a parent
\* of it, or something that is not a directory.
EndsMerge(i, name) ==
  IF Holds(i, name) THEN ~IsDir(i, name) \/ DeclaresOpaque(i, name) \/ OwnsSubtreeOf(i, name)
                    ELSE OwnsSubtreeOf(i, name)

\* The layers the merge gets to, and those that contribute.
Merging(name) == {i \in Stack : \A j \in 1 .. i - 1 : ~EndsMerge(j, name)}
Merged(name) == {i \in Merging(name) : IsDir(i, name)}

\* ReadDir, if it listed what it has when a layer fails.
ListsWhatItHas(name) == Merged(name) # {}

\* ReadDir fails if a layer it gets to does, or if the first thing there is
\* not a directory.
Lists(name) ==
  /\ Merged(name) # {}
  /\ \A i \in Merging(name) : layers[i][name] \notin {"unreadable", "error"}

\* The entries ReadDir reports, each with the layer it comes from.
Entries(name) ==
  {<<c, Min({i \in Merged(name) : Holds(i, c)})>> :
     c \in {k \in Children(name) : \E i \in Merged(name) : Holds(i, k)}}

-----------------------------------------------------------------------------
\* NewOverlayFS on a base alone, then with one more overlay, given last: it
\* is put on top.
Init ==
  /\ \E t \in Trees : layers = <<t>>
  /\ \E o \in Owned : opaque = <<o>>

Overlay(t, o) ==
  /\ Len(layers) < Height
  /\ layers' = <<t>> \o layers
  /\ opaque' = <<o>> \o opaque

Next == \E t \in Trees, o \in Owned : Overlay(t, o)

Spec == Init /\ [][Next]_vars

-----------------------------------------------------------------------------
\* No layer has a file where another has a directory with something in it.
FilesHideNothing ==
  \A c \in Names \ {<<>>} : \A i, j \in Stack :
    Holds(i, c) => layers[j][Front(c)] # "file"

\* Union mount, as a walk from the root: at each element, the layers that take
\* part in the parent directory and hold the element, down to the first that
\* is not a directory or that owns the directory.
Below(i, name) ==
  \A j \in 1 .. i - 1 : Holds(j, name) => IsDir(j, name) /\ ~DeclaresOpaque(j, name)

Contributors[name \in Names] ==
  IF name = <<>>
  THEN {i \in Stack : Below(i, name)}
  ELSE LET above == {i \in Contributors[Front(name)] : Holds(i, name)}
       IN {i \in above : \A j \in above : j < i =>
                           IsDir(j, name) /\ ~DeclaresOpaque(j, name)}

\* Names resolve as the walk says, to a layer that fails if the walk comes to one,
\* when no file is in the way: a stack is one file system, however deep its opaque
\* directories.  Nothing below an owner of a directory is ever seen in it.
ResolvesAsUnionMount ==
  /\ FilesHideNothing => \A n \in Names :
       Find(n) = IF Contributors[n] = {} THEN NotFound ELSE Min(Contributors[n])
  /\ \A m \in Names, i \in Stack : (\E d \in Parents(m) : OwnsDir(i, d)) => Find(m) <= i

\* A directory that can be listed lists a name exactly when the name resolves, and
\* to the same layer: ReadDir and Open never disagree, and what a layer that fails
\* may hold is never passed over.
ListsWhatResolves ==
  FilesHideNothing => \A n \in Names : Lists(n) =>
    \A c \in Children(n) :
      /\ Find(c) # NotFound <=> <<c, Find(c)>> \in Entries(n)
      /\ \A i \in Stack : <<c, i>> \in Entries(n) => Find(c) = i

=============================================================================
