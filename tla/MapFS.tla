--------------------------------- MODULE MapFS ---------------------------------
(***************************************************************************)
(* NewMapFS, which makes a file system out of a Go map of names, and what  *)
(* the file system then answers.  A Go map is ranged over in any order, so *)
(* each iteration is a step on an element chosen freely: the outcome must  *)
(* not depend on the choice.                                               *)
(*                                                                         *)
(* A name is the sequence of its elements between slashes: "/a" is         *)
(* <<"", "a">>, "a//b" is <<"a", "", "b">>, and a clean name has neither   *)
(* empty nor dotted elements.  The root "." is <<>>.                       *)
(***************************************************************************)
EXTENDS Naturals, SequencesExt

CONSTANTS Inputs     \* the sets of names NewMapFS is called with

ASSUME MapFSAssumption ==
  \A names \in Inputs : \A raw \in names : raw \in Seq(STRING) \ {<<>>}

VARIABLES
  input,    \* the names of the caller's map
  phase,    \* "normalize" | "children" | "index" | "built" | "failed"
  todo,     \* what the loop of the phase has not seen yet
  files,    \* normalized: files[clean] is the name the file was given under
  children, \* children[d \o <<base>>]: is base, in directory d, a directory?
  dirs      \* the index: dirs[d], a set of entries [base, isDir]

vars == <<input, phase, todo, files, children, dirs>>

Invalid == <<"..">>

\* strings.TrimPrefix(name, "/")
TrimSlash(raw) == IF Len(raw) > 1 /\ Head(raw) = "" THEN Tail(raw) ELSE raw

\* An element in path.Clean.
Climb(out, elem) ==
  CASE elem \in {"", "."} -> out
    [] elem = ".." /\ out # <<>> /\ Last(out) # ".." -> Front(out)
    [] OTHER -> Append(out, elem)

Rooted(name) == Len(name) > 1 /\ Head(name) = ""

\* The name cleaned, whatever it climbs to.
CleanOnly(raw) == FoldLeft(Climb, <<>>, TrimSlash(raw))

\* The clean form, or Invalid for a name rooted, climbing above the root, or
\* the root.
normalizeMapName(raw) ==
  LET clean == FoldLeft(Climb, <<>>, TrimSlash(raw)) IN
  IF Rooted(TrimSlash(raw)) \/ clean = <<>> \/ ".." \in ToSet(clean)
  THEN Invalid ELSE clean

\* Strict prefixes: the directories a name lies in.
Ancestors(name) == {SubSeq(name, 1, k) : k \in 0 .. Len(name) - 1}

\* Records that name (a directory and a base) is a directory or not.
addMapChild(known, names, isDir) ==
  [n \in DOMAIN known \cup names |-> IF n \in names THEN isDir ELSE known[n]]

\* The directories that have children, and the root.
Parents == {<<>>} \cup {Front(n) : n \in DOMAIN children}

Fail ==
  /\ phase' = "failed" /\ todo' = {}
  /\ UNCHANGED <<input, files, children, dirs>>

-----------------------------------------------------------------------------
Init ==
  /\ input \in Inputs
  /\ phase = "normalize" /\ todo = input
  /\ files = <<>> /\ children = <<>> /\ dirs = <<>>

\* A file that replaces the one of the same name.
NormalizeLast(raw) ==
  /\ phase = "normalize" /\ raw \in todo
  /\ LET clean == normalizeMapName(raw) IN
     IF clean = Invalid THEN Fail
     ELSE /\ files' = [n \in DOMAIN files \cup {clean} |->
                         IF n = clean THEN raw ELSE files[n]]
          /\ todo' = todo \ {raw}
          /\ UNCHANGED <<input, phase, children, dirs>>

\* NewMapFS, its loop.
Normalize(raw) ==
  /\ phase = "normalize" /\ raw \in todo
  /\ LET clean == normalizeMapName(raw) IN
     IF clean = Invalid \/ clean \in DOMAIN files THEN Fail
     ELSE /\ files' = [n \in DOMAIN files \cup {clean} |->
                         IF n = clean THEN raw ELSE files[n]]
          /\ todo' = todo \ {raw}
          /\ UNCHANGED <<input, phase, children, dirs>>

\* Only the parent of the file.
IndexParent(name) ==
  /\ phase = "children" /\ name \in todo
  /\ children' = addMapChild(addMapChild(children, {name}, FALSE),
                             {Front(name)} \ {<<>>}, TRUE)
  /\ todo' = todo \ {name}
  /\ UNCHANGED <<input, phase, files, dirs>>

\* indexMapDirs, first loop: the file, then its ancestors as directories.
IndexChild(name) ==
  /\ phase = "children" /\ name \in todo
  /\ children' = addMapChild(addMapChild(children, {name}, FALSE),
                             Ancestors(name) \ {<<>>}, TRUE)
  /\ todo' = todo \ {name}
  /\ UNCHANGED <<input, phase, files, dirs>>

EntriesOf(dir) ==
  {[base |-> Last(n), isDir |-> children[n]] :
     n \in {m \in DOMAIN children : Front(m) = dir}}

\* Second loop: the entries of a directory, unless it is a file as well.
IndexDir(dir) ==
  /\ phase = "index" /\ dir \in todo
  /\ IF dir \in DOMAIN files THEN Fail
     ELSE /\ dirs' = [d \in DOMAIN dirs \cup {dir} |->
                        IF d = dir THEN EntriesOf(dir) ELSE dirs[d]]
          /\ todo' = todo \ {dir}
          /\ UNCHANGED <<input, phase, files, children>>

\* The end of a loop.
NextPhase ==
  /\ todo = {}
  /\ \/ phase = "normalize" /\ phase' = "children" /\ todo' = DOMAIN files
     \/ phase = "children" /\ phase' = "index" /\ todo' = Parents
     \/ phase = "index" /\ phase' = "built" /\ todo' = {}
  /\ UNCHANGED <<input, files, children, dirs>>

Next ==
  \/ \E raw \in todo : Normalize(raw)
  \/ \E name \in todo : IndexChild(name)
  \/ \E dir \in todo : IndexDir(dir)
  \/ NextPhase

Spec == Init /\ [][Next]_vars

-----------------------------------------------------------------------------
(* What the file system answers, for a valid name *)

IsFile(name) == name \in DOMAIN files
IsDir(name) == name \in DOMAIN dirs

\* Files are looked up first.
Stat(name) == IF IsFile(name) THEN "file" ELSE IF IsDir(name) THEN "dir" ELSE "not exist"

Open(name) == Stat(name)

ReadFile(name) ==
  IF IsFile(name) THEN "data" ELSE IF IsDir(name) THEN "is a directory" ELSE "not exist"

\* Directories are looked up first.
ReadDir(name) ==
  IF IsDir(name) THEN "entries" ELSE IF IsFile(name) THEN "not a directory" ELSE "not exist"

-----------------------------------------------------------------------------
\* The clean names of the input, by definition: no climbing, no root.
Denotes(raw, name) ==
  /\ name # <<>> /\ ~ \E i \in DOMAIN name : name[i] \in {"", ".", ".."}
  /\ name = CleanOnly(raw) /\ ~Rooted(TrimSlash(raw))

Denoted == {n \in {CleanOnly(raw) : raw \in input} : \E raw \in input : Denotes(raw, n)}

\* The inputs NewMapFS documents as errors: an invalid name, two names of the
\* same file, a file that is the parent of another.
Wrong ==
  \/ \E raw \in input : ~ \E n \in Denoted : Denotes(raw, n)
  \/ \E r, s \in input : r # s /\ \E n \in Denoted : Denotes(r, n) /\ Denotes(s, n)
  \/ \E n, m \in Denoted : n \in Ancestors(m)

\* NewMapFS fails on a wrong input and on no other, in whatever order the maps
\* are ranged over.
FailsWhenWrong ==
  /\ phase = "failed" => Wrong
  /\ phase = "built" => ~Wrong

\* The index is the tree of the names: each directory lists its children, each
\* once, with its kind, and an ancestor of a file is a directory listed in its
\* own parent.  The methods answer alike: what a listing announces can be
\* opened, read or listed as such.
IndexIsTree ==
  phase = "built" =>
    /\ DOMAIN files = Denoted
    /\ DOMAIN dirs = {<<>>} \cup UNION {Ancestors(n) : n \in Denoted}
    /\ \A d \in DOMAIN dirs :
         dirs[d] =
           {[base |-> Last(n), isDir |-> FALSE] : n \in {m \in Denoted : Front(m) = d}}
             \cup {[base |-> Last(a), isDir |-> TRUE] :
                     a \in {b \in DOMAIN dirs \ {<<>>} : Front(b) = d}}
    /\ \A d \in DOMAIN dirs : \A e \in dirs[d] :
         LET name == Append(d, e.base) IN
         /\ Open(name) = (IF e.isDir THEN "dir" ELSE "file")
         /\ e.isDir = (ReadDir(name) = "entries")
         /\ e.isDir = (ReadFile(name) = "is a directory")

=============================================================================
