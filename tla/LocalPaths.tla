------------------------------ MODULE LocalPaths ------------------------------
(***************************************************************************)
(* What package loading makes of its options and of a local path, up to    *)
(* the file that is read.  A path is the sequence of its elements between  *)
(* slashes, as in MapFS: "/r/x" is <<"", "r", "x">>, "C:/x" is             *)
(* <<"c:", "x">>, and what follows "file://" is a path as well.  An        *)
(* absolute path that was made clean is the sequence of its elements after *)
(* its volume: none on Unix, a drive or "unc" on Windows.                  *)
(***************************************************************************)
EXTENDS Naturals, FiniteSetsExt, SequencesExt

CONSTANTS
  Drives,     \* elements that are drive letters
  Undotted,   \* Undotted[e]: an element without its leading dots
  Files,      \* the files of the machine, by their clean absolute paths
  Links,      \* symbolic links: Links[path] is where they lead
  Cwd,        \* Cwd[windows], the working directory
  Openable,   \* the directories, as given to WithRoot, that can be opened
  FSFiles     \* the files of the fs.FS given to WithFS

ASSUME LocalPathsAssumption ==
  /\ \A f \in Files : f # <<>>
  /\ \A e \in DOMAIN Undotted : Undotted[e] # ""
  /\ DOMAIN Cwd = BOOLEAN

Absent == <<"absent">>

-----------------------------------------------------------------------------
(* Options *)

\* A timeout is TRUE when it is positive.
Defaults ==
  [timeout |-> TRUE, user |-> "", password |-> "", headers |-> <<>>,
   fs |-> "none", root |-> <<>>]

\* WithRoot, if the file system given before were kept.
WithRootOnly(o, dir) == [o EXCEPT !.root = dir]

\* WithRoot and WithFS: the last applied wins.
WithRoot(o, dir) == [o EXCEPT !.root = dir, !.fs = "none"]
WithFS(o, filesystem) == [o EXCEPT !.root = <<>>, !.fs = filesystem]

\* WithCustomHeaders, with a map of its own each time.
WithNewHeaders(o, headers) == [o EXCEPT !.headers = headers]

\* WithCustomHeaders: its headers join those given before.
WithCustomHeaders(o, headers) ==
  [o EXCEPT !.headers =
     [h \in DOMAIN o.headers \cup DOMAIN headers |->
        IF h \in DOMAIN headers THEN headers[h] ELSE o.headers[h]]]

Apply(o, option) ==
  CASE option.with = "timeout" -> [o EXCEPT !.timeout = option.value]
    [] option.with = "auth" -> [o EXCEPT !.user = option.user, !.password = option.password]
    [] option.with = "headers" -> WithCustomHeaders(o, option.value)
    [] option.with = "root" -> WithRoot(o, option.value)
    [] option.with = "fs" -> WithFS(o, option.value)

optionsWithDefaults(opts) == FoldLeft(Apply, Defaults, opts)

-----------------------------------------------------------------------------
(* Paths, as package filepath and the operating system take them *)

Dots == {"", ".", ".."}

Volumes == Drives \cup {"unc"}

\* An element, from the directory at: dots are resolved, links are not.
Climb(at, e) ==
  CASE e \in {"", "."} -> at
    [] e = ".." -> IF at = <<>> \/ Last(at) \in Volumes THEN at ELSE Front(at)
    [] OTHER -> Append(at, e)

\* A link leads elsewhere.
Follow(at, e) == LET next == Climb(at, e) IN IF next \in DOMAIN Links THEN Links[next] ELSE next

IsUNC(windows, e) == windows /\ Len(e) > 2 /\ e[1] = "" /\ e[2] = ""

IsAbs(windows, e) ==
  IF windows THEN Head(e) \in Drives \/ IsUNC(windows, e) ELSE Head(e) = ""

\* Where a path starts, and what is left of it.  Windows takes a path that only
\* starts with a slash on the current drive.
Base(windows, e) ==
  CASE IsUNC(windows, e) -> <<"unc">>
    [] windows /\ Head(e) \in Drives -> <<Head(e)>>
    [] windows /\ Head(e) = "" -> <<Head(Cwd[windows])>>
    [] ~windows /\ Head(e) = "" -> <<>>
    [] OTHER -> Cwd[windows]

Rest(windows, e) == IF IsAbs(windows, e) THEN Tail(e) ELSE e

\* filepath.Abs and the file os.ReadFile opens.
Lexical(windows, e) == FoldLeft(Climb, Base(windows, e), Rest(windows, e))
OSFile(windows, e) == FoldLeft(Follow, Base(windows, e), Rest(windows, e))

\* filepath.Rel, of clean absolute paths; <<>> when there is none, across volumes.
Rel(base, target) ==
  LET k == Max({i \in 0 .. Len(base) : i <= Len(target) /\ SubSeq(base, 1, i) = SubSeq(target, 1, i)})
      up == [i \in 1 .. Len(base) - k |-> ".."]
      path == up \o SubSeq(target, k + 1, Len(target))
  IN IF k = 0 /\ ToSet(base \o target) \cap Volumes # {} THEN <<>>
     ELSE IF path = <<>> THEN <<".">> ELSE path

\* The file os.Root opens in a directory: nothing that leaves it on the way.
InRoot(dir, e) ==
  LET step(at, elem) ==
        IF at = Absent \/ (elem = ".." /\ at = dir) THEN Absent
        ELSE LET next == Follow(at, elem) IN IF IsPrefix(dir, next) THEN next ELSE Absent
  IN IF Head(e) \in {""} \cup Drives THEN Absent ELSE FoldLeft(step, dir, e)

Existing(file) == IF file \in Files THEN file ELSE Absent

-----------------------------------------------------------------------------
(* LoadStrategy, for a local path *)

\* strings.TrimLeft(path, "./")
TrimLeft(e) ==
  LET kept == {i \in DOMAIN e : e[i] \notin Dots} IN
  IF kept = {} THEN <<"">>
  ELSE LET first == Min(kept) IN
       <<IF e[first] \in DOMAIN Undotted THEN Undotted[e[first]] ELSE e[first]>>
         \o SubSeq(e, first + 1, Len(e))

\* path.Clean, of a path without a leading slash.
Clean(e) ==
  LET step(at, x) == IF x = ".." /\ (at = <<>> \/ Last(at) = "..") THEN Append(at, x)
                     ELSE IF x = ".." THEN Front(at)
                     ELSE IF x \in Dots THEN at ELSE Append(at, x)
  IN FoldLeft(step, <<>>, e)

\* A file URI on Windows: its host is a drive, a dot or a share.
WindowsURI(e) ==
  LET clean == Clean(e) IN
  CASE Head(e) \in Drives \cup {".", ".."} -> clean
    [] Head(e) \notin Drives \cup Dots -> <<"", "">> \o clean
    [] Head(e) = "" /\ Len(e) > 1 /\ e[2] \in Drives -> Tail(e)
    [] OTHER -> e

\* What the local loader is given.
LocalPath(windows, o, path) ==
  IF path.scheme = "file" /\ windows /\ o.fs = "none" /\ o.root = <<>>
  THEN WindowsURI(path.elems)
  ELSE IF o.fs = "embed" THEN TrimLeft(path.elems) ELSE path.elems

\* toOSPath: "/C:/dir" is "C:/dir" on Windows.
toOSPath(windows, e) ==
  IF windows /\ Len(e) > 1 /\ Head(e) = "" /\ e[2] \in Drives THEN Tail(e) ELSE e

\* rootRelative; <<>> is its error.
rootRelative(windows, dir, e) ==
  LET name == toOSPath(windows, e) IN
  IF ~IsAbs(windows, name) THEN e
  ELSE Rel(Lexical(windows, toOSPath(windows, dir)), Lexical(windows, name))

\* fs.FS: names with dots or slashes around are not valid.
FSFile(e) == IF ToSet(e) \cap Dots = {} /\ e \in FSFiles THEN e ELSE Absent

=============================================================================
