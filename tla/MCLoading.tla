------------------------------ MODULE MCLoading ------------------------------
(***************************************************************************)
(* Loading for TLC: the forms of paths that the documentation and the      *)
(* tests of package loading name, on both kinds of systems, with every way *)
(* to combine the options that exclude one another, and remote loads with  *)
(* headers and credentials given in several options.                       *)
(***************************************************************************)
EXTENDS Loading

MCDrives == {"c:", "d:"}
MCUndotted == [e \in {".x"} |-> "x"]

MCFiles ==
  { <<"r", "x">>, <<"r", "d", "x">>, <<"w", "x">>, <<"w", "d", "x">>, <<"out", "x">>,
    <<"c:", "r", "x">>, <<"c:", "r", "d", "x">>, <<"c:", "w", "x">>, <<"d:", "r", "x">>,
    <<"unc", "srv", "d", "x">>, <<"c:", "r", "srv", "d", "x">> }

MCLinks ==
  (<<"r", "in">> :> <<"r", "d">>) @@ (<<"r", "esc">> :> <<"out">>)
    @@ (<<"c:", "r", "in">> :> <<"c:", "r", "d">>)

MCCwd == [w \in BOOLEAN |-> IF w THEN <<"c:", "w">> ELSE <<"w">>]

MCOpenable == {<<"", "r">>, <<"..", "r">>, <<"c:", "r">>}
MCFSFiles == {<<"x">>, <<"d", "x">>}

Abs(file) == [abs |-> TRUE, file |-> file]
RelPath(elems) == [abs |-> FALSE, file |-> elems]

Spelled(windows, elems, plain, confined) ==
  {[windows |-> windows, path |-> [scheme |-> s, good |-> TRUE, elems |-> elems],
    asks |-> [plain |-> plain, confined |-> confined]] : s \in {"none", "file"}}

Same(windows, elems, asked) == Spelled(windows, elems, asked, asked)

\* On Windows, a URI or a path only: what follows "file://" is a host.
OnWindows(scheme, elems, plain, confined) ==
  {l \in Spelled(TRUE, elems, plain, confined) : l.path.scheme = scheme}

Relative(e) == Same(FALSE, e, RelPath(e)) \cup OnWindows("none", e, RelPath(e), RelPath(e))

Asked ==
  UNION {Relative(e) : e \in {<<"x">>, <<"d", "x">>, <<"d", "..", "x">>, <<"..", "r", "x">>,
                              <<".", "x">>, <<"in", "x">>, <<"gone">>}}
  \cup Same(FALSE, <<"esc", "x">>, RelPath(<<"esc", "x">>))
  \cup Same(FALSE, <<"", "r", "x">>, Abs(<<"r", "x">>))
  \cup Same(FALSE, <<"", "r", "d", "..", "x">>, Abs(<<"r", "x">>))
  \cup Same(FALSE, <<"", "r", "esc", "x">>, Abs(<<"r", "esc", "x">>))
  \cup Same(FALSE, <<"", "r", "..", "out", "x">>, Abs(<<"out", "x">>))
  \cup Same(FALSE, <<"", "x">>, Abs(<<"x">>))
  \cup Same(FALSE, <<"", "out", "x">>, Abs(<<"out", "x">>))
  \cup Same(TRUE, <<"c:", "r", "x">>, Abs(<<"c:", "r", "x">>))
  \cup Same(TRUE, <<"d:", "r", "x">>, Abs(<<"d:", "r", "x">>))
  \cup OnWindows("file", <<"", "c:", "r", "x">>, Abs(<<"c:", "r", "x">>), Abs(<<"c:", "r", "x">>))
  \cup OnWindows("file", <<"srv", "d", "x">>, Abs(<<"unc", "srv", "d", "x">>), RelPath(<<"srv", "d", "x">>))
  \cup OnWindows("file", <<".", "d", "x">>, RelPath(<<"d", "x">>), RelPath(<<".", "d", "x">>))
  \cup OnWindows("file", <<"", "r", "x">>, Abs(<<"c:", "r", "x">>), RelPath(<<"", "r", "x">>))
  \cup {[windows |-> FALSE, path |-> [scheme |-> "none", good |-> FALSE, elems |-> <<"x">>],
         asks |-> [plain |-> RelPath(<<"x">>), confined |-> RelPath(<<"x">>)]]}

Root(dir) == [with |-> "root", value |-> dir]
FS(fs) == [with |-> "fs", value |-> fs]

Roots(windows) ==
  {Root(dir) : dir \in {<<>>, <<"..", "r">>, <<"lost">>} \cup {IF windows THEN <<"c:", "r">> ELSE <<"", "r">>}}

Where(windows) == Roots(windows) \cup {FS("embed"), FS("dir")}

\* Up to two options on where to look.
WhereOpts(windows) ==
  {<<>>} \cup {<<a>> : a \in Where(windows)} \cup {<<a, b>> : a, b \in Where(windows)}

Fns == {"LoadFromFileOrHTTP", "JSONDoc", "YAMLDoc"}

LocalCalls ==
  UNION {{[windows |-> l.windows, path |-> l.path, asks |-> l.asks, opts |-> opts, fn |-> "YAMLDoc"] :
            opts \in WhereOpts(l.windows)} : l \in Asked}

NoTimeout == [with |-> "timeout", value |-> FALSE]
Auth(user, password) == [with |-> "auth", user |-> user, password |-> password]
Headers(h) == [with |-> "headers", value |-> h]

How ==
  { Auth("u", "p"), Auth("u", ""), Headers("X-Key" :> "1"), Headers(("X-Key" :> "2") @@ ("X-Id" :> "3")),
    Headers("x-key" :> "4"), Headers("Authorization" :> "5") }

HowOpts == {<<>>, <<NoTimeout>>} \cup {<<a>> : a \in How} \cup {<<a, b>> : a, b \in How}
             \cup {<<NoTimeout, a>> : a \in How}

RemoteCall(good, opts, fn) ==
  [windows |-> FALSE, path |-> [scheme |-> "http", good |-> good, elems |-> <<"x">>],
   asks |-> [plain |-> RelPath(<<"x">>), confined |-> RelPath(<<"x">>)], opts |-> opts, fn |-> fn]

\* Every option once, and every function, with and without a timeout.
RemoteCalls ==
  {RemoteCall(TRUE, opts, "LoadFromFileOrHTTP") : opts \in HowOpts}
    \cup {RemoteCall(good, opts, fn) : good \in BOOLEAN, opts \in {<<>>, <<NoTimeout>>}, fn \in Fns}

MCCalls == LocalCalls \cup RemoteCalls

MCCanonical ==
  [h \in {"X-Key", "x-key", "X-Id", "Authorization"} |-> IF h = "x-key" THEN "X-Key" ELSE h]

=============================================================================
