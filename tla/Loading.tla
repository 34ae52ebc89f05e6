-------------------------------- MODULE Loading --------------------------------
(***************************************************************************)
(* Loading a document from a file or over HTTP: the choice of a loader,    *)
(* what each reads, and the HTTP exchange, in which the deadline of the    *)
(* context races the answer.  The transport and the server are external:   *)
(* they may answer late or never, refuse, redirect for ever, answer with   *)
(* another status, or break off in the middle of the body.                 *)
(***************************************************************************)
EXTENDS LocalPaths

CONSTANTS
  Calls,      \* records windows, fn, path, opts and asks (see ReadsWhereTold)
  Canonical,  \* Canonical[h]: the one spelling that header h is sent with
  MaxChunks   \* bound on the length of a body

\* The kinds of options, and the headers that may be given.
IsOption(x) ==
  \/ x.with \in {"timeout", "auth", "root", "fs"}
  \/ x.with = "headers" /\ DOMAIN x.value \subseteq DOMAIN Canonical

ASSUME LoadingAssumption ==
  /\ MaxChunks \in Nat
  /\ \A c \in Calls : LET given == {c.opts[i] : i \in DOMAIN c.opts} IN
       c.opts \in Seq(given) /\ \A x \in given : IsOption(x)

VARIABLES
  call, o,
  pc,
  todo,      \* custom headers not set yet
  request,   \* the headers of the request
  wire,      \* "none" | "sent" | "answered" | "refused" | "redirected"
  status,
  sent, over, \* chunks of the body sent, and how it ends: "no" | "eof" | "broken"
  got,       \* chunks read
  timer,     \* of the context: "off" | "running" | "fired"
  cancelled,
  body,      \* resp.Body: "none" | "open" | "closed"
  root,      \* the os.Root: "none" | "open" | "closed"
  data, err  \* what the loader returns

exchange == <<request, wire, status, sent, over>>
context == <<timer, cancelled>>
result == <<data, err>>
vars == <<call, o, pc, todo, exchange, got, context, body, root, result>>

NoData == <<>>
Whole == <<"whole body">>
Part == <<"part of the body">>

\* HTTP and HTTPS, in any case.
hasHTTPScheme(path) == path.scheme = "http"

Remote == hasHTTPScheme(call.path)

Goto(step) == pc' = step

\* The loader returns, and what was deferred follows.
Return(d, e, deferred) == data' = d /\ err' = e /\ Goto(deferred)

-----------------------------------------------------------------------------
(* LoadFromFileOrHTTP, LoadStrategy *)

Init ==
  /\ call \in Calls /\ o = Defaults /\ pc = "idle"
  /\ todo = {} /\ request = <<>> /\ wire = "none" /\ status = 0 /\ sent = 0 /\ over = "no"
  /\ got = 0 /\ timer = "off" /\ cancelled = FALSE /\ body = "none" /\ root = "none"
  /\ data = NoData /\ err = {}

Begin ==
  /\ pc = "idle"
  /\ o' = optionsWithDefaults(call.opts)
  /\ Goto(IF Remote THEN "request" ELSE "local")
  /\ UNCHANGED <<call, todo, exchange, got, context, body, root, result>>

Given == LocalPath(call.windows, o, call.path)

\* The returned function, on a local path: unescaping may fail.
Local ==
  /\ pc = "local"
  /\ IF ~call.path.good THEN Return(NoData, {"escape"}, "finish")
     ELSE Goto(IF o.root = <<>> THEN "read" ELSE "root") /\ UNCHANGED result
  /\ UNCHANGED <<call, o, todo, exchange, got, context, body, root>>

\* ReadFileFunc with a root: the path is rebased, the root opened.
OpenRoot ==
  /\ pc = "root"
  /\ IF rootRelative(call.windows, o.root, Given) = <<>> \/ o.root \notin Openable
     THEN Return(NoData, {"root", "ErrLoader"}, "finish") /\ UNCHANGED root
     ELSE root' = "open" /\ Goto("read") /\ UNCHANGED result
  /\ UNCHANGED <<call, o, todo, exchange, got, context, body>>

\* The file that is read, by os.Root, the fs.FS or package os.
FileRead ==
  CASE o.root # <<>> ->
         Existing(InRoot(OSFile(call.windows, o.root),
                         rootRelative(call.windows, o.root, Given)))
    [] o.root = <<>> /\ o.fs = "none" -> Existing(OSFile(call.windows, Given))
    [] o.root = <<>> /\ o.fs # "none" -> FSFile(Given)

ReadLocal ==
  /\ pc = "read"
  /\ IF FileRead = Absent THEN Return(NoData, {"read"}, "close")
     ELSE Return(FileRead, {}, "close")
  /\ UNCHANGED <<call, o, todo, exchange, got, context, body, root>>

-----------------------------------------------------------------------------
(* loadHTTPBytes *)

\* The context with its deadline, then the request, which the URL may not allow,
\* and its credentials, if there are both.
NewRequest ==
  /\ pc = "request"
  /\ timer' = IF o.timeout THEN "running" ELSE "off"
  /\ IF ~call.path.good THEN Return(NoData, {"url"}, "cancel") /\ UNCHANGED <<todo, request>>
     ELSE /\ request' = IF o.user # "" /\ o.password # ""
                        THEN [h \in {"Authorization"} |-> o.user] ELSE <<>>
          /\ todo' = DOMAIN o.headers /\ Goto("headers") /\ UNCHANGED result
  /\ UNCHANGED <<call, o, wire, status, sent, over, got, cancelled, body, root>>

\* One of the custom headers, in the order of a Go map.
SetHeader(h) ==
  /\ pc = "headers" /\ h \in todo
  /\ request' = [k \in DOMAIN request \cup {Canonical[h]} |->
                   IF k = Canonical[h] THEN o.headers[h] ELSE request[k]]
  /\ todo' = todo \ {h}
  /\ UNCHANGED <<call, o, pc, wire, status, sent, over, got, context, body, root, result>>

\* client.Do
Do ==
  /\ pc = "headers" /\ todo = {}
  /\ wire' = "sent" /\ Goto("do")
  /\ UNCHANGED <<call, o, todo, request, status, sent, over, got, context, body, root, result>>

\* The deadline, if it only guarded client.Do.
ExpiredInDo == pc = "do" /\ timer = "fired"

\* The context is done: whoever works for the request fails.
Expired == timer = "fired" \/ cancelled

\* client.Do returns the answer it got, or fails; it may get both at once.  The
\* response that comes with an error is one whose body is already closed.
DoAnswered ==
  /\ pc = "do" /\ wire \in {"answered", "refused", "redirected"}
  /\ body' = CASE wire = "answered" -> "open" [] wire = "redirected" -> "closed" [] OTHER -> "none"
  /\ IF wire = "answered" THEN Goto("status") /\ UNCHANGED result
     ELSE Return(NoData, {wire}, "close")
  /\ UNCHANGED <<call, o, todo, exchange, got, context, root>>

DoExpired ==
  /\ pc = "do" /\ Expired
  /\ Return(NoData, {"deadline"}, "close")
  /\ UNCHANGED <<call, o, todo, exchange, got, context, body, root>>

\* A status other than 200 is returned at once.
StatusReturned ==
  /\ pc = "status"
  /\ IF status # 200 THEN Return(NoData, {"status", "ErrLoader"}, "cancel")
     ELSE Goto("body") /\ UNCHANGED result
  /\ UNCHANGED <<call, o, todo, exchange, got, context, body, root>>

Status ==
  /\ pc = "status"
  /\ IF status # 200 THEN Return(NoData, {"status", "ErrLoader"}, "close")
     ELSE Goto("body") /\ UNCHANGED result
  /\ UNCHANGED <<call, o, todo, exchange, got, context, body, root>>

\* io.ReadAll: a chunk that has come, or the end of the body, if it is one.
ReadChunk ==
  /\ pc = "body" /\ body = "open" /\ got < sent
  /\ got' = got + 1
  /\ UNCHANGED <<call, o, pc, todo, exchange, context, body, root, result>>

\* Any end of the body taken for its end.
ReadAnyEnd ==
  /\ pc = "body" /\ body = "open" /\ got = sent /\ over # "no"
  /\ Return(Whole, {}, "close")
  /\ UNCHANGED <<call, o, todo, exchange, got, context, body, root>>

ReadEnd ==
  /\ pc = "body" /\ body = "open" /\ got = sent /\ over # "no"
  /\ IF over = "eof" THEN Return(Whole, {}, "close") ELSE Return(Part, {"broken"}, "close")
  /\ UNCHANGED <<call, o, todo, exchange, got, context, body, root>>

\* The body cannot be read any more; what was read is returned as well.
ReadExpired ==
  /\ pc = "body" /\ Expired
  /\ Return(Part, {"deadline"}, "close")
  /\ UNCHANGED <<call, o, todo, exchange, got, context, body, root>>

-----------------------------------------------------------------------------
(* What was deferred, last first, and the return *)

Close ==
  /\ pc = "close"
  /\ body' = IF body = "open" THEN "closed" ELSE body
  /\ root' = IF root = "open" THEN "closed" ELSE root
  /\ Goto(IF Remote THEN "cancel" ELSE "finish")
  /\ UNCHANGED <<call, o, todo, exchange, got, context, result>>

Cancel ==
  /\ pc = "cancel"
  /\ cancelled' = o.timeout /\ Goto("finish")
  /\ UNCHANGED <<call, o, todo, exchange, got, timer, body, root, result>>

\* JSONDoc and YAMLDoc drop what comes with an error; the second fails on what
\* is no YAML, which is any document.
Finish ==
  /\ pc = "finish" /\ Goto("returned")
  /\ IF err = {}
     THEN \/ UNCHANGED result
          \/ call.fn = "YAMLDoc" /\ data' = NoData /\ err' = {"yaml"}
     ELSE /\ data' = IF call.fn = "LoadFromFileOrHTTP" THEN data ELSE NoData
          /\ err' = IF call.fn = "JSONDoc" THEN err \cup {"ErrLoader"} ELSE err
  /\ UNCHANGED <<call, o, todo, exchange, got, context, body, root>>

-----------------------------------------------------------------------------
(* The deadline, the transport and the server *)

TimerFires ==
  /\ timer = "running" /\ ~cancelled
  /\ timer' = "fired"
  /\ UNCHANGED <<call, o, pc, todo, exchange, got, cancelled, body, root, result>>

\* The answer comes, when it comes, even past the deadline.
Answer(w, s) ==
  /\ wire = "sent"
  /\ wire' = w /\ status' = s
  /\ UNCHANGED <<call, o, pc, todo, request, sent, over, got, context, body, root, result>>

\* The body comes by chunks, until the transport drops the connection.
SendChunk ==
  /\ wire = "answered" /\ over = "no" /\ sent < MaxChunks /\ ~Expired
  /\ sent' = sent + 1
  /\ UNCHANGED <<call, o, pc, todo, request, wire, status, over, got, context, body, root, result>>

SendEnd(how) ==
  /\ wire = "answered" /\ over = "no" /\ ~Expired
  /\ over' = how
  /\ UNCHANGED <<call, o, pc, todo, request, wire, status, sent, got, context, body, root, result>>

LoadLocal == Local \/ OpenRoot \/ ReadLocal

LoadHTTP ==
  \/ NewRequest \/ (\E h \in todo : SetHeader(h)) \/ Do \/ DoAnswered \/ DoExpired \/ Status
  \/ ReadChunk \/ ReadEnd \/ ReadExpired

Deferred == Close \/ Cancel \/ Finish

Environment ==
  \/ TimerFires
  \/ \E s \in {200, 404} : Answer("answered", s)
  \/ \E w \in {"refused", "redirected"} : Answer(w, 0)
  \/ SendChunk \/ \E how \in {"eof", "broken"} : SendEnd(how)

Next == Begin \/ LoadLocal \/ LoadHTTP \/ Deferred \/ Environment

Spec == Init /\ [][Next]_vars

\* A loader that can go on does, and a timer fires in the end: of the transport
\* and of the server nothing is assumed.
FairSpec == Spec /\ WF_vars(LoadHTTP \/ Deferred) /\ WF_vars(TimerFires)

-----------------------------------------------------------------------------
(* Properties *)

Returned == pc = "returned"

\* The option among these kinds that was given last.
LastOf(kinds) ==
  LET at == {i \in DOMAIN call.opts : call.opts[i].with \in kinds}
  IN IF at = {} THEN [with |-> "none"] ELSE call.opts[Max(at)]

\* Without the dots and slashes in front.
Leading(e) == CHOOSE s \in Suffixes(e) : /\ s = <<>> \/ Head(s) \notin Dots
                                         /\ ToSet(SubSeq(e, 1, Len(e) - Len(s))) \subseteq Dots

Followed(start, e) == Existing(FoldLeft(Follow, start, e))

\* The file a local path stands for, by what the documentation says of paths and
\* URIs: call.asks has the clean absolute path, or what is left of a relative
\* one, for a plain load and for one confined to a directory.
Wanted ==
  LET told == LastOf({"root", "fs"})
      plain == call.asks.plain
      confined == call.asks.confined
  IN CASE ~call.path.good -> Absent
       [] told.with = "fs" /\ told.value = "embed" -> FSFile(Leading(call.path.elems))
       [] told.with = "fs" /\ told.value # "embed" -> FSFile(call.path.elems)
       [] told.with = "root" /\ told.value # <<>> ->
            LET dir == Lexical(call.windows, told.value) IN
            IF told.value \notin Openable \/ (confined.abs /\ ~IsPrefix(dir, confined.file)) THEN Absent
            ELSE Existing(InRoot(OSFile(call.windows, told.value),
                    IF ~confined.abs THEN confined.file
                    ELSE <<".">> \o SubSeq(confined.file, Len(dir) + 1, Len(confined.file))))
       [] OTHER -> IF plain.abs THEN Followed(<<>>, plain.file)
                   ELSE Followed(Cwd[call.windows], plain.file)

\* A local load reads the file its path stands for, where the last of WithRoot
\* and WithFS says to look, whichever way the path is spelled; a path that leads
\* out of the root reads nothing.  (A name that starts with a dot is beyond an
\* embed.FS.)
ReadsWhereTold ==
  Returned /\ ~Remote =>
    IF err = {} THEN data = Wanted ELSE Wanted = Absent \/ err = {"yaml"}

\* The custom headers given for name c, by the index of their option.
Mentions(c) ==
  {m \in (DOMAIN call.opts) \X (DOMAIN Canonical) :
     /\ call.opts[m[1]].with = "headers" /\ m[2] \in DOMAIN call.opts[m[1]].value
     /\ Canonical[m[2]] = c}

\* The request has the headers of all the options, the last value for each, and
\* credentials only when there are both parts of them.  Of a header that is
\* spelled in two ways any of the two last values is sent.
AsksAsTold ==
  wire # "none" => \A c \in {Canonical[h] : h \in DOMAIN Canonical} :
    LET auth == LastOf({"auth"})
        last(h) == {m \in Mentions(c) : m[2] = h /\ \A n \in Mentions(c) : n[2] = h => n[1] <= m[1]}
        values == {call.opts[m[1]].value[m[2]] : m \in UNION {last(h) : h \in DOMAIN Canonical}}
        credentials == IF c = "Authorization" /\ auth.with = "auth" /\ auth.user # "" /\ auth.password # ""
                       THEN {auth.user} ELSE {}
        right == IF values # {} THEN values ELSE credentials
    IN IF right = {} THEN c \notin DOMAIN request
       ELSE c \in DOMAIN request /\ request[c] \in right

\* Why a remote load may fail.
Causes ==
  {w \in {"refused", "redirected"} : wire = w}
    \cup (IF timer = "fired" THEN {"deadline"} ELSE {})
    \cup (IF ~call.path.good THEN {"url"} ELSE {})
    \cup (IF status = 404 THEN {"status"} ELSE {})
    \cup (IF over = "broken" THEN {"broken"} ELSE {})
    \cup (IF call.fn = "YAMLDoc" THEN {"yaml"} ELSE {})

\* An answer without error is the whole body of a 200, however late the deadline
\* strikes; an error has its cause, so that an answer in time is not lost; and a
\* part of a body only comes with an error, and only out of LoadFromFileOrHTTP.
AnswerIsWhole ==
  Returned /\ Remote =>
    /\ err = {} => data = Whole /\ status = 200 /\ over = "eof" /\ got = sent
    /\ err \ {"ErrLoader"} \subseteq Causes
    /\ err # {} => data = NoData \/ (data = Part /\ call.fn = "LoadFromFileOrHTTP")
    /\ err # {} /\ call.fn = "JSONDoc" => "ErrLoader" \in err

\* Whatever way a load ends, it has closed the body and the root it opened, and
\* released the context.
Released ==
  Returned => /\ body # "open" /\ root # "open"
              /\ timer # "off" => cancelled

\* A remote load with a timeout ends, whatever the server does or does not do,
\* in the middle of the body too.
LoadEnds == (Remote /\ o.timeout /\ pc # "idle") ~> Returned

=============================================================================
