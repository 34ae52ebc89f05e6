---------------------------- MODULE LoadingProofs ----------------------------
(***************************************************************************)
(* Proofs about Loading: for every call with any options, every body, and  *)
(* whatever the transport and the server do.                               *)
(***************************************************************************)
EXTENDS Loading, TLAPS, WellFoundedInduction, SequenceTheorems

Ended == {"close", "cancel", "finish", "returned"}
OnlyLocal == {"local", "root", "read"}
OnlyRemote == {"request", "headers", "do", "status", "body", "cancel"}

\* Where a load is, by its kind.
Control ==
  /\ pc \in {"idle"} \cup OnlyLocal \cup OnlyRemote \cup Ended
  /\ pc \in OnlyLocal => ~Remote
  /\ pc \in OnlyRemote => Remote

\* What is open, running and released, by where the load is: Released follows at
\* the end.
Tidy ==
  /\ body = "open" => pc \in {"status", "body", "close"}
  /\ root = "open" => pc \in {"read", "close"}
  /\ timer # "off" => /\ Remote /\ o.timeout
                      /\ pc \in OnlyRemote \cup Ended
                      /\ pc \in {"finish", "returned"} => cancelled
  /\ cancelled => pc \in {"finish", "returned"}

\* What a load knows of the answer while it reads it.
Heard ==
  /\ IF wire = "answered" THEN status \in {200, 404} ELSE status = 0
  /\ pc \in {"idle", "request", "headers"} \cup OnlyLocal => wire = "none"
  /\ over \in {"no", "eof", "broken"}
  /\ pc \in {"status", "body"} => wire = "answered"
  /\ pc = "body" => status = 200

\* What a remote load returns, from the moment it has decided.
Decided ==
  Remote =>
    /\ pc \notin Ended => err = {} /\ data = NoData
    /\ pc \in Ended =>
         /\ err = {} => /\ data = Whole /\ wire = "answered" /\ status = 200
                        /\ over = "eof" /\ got = sent
         /\ err \ {"ErrLoader"} \subseteq Causes
         /\ err # {} => data \in {NoData, Part}
    /\ pc = "returned" /\ err # {} =>
         /\ data = NoData \/ call.fn = "LoadFromFileOrHTTP"
         /\ call.fn = "JSONDoc" => "ErrLoader" \in err

LoadInv == Control /\ Tidy /\ Heard /\ Decided

\* LoadInv holds initially.
LEMMA LoadInvInit == Init => LoadInv
  BY DEF Init, LoadInv, Control, Tidy, Heard, Decided, OnlyLocal, OnlyRemote, Ended

\* The steps of a local load, and the first, open nothing but the root.
LEMMA LocalKeeps == LoadInv /\ (Begin \/ LoadLocal) => LoadInv'
  <1> SUFFICES ASSUME LoadInv, Begin \/ LoadLocal PROVE LoadInv'
    OBVIOUS
  <1> USE DEF LoadInv, Control, Tidy, Heard, Decided, OnlyLocal, OnlyRemote, Ended,
              Remote, hasHTTPScheme, Goto, Return, exchange, context, result
  <1>1. CASE Begin
    BY <1>1 DEF Begin
  <1>2. CASE Local
    BY <1>2 DEF Local
  <1>3. CASE OpenRoot
    BY <1>3 DEF OpenRoot
  <1>4. CASE ReadLocal
    BY <1>4 DEF ReadLocal
  <1>5. QED
    BY <1>1, <1>2, <1>3, <1>4 DEF LoadLocal

\* The steps of the exchange.
LEMMA HTTPKeeps == LoadInv /\ LoadHTTP => LoadInv'
  <1> SUFFICES ASSUME LoadInv, LoadHTTP PROVE LoadInv'
    OBVIOUS
  <1> USE DEF LoadInv, Control, Tidy, Heard, Decided, OnlyLocal, OnlyRemote, Ended,
              Remote, hasHTTPScheme, Causes, Goto, Return, exchange, context, result
  <1>1. CASE NewRequest
    <2>1. CASE call.path.good
      BY <1>1, <2>1 DEF NewRequest
    <2>2. CASE ~call.path.good
      <3>1. err' = {"url"} /\ data' = NoData /\ pc' = "cancel" /\ "url" \in Causes'
        BY <1>1, <2>2 DEF NewRequest
      <3>2. QED
        BY <1>1, <3>1 DEF NewRequest
    <2>3. QED
      BY <2>1, <2>2
  <1>2. ASSUME NEW h \in todo, SetHeader(h) PROVE LoadInv'
    BY <1>2 DEF SetHeader
  <1>3. CASE Do
    BY <1>3 DEF Do
  <1>4. CASE DoAnswered
    BY <1>4 DEF DoAnswered
  <1>5. CASE DoExpired
    BY <1>5 DEF DoExpired, Expired
  <1>6. CASE Status
    BY <1>6 DEF Status
  <1>7. CASE ReadChunk
    BY <1>7 DEF ReadChunk
  <1>8. CASE ReadEnd
    BY <1>8 DEF ReadEnd
  <1>9. CASE ReadExpired
    BY <1>9 DEF ReadExpired, Expired
  <1>10. QED
    BY <1>1, <1>2, <1>3, <1>4, <1>5, <1>6, <1>7, <1>8, <1>9 DEF LoadHTTP

\* What was deferred.
LEMMA DeferredKeeps == LoadInv /\ Deferred => LoadInv'
  <1> SUFFICES ASSUME LoadInv, Deferred PROVE LoadInv'
    OBVIOUS
  <1> USE DEF LoadInv, Control, Tidy, Heard, Decided, OnlyLocal, OnlyRemote, Ended,
              Remote, hasHTTPScheme, Causes, Goto, Return, exchange, context, result
  <1>1. CASE Close
    BY <1>1 DEF Close
  <1>2. CASE Cancel
    BY <1>2 DEF Cancel
  <1>3. CASE Finish
    BY <1>3 DEF Finish
  <1>4. QED
    BY <1>1, <1>2, <1>3 DEF Deferred

\* The deadline and the server, at any moment: what was heard stays heard, and the
\* cause of an error stays its cause.
LEMMA EnvironmentKeeps == LoadInv /\ Environment => LoadInv'
  <1> SUFFICES ASSUME LoadInv, Environment PROVE LoadInv'
    OBVIOUS
  <1> USE DEF LoadInv, Control, Tidy, Heard, Decided, OnlyLocal, OnlyRemote, Ended,
              Remote, hasHTTPScheme, Causes, Goto, Return, exchange, context, result
  <1>1. CASE TimerFires
    BY <1>1 DEF TimerFires
  <1>2. ASSUME NEW s \in {200, 404}, Answer("answered", s) PROVE LoadInv'
    BY <1>2 DEF Answer
  <1>3. ASSUME NEW w \in {"refused", "redirected"}, Answer(w, 0) PROVE LoadInv'
    BY <1>3 DEF Answer
  <1>4. CASE SendChunk
    BY <1>4 DEF SendChunk
  <1>5. ASSUME NEW how \in {"eof", "broken"}, SendEnd(how) PROVE LoadInv'
    BY <1>5 DEF SendEnd
  <1>6. QED
    BY <1>1, <1>2, <1>3, <1>4, <1>5 DEF Environment

\* The invariant holds at all times.
THEOREM LoadSafe == Spec => []LoadInv
  <1>1. LoadInv /\ UNCHANGED vars => LoadInv'
    BY DEF LoadInv, Control, Tidy, Heard, Decided, Remote, hasHTTPScheme, Causes,
           vars, exchange, context, result
  <1>2. LoadInv /\ [Next]_vars => LoadInv'
    BY <1>1, LocalKeeps, HTTPKeeps, DeferredKeeps, EnvironmentKeeps DEF Next
  <1>3. QED
    BY <1>2, LoadInvInit, PTL DEF Spec

\* However a load ends, its body and its root are closed and its context released.
THEOREM AlwaysReleased == Spec => []Released
  <1>1. LoadInv => Released
    BY DEF LoadInv, Tidy, Released, Returned
  <1>2. QED
    BY <1>1, LoadSafe, PTL

\* An answer without error is whole, and an error has its cause, whatever the
\* deadline and the server do, and when.
THEOREM AnswerAlwaysWhole == Spec => []AnswerIsWhole
  <1>1. LoadInv => AnswerIsWhole
    BY DEF LoadInv, Decided, AnswerIsWhole, Returned, Ended
  <1>2. QED
    BY <1>1, LoadSafe, PTL

-----------------------------------------------------------------------------
(* The options of a call, in the order they are given *)

\* g applies the options at the places of any set of the first n.
Folds(g, opts, n) ==
  g = [s \in SUBSET (1 .. n) |->
         IF s = {} THEN Defaults ELSE Apply(g[s \ {Max(s)}], opts[Max(s)])]

\* The greatest of the first numbers, and those before it.
LEMMA MaxInitial ==
  ASSUME NEW n \in Nat, NEW s \in SUBSET (1 .. n + 1), n + 1 \in s
  PROVE  Max(s) = n + 1 /\ s \ {Max(s)} \in SUBSET (1 .. n)
  <1>1. \A x \in s : x >= n + 1 => x = n + 1
    OBVIOUS
  <1>2. \A y \in s : n + 1 >= y
    OBVIOUS
  <1>3. Max(s) = n + 1
    BY <1>1, <1>2 DEF Max
  <1>4. QED
    BY <1>3

\* A set of numbers has a least one.
LEMMA LeastIndex ==
  ASSUME NEW S, S \subseteq Nat, S # {}
  PROVE  \E i \in S : \A j \in S : i <= j
  <1>1. PICK i \in S : \A j \in S : <<j, i>> \notin OpToRel(<, Nat)
    BY NatLessThanWellFounded, WFMin
  <1>2. \A j \in S : ~(j < i)
    BY <1>1 DEF OpToRel
  <1>3. QED
    BY <1>2

\* Such a function exists: no n is the least one without it.
LEMMA FoldExists ==
  ASSUME NEW opts, NEW n \in Nat
  PROVE  \E g : Folds(g, opts, n)
  <1> DEFINE bad == {k \in Nat : ~\E g : Folds(g, opts, k)}
  <1>1. SUFFICES ASSUME bad # {} PROVE FALSE
    OBVIOUS
  <1>2. PICK m \in bad : \A k \in bad : m <= k
    BY <1>1, LeastIndex
  <1>3. m # 0
    <2> DEFINE g == [s \in SUBSET (1 .. 0) |-> Defaults]
    <2>1. SUBSET (1 .. 0) = {{}}
      OBVIOUS
    <2>2. Folds(g, opts, 0)
      BY <2>1 DEF Folds
    <2>3. 0 \notin bad
      BY <2>2
    <2>4. QED
      BY <1>2, <2>3
  <1>4. m - 1 \in Nat /\ m - 1 \notin bad /\ m \in Nat
    BY <1>2, <1>3
  <1>5. PICK f : Folds(f, opts, m - 1)
    BY <1>4
  <1> DEFINE g == [s \in SUBSET (1 .. m) |->
                     IF m \in s THEN Apply(f[s \ {m}], opts[m]) ELSE f[s]]
  <1>6. \A s \in SUBSET (1 .. m) : m \notin s => s \in SUBSET (1 .. m - 1)
    BY <1>4
  <1>7. ASSUME NEW s \in SUBSET (1 .. m)
        PROVE  g[s] = IF s = {} THEN Defaults ELSE Apply(g[s \ {Max(s)}], opts[Max(s)])
    <2>1. CASE m \in s
      <3>1. Max(s) = m /\ s \ {m} \in SUBSET (1 .. m - 1)
        BY <1>4, <2>1, MaxInitial
      <3>2. s \ {m} \in SUBSET (1 .. m) /\ m \notin s \ {m}
        BY <1>6
      <3>3. g[s \ {m}] = f[s \ {m}]
        BY <3>2
      <3>4. QED
        BY <2>1, <3>1, <3>3
    <2>2. CASE m \notin s
      <3>1. s \in SUBSET (1 .. m - 1)
        BY <1>6, <2>2
      <3>2. f[s] = IF s = {} THEN Defaults ELSE Apply(f[s \ {Max(s)}], opts[Max(s)])
        BY <1>5, <3>1 DEF Folds
      <3>3. s \ {Max(s)} \in SUBSET (1 .. m) /\ m \notin s \ {Max(s)}
        BY <2>2
      <3>4. g[s] = f[s] /\ g[s \ {Max(s)}] = f[s \ {Max(s)}]
        BY <2>2, <3>3
      <3>5. QED
        BY <3>2, <3>4
    <2>3. QED
      BY <2>1, <2>2
  <1>8. Folds(g, opts, m)
    <2>1. g = [s \in SUBSET (1 .. m) |-> g[s]]
      OBVIOUS
    <2> HIDE DEF g
    <2>2. QED
      BY <1>7, <2>1 DEF Folds
  <1>9. QED
    BY <1>2, <1>8

\* What follows from it: the options are applied one by one.
LEMMA AppliedInTurn ==
  ASSUME NEW S, NEW opts \in Seq(S)
  PROVE  \E g : /\ g[0] = Defaults /\ optionsWithDefaults(opts) = g[Len(opts)]
                /\ \A k \in 1 .. Len(opts) : g[k] = Apply(g[k - 1], opts[k])
  <1> DEFINE n == Len(opts)
  <1>1. DOMAIN opts = 1 .. n /\ n \in Nat
    OBVIOUS
  <1> HIDE DEF n
  <1> DEFINE F(g) == g = [s \in SUBSET (DOMAIN opts) |->
                   IF s = {} THEN Defaults ELSE Apply(g[s \ {Max(s)}], opts[Max(s)])]
             h == CHOOSE g : F(g)
  <1>2. optionsWithDefaults(opts) = h[DOMAIN opts]
    BY DEF optionsWithDefaults, FoldLeft, MapThenFoldSet
  <1>3. \E g : F(g)
    <2>1. PICK g : Folds(g, opts, n)
      BY <1>1, FoldExists
    <2>2. F(g)
      BY <1>1, <2>1 DEF Folds
    <2>3. QED
      BY <2>2
  <1>4. F(h)
    BY <1>3
  <1>5. Folds(h, opts, n)
    BY <1>1, <1>4 DEF Folds
  <1> HIDE DEF h
  <1>6. h[1 .. 0] = Defaults
    BY <1>1, <1>5 DEF Folds
  <1>7. ASSUME NEW k \in 1 .. n PROVE h[1 .. k] = Apply(h[1 .. k - 1], opts[k])
    <2>1. k - 1 \in Nat /\ 1 .. k \in SUBSET (1 .. n) /\ 1 .. k # {} /\ (k - 1) + 1 = k
          /\ k \in 1 .. k
      BY <1>1
    <2>2. Max(1 .. k) = k
      BY <2>1, MaxInitial
    <2>3. (1 .. k) \ {k} = 1 .. k - 1
      BY <2>1
    <2>4. h[1 .. k] = Apply(h[(1 .. k) \ {Max(1 .. k)}], opts[Max(1 .. k)])
      BY <1>5, <2>1 DEF Folds
    <2>5. QED
      BY <2>2, <2>3, <2>4
  <1> DEFINE g == [k \in 0 .. n |-> h[1 .. k]]
  <1>8. g[0] = Defaults /\ optionsWithDefaults(opts) = g[n]
    BY <1>1, <1>2, <1>6
  <1>9. ASSUME NEW k \in 1 .. n PROVE g[k] = Apply(g[k - 1], opts[k])
    <2>1. k \in 0 .. n /\ k - 1 \in 0 .. n
      BY <1>1
    <2>2. QED
      BY <1>7, <2>1
  <1> HIDE DEF g
  <1>10. QED
    BY <1>8, <1>9 DEF n

\* Option i gives header h.
Gives(opts, i, h) == opts[i].with = "headers" /\ h \in DOMAIN opts[i].value

\* Of the first k options, i is the last that gives h.
LastGives(opts, k, i, h) ==
  /\ i \in 1 .. k /\ Gives(opts, i, h)
  /\ \A j \in 1 .. k : Gives(opts, j, h) => j <= i

\* The headers are those of the first k options, each with the last value given.
HeadersTold(headers, opts, k) ==
  /\ \A h : h \in DOMAIN headers <=> \E i \in 1 .. k : Gives(opts, i, h)
  /\ \A h \in DOMAIN headers : \E i \in 1 .. k :
       LastGives(opts, k, i, h) /\ headers[h] = opts[i].value[h]

\* The credentials are those of the last option that gives some.
AuthTold(user, password, opts, k) ==
  \/ /\ user = "" /\ password = ""
     /\ \A i \in 1 .. k : opts[i].with # "auth"
  \/ \E i \in 1 .. k :
       /\ opts[i].with = "auth" /\ user = opts[i].user /\ password = opts[i].password
       /\ \A j \in 1 .. k : opts[j].with = "auth" => j <= i

\* What the first k options make.
Told(p, opts, k) ==
  /\ p = [timeout |-> p.timeout, user |-> p.user, password |-> p.password,
          headers |-> p.headers, fs |-> p.fs, root |-> p.root]
  /\ HeadersTold(p.headers, opts, k)
  /\ AuthTold(p.user, p.password, opts, k)

LEMMA NoneTold == ASSUME NEW opts PROVE Told(Defaults, opts, 0)
  <1>1. HeadersTold(<<>>, opts, 0)
    BY DEF HeadersTold
  <1>2. AuthTold("", "", opts, 0)
    BY DEF AuthTold
  <1>3. QED
    BY <1>1, <1>2 DEF Told, Defaults

LEMMA OneMore ==
  ASSUME NEW k \in Nat
  PROVE  /\ k + 1 \in 1 .. k + 1 /\ \A i \in 1 .. k : i \in 1 .. k + 1 /\ i <= k + 1 /\ i # k + 1
         /\ \A i \in 1 .. k + 1 : i \in 1 .. k \/ i = k + 1
         /\ k + 1 <= k + 1
  OBVIOUS

\* An option that gives no header leaves them.
LEMMA HeadersLeft ==
  ASSUME NEW headers, NEW opts, NEW k \in Nat, HeadersTold(headers, opts, k),
         opts[k + 1].with # "headers"
  PROVE  HeadersTold(headers, opts, k + 1)
  <1>1. \A h : ~Gives(opts, k + 1, h)
    BY DEF Gives
  <1>2. \A h : \A i \in 1 .. k : LastGives(opts, k, i, h) => LastGives(opts, k + 1, i, h)
    BY <1>1, OneMore DEF LastGives
  <1>3. QED
    BY <1>1, <1>2, OneMore DEF HeadersTold

\* One that gives some gives the last values.
LEMMA HeadersJoin ==
  ASSUME NEW headers, NEW opts, NEW k \in Nat, HeadersTold(headers, opts, k),
         opts[k + 1].with = "headers", NEW more,
         more = [h \in DOMAIN headers \cup DOMAIN opts[k + 1].value |->
                   IF h \in DOMAIN opts[k + 1].value THEN opts[k + 1].value[h] ELSE headers[h]]
  PROVE  HeadersTold(more, opts, k + 1)
  <1> DEFINE given == opts[k + 1].value
  <1>1. \A h : Gives(opts, k + 1, h) <=> h \in DOMAIN given
    BY DEF Gives
  <1>2. /\ DOMAIN more = DOMAIN headers \cup DOMAIN given
        /\ \A h \in DOMAIN more : more[h] = IF h \in DOMAIN given THEN given[h] ELSE headers[h]
    OBVIOUS
  <1> HIDE DEF given
  <1>3. ASSUME NEW h
        PROVE  h \in DOMAIN more <=> \E i \in 1 .. k + 1 : Gives(opts, i, h)
    BY <1>1, <1>2, OneMore DEF HeadersTold
  <1>4. ASSUME NEW h \in DOMAIN more
        PROVE  \E i \in 1 .. k + 1 : LastGives(opts, k + 1, i, h) /\ more[h] = opts[i].value[h]
    <2>1. CASE h \in DOMAIN given
      <3>1. LastGives(opts, k + 1, k + 1, h)
        BY <1>1, <2>1, OneMore DEF LastGives
      <3>2. QED
        BY <1>2, <2>1, <3>1, OneMore DEF given
    <2>2. CASE h \notin DOMAIN given
      <3>1. PICK i \in 1 .. k : LastGives(opts, k, i, h) /\ headers[h] = opts[i].value[h]
        BY <1>2, <2>2 DEF HeadersTold
      <3>2. LastGives(opts, k + 1, i, h)
        BY <1>1, <2>2, <3>1, OneMore DEF LastGives
      <3>3. QED
        BY <1>2, <2>2, <3>1, <3>2, OneMore
    <2>3. QED
      BY <2>1, <2>2
  <1>5. QED
    BY <1>3, <1>4 DEF HeadersTold

LEMMA AuthLeft ==
  ASSUME NEW user, NEW password, NEW opts, NEW k \in Nat, AuthTold(user, password, opts, k),
         opts[k + 1].with # "auth"
  PROVE  AuthTold(user, password, opts, k + 1)
  BY OneMore DEF AuthTold

LEMMA AuthLast ==
  ASSUME NEW opts, NEW k \in Nat, opts[k + 1].with = "auth"
  PROVE  AuthTold(opts[k + 1].user, opts[k + 1].password, opts, k + 1)
  BY OneMore DEF AuthTold

\* An option more.
LEMMA ToldMore ==
  ASSUME NEW p, NEW opts, NEW k \in Nat, Told(p, opts, k), IsOption(opts[k + 1])
  PROVE  Told(Apply(p, opts[k + 1]), opts, k + 1)
  <1> DEFINE x == opts[k + 1]  q == Apply(p, x)
  <1>0. /\ p = [timeout |-> p.timeout, user |-> p.user, password |-> p.password,
                headers |-> p.headers, fs |-> p.fs, root |-> p.root]
        /\ HeadersTold(p.headers, opts, k) /\ AuthTold(p.user, p.password, opts, k)
    BY DEF Told
  <1>1. x.with \in {"timeout", "auth", "root", "fs", "headers"}
    BY DEF IsOption
  <1>2. CASE x.with = "headers"
    <2>1. q = WithCustomHeaders(p, x.value)
      BY <1>2 DEF Apply
    <2>2. /\ q = [timeout |-> p.timeout, user |-> p.user, password |-> p.password,
                  headers |-> q.headers, fs |-> p.fs, root |-> p.root]
          /\ q.headers = [h \in DOMAIN p.headers \cup DOMAIN x.value |->
                            IF h \in DOMAIN x.value THEN x.value[h] ELSE p.headers[h]]
      BY <1>0, <2>1 DEF WithCustomHeaders
    <2> HIDE DEF q
    <2>3. HeadersTold(q.headers, opts, k + 1)
      BY <1>0, <1>2, <2>2, HeadersJoin
    <2>4. AuthTold(q.user, q.password, opts, k + 1)
      <3>1. AuthTold(p.user, p.password, opts, k + 1)
        BY <1>0, <1>2, AuthLeft
      <3>2. q.user = p.user /\ q.password = p.password
        BY <2>2
      <3>3. QED
        BY <3>1, <3>2
    <2>5. q = [timeout |-> q.timeout, user |-> q.user, password |-> q.password,
               headers |-> q.headers, fs |-> q.fs, root |-> q.root]
      BY <2>2
    <2>6. QED
      BY <2>3, <2>4, <2>5 DEF Told, q
  <1>3. CASE x.with = "auth"
    <2>1. q = [p EXCEPT !.user = x.user, !.password = x.password]
      BY <1>3 DEF Apply
    <2>2. q = [timeout |-> p.timeout, user |-> x.user, password |-> x.password,
               headers |-> p.headers, fs |-> p.fs, root |-> p.root]
      BY <1>0, <2>1
    <2> HIDE DEF q
    <2>3. q.headers = p.headers /\ q.user = x.user /\ q.password = x.password
          /\ q = [timeout |-> q.timeout, user |-> q.user, password |-> q.password,
               headers |-> q.headers, fs |-> q.fs, root |-> q.root]
      BY <2>2
    <2>4. HeadersTold(p.headers, opts, k + 1)
      BY <1>0, <1>3, HeadersLeft
    <2>5. AuthTold(x.user, x.password, opts, k + 1)
      BY <1>3, AuthLast
    <2>6. QED
      BY <2>3, <2>4, <2>5 DEF Told, q
  <1>4. CASE x.with \in {"timeout", "root", "fs"}
    <2>1. /\ q.headers = p.headers /\ q.user = p.user /\ q.password = p.password
          /\ q = [timeout |-> q.timeout, user |-> q.user, password |-> q.password,
               headers |-> q.headers, fs |-> q.fs, root |-> q.root]
      <3>1. CASE x.with = "timeout"
        <4>1. q = [p EXCEPT !.timeout = x.value]
          BY <3>1 DEF Apply
        <4> HIDE DEF q
        <4>2. QED
          BY <1>0, <4>1
      <3>2. CASE x.with = "root"
        <4>1. q = [p EXCEPT !.root = x.value, !.fs = "none"]
          BY <3>2 DEF Apply, WithRoot
        <4> HIDE DEF q
        <4>2. QED
          BY <1>0, <4>1
      <3>3. CASE x.with = "fs"
        <4>1. q = [p EXCEPT !.root = <<>>, !.fs = x.value]
          BY <3>3 DEF Apply, WithFS
        <4> HIDE DEF q
        <4>2. QED
          BY <1>0, <4>1
      <3>4. QED
        BY <1>4, <3>1, <3>2, <3>3
    <2> HIDE DEF q
    <2>2. HeadersTold(p.headers, opts, k + 1) /\ AuthTold(p.user, p.password, opts, k + 1)
      BY <1>0, <1>4, HeadersLeft, AuthLeft
    <2>3. QED
      BY <2>1, <2>2 DEF Told, q
  <1>5. QED
    BY <1>1, <1>2, <1>3, <1>4

\* All of them.
LEMMA AllTold ==
  ASSUME NEW c \in Calls
  PROVE  Told(optionsWithDefaults(c.opts), c.opts, Len(c.opts)) /\ Len(c.opts) \in Nat
         /\ DOMAIN c.opts = 1 .. Len(c.opts)
  <1> DEFINE opts == c.opts  n == Len(opts)  S == {opts[i] : i \in DOMAIN opts}
  <1>1. opts \in Seq(S) /\ \A x \in S : IsOption(x)
    BY LoadingAssumption
  <1> HIDE DEF S
  <1>2. n \in Nat /\ DOMAIN opts = 1 .. n
    BY <1>1
  <1>3. \A i \in 1 .. n : IsOption(opts[i])
    BY <1>1, <1>2 DEF S
  <1>4. PICK g : /\ g[0] = Defaults /\ optionsWithDefaults(opts) = g[n]
                 /\ \A k \in 1 .. n : g[k] = Apply(g[k - 1], opts[k])
    BY <1>1, AppliedInTurn
  <1> HIDE DEF opts, n
  <1> DEFINE bad == {k \in 0 .. n : ~Told(g[k], opts, k)}
  <1>5. bad = {}
    <2> SUFFICES ASSUME bad # {} PROVE FALSE
      OBVIOUS
    <2>1. bad \subseteq Nat
      BY <1>2
    <2>2. PICK k \in bad : \A j \in bad : k <= j
      BY <2>1, LeastIndex
    <2>3. k # 0
      BY <1>4, <2>2, NoneTold
    <2>4. k \in 1 .. n /\ k - 1 \in 0 .. n /\ k - 1 \in Nat /\ k - 1 \notin bad /\ (k - 1) + 1 = k
      BY <1>2, <2>2, <2>3
    <2>5. Told(g[k - 1], opts, k - 1) /\ IsOption(opts[k]) /\ g[k] = Apply(g[k - 1], opts[k])
      BY <1>3, <1>4, <2>4
    <2>6. Told(g[k], opts, k)
      BY <2>4, <2>5, ToldMore
    <2>7. QED
      BY <2>2, <2>6
  <1>6. Told(g[n], opts, n)
    BY <1>2, <1>5
  <1>7. QED
    BY <1>2, <1>4, <1>6 DEF opts, n

-----------------------------------------------------------------------------
(* The headers of a request *)

\* Names that headers are sent with.
Sent == {Canonical[h] : h \in DOMAIN Canonical}

Credentials == o.user # "" /\ o.password # ""

\* The request has the credentials, if there are both parts of them, and then
\* those of the custom headers that are set, one of the values of each name.
Asks(headers) ==
  \A c \in Sent :
    LET spelled == {h \in headers : Canonical[h] = c} IN
    /\ spelled # {} => c \in DOMAIN request /\ \E h \in spelled : request[c] = o.headers[h]
    /\ spelled = {} /\ c = "Authorization" /\ Credentials =>
         c \in DOMAIN request /\ request[c] = o.user
    /\ spelled = {} /\ ~(c = "Authorization" /\ Credentials) => c \notin DOMAIN request

\* The options are known once a load has begun, its request grows header by
\* header, and has them all when it is sent.
AskInv ==
  /\ call \in Calls
  /\ pc # "idle" => o = optionsWithDefaults(call.opts)
  /\ pc = "headers" => todo \subseteq DOMAIN o.headers /\ Asks(DOMAIN o.headers \ todo)
  /\ pc \notin {"idle", "request", "headers"} /\ wire # "none" => Asks(DOMAIN o.headers)

LEMMA AskInit == Init => AskInv
  BY DEF Init, AskInv

\* A header more: it takes the place of those of the same name.
LEMMA SetAsks ==
  ASSUME NEW h \in DOMAIN o.headers, NEW set, Asks(set), o' = o,
         DOMAIN o.headers \subseteq DOMAIN Canonical,
         request' = [k \in DOMAIN request \cup {Canonical[h]} |->
                       IF k = Canonical[h] THEN o.headers[h] ELSE request[k]]
  PROVE  Asks(set \cup {h})'
  <1>1. ASSUME NEW c \in Sent, c = Canonical[h]
        PROVE  c \in DOMAIN request' /\ request'[c] = o.headers[h]
    BY <1>1
  <1>2. ASSUME NEW c \in Sent, c # Canonical[h]
        PROVE  /\ c \in DOMAIN request' <=> c \in DOMAIN request
               /\ c \in DOMAIN request => request'[c] = request[c]
               /\ {k \in set \cup {h} : Canonical[k] = c} = {k \in set : Canonical[k] = c}
    BY <1>2
  <1>3. ASSUME NEW c \in Sent, c = Canonical[h]
        PROVE  h \in {k \in set \cup {h} : Canonical[k] = c}
    BY <1>3
  <1>4. o.headers' = o.headers /\ o.user' = o.user /\ o.password' = o.password
    OBVIOUS
  <1>5. QED
    BY <1>1, <1>2, <1>3, <1>4 DEF Asks, Credentials

\* The request before any of them.
LEMMA FirstAsks ==
  ASSUME o' = o, request' = IF Credentials THEN [h \in {"Authorization"} |-> o.user] ELSE <<>>
  PROVE  Asks({})'
  <1>1. CASE Credentials
    <2>1. DOMAIN request' = {"Authorization"} /\ request'["Authorization"] = o.user
      BY <1>1
    <2>2. QED
      BY <1>1, <2>1 DEF Asks, Credentials
  <1>2. CASE ~Credentials
    <2>1. \A c : c \notin DOMAIN request'
      BY <1>2
    <2>2. QED
      BY <1>2, <2>1 DEF Asks, Credentials
  <1>3. QED
    BY <1>1, <1>2

\* Headers given have a name.
LEMMA HeadersNamed ==
  ASSUME NEW c \in Calls
  PROVE  DOMAIN optionsWithDefaults(c.opts).headers \subseteq DOMAIN Canonical
  <1> DEFINE p == optionsWithDefaults(c.opts)
  <1>1. HeadersTold(p.headers, c.opts, Len(c.opts)) /\ DOMAIN c.opts = 1 .. Len(c.opts)
    BY AllTold DEF Told
  <1>2. \A i \in DOMAIN c.opts : IsOption(c.opts[i])
    BY LoadingAssumption
  <1> HIDE DEF p
  <1>3. ASSUME NEW h \in DOMAIN p.headers PROVE h \in DOMAIN Canonical
    <2>1. PICK i \in 1 .. Len(c.opts) : Gives(c.opts, i, h)
      BY <1>1 DEF HeadersTold
    <2>2. QED
      BY <1>1, <1>2, <2>1 DEF Gives, IsOption
  <1>4. QED
    BY <1>3 DEF p

LEMMA AsksUnchanged ==
  ASSUME NEW set, Asks(set), UNCHANGED <<o, request>>
  PROVE  Asks(set)'
  BY DEF Asks, Credentials

LEMMA AskStep == LoadInv /\ AskInv /\ [Next]_vars => AskInv'
  <1> SUFFICES ASSUME LoadInv, AskInv, [Next]_vars PROVE AskInv'
    OBVIOUS
  <1> USE DEF exchange, context, result, Goto, Return
  <1>0. /\ call \in Calls
        /\ pc # "idle" => o = optionsWithDefaults(call.opts)
        /\ pc = "headers" => todo \subseteq DOMAIN o.headers /\ Asks(DOMAIN o.headers \ todo)
        /\ pc \notin {"idle", "request", "headers"} /\ wire # "none" => Asks(DOMAIN o.headers)
    BY DEF AskInv
  <1>1. CASE Begin
    <2>1. pc = "idle" /\ wire = "none"
      BY <1>1 DEF Begin, LoadInv, Heard
    <2>2. call' = call /\ wire' = wire /\ o' = optionsWithDefaults(call.opts)
          /\ pc' \in {"request", "local"}
      BY <1>1 DEF Begin
    <2>3. QED
      BY <1>0, <2>1, <2>2 DEF AskInv
  <1>2. CASE NewRequest
    <2>1. pc = "request" /\ wire = "none" /\ wire' = "none" /\ call' = call /\ o' = o
      BY <1>2 DEF NewRequest, LoadInv, Heard
    <2>2. CASE pc' = "headers"
      <3>1. /\ request' = IF Credentials THEN [h \in {"Authorization"} |-> o.user] ELSE <<>>
            /\ todo' = DOMAIN o.headers
        BY <1>2, <2>2 DEF NewRequest, Credentials
      <3>2. Asks({})'
        BY <2>1, <3>1, FirstAsks
      <3>3. DOMAIN o'.headers \ todo' = {} /\ todo' \subseteq DOMAIN o'.headers
        BY <2>1, <3>1
      <3>4. Asks(DOMAIN o.headers \ todo)'
        BY <3>2, <3>3 DEF Asks
      <3>5. QED
        BY <1>0, <2>1, <2>2, <3>3, <3>4 DEF AskInv
    <2>3. CASE pc' # "headers"
      BY <1>0, <2>1, <2>3 DEF AskInv
    <2>4. QED
      BY <2>2, <2>3
  <1>3. ASSUME NEW h \in todo, SetHeader(h) PROVE AskInv'
    <2>1. /\ pc = "headers" /\ pc' = pc /\ wire' = wire /\ call' = call /\ o' = o
          /\ todo' = todo \ {h}
          /\ request' = [k \in DOMAIN request \cup {Canonical[h]} |->
                           IF k = Canonical[h] THEN o.headers[h] ELSE request[k]]
      BY <1>3 DEF SetHeader
    <2>2. /\ h \in DOMAIN o.headers /\ Asks(DOMAIN o.headers \ todo)
          /\ DOMAIN o.headers \subseteq DOMAIN Canonical
      BY <1>0, <2>1, HeadersNamed
    <2>3. Asks((DOMAIN o.headers \ todo) \cup {h})'
      BY <2>1, <2>2, SetAsks
    <2>4. (DOMAIN o.headers \ todo) \cup {h} = DOMAIN o.headers \ todo'
          /\ todo' \subseteq DOMAIN o.headers
      BY <1>0, <2>1
    <2>5. Asks(DOMAIN o.headers \ todo)'
      BY <2>1, <2>3, <2>4 DEF Asks
    <2>6. QED
      BY <1>0, <2>1, <2>4, <2>5 DEF AskInv
  <1>4. CASE Do
    <2>1. /\ pc = "headers" /\ pc' = "do" /\ todo = {} /\ UNCHANGED <<call, o, request>>
      BY <1>4 DEF Do
    <2>2. Asks(DOMAIN o.headers)
      <3>1. DOMAIN o.headers \ todo = DOMAIN o.headers
        BY <2>1
      <3>2. QED
        BY <1>0, <2>1, <3>1
    <2>3. Asks(DOMAIN o.headers)'
      BY <2>1, <2>2 DEF Asks, Credentials
    <2>4. QED
      BY <1>0, <2>1, <2>3 DEF AskInv
  <1>5. CASE /\ UNCHANGED <<call, o, todo, request>>
             /\ \/ pc' = pc
                \/ pc \notin {"idle", "request", "headers"} /\ pc' \notin {"idle", "request", "headers"}
             /\ wire' = wire \/ wire = "sent"
    <2>1. \A set : Asks(set) => Asks(set)'
      BY <1>5, AsksUnchanged
    <2>2. wire' # "none" => wire # "none"
      BY <1>5
    <2>3. Asks(DOMAIN o.headers) => Asks(DOMAIN o.headers)'
      BY <1>5 DEF Asks, Credentials
    <2>4. Asks(DOMAIN o.headers \ todo) => Asks(DOMAIN o.headers \ todo)'
      BY <1>5 DEF Asks, Credentials
    <2>5. QED
      BY <1>0, <1>5, <2>2, <2>3, <2>4 DEF AskInv
  <1>6. CASE LoadLocal
    BY <1>5, <1>6 DEF LoadLocal, Local, OpenRoot, ReadLocal
  <1>7. CASE DoAnswered \/ DoExpired \/ Status
    BY <1>5, <1>7 DEF DoAnswered, DoExpired, Status
  <1>8. CASE ReadChunk \/ ReadEnd \/ ReadExpired
    BY <1>5, <1>8 DEF ReadChunk, ReadEnd, ReadExpired
  <1>9. CASE Deferred
    BY <1>5, <1>9 DEF Deferred, Close, Cancel, Finish
  <1>10. CASE Environment
    BY <1>5, <1>10 DEF Environment, TimerFires, Answer, SendChunk, SendEnd
  <1>11. CASE UNCHANGED vars
    BY <1>5, <1>11 DEF vars
  <1>12. QED
    BY <1>1, <1>2, <1>3, <1>4, <1>6, <1>7, <1>8, <1>9, <1>10, <1>11 DEF Next, LoadHTTP

-----------------------------------------------------------------------------
(* What the options say *)

\* The last of some numbers.
LEMMA MaxIs ==
  ASSUME NEW S, NEW i \in S, S \subseteq Nat, \A j \in S : j <= i
  PROVE  Max(S) = i
  <1>1. \A x \in S : x >= i => x = i
    OBVIOUS
  <1>2. \A y \in S : i >= y
    OBVIOUS
  <1>3. QED
    BY <1>1, <1>2 DEF Max

\* An option gives these credentials, or there is none.
GivenBy(auth, user, password) ==
  \/ auth.with = "none" /\ user = "" /\ password = ""
  \/ auth.with = "auth" /\ auth.user = user /\ auth.password = password

\* The credentials of a call are those of its last WithBasicAuth.
LEMMA AuthIsLast ==
  ASSUME NEW user, NEW password, AuthTold(user, password, call.opts, Len(call.opts)),
         DOMAIN call.opts = 1 .. Len(call.opts), Len(call.opts) \in Nat,
         NEW auth, auth = LastOf({"auth"})
  PROVE  GivenBy(auth, user, password)
  <1> DEFINE at == {i \in DOMAIN call.opts : call.opts[i].with \in {"auth"}}
  <1>1. CASE at = {}
    <2>1. auth = [with |-> "none"]
      BY <1>1 DEF LastOf
    <2>2. user = "" /\ password = ""
      BY <1>1 DEF AuthTold
    <2>3. auth.with = "none"
      BY <2>1
    <2>4. QED
      BY <2>2, <2>3 DEF GivenBy
  <1>2. CASE at # {}
    <2>1. PICK i \in 1 .. Len(call.opts) :
            /\ call.opts[i].with = "auth" /\ user = call.opts[i].user
            /\ password = call.opts[i].password
            /\ \A j \in 1 .. Len(call.opts) : call.opts[j].with = "auth" => j <= i
      BY <1>2 DEF AuthTold
    <2>2. Max(at) = i
      <3>1. i \in at /\ at \subseteq Nat /\ \A j \in at : j <= i
        BY <2>1
      <3> HIDE DEF at
      <3>2. QED
        BY <3>1, MaxIs
    <2>3. auth = call.opts[i]
      BY <1>2, <2>2 DEF LastOf
    <2>4. QED
      BY <2>1, <2>3 DEF GivenBy
  <1>3. QED
    BY <1>1, <1>2

\* The last value that the options give for header h.
ValueOf(h, value) ==
  \E i \in DOMAIN call.opts : LastGives(call.opts, Len(call.opts), i, h)
                              /\ value = call.opts[i].value[h]

\* What AsksAsTold makes of the options.
LastMentions(c, h) ==
  {m \in Mentions(c) : m[2] = h /\ \A n \in Mentions(c) : n[2] = h => n[1] <= m[1]}

ValuesFor(c) ==
  {call.opts[m[1]].value[m[2]] : m \in UNION {LastMentions(c, h) : h \in DOMAIN Canonical}}

\* They are the last values of the headers that are sent as c.
LEMMA ValuesAre ==
  ASSUME NEW c, NEW h \in DOMAIN Canonical, Canonical[h] = c, NEW value, ValueOf(h, value),
         DOMAIN call.opts = 1 .. Len(call.opts)
  PROVE  value \in ValuesFor(c)
  <1>1. PICK i \in DOMAIN call.opts :
          LastGives(call.opts, Len(call.opts), i, h) /\ value = call.opts[i].value[h]
    BY DEF ValueOf
  <1> DEFINE m == <<i, h>>
  <1>2. m \in Mentions(c)
    BY <1>1 DEF Mentions, LastGives, Gives
  <1>3. ASSUME NEW n \in Mentions(c), n[2] = h PROVE n[1] <= m[1]
    <2>1. n[1] \in DOMAIN call.opts /\ Gives(call.opts, n[1], h)
      BY <1>3 DEF Mentions, Gives
    <2>2. QED
      BY <1>1, <2>1 DEF LastGives
  <1>4. m \in LastMentions(c, h)
    BY <1>2, <1>3 DEF LastMentions
  <1>5. QED
    BY <1>1, <1>4 DEF ValuesFor

LEMMA ValuesGiven ==
  ASSUME NEW c, ValuesFor(c) # {}
  PROVE  \E i \in DOMAIN call.opts, h \in DOMAIN Canonical : Canonical[h] = c /\ Gives(call.opts, i, h)
  BY DEF ValuesFor, LastMentions, Mentions, Gives

\* A request that has what the options made asks as it was told.
LEMMA AsksTold ==
  ASSUME call \in Calls, o = optionsWithDefaults(call.opts), Asks(DOMAIN o.headers),
         NEW c \in Sent
  PROVE  LET auth == LastOf({"auth"})
             values == ValuesFor(c)
             credentials == IF c = "Authorization" /\ auth.with = "auth" /\ auth.user # "" /\ auth.password # ""
                            THEN {auth.user} ELSE {}
             right == IF values # {} THEN values ELSE credentials
         IN IF right = {} THEN c \notin DOMAIN request
            ELSE c \in DOMAIN request /\ request[c] \in right
  <1> DEFINE auth == LastOf({"auth"})
             values == ValuesFor(c)
             credentials == IF c = "Authorization" /\ auth.with = "auth" /\ auth.user # "" /\ auth.password # ""
                            THEN {auth.user} ELSE {}
             spelled == {h \in DOMAIN o.headers : Canonical[h] = c}
  <1>1. /\ HeadersTold(o.headers, call.opts, Len(call.opts))
        /\ AuthTold(o.user, o.password, call.opts, Len(call.opts))
        /\ DOMAIN call.opts = 1 .. Len(call.opts) /\ Len(call.opts) \in Nat
        /\ DOMAIN o.headers \subseteq DOMAIN Canonical
    BY AllTold, HeadersNamed DEF Told
  <1>2. /\ spelled # {} => c \in DOMAIN request /\ \E h \in spelled : request[c] = o.headers[h]
        /\ spelled = {} /\ c = "Authorization" /\ Credentials =>
             c \in DOMAIN request /\ request[c] = o.user
        /\ spelled = {} /\ ~(c = "Authorization" /\ Credentials) => c \notin DOMAIN request
    BY DEF Asks
  <1>3. CASE spelled # {}
    <2>1. PICK h \in DOMAIN o.headers : Canonical[h] = c /\ request[c] = o.headers[h]
      BY <1>2, <1>3
    <2>2. ValueOf(h, o.headers[h])
      BY <1>1, <2>1 DEF HeadersTold, ValueOf
    <2>3. request[c] \in values
      BY <1>1, <2>1, <2>2, ValuesAre
    <2> HIDE DEF values, spelled
    <2>4. QED
      BY <1>2, <1>3, <2>3 DEF values
  <1>4. CASE spelled = {}
    <2>1. values = {}
      <3> SUFFICES ASSUME values # {} PROVE FALSE
        OBVIOUS
      <3>1. PICK i \in DOMAIN call.opts, h \in DOMAIN Canonical : Canonical[h] = c /\ Gives(call.opts, i, h)
        BY ValuesGiven
      <3>2. h \in DOMAIN o.headers
        BY <1>1, <3>1 DEF HeadersTold
      <3>3. QED
        BY <1>4, <3>1, <3>2
    <2>0. auth = LastOf({"auth"})
      OBVIOUS
    <2> HIDE DEF values, spelled, auth
    <2>2. GivenBy(auth, o.user, o.password)
      BY <1>1, <2>0, AuthIsLast
    <2>3. Credentials <=> (auth.with = "auth" /\ auth.user # "" /\ auth.password # "")
      BY <2>2 DEF Credentials, GivenBy
    <2>4. CASE c = "Authorization" /\ Credentials
      <3>1. credentials = {o.user} /\ c \in DOMAIN request /\ request[c] = o.user
        BY <1>2, <1>4, <2>2, <2>3, <2>4 DEF Credentials, GivenBy
      <3> HIDE DEF credentials
      <3>2. IF (IF values # {} THEN values ELSE credentials) = {} THEN c \notin DOMAIN request
            ELSE c \in DOMAIN request /\ request[c] \in (IF values # {} THEN values ELSE credentials)
        BY <2>1, <3>1
      <3>3. QED
        BY <3>2 DEF credentials, values, auth
    <2>5. CASE ~(c = "Authorization" /\ Credentials)
      <3>1. credentials = {} /\ c \notin DOMAIN request
        BY <1>2, <1>4, <2>3, <2>5
      <3> HIDE DEF credentials
      <3>2. IF (IF values # {} THEN values ELSE credentials) = {} THEN c \notin DOMAIN request
            ELSE c \in DOMAIN request /\ request[c] \in (IF values # {} THEN values ELSE credentials)
        BY <2>1, <3>1
      <3>3. QED
        BY <3>2 DEF credentials, values, auth
    <2>6. QED
      BY <2>4, <2>5
  <1>5. QED
    BY <1>3, <1>4

\* Whatever options a call is given, and in whatever order, its request has the
\* headers of all of them, the last value for each, and its credentials.
THEOREM AlwaysAsksAsTold == Spec => []AsksAsTold
  <1>1. Spec => [](LoadInv /\ AskInv)
    <2>1. LoadInv /\ AskInv /\ [Next]_vars => AskInv'
      BY AskStep
    <2>2. QED
      BY <2>1, AskInit, LoadSafe, PTL DEF Spec
  <1>2. LoadInv /\ AskInv => AsksAsTold
    <2> SUFFICES ASSUME LoadInv, AskInv, wire # "none" PROVE AsksAsTold
      BY DEF AsksAsTold
    <2>1. pc \notin {"idle", "request", "headers"}
      BY DEF LoadInv, Heard
    <2>2. call \in Calls /\ o = optionsWithDefaults(call.opts) /\ Asks(DOMAIN o.headers)
      BY <2>1 DEF AskInv
    <2>3. QED
      BY <2>2, AsksTold DEF AsksAsTold, ValuesFor, LastMentions, Sent
  <1>3. QED
    BY <1>1, <1>2, PTL

=============================================================================
