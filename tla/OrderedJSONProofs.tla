-------------------------- MODULE OrderedJSONProofs --------------------------
(***************************************************************************)
(* What OrderedJSON promises, for every set of keys and scalars, every     *)
(* depth and documents of any length: the guard bounds the stack of the    *)
(* routines, a call that fails changes nothing, one succeeds on the well-  *)
(* formed objects within the depth and on nothing else, and an update keeps *)
(* what was there in its place.                                            *)
(*                                                                         *)
(* AcceptsObjects relates two readings of a document: the decoder's, which *)
(* folds the tokens into what it awaits (Open), and that of the routines,  *)
(* which keep a stack.  The invariant is that the stack has the shape of   *)
(* what the decoder awaits, for as long as there is no error.              *)
(*                                                                         *)
(* UpdatesInPlace is about the fold of SetOrderedItems, which looks keys up *)
(* in an index made before it starts.  Of the list it has after some of the *)
(* items it keeps (Updated) that the old part has the old keys, that what  *)
(* was appended has none of them, and that the last place of a key that was *)
(* given holds the last value given for it.                                *)
(***************************************************************************)
EXTENDS OrderedJSON, TLAPS, WellFoundedInduction, SequenceTheorems

\* A set of numbers has a least one.
LEMMA LeastIndex ==
  ASSUME NEW S, S \subseteq Nat, S # {}
  PROVE  \E i \in S : \A j \in S : i <= j
  <1>1. PICK i \in S : \A j \in S : <<j, i>> \notin OpToRel(<, Nat)
    BY NatLessThanWellFounded, WFMin
  <1>2. \A j \in S : ~(j < i)
    BY <1>1 DEF OpToRel
  <1>3. QED
    BY <1>2

-----------------------------------------------------------------------------
(* The fold that Open is *)

\* g folds the tokens at the places of any set of the first n.
Folds(g, tokens, n) ==
  g = [s \in SUBSET (1 .. n) |->
         IF s = {} THEN <<>> ELSE After(g[s \ {Max(s)}], tokens[Max(s)])]

\* The greatest of the first numbers, and those before it.
LEMMA MaxInitial ==
  ASSUME NEW n \in Nat, NEW s \in SUBSET (1 .. n + 1), n + 1 \in s
  PROVE  Max(s) = n + 1 /\ s \ {Max(s)} \in SUBSET (1 .. n)
  <1>1. \A x \in s : x >= n + 1 => x = n + 1
    OBVIOUS
  <1>2. \A y \in s : n + 1 >= y
    OBVIOUS
  <1>3. Max(s) = n + 1
    BY <1>1, <1>2 DEF Max
  <1>4. QED
    BY <1>3

\* The function that folds the first n tokens exists: no n is the least one
\* without it.
LEMMA FoldExists ==
  ASSUME NEW tokens, NEW n \in Nat
  PROVE  \E g : Folds(g, tokens, n)
  <1> DEFINE bad == {k \in Nat : ~\E g : Folds(g, tokens, k)}
  <1>1. SUFFICES ASSUME bad # {} PROVE FALSE
    OBVIOUS
  <1>2. PICK m \in bad : \A k \in bad : m <= k
    BY <1>1, LeastIndex
  <1>3. m # 0
    <2> DEFINE g == [s \in SUBSET (1 .. 0) |-> <<>>]
    <2>1. SUBSET (1 .. 0) = {{}}
      OBVIOUS
    <2>2. Folds(g, tokens, 0)
      BY <2>1 DEF Folds
    <2>3. 0 \notin bad
      BY <2>2
    <2>4. QED
      BY <1>2, <2>3
  <1>4. m - 1 \in Nat /\ m - 1 \notin bad /\ m \in Nat
    BY <1>2, <1>3
  <1>5. PICK f : Folds(f, tokens, m - 1)
    BY <1>4
  <1> DEFINE g == [s \in SUBSET (1 .. m) |->
                     IF m \in s THEN After(f[s \ {m}], tokens[m]) ELSE f[s]]
  <1>6. \A s \in SUBSET (1 .. m) : m \notin s => s \in SUBSET (1 .. m - 1)
    BY <1>4
  <1>7. ASSUME NEW s \in SUBSET (1 .. m)
        PROVE  g[s] = IF s = {} THEN <<>> ELSE After(g[s \ {Max(s)}], tokens[Max(s)])
    <2>1. CASE m \in s
      <3>1. Max(s) = m /\ s \ {m} \in SUBSET (1 .. m - 1)
        BY <1>4, <2>1, MaxInitial
      <3>2. s \ {m} \in SUBSET (1 .. m) /\ m \notin s \ {m}
        BY <1>6
      <3>3. g[s \ {m}] = f[s \ {m}]
        BY <3>2
      <3>4. QED
        BY <2>1, <3>1, <3>3
    <2>2. CASE m \notin s
      <3>1. s \in SUBSET (1 .. m - 1)
        BY <1>6, <2>2
      <3>2. f[s] = IF s = {} THEN <<>> ELSE After(f[s \ {Max(s)}], tokens[Max(s)])
        BY <1>5, <3>1 DEF Folds
      <3>3. s \ {Max(s)} \in SUBSET (1 .. m) /\ m \notin s \ {Max(s)}
        BY <2>2
      <3>4. g[s] = f[s] /\ g[s \ {Max(s)}] = f[s \ {Max(s)}]
        BY <2>2, <3>3
      <3>5. QED
        BY <3>2, <3>4
    <2>3. QED
      BY <2>1, <2>2
  <1>8. Folds(g, tokens, m)
    <2>1. g = [s \in SUBSET (1 .. m) |-> g[s]]
      OBVIOUS
    <2> HIDE DEF g
    <2>2. QED
      BY <1>7, <2>1 DEF Folds
  <1>9. QED
    BY <1>2, <1>8

\* Open is what such a function is at all the places.
LEMMA OpenFolds ==
  ASSUME NEW S, NEW tokens \in Seq(S)
  PROVE  \E g : Folds(g, tokens, Len(tokens)) /\ Open(tokens) = g[1 .. Len(tokens)]
  <1>1. DOMAIN tokens = 1 .. Len(tokens) /\ Len(tokens) \in Nat
    OBVIOUS
  <1> DEFINE F(g) == g = [s \in SUBSET (DOMAIN tokens) |->
                   IF s = {} THEN <<>> ELSE After(g[s \ {Max(s)}], tokens[Max(s)])]
  <1>2. Open(tokens) = (CHOOSE g : F(g))[DOMAIN tokens]
    BY DEF Open, FoldLeft, MapThenFoldSet
  <1>3. \E g : F(g)
    <2>1. PICK g : Folds(g, tokens, Len(tokens))
      BY <1>1, FoldExists
    <2>2. F(g)
      BY <1>1, <2>1 DEF Folds
    <2>3. QED
      BY <2>2
  <1>4. F(CHOOSE g : F(g))
    BY <1>3
  <1> DEFINE h == CHOOSE g : F(g)
  <1>5. Folds(h, tokens, Len(tokens))
    BY <1>1, <1>4 DEF Folds
  <1>6. QED
    BY <1>1, <1>2, <1>5

\* The fold of the first k tokens.
LEMMA FoldStep ==
  ASSUME NEW tokens, NEW n \in Nat, NEW g, Folds(g, tokens, n)
  PROVE  /\ g[1 .. 0] = <<>>
         /\ \A k \in 1 .. n : g[1 .. k] = After(g[1 .. k - 1], tokens[k])
  <1>1. g[1 .. 0] = <<>>
    BY DEF Folds
  <1>2. ASSUME NEW k \in 1 .. n PROVE g[1 .. k] = After(g[1 .. k - 1], tokens[k])
    <2>1. k - 1 \in Nat /\ 1 .. k \in SUBSET (1 .. n) /\ 1 .. k # {} /\ (k - 1) + 1 = k
          /\ k \in 1 .. k
      OBVIOUS
    <2>2. Max(1 .. k) = k
      BY <2>1, MaxInitial
    <2>3. (1 .. k) \ {k} = 1 .. k - 1
      BY <2>1
    <2>4. g[1 .. k] = After(g[(1 .. k) \ {Max(1 .. k)}], tokens[Max(1 .. k)])
      BY <2>1 DEF Folds
    <2>5. QED
      BY <2>2, <2>3, <2>4
  <1>3. QED
    BY <1>1, <1>2

\* Two folds of the same tokens agree.
LEMMA FoldsAgree ==
  ASSUME NEW tokens, NEW n \in Nat, NEW g, Folds(g, tokens, n),
         NEW more, NEW m \in Nat, NEW h, Folds(h, more, m),
         n <= m, \A k \in 1 .. n : tokens[k] = more[k]
  PROVE  g[1 .. n] = h[1 .. n]
  <1> DEFINE bad == {k \in 0 .. n : g[1 .. k] # h[1 .. k]}
  <1>1. SUFFICES ASSUME bad # {} PROVE FALSE
    OBVIOUS
  <1>2. bad \subseteq Nat
    OBVIOUS
  <1>3. PICK k \in bad : \A j \in bad : k <= j
    BY <1>1, <1>2, LeastIndex
  <1>4. k # 0
    BY <1>3, FoldStep
  <1>5. k \in 1 .. n /\ k \in 1 .. m /\ k - 1 \in 0 .. n /\ k - 1 \notin bad
    BY <1>3, <1>4
  <1>6. g[1 .. k] = After(g[1 .. k - 1], tokens[k]) /\ h[1 .. k] = After(h[1 .. k - 1], more[k])
    BY <1>5, FoldStep
  <1>7. g[1 .. k - 1] = h[1 .. k - 1]
    BY <1>5
  <1>8. QED
    BY <1>3, <1>5, <1>6, <1>7

\* Open, by recursion.
LEMMA OpenEmpty == Open(<<>>) = <<>>
  <1>1. <<>> \in Seq({}) /\ Len(<<>>) = 0
    OBVIOUS
  <1>2. PICK g : Folds(g, <<>>, 0) /\ Open(<<>>) = g[1 .. 0]
    BY <1>1, OpenFolds
  <1>3. QED
    BY <1>2, FoldStep

\* The decoder takes the tokens one by one.
LEMMA OpenAppend ==
  ASSUME NEW S, NEW tokens \in Seq(S), NEW t \in S
  PROVE  Open(Append(tokens, t)) = After(Open(tokens), t)
  <1> DEFINE more == Append(tokens, t)  n == Len(tokens)
  <1>1. /\ more \in Seq(S) /\ Len(more) = n + 1 /\ n \in Nat
        /\ (\A k \in 1 .. n : tokens[k] = more[k]) /\ more[n + 1] = t
    BY AppendProperties
  <1>2. PICK g : Folds(g, tokens, n) /\ Open(tokens) = g[1 .. n]
    BY OpenFolds
  <1> HIDE DEF more
  <1>3. PICK h : Folds(h, more, n + 1) /\ Open(more) = h[1 .. n + 1]
    BY <1>1, OpenFolds
  <1> HIDE DEF n
  <1>4. g[1 .. n] = h[1 .. n]
    BY <1>1, <1>2, <1>3, FoldsAgree
  <1>5. n + 1 \in 1 .. n + 1 /\ (n + 1) - 1 = n /\ n + 1 \in Nat
    BY <1>1
  <1>6. h[1 .. n + 1] = After(h[1 .. n], more[n + 1])
    BY <1>3, <1>5, FoldStep
  <1>7. QED
    BY <1>1, <1>2, <1>3, <1>4, <1>6 DEF more, n

-----------------------------------------------------------------------------
\* The last, and all the others.
LEMMA LastOf ==
  ASSUME NEW S, NEW s \in Seq(S), NEW n \in Nat, Len(s) = n, n >= 1
  PROVE  s # <<>> /\ Last(s) = s[n]
  BY DEF Last

LEMMA FrontOf ==
  ASSUME NEW S, NEW s \in Seq(S), NEW n \in Nat, Len(s) = n, n >= 1
  PROVE  /\ Front(s) \in Seq(S) /\ Len(Front(s)) = n - 1
         /\ \A i \in 1 .. n - 1 : Front(s)[i] = s[i]
  <1>1. \A i \in 1 .. n - 1 : s[i] \in S
    OBVIOUS
  <1>2. /\ SubSeq(s, 1, n - 1) \in Seq(S)
        /\ Len(SubSeq(s, 1, n - 1)) = IF 1 <= n - 1 THEN n - 1 - 1 + 1 ELSE 0
        /\ \A i \in 1 .. n - 1 - 1 + 1 : SubSeq(s, 1, n - 1)[i] = s[1 + i - 1]
    BY <1>1, SubSeqProperties
  <1>3. QED
    BY <1>2 DEF Front

(* The stack *)

Tokens == Keys \cup Plain \cup Opens \cup {"}", "]"} \cup Stops

Awaited == {"{", "[", ":"}

\* A stack of containers, with the budgets that their places give them.
Framed(fs) ==
  /\ fs \in Seq({fs[i] : i \in DOMAIN fs})
  /\ \A i \in 1 .. Len(fs) :
       /\ fs[i].kind \in Opens
       /\ fs[i] = [kind |-> fs[i].kind, items |-> fs[i].items, key |-> fs[i].key,
                   budget |-> MaxDepth + 1 - i]

\* What the decoder awaits, when the routines are at p with stack fs.
Shape(fs, p) ==
  [i \in 1 .. Len(fs) |-> IF i = Len(fs) /\ p = "value" THEN ":" ELSE fs[i].kind]

\* A value is awaited by the key of an object only.
Poised(fs, p) ==
  p = "value" => Len(fs) > 0 /\ \A i \in 1 .. Len(fs) : i = Len(fs) => fs[i].kind = "{"

\* A container of kind t, entered with n around it.
Entered(f, t, n) == f = [kind |-> t, items |-> <<>>, key |-> "", budget |-> MaxDepth - n]

\* The innermost container with other items and another key.
Edited(f, fs, items, key) ==
  f = [kind |-> fs[Len(fs)].kind, items |-> items, key |-> key, budget |-> fs[Len(fs)].budget]

LEMMA DepthNat == MaxDepth \in Nat /\ MaxDepth > 0
  <1>1. MaxDepth \in Nat \ {0}
    BY OrderedJSONAssumption
  <1>2. QED
    BY <1>1

LEMMA FramedLen ==
  ASSUME NEW fs, Framed(fs)
  PROVE  /\ Len(fs) \in Nat /\ DOMAIN fs = 1 .. Len(fs)
         /\ fs # <<>> => Len(fs) \in 1 .. Len(fs)
         /\ Len(fs) = 0 => fs = <<>>
  BY DEF Framed

LEMMA FramedIntro ==
  ASSUME NEW S, NEW fs \in Seq(S),
         \A i \in 1 .. Len(fs) :
           /\ fs[i].kind \in Opens
           /\ fs[i] = [kind |-> fs[i].kind, items |-> fs[i].items, key |-> fs[i].key,
                       budget |-> MaxDepth + 1 - i]
  PROVE  Framed(fs)
  <1> DEFINE R == {fs[i] : i \in DOMAIN fs}
  <1>1. fs \in [1 .. Len(fs) -> R] /\ Len(fs) \in Nat
    OBVIOUS
  <1> HIDE DEF R
  <1>2. fs \in Seq(R)
    BY <1>1, SeqDef
  <1>3. QED
    BY <1>2 DEF Framed, R

\* A container is entered.
LEMMA Pushed ==
  ASSUME NEW fs, Framed(fs), NEW t \in Opens, NEW f, Entered(f, t, Len(fs))
  PROVE  /\ Framed(Append(fs, f)) /\ Len(Append(fs, f)) = Len(fs) + 1
         /\ Append(fs, f)[Len(fs) + 1].kind = t
         /\ \A i \in 1 .. Len(fs) : Append(fs, f)[i] = fs[i]
  <1> DEFINE S == {fs[i] : i \in DOMAIN fs} \cup {f}  gs == Append(fs, f)
  <1>0. PICK n \in Nat : n = Len(fs)
    BY FramedLen
  <1>1. fs \in Seq(S) /\ n = Len(fs) /\ f \in S
    <2>1. {fs[i] : i \in DOMAIN fs} \subseteq S
      OBVIOUS
    <2> HIDE DEF S
    <2>2. fs \in Seq(S)
      BY <2>1, SeqMonotonic DEF Framed
    <2>3. QED
      BY <1>0, <2>2 DEF S
  <1>2. gs \in Seq(S) /\ Len(gs) = n + 1 /\ gs[n + 1] = f /\ \A i \in 1 .. n : gs[i] = fs[i]
    <2> HIDE DEF S
    <2>1. QED
      BY <1>1, AppendProperties
  <1> HIDE DEF gs
  <1>3. ASSUME NEW i \in 1 .. Len(gs)
        PROVE  /\ gs[i].kind \in Opens
               /\ gs[i] = [kind |-> gs[i].kind, items |-> gs[i].items, key |-> gs[i].key,
                           budget |-> MaxDepth + 1 - i]
    <2>1. CASE i = n + 1
      <3>1. MaxDepth + 1 - i = MaxDepth - n
        BY <2>1, DepthNat
      <3>2. f.kind = t /\ t \in Opens /\ f = [kind |-> f.kind, items |-> f.items, key |-> f.key,
                                            budget |-> MaxDepth - n]
        BY <1>0 DEF Entered
      <3>3. QED
        BY <1>2, <2>1, <3>1, <3>2
    <2>2. CASE i # n + 1
      <3>1. i \in 1 .. n
        BY <1>2, <1>0, <2>2
      <3>2. QED
        BY <1>0, <1>2, <3>1 DEF Framed
    <2>3. QED
      BY <2>1, <2>2
  <1>4. Framed(gs)
    <2> HIDE DEF S
    <2>1. QED
      BY <1>2, <1>3, FramedIntro
  <1>5. QED
    <2>1. f.kind = t
      BY DEF Entered
    <2>2. QED
      BY <1>0, <1>2, <1>4, <2>1 DEF gs

\* The innermost container gets an item or a key.
LEMMA Retopped ==
  ASSUME NEW fs, Framed(fs), fs # <<>>, NEW f, NEW items, NEW key, Edited(f, fs, items, key)
  PROVE  /\ Framed([fs EXCEPT ![Len(fs)] = f]) /\ Len([fs EXCEPT ![Len(fs)] = f]) = Len(fs)
         /\ \A i \in 1 .. Len(fs) : [fs EXCEPT ![Len(fs)] = f][i].kind = fs[i].kind
  <1> DEFINE S == {fs[i] : i \in DOMAIN fs} \cup {f} gs == [fs EXCEPT ![Len(fs)] = f]
  <1>0. PICK n \in Nat : n = Len(fs)
    BY FramedLen
  <1>1. fs \in Seq(S) /\ n = Len(fs) /\ n \in 1 .. n /\ f \in S
    <2>1. {fs[i] : i \in DOMAIN fs} \subseteq S
      OBVIOUS
    <2> HIDE DEF S
    <2>2. fs \in Seq(S)
      BY <2>1, SeqMonotonic DEF Framed
    <2>3. QED
      BY <1>0, <2>2, FramedLen DEF S
  <1>2. gs \in Seq(S) /\ Len(gs) = n /\ \A i \in 1 .. n : gs[i] = IF i = n THEN f ELSE fs[i]
    <2> HIDE DEF S
    <2>1. QED
      BY <1>1, ExceptSeq
  <1> HIDE DEF gs
  <1>3. ASSUME NEW i \in 1 .. Len(gs)
        PROVE  /\ gs[i].kind \in Opens /\ gs[i].kind = fs[i].kind
               /\ gs[i] = [kind |-> gs[i].kind, items |-> gs[i].items, key |-> gs[i].key,
                           budget |-> MaxDepth + 1 - i]
    <2>1. CASE i = n
      <3>1. fs[n].kind \in Opens /\ fs[n] = [kind |-> fs[n].kind, items |-> fs[n].items,
                                             key |-> fs[n].key, budget |-> MaxDepth + 1 - n]
        BY <1>0, <1>1 DEF Framed
      <3>2. f = [kind |-> fs[n].kind, items |-> items, key |-> key, budget |-> fs[n].budget]
        BY <1>0 DEF Edited
      <3>3. f = [kind |-> f.kind, items |-> f.items, key |-> f.key, budget |-> MaxDepth + 1 - n]
            /\ f.kind = fs[n].kind
        BY <3>1, <3>2
      <3>4. QED
        BY <1>2, <2>1, <3>1, <3>3
    <2>2. CASE i # n
      BY <1>0, <1>2, <2>2 DEF Framed
    <2>3. QED
      BY <2>1, <2>2
  <1>4. Framed(gs)
    <2> HIDE DEF S
    <2>1. QED
      BY <1>2, <1>3, FramedIntro
  <1>5. QED
    BY <1>0, <1>2, <1>3, <1>4 DEF gs

\* A value is delivered.
LEMMA DeliveredFramed ==
  ASSUME NEW fs, Framed(fs), fs # <<>>, NEW v
  PROVE  /\ Framed(Delivered(fs, v)) /\ Len(Delivered(fs, v)) = Len(fs)
         /\ \A i \in 1 .. Len(fs) : Delivered(fs, v)[i].kind = fs[i].kind
  <1>1. PICK n \in Nat : n = Len(fs) /\ n \in 1 .. n
    BY FramedLen
  <1>2. fs[n] = [kind |-> fs[n].kind, items |-> fs[n].items, key |-> fs[n].key,
                 budget |-> MaxDepth + 1 - n]
    BY <1>1 DEF Framed
  <1>3. PICK items : items = Append(fs[n].items, [key |-> fs[n].key, value |-> v])
    OBVIOUS
  <1>4. PICK f : f = [kind |-> fs[n].kind, items |-> items, key |-> fs[n].key, budget |-> fs[n].budget]
    OBVIOUS
  <1>5. [fs[n] EXCEPT !.items = items] = f
    BY <1>2, <1>4
  <1>6. Delivered(fs, v) = [fs EXCEPT ![Len(fs)] = f]
    BY <1>1, <1>3, <1>5 DEF Delivered
  <1>7. QED
    <2>1. Edited(f, fs, items, fs[n].key)
      BY <1>1, <1>4 DEF Edited
    <2> DEFINE gs == [fs EXCEPT ![Len(fs)] = f]
    <2>2. Framed(gs) /\ Len(gs) = Len(fs) /\ \A i \in 1 .. Len(fs) : gs[i].kind = fs[i].kind
      BY <2>1, Retopped
    <2> HIDE DEF gs
    <2>3. Delivered(fs, v) = gs
      BY <1>6 DEF gs
    <2>4. QED
      BY <2>2, <2>3

\* A container is left.
LEMMA Popped ==
  ASSUME NEW fs, Framed(fs), fs # <<>>
  PROVE  /\ Framed(Front(fs)) /\ Len(Front(fs)) = Len(fs) - 1
         /\ \A i \in 1 .. Len(fs) - 1 : Front(fs)[i] = fs[i]
  <1> DEFINE S == {fs[i] : i \in DOMAIN fs}  n == Len(fs)  gs == Front(fs)
  <1>1. n \in Nat /\ n >= 1 /\ fs \in Seq(S)
    BY FramedLen DEF Framed
  <1>2. gs \in Seq(S) /\ Len(gs) = n - 1 /\ \A i \in 1 .. n - 1 : gs[i] = fs[i]
    <2> HIDE DEF S
    <2>1. QED
      BY <1>1, FrontOf
  <1> HIDE DEF gs, n
  <1>3. ASSUME NEW i \in 1 .. Len(gs)
        PROVE  /\ gs[i].kind \in Opens
               /\ gs[i] = [kind |-> gs[i].kind, items |-> gs[i].items, key |-> gs[i].key,
                           budget |-> MaxDepth + 1 - i]
    BY <1>1, <1>2 DEF Framed, n
  <1>4. Framed(gs)
    <2> HIDE DEF S
    <2>1. QED
      BY <1>2, <1>3, FramedIntro
  <1>5. QED
    BY <1>2, <1>4 DEF gs, n

-----------------------------------------------------------------------------
(* What the decoder awaits *)

LEMMA ShapeTyped ==
  ASSUME NEW fs, Framed(fs), NEW p
  PROVE  /\ Shape(fs, p) \in Seq(Awaited) /\ Len(Shape(fs, p)) = Len(fs)
         /\ \A i \in 1 .. Len(fs) :
              Shape(fs, p)[i] = IF i = Len(fs) /\ p = "value" THEN ":" ELSE fs[i].kind
  <1>1. Len(fs) \in Nat
    BY FramedLen
  <1>2. \A i \in 1 .. Len(fs) : (IF i = Len(fs) /\ p = "value" THEN ":" ELSE fs[i].kind) \in Awaited
    BY DEF Framed, Opens, Awaited
  <1>3. QED
    BY <1>1, <1>2 DEF Shape

\* Shapes with the same containers are the same.
LEMMA ShapeSame ==
  ASSUME NEW fs, Framed(fs), NEW gs, Framed(gs), Len(gs) = Len(fs),
         \A i \in 1 .. Len(fs) : gs[i].kind = fs[i].kind, NEW p
  PROVE  Shape(gs, p) = Shape(fs, p)
  BY DEF Shape

\* A value that begins, or that ends at once, is no more awaited.
LEMMA ShapeValued ==
  ASSUME NEW fs, Framed(fs), NEW p \in {"top", "loop", "value"},
         Poised(fs, p)
  PROVE  Valued(Shape(fs, p)) = Shape(fs, "loop")
  <1> DEFINE s == Shape(fs, p)  l == Shape(fs, "loop")
  <1>1. PICK n \in Nat : n = Len(fs)
    BY FramedLen
  <1>2. /\ s \in Seq(Awaited) /\ Len(s) = n
        /\ \A i \in 1 .. n : s[i] = IF i = n /\ p = "value" THEN ":" ELSE fs[i].kind
    BY <1>1, ShapeTyped
  <1>3. /\ l \in Seq(Awaited) /\ Len(l) = n
        /\ \A i \in 1 .. n : l[i] = fs[i].kind
    BY <1>1, ShapeTyped
  <1>4. \A i \in 1 .. n : fs[i].kind \in Opens
    BY <1>1 DEF Framed
  <1>5. p = "value" => n >= 1 /\ n \in 1 .. n /\ fs[n].kind = "{"
    <2> SUFFICES ASSUME p = "value" PROVE n >= 1 /\ n \in 1 .. n /\ fs[n].kind = "{"
      OBVIOUS
    <2>1. n > 0 /\ \A i \in 1 .. n : i = n => fs[i].kind = "{"
      BY <1>1 DEF Poised
    <2>2. n > 0
      BY <2>1
    <2>3. n >= 1 /\ n \in 1 .. n
      BY <2>2
    <2>4. QED
      BY <2>1, <2>3
  <1> HIDE DEF s, l
  <1>6. CASE p = "value"
    <2>1. n >= 1 /\ s # <<>> /\ Last(s) = ":"
      <3>1. n >= 1 /\ n \in 1 .. n
        BY <1>5, <1>6
      <3>2. s # <<>> /\ Last(s) = s[n]
        BY <1>2, <3>1, LastOf
      <3>3. QED
        BY <1>2, <1>6, <3>1, <3>2
    <2>2. /\ Front(s) \in Seq(Awaited) /\ Len(Front(s)) = n - 1
          /\ \A i \in 1 .. n - 1 : Front(s)[i] = s[i]
      BY <1>1, <1>2, <2>1, FrontOf
    <2> DEFINE v == Append(Front(s), "{")
    <2>3. "{" \in Awaited /\ (n - 1) + 1 = n
      BY <1>1 DEF Awaited
    <2>4. /\ v \in Seq(Awaited) /\ Len(v) = n /\ v[n] = "{" /\ \A i \in 1 .. n - 1 : v[i] = s[i]
      <3>1. /\ v \in Seq(Awaited) /\ Len(v) = Len(Front(s)) + 1
            /\ \A i \in 1 .. Len(Front(s)) : v[i] = Front(s)[i]
            /\ v[Len(Front(s)) + 1] = "{"
        BY <2>2, <2>3, AppendProperties
      <3> HIDE DEF v
      <3>2. QED
        BY <2>2, <2>3, <3>1
    <2> HIDE DEF v
    <2>5. \A i \in 1 .. n : v[i] = l[i]
      <3> SUFFICES ASSUME NEW i \in 1 .. n PROVE v[i] = l[i]
        OBVIOUS
      <3>1. CASE i = n
        BY <1>3, <1>5, <1>6, <2>4, <3>1
      <3>2. CASE i # n
        <4>1. i \in 1 .. n - 1
          BY <1>1, <3>2
        <4>2. v[i] = s[i] /\ s[i] = fs[i].kind
          BY <1>2, <2>4, <3>2, <4>1
        <4>3. QED
          BY <1>3, <4>2
      <3>3. QED
        BY <3>1, <3>2
    <2>6. v = l
      BY <1>3, <2>4, <2>5, SeqEqual
    <2>7. QED
      BY <2>1, <2>6 DEF Valued, v, s, l
  <1>7. CASE p # "value"
    <2>1. \A i \in 1 .. n : s[i] = l[i] /\ s[i] # ":"
      BY <1>2, <1>3, <1>4, <1>7 DEF Opens
    <2>2. s = l
      BY <1>2, <1>3, <2>1, SeqEqual
    <2>3. s = <<>> \/ Last(s) # ":"
      <3>1. s # <<>> => n \in 1 .. n
        BY <1>1, <1>2
      <3>2. QED
        BY <1>2, <2>1, <3>1 DEF Last
    <2>4. QED
      BY <2>2, <2>3 DEF Valued, s, l
  <1>8. QED
    BY <1>6, <1>7

\* The tokens are told apart.
LEMMA TokensDiffer ==
  ASSUME NEW t
  PROVE  /\ t \in Keys => t \notin Opens \cup Plain \cup {"}", "]"} \cup Stops
         /\ t \in Plain => t \notin Opens \cup {"}", "]"} \cup Stops
         /\ t \in Opens => t \notin {"}", "]"} \cup Stops /\ t # "null"
         /\ t \in Tokens => t # Undef
  <1>1. /\ Keys \cap Scalars = {}
        /\ \A k \in Keys \cup Scalars :
             k \notin {"{", "}", "[", "]", "null", "eof", "error", "undefToken"}
    BY OrderedJSONAssumption
  <1>2. QED
    BY <1>1 DEF Tokens, Opens, Plain, Stops, Undef

\* What each kind of token does.
LEMMA AfterToken ==
  ASSUME NEW open, NEW t
  PROVE  /\ t \in Opens => After(open, t) = Append(Valued(open), t)
         /\ t \in {"}", "]"} => After(open, t) = Front(open)
         /\ t \in Keys => After(open, t) = Append(Front(open), ":")
         /\ t \in Plain => After(open, t) = Valued(open)
  <1>1. CASE t \in Opens
    BY <1>1, TokensDiffer DEF After
  <1>2. CASE t \in {"}", "]"}
    BY <1>2, TokensDiffer DEF After
  <1>3. CASE t \in Keys
    BY <1>3, TokensDiffer DEF After
  <1>4. CASE t \in Plain
    BY <1>4, TokensDiffer DEF After
  <1>5. QED
    BY <1>1, <1>2, <1>3, <1>4

\* Stack gs is fs with a container of kind t more.
Opened(gs, fs, t) ==
  /\ Len(gs) = Len(fs) + 1
  /\ \A i \in 1 .. Len(gs) : gs[i].kind = IF i = Len(gs) THEN t ELSE fs[i].kind

LEMMA ShapeOpened ==
  ASSUME NEW fs, Framed(fs), NEW p \in {"top", "loop", "value"}, Poised(fs, p),
         NEW t \in Opens, NEW gs, Framed(gs), Opened(gs, fs, t)
  PROVE  After(Shape(fs, p), t) = Shape(gs, "loop")
  <1> DEFINE l == Shape(fs, "loop")  m == Shape(gs, "loop")  v == Append(l, t)
  <1>1. PICK n \in Nat : n = Len(fs)
    BY FramedLen
  <1>2. /\ l \in Seq(Awaited) /\ Len(l) = n
        /\ \A i \in 1 .. n : l[i] = fs[i].kind
    BY <1>1, ShapeTyped
  <1>3. Len(gs) = n + 1
    BY <1>1 DEF Opened
  <1>4. \A i \in 1 .. n + 1 : gs[i].kind = IF i = n + 1 THEN t ELSE fs[i].kind
    BY <1>1 DEF Opened
  <1>5. /\ m \in Seq(Awaited) /\ Len(m) = n + 1
        /\ \A i \in 1 .. n + 1 : m[i] = gs[i].kind
    BY <1>3, ShapeTyped
  <1>6. After(Shape(fs, p), t) = v
    BY AfterToken, ShapeValued
  <1>7. t \in Awaited
    BY DEF Opens, Awaited
  <1> HIDE DEF l, m
  <1>8. /\ v \in Seq(Awaited) /\ Len(v) = Len(l) + 1 /\ v[Len(l) + 1] = t
        /\ \A i \in 1 .. Len(l) : v[i] = l[i]
    BY <1>2, <1>7, AppendProperties
  <1> HIDE DEF v
  <1>9. \A i \in 1 .. n + 1 : v[i] = m[i]
    <2> SUFFICES ASSUME NEW i \in 1 .. n + 1 PROVE v[i] = m[i]
      OBVIOUS
    <2>1. CASE i = n + 1
      BY <1>2, <1>4, <1>5, <1>8, <2>1
    <2>2. CASE i # n + 1
      <3>1. i \in 1 .. n
        BY <2>2
      <3>2. v[i] = l[i] /\ l[i] = fs[i].kind
        BY <1>2, <1>8, <3>1
      <3>3. QED
        BY <1>4, <1>5, <2>2, <3>2
    <2>3. QED
      BY <2>1, <2>2
  <1>10. v = m
    BY <1>2, <1>5, <1>8, <1>9, SeqEqual
  <1>11. QED
    BY <1>6, <1>10 DEF m

\* A value that ends at once.
LEMMA ShapePlain ==
  ASSUME NEW fs, Framed(fs), NEW p \in {"top", "loop", "value"}, Poised(fs, p), NEW t \in Plain,
         NEW gs, Framed(gs), Len(gs) = Len(fs), \A i \in 1 .. Len(fs) : gs[i].kind = fs[i].kind
  PROVE  After(Shape(fs, p), t) = Shape(gs, "loop")
  <1>1. After(Shape(fs, p), t) = Valued(Shape(fs, p))
    BY AfterToken
  <1>2. Valued(Shape(fs, p)) = Shape(fs, "loop")
    BY ShapeValued
  <1>3. Shape(gs, "loop") = Shape(fs, "loop")
    BY ShapeSame
  <1>4. QED
    BY <1>1, <1>2, <1>3

\* Stack gs is fs without the innermost container.
Closed(gs, fs) ==
  /\ Len(fs) = Len(gs) + 1
  /\ \A i \in 1 .. Len(gs) : gs[i].kind = fs[i].kind

LEMMA FrontSame ==
  ASSUME NEW S, NEW l \in Seq(S), NEW m \in Seq(S), NEW n \in Nat, Len(l) = n + 1, Len(m) = n,
         \A i \in 1 .. n : m[i] = l[i]
  PROVE  Front(l) = m
  <1> DEFINE v == Front(l)
  <1>1. n + 1 \in Nat /\ n + 1 >= 1 /\ (n + 1) - 1 = n
    OBVIOUS
  <1>2. v \in Seq(S) /\ Len(v) = n /\ \A i \in 1 .. n : v[i] = l[i]
    BY <1>1, FrontOf
  <1> HIDE DEF v
  <1>3. v = m
    BY <1>2, SeqEqual
  <1>4. QED
    BY <1>3 DEF v

LEMMA ShapeLoop ==
  ASSUME NEW fs, Framed(fs), NEW n \in Nat, Len(fs) = n
  PROVE  /\ Shape(fs, "loop") \in Seq(Awaited) /\ Len(Shape(fs, "loop")) = n
         /\ \A i \in 1 .. n : Shape(fs, "loop")[i] = fs[i].kind
  BY ShapeTyped

LEMMA ShapeFront ==
  ASSUME NEW fs, Framed(fs), NEW gs, Framed(gs), Closed(gs, fs)
  PROVE  Front(Shape(fs, "loop")) = Shape(gs, "loop")
  <1> DEFINE l == Shape(fs, "loop")  m == Shape(gs, "loop")
  <1>1. PICK n \in Nat : n = Len(gs)
    BY FramedLen
  <1>2. PICK k \in Nat : k = Len(fs)
    BY FramedLen
  <1>3. k = n + 1
    BY <1>1, <1>2 DEF Closed
  <1>4. l \in Seq(Awaited) /\ Len(l) = k /\ \A i \in 1 .. k : l[i] = fs[i].kind
    BY <1>2, ShapeLoop
  <1>5. m \in Seq(Awaited) /\ Len(m) = n /\ \A i \in 1 .. n : m[i] = gs[i].kind
    BY <1>1, ShapeLoop
  <1> HIDE DEF l, m
  <1>6. \A i \in 1 .. n : gs[i].kind = fs[i].kind
    BY <1>1 DEF Closed
  <1>7. \A i \in 1 .. n : i \in 1 .. k
    BY <1>3
  <1>8. \A i \in 1 .. n : m[i] = l[i]
    BY <1>4, <1>5, <1>6, <1>7
  <1>9. Front(l) = m
    BY <1>3, <1>4, <1>5, <1>8, FrontSame
  <1>10. QED
    BY <1>9 DEF l, m

\* The end of a container.
LEMMA ShapeClosed ==
  ASSUME NEW fs, Framed(fs), NEW t \in {"}", "]"}, NEW gs, Framed(gs), Closed(gs, fs)
  PROVE  After(Shape(fs, "loop"), t) = Shape(gs, "loop")
  <1>1. After(Shape(fs, "loop"), t) = Front(Shape(fs, "loop"))
    BY AfterToken
  <1>2. QED
    BY <1>1, ShapeFront

\* A key.
LEMMA ShapeKeyed ==
  ASSUME NEW fs, Framed(fs), Len(fs) > 0, NEW t \in Keys, NEW gs, Framed(gs), Len(gs) = Len(fs),
         \A i \in 1 .. Len(fs) : gs[i].kind = fs[i].kind
  PROVE  After(Shape(fs, "loop"), t) = Shape(gs, "value")
  <1> DEFINE l == Shape(fs, "loop")  m == Shape(gs, "value")  v == Append(Front(l), ":")
  <1>1. PICK n \in Nat : n = Len(fs)
    BY FramedLen
  <1>2. n >= 1
    BY <1>1
  <1>3. /\ l \in Seq(Awaited) /\ Len(l) = n
        /\ \A i \in 1 .. n : l[i] = fs[i].kind
    BY <1>1, ShapeTyped
  <1>4. /\ m \in Seq(Awaited) /\ Len(m) = n
        /\ \A i \in 1 .. n : m[i] = IF i = n THEN ":" ELSE gs[i].kind
    BY <1>1, ShapeTyped
  <1>5. After(l, t) = v
    BY AfterToken
  <1> HIDE DEF l, m
  <1>6. Front(l) \in Seq(Awaited) /\ Len(Front(l)) = n - 1 /\ \A i \in 1 .. n - 1 : Front(l)[i] = l[i]
    BY <1>2, <1>3, FrontOf
  <1>7. ":" \in Awaited
    BY DEF Awaited
  <1>8. /\ v \in Seq(Awaited) /\ Len(v) = Len(Front(l)) + 1 /\ v[Len(Front(l)) + 1] = ":"
        /\ \A i \in 1 .. Len(Front(l)) : v[i] = Front(l)[i]
    BY <1>6, <1>7, AppendProperties
  <1> HIDE DEF v
  <1>9. (n - 1) + 1 = n
    OBVIOUS
  <1>10. Len(v) = n /\ v[n] = ":" /\ \A i \in 1 .. n - 1 : v[i] = l[i]
    BY <1>6, <1>8, <1>9
  <1>11. \A i \in 1 .. n : v[i] = m[i]
    <2> SUFFICES ASSUME NEW i \in 1 .. n PROVE v[i] = m[i]
      OBVIOUS
    <2>1. CASE i = n
      BY <1>4, <1>10, <2>1
    <2>2. CASE i # n
      <3>1. i \in 1 .. n - 1
        BY <2>2
      <3>2. v[i] = fs[i].kind /\ m[i] = gs[i].kind
        BY <1>3, <1>4, <1>10, <2>2, <3>1
      <3>3. QED
        BY <1>1, <3>2
    <2>3. QED
      BY <2>1, <2>2
  <1>12. v = m
    BY <1>4, <1>8, <1>10, <1>11, SeqEqual
  <1>13. QED
    BY <1>5, <1>12 DEF l, m

-----------------------------------------------------------------------------
(* The tokens that were read *)

\* Every prefix of the tokens keeps within the depth.
Shallow(tokens) == \A i \in 1 .. Len(tokens) : Len(Open(SubSeq(tokens, 1, i))) <= MaxDepth

\* None of the tokens stops the input, or ends what the first began.
Unended(tokens) ==
  \A i \in 1 .. Len(tokens) : tokens[i] \notin Stops /\ Open(SubSeq(tokens, 1, i)) # <<>>

\* A token keeps within the depth, and is one of the document: if it comes first,
\* it begins an object.
Fits(fs, p, t) == Len(After(Shape(fs, p), t)) <= MaxDepth

First(p, t) == t \notin Stops /\ (p = "top" => t = "{")

\* Tokens read without a fault, up to where the routines are at p with stack fs.
ReadSoFar(tokens, fs, p) ==
  /\ tokens \in Seq(Tokens)
  /\ Framed(fs) /\ Len(fs) <= MaxDepth
  /\ p \in {"top", "loop", "value"} /\ Poised(fs, p)
  /\ (p = "top") = (tokens = <<>>)
  /\ (p = "top") = (fs = <<>>)
  /\ Open(tokens) = Shape(fs, p)
  /\ Shallow(tokens) /\ Unended(tokens)
  /\ tokens # <<>> => Head(tokens) = "{"

\* The first tokens of a longer document.
LEMMA LongerPrefixes ==
  ASSUME NEW S, NEW tokens \in Seq(S), NEW t \in S, NEW n \in Nat, Len(tokens) = n
  PROVE  /\ \A i \in 1 .. n : SubSeq(Append(tokens, t), 1, i) = SubSeq(tokens, 1, i)
         /\ SubSeq(Append(tokens, t), 1, n + 1) = Append(tokens, t)
  <1> DEFINE more == Append(tokens, t)
  <1>1. /\ more \in Seq(S) /\ Len(more) = n + 1
        /\ \A i \in 1 .. n : more[i] = tokens[i]
    BY AppendProperties
  <1> HIDE DEF more
  <1>2. ASSUME NEW i \in 1 .. n PROVE SubSeq(more, 1, i) = SubSeq(tokens, 1, i)
    <2>1. \A j \in 1 .. i : more[j] = tokens[j] /\ j \in 1 .. n
      BY <1>1
    <2>2. /\ SubSeq(more, 1, i) = [j \in 1 .. i |-> more[j]]
          /\ SubSeq(tokens, 1, i) = [j \in 1 .. i |-> tokens[j]]
      OBVIOUS
    <2>3. QED
      BY <2>1, <2>2
  <1>3. SubSeq(more, 1, n + 1) = more
    BY <1>1
  <1>4. QED
    BY <1>2, <1>3 DEF more

\* The ends of a longer document, and the depth of its tokens.
LEMMA LongerEnds ==
  ASSUME NEW S, NEW tokens \in Seq(S), NEW t \in S
  PROVE  /\ Append(tokens, t) \in Seq(S) /\ Append(tokens, t) # <<>>
         /\ Last(Append(tokens, t)) = t
         /\ tokens = <<>> => Head(Append(tokens, t)) = t
         /\ tokens # <<>> => Head(Append(tokens, t)) = Head(tokens)
         /\ Front(Append(tokens, t)) = tokens
  <1> DEFINE more == Append(tokens, t)
  <1>1. PICK n \in Nat : n = Len(tokens)
    OBVIOUS
  <1>2. /\ more \in Seq(S) /\ Len(more) = n + 1 /\ more[n + 1] = t /\ n + 1 \in Nat /\ n + 1 >= 1
        /\ \A i \in 1 .. n : more[i] = tokens[i]
    BY <1>1, AppendProperties
  <1> HIDE DEF more
  <1>3. more # <<>> /\ Last(more) = t
    BY <1>2, LastOf
  <1>4. Head(more) = more[1]
    BY <1>2, <1>3
  <1>5. tokens = <<>> => Head(more) = t
    BY <1>1, <1>2, <1>4
  <1>6. tokens # <<>> => Head(more) = Head(tokens)
    BY <1>1, <1>2, <1>4
  <1>7. Front(more) = tokens
    BY <1>1, <1>2, FrontSame
  <1>8. QED
    BY <1>2, <1>3, <1>5, <1>6, <1>7 DEF more

LEMMA LongerShallow ==
  ASSUME NEW S, NEW tokens \in Seq(S), NEW t \in S
  PROVE  Shallow(Append(tokens, t)) =
           (Shallow(tokens) /\ Len(Open(Append(tokens, t))) <= MaxDepth)
  <1> DEFINE more == Append(tokens, t)  deep(u) == Len(Open(u)) <= MaxDepth
  <1>1. PICK n \in Nat : n = Len(tokens)
    OBVIOUS
  <1>2. more \in Seq(S) /\ Len(more) = n + 1
    BY <1>1, AppendProperties
  <1>3. /\ \A i \in 1 .. n : SubSeq(more, 1, i) = SubSeq(tokens, 1, i)
        /\ SubSeq(more, 1, n + 1) = more
    <2> HIDE DEF deep
    <2>1. Len(tokens) = n
      BY <1>1
    <2>2. QED
      BY <2>1, LongerPrefixes
  <1> HIDE DEF more, deep
  <1>4. Shallow(tokens) = \A i \in 1 .. n : deep(SubSeq(tokens, 1, i))
    BY <1>1 DEF Shallow, deep
  <1>5. Shallow(more) = \A i \in 1 .. n + 1 : deep(SubSeq(more, 1, i))
    BY <1>2 DEF Shallow, deep
  <1>6. \A i \in 1 .. n + 1 : i = n + 1 \/ i \in 1 .. n
    OBVIOUS
  <1>7. \A i \in 1 .. n : i \in 1 .. n + 1
    OBVIOUS
  <1>8. n + 1 \in 1 .. n + 1
    OBVIOUS
  <1>9. Shallow(more) <=> Shallow(tokens) /\ deep(more)
    BY <1>3, <1>4, <1>5, <1>6, <1>7, <1>8
  <1>10. QED
    BY <1>9 DEF more, deep, Shallow

LEMMA LongerUnended ==
  ASSUME NEW S, NEW tokens \in Seq(S), NEW t \in S, Unended(tokens), t \notin Stops,
         Open(Append(tokens, t)) # <<>>
  PROVE  Unended(Append(tokens, t))
  <1> DEFINE more == Append(tokens, t)
  <1>1. PICK n \in Nat : n = Len(tokens)
    OBVIOUS
  <1>2. /\ more \in Seq(S) /\ Len(more) = n + 1 /\ more[n + 1] = t
        /\ \A i \in 1 .. n : more[i] = tokens[i]
    BY <1>1, AppendProperties
  <1>3. /\ \A i \in 1 .. n : SubSeq(more, 1, i) = SubSeq(tokens, 1, i)
        /\ SubSeq(more, 1, n + 1) = more
    <2>1. Len(tokens) = n
      BY <1>1
    <2>2. QED
      BY <2>1, LongerPrefixes
  <1>4. Open(more) # <<>>
    OBVIOUS
  <1> HIDE DEF more
  <1>5. ASSUME NEW i \in 1 .. n + 1
        PROVE  more[i] \notin Stops /\ Open(SubSeq(more, 1, i)) # <<>>
    <2>1. CASE i = n + 1
      BY <1>2, <1>3, <1>4, <2>1
    <2>2. CASE i # n + 1
      <3>1. i \in 1 .. n
        BY <2>2
      <3>2. tokens[i] \notin Stops /\ Open(SubSeq(tokens, 1, i)) # <<>>
        BY <1>1, <3>1 DEF Unended
      <3>3. QED
        BY <1>2, <1>3, <3>1, <3>2
    <2>3. QED
      BY <2>1, <2>2
  <1>6. Unended(more)
    BY <1>2, <1>5 DEF Unended
  <1>7. QED
    BY <1>6 DEF more

LEMMA LongerOpen ==
  ASSUME NEW S, NEW tokens \in Seq(S), NEW t \in S, NEW more, more = Append(tokens, t),
         Unended(tokens), t \notin Stops
  PROVE  \A i \in 1 .. Len(more) :
           more[i] \notin Stops /\ (i < Len(more) => Open(SubSeq(more, 1, i)) # <<>>)
  <1>1. PICK n \in Nat : n = Len(tokens)
    OBVIOUS
  <1>2. /\ Len(more) = n + 1 /\ more[n + 1] = t
        /\ \A i \in 1 .. n : more[i] = tokens[i]
    BY <1>1, AppendProperties
  <1>3. \A i \in 1 .. n : SubSeq(more, 1, i) = SubSeq(tokens, 1, i)
    <2>1. Len(tokens) = n
      BY <1>1
    <2>2. QED
      BY <2>1, LongerPrefixes
  <1>4. ASSUME NEW i \in 1 .. n + 1
        PROVE  more[i] \notin Stops /\ (i < n + 1 => Open(SubSeq(more, 1, i)) # <<>>)
    <2>1. CASE i = n + 1
      BY <1>2, <2>1
    <2>2. CASE i # n + 1
      <3>1. i \in 1 .. n
        BY <2>2
      <3>2. tokens[i] \notin Stops /\ Open(SubSeq(tokens, 1, i)) # <<>>
        BY <1>1, <3>1 DEF Unended
      <3>3. QED
        BY <1>2, <1>3, <3>1, <3>2
    <2>3. QED
      BY <2>1, <2>2
  <1>5. QED
    BY <1>2, <1>4

LEMMA LongerBegins ==
  ASSUME NEW S, NEW tokens \in Seq(S), NEW t \in S, NEW more, more = Append(tokens, t),
         Unended(tokens), t \notin Stops, Shallow(more), Head(more) = "{"
  PROVE  Beginning(more)
  <1>1. \A i \in 1 .. Len(more) :
          more[i] \notin Stops /\ (i < Len(more) => Open(SubSeq(more, 1, i)) # <<>>)
    BY LongerOpen
  <1>2. DOMAIN more = 1 .. Len(more)
    <2>1. more \in Seq(S)
      BY AppendProperties
    <2>2. QED
      BY <2>1, LenProperties
  <1>3. QED
    BY <1>1, <1>2 DEF Beginning, Shallow

\* A token more, and no container too many.
LEMMA ReadStep ==
  ASSUME NEW tokens, NEW fs, NEW p, ReadSoFar(tokens, fs, p), NEW t \in Tokens,
         Fits(fs, p, t), First(p, t)
  PROVE  /\ Append(tokens, t) \in Seq(Tokens) /\ Append(tokens, t) # <<>>
         /\ Head(Append(tokens, t)) = "{" /\ Last(Append(tokens, t)) = t
         /\ Open(Append(tokens, t)) = After(Shape(fs, p), t)
         /\ Shallow(Append(tokens, t))
  <1> DEFINE more == Append(tokens, t)
  <1>1. /\ tokens \in Seq(Tokens) /\ Open(tokens) = Shape(fs, p) /\ Shallow(tokens)
        /\ p = "top" <=> tokens = <<>>
        /\ tokens # <<>> => Head(tokens) = "{"
    BY DEF ReadSoFar
  <1>2. Open(more) = After(Shape(fs, p), t)
    BY <1>1, OpenAppend
  <1>3. /\ more \in Seq(Tokens) /\ more # <<>> /\ Last(more) = t
        /\ tokens = <<>> => Head(more) = t
        /\ tokens # <<>> => Head(more) = Head(tokens)
    BY <1>1, LongerEnds
  <1>4. Shallow(more) = (Shallow(tokens) /\ Len(Open(more)) <= MaxDepth)
    BY <1>1, LongerShallow
  <1> HIDE DEF more
  <1>5. Shallow(more)
    BY <1>1, <1>2, <1>4 DEF Fits
  <1>6. Head(more) = "{"
    BY <1>1, <1>3 DEF First
  <1>7. QED
    BY <1>2, <1>3, <1>5, <1>6 DEF more

LEMMA EmptyFits == Len(<<>>) <= MaxDepth
  BY DepthNat

LEMMA ReadStart == ReadSoFar(<<>>, <<>>, "top")
  <1>1. Framed(<<>>)
    BY DEF Framed
  <1>2. Poised(<<>>, "top")
    BY DEF Poised
  <1>3. Shape(<<>>, "top") = <<>>
    BY DEF Shape
  <1>4. Shallow(<<>>)
    BY DEF Shallow
  <1>5. Len(<<>>) <= MaxDepth
    BY EmptyFits
  <1>6. <<>> \in Seq(Tokens)
    OBVIOUS
  <1>7. Unended(<<>>)
    BY DEF Unended
  <1>8. QED
    BY <1>1, <1>2, <1>3, <1>4, <1>5, <1>6, <1>7, OpenEmpty DEF ReadSoFar

\* A token leads to stack gs and q.
Leads(fs, p, t, gs, q) ==
  /\ Framed(gs) /\ gs # <<>> /\ Len(gs) <= MaxDepth /\ q \in {"loop", "value"} /\ Poised(gs, q)
  /\ After(Shape(fs, p), t) = Shape(gs, q)

LEMMA ReadMore ==
  ASSUME NEW tokens, NEW fs, NEW p, ReadSoFar(tokens, fs, p), NEW t \in Tokens, First(p, t),
         NEW gs, NEW q, Leads(fs, p, t, gs, q)
  PROVE  ReadSoFar(Append(tokens, t), gs, q)
  <1> DEFINE more == Append(tokens, t)
  <1>1. /\ Framed(gs) /\ gs # <<>> /\ Len(gs) <= MaxDepth /\ q \in {"loop", "value"}
        /\ Poised(gs, q) /\ After(Shape(fs, p), t) = Shape(gs, q)
    BY DEF Leads
  <1>2. Len(Shape(gs, q)) = Len(gs)
    BY <1>1, ShapeTyped
  <1>3. Fits(fs, p, t)
    BY <1>1, <1>2 DEF Fits
  <1>4. /\ more \in Seq(Tokens) /\ more # <<>> /\ Head(more) = "{"
        /\ Open(more) = After(Shape(fs, p), t) /\ Shallow(more)
    <2>1. Fits(fs, p, t) /\ First(p, t) /\ t \in Tokens /\ ReadSoFar(tokens, fs, p)
      BY <1>3
    <2>2. more \in Seq(Tokens)
      BY <2>1, ReadStep
    <2>3. Shallow(more)
      BY <2>1, ReadStep
    <2>4. Head(more) = "{"
      BY <2>1, ReadStep
    <2>5. Open(more) = After(Shape(fs, p), t)
      <3>1. tokens \in Seq(Tokens) /\ Open(tokens) = Shape(fs, p)
        BY DEF ReadSoFar
      <3>2. QED
        BY <3>1, OpenAppend
    <2>6. more # <<>>
      BY <2>1, ReadStep
    <2>7. QED
      BY <2>2, <2>3, <2>4, <2>5, <2>6
  <1>5. Unended(more)
    <2>1. Open(more) # <<>>
      <3>1. Len(gs) # 0
        BY <1>1, FramedLen
      <3>2. Len(<<>>) = 0
        OBVIOUS
      <3>3. QED
        BY <1>1, <1>2, <1>4, <3>1, <3>2
    <2>2. tokens \in Seq(Tokens) /\ Unended(tokens) /\ t \notin Stops
      BY DEF ReadSoFar, First
    <2>3. QED
      BY <2>1, <2>2, LongerUnended
  <1> HIDE DEF more
  <1>6. ReadSoFar(more, gs, q)
    BY <1>1, <1>4, <1>5 DEF ReadSoFar
  <1>7. QED
    BY <1>6 DEF more

\* A token ends the document.
LEMMA ReadAll ==
  ASSUME NEW tokens, NEW fs, NEW p, ReadSoFar(tokens, fs, p), p # "top", NEW t \in {"}", "]"},
         After(Shape(fs, p), t) = <<>>
  PROVE  Accepted(Append(tokens, t))
  <1>1. t \in Tokens /\ t \notin Stops
    BY DEF Tokens, Stops
  <1>2. Fits(fs, p, t)
    <2>1. Len(<<>>) <= MaxDepth
      BY EmptyFits
    <2>2. QED
      BY <2>1 DEF Fits
  <1> DEFINE more == Append(tokens, t)
  <1>3. First(p, t)
    BY <1>1 DEF First
  <1>4. /\ more \in Seq(Tokens) /\ more # <<>> /\ Head(more) = "{" /\ Last(more) = t
        /\ Open(more) = <<>> /\ Shallow(more)
    <2>1. Fits(fs, p, t) /\ First(p, t) /\ t \in Tokens /\ ReadSoFar(tokens, fs, p)
      BY <1>1, <1>2, <1>3
    <2>2. more \in Seq(Tokens)
      BY <2>1, ReadStep
    <2>3. Shallow(more)
      BY <2>1, ReadStep
    <2>4. Head(more) = "{" /\ Last(more) = t
      BY <2>1, ReadStep
    <2>5. Open(more) = <<>>
      <3>1. tokens \in Seq(Tokens) /\ Open(tokens) = Shape(fs, p)
        BY DEF ReadSoFar
      <3>2. Open(more) = After(Shape(fs, p), t)
        BY <1>1, <3>1, OpenAppend
      <3>3. QED
        BY <3>2
    <2>6. more # <<>>
      BY <2>1, ReadStep
    <2>7. QED
      BY <2>2, <2>3, <2>4, <2>5, <2>6
  <1> HIDE DEF more
  <1>5. Beginning(more)
    <2>1. tokens \in Seq(Tokens) /\ Unended(tokens)
      BY DEF ReadSoFar
    <2>2. QED
      BY <1>1, <1>4, <2>1, LongerBegins DEF more
  <1>6. Accepted(more)
    BY <1>4, <1>5 DEF Accepted
  <1>7. QED
    BY <1>6 DEF more

\* A token that no document has after those read: the input stops, or is no
\* object, or nests too deep.
Refused(fs, p, t) ==
  \/ t \in Stops
  \/ p = "top" /\ t \notin {"null", "{"}
  \/ t \in Opens /\ ~Fits(fs, p, t)

LEMMA NotBeginning ==
  ASSUME NEW tokens, NEW fs, NEW p, ReadSoFar(tokens, fs, p), NEW t \in Tokens, Refused(fs, p, t)
  PROVE  ~Beginning(Append(tokens, t))
  <1> DEFINE more == Append(tokens, t)
  <1>1. tokens \in Seq(Tokens) /\ Open(tokens) = Shape(fs, p) /\ (p = "top" => tokens = <<>>)
    BY DEF ReadSoFar
  <1>2. /\ more \in Seq(Tokens) /\ more # <<>> /\ Last(more) = t
        /\ tokens = <<>> => Head(more) = t
    BY <1>1, LongerEnds
  <1>3. Open(more) = After(Shape(fs, p), t)
    BY <1>1, OpenAppend
  <1>4. Shallow(more) = (Shallow(tokens) /\ Len(Open(more)) <= MaxDepth)
    BY <1>1, LongerShallow
  <1> HIDE DEF more
  <1>5. more = <<"null">> => t = "null" /\ (tokens = <<>> => Head(more) = "null")
    <2>1. Last(<<"null">>) = "null" /\ Head(<<"null">>) = "null"
      BY DEF Last
    <2>2. QED
      BY <1>2, <2>1
  <1>6. DOMAIN more = 1 .. Len(more)
    BY <1>2, LenProperties
  <1>7. ASSUME Beginning(more) PROVE FALSE
    <2>1. CASE more = <<"null">>
      <3>1. "null" \notin Stops \cup Opens
        BY DEF Stops, Opens
      <3>2. QED
        BY <1>5, <2>1, <3>1 DEF Refused
    <2>2. CASE more # <<"null">>
      <3>1. Head(more) = "{" /\ Last(more) \notin Stops /\ Shallow(more)
        <4>1. /\ Head(more) = "{"
              /\ \A i \in 1 .. Len(more) :
                   more[i] \notin Stops /\ Len(Open(SubSeq(more, 1, i))) <= MaxDepth
          BY <1>2, <1>6, <1>7, <2>2 DEF Beginning
        <4>2. Len(more) \in 1 .. Len(more) /\ Last(more) = more[Len(more)]
          BY <1>2 DEF Last
        <4>3. QED
          BY <4>1, <4>2 DEF Shallow
      <3>2. Fits(fs, p, t)
        BY <1>3, <1>4, <3>1 DEF Fits
      <3>3. p = "top" => t = "{"
        BY <1>1, <1>2, <3>1
      <3>4. QED
        BY <1>2, <3>1, <3>2, <3>3 DEF Refused
    <2>3. QED
      BY <2>1, <2>2
  <1>8. QED
    BY <1>7 DEF more

\* One container more than the depth allows.
LEMMA TooDeep ==
  ASSUME NEW fs, Framed(fs), NEW p \in {"top", "loop", "value"}, Poised(fs, p), NEW t \in Opens
  PROVE  Fits(fs, p, t) = (Len(fs) + 1 <= MaxDepth)
  <1>1. Valued(Shape(fs, p)) = Shape(fs, "loop")
    BY ShapeValued
  <1>2. Shape(fs, "loop") \in Seq(Awaited) /\ Len(Shape(fs, "loop")) = Len(fs)
    BY ShapeTyped
  <1>3. After(Shape(fs, p), t) = Append(Shape(fs, "loop"), t)
    BY <1>1, AfterToken
  <1>4. t \in Awaited
    BY DEF Opens, Awaited
  <1>5. Len(Append(Shape(fs, "loop"), t)) = Len(fs) + 1
    BY <1>2, <1>4, AppendProperties
  <1>6. QED
    BY <1>3, <1>5 DEF Fits

-----------------------------------------------------------------------------
(* The inductive invariant *)

Reading == pc \in {"top", "loop", "value"}

\* The stack of the routines, and the count that the stdlib lexer keeps of it.
StackInv ==
  /\ adapter \in {"stdlib", "easyjson"} /\ err \in BOOLEAN
  /\ pc \in {"idle", "top", "loop", "value", "done", "returned"}
  /\ Framed(frames)
  /\ (frames = <<>>) = (pc \notin {"loop", "value"})
  /\ ~err => Len(frames) <= MaxDepth
  /\ ~Easy /\ pc # "done" => depth = Len(frames)

\* What the routines and the receiver have while a call is read, and after.
HeldInv ==
  /\ pc \in {"idle", "returned"} => ~err
  /\ Reading => made = Nil
  /\ ~Easy /\ err => made = Nil
  /\ Reading \/ pc = "done" => held = before
  /\ via \in Methods
  /\ FailureChangesNothing

\* What was consumed of the document.
Consumed == IF next = Undef THEN doc ELSE Front(doc)

\* The token looked ahead follows it, and is one the decoder may answer with.
LookedAhead ==
  next # Undef =>
    /\ doc = Append(Consumed, next)
    /\ next \in Allowed(Shape(frames, pc)) \cup Stops

\* What was consumed is no fault as long as there is no error, and a fault that
\* no more tokens can mend as soon as there is one.
ReadInv ==
  /\ pc \in {"idle", "returned"} => next = Undef /\ ~err
  /\ Reading /\ ~err => ReadSoFar(Consumed, frames, pc) /\ LookedAhead
  /\ pc = "done" /\ ~err => next = Undef /\ Accepted(doc)
  /\ err => ~Beginning(doc)
  /\ AcceptsObjects

IInv == StackInv /\ HeldInv /\ ReadInv

-----------------------------------------------------------------------------
(* What a token does *)

\* The routines go on: the token was consumed.
Moves ==
  /\ next' = Undef /\ err' = FALSE
  /\ First(pc, next) /\ Leads(frames, pc, next, frames', pc')

\* They fail, at a token that no document accepted may have there.
Fails ==
  /\ err' = TRUE /\ Refused(frames, pc, next)
  /\ pc' \in {"top", "loop", "value"}
  /\ Framed(frames') /\ (frames' = <<>>) = (pc' \notin {"loop", "value"})

\* They are done.
Ends ==
  /\ next' = Undef /\ err' = FALSE
  /\ pc' = "done" /\ frames' = <<>> /\ Accepted(Append(Consumed, next))

Counted == ~Easy' /\ pc' # "done" => depth' = Len(frames')

\* A token was looked ahead, and all is well.
Ready ==
  /\ Reading /\ err = FALSE /\ next # Undef
  /\ adapter \in {"stdlib", "easyjson"} /\ Framed(frames) /\ Poised(frames, pc)
  /\ Len(frames) <= MaxDepth /\ (pc = "top") = (frames = <<>>)
  /\ ~Easy => depth = Len(frames)
  /\ next \in Tokens /\ next \in Allowed(Shape(frames, pc)) \cup Stops
  /\ ReadSoFar(Consumed, frames, pc) /\ doc = Append(Consumed, next)

\* The innermost container.
LEMMA Innermost ==
  ASSUME NEW fs, Framed(fs), fs # <<>>
  PROVE  /\ Last(fs) = fs[Len(fs)] /\ Last(fs).kind \in Opens
         /\ Last(fs).budget = MaxDepth + 1 - Len(fs)
  <1>1. PICK n \in Nat : n = Len(fs) /\ n \in 1 .. n
    BY FramedLen
  <1>2. Last(fs) = fs[n]
    BY <1>1 DEF Last
  <1>3. fs[n].kind \in Opens /\ fs[n] = [kind |-> fs[n].kind, items |-> fs[n].items,
                                         key |-> fs[n].key, budget |-> MaxDepth + 1 - n]
    BY <1>1 DEF Framed
  <1>4. fs[n].budget = MaxDepth + 1 - n
    BY <1>3
  <1>5. QED
    BY <1>1, <1>2, <1>3, <1>4

LEMMA LastAwaited ==
  ASSUME NEW fs, Framed(fs), fs # <<>>, NEW p
  PROVE  /\ Shape(fs, p) # <<>>
         /\ Last(Shape(fs, p)) = IF p = "value" THEN ":" ELSE Last(fs).kind
  <1> DEFINE s == Shape(fs, p)
  <1>1. PICK n \in Nat : n = Len(fs)
    BY FramedLen
  <1>2. n >= 1 /\ n \in 1 .. n
    BY <1>1, FramedLen
  <1>3. /\ s \in Seq(Awaited) /\ Len(s) = n
        /\ \A i \in 1 .. n : s[i] = IF i = n /\ p = "value" THEN ":" ELSE fs[i].kind
    BY <1>1, ShapeTyped
  <1> HIDE DEF s
  <1>4. s # <<>> /\ Last(s) = s[n]
    BY <1>2, <1>3, LastOf
  <1>5. Last(fs) = fs[n]
    BY <1>1, Innermost
  <1>6. s[n] = IF p = "value" THEN ":" ELSE fs[n].kind
    BY <1>2, <1>3
  <1>7. QED
    BY <1>4, <1>5, <1>6 DEF s

\* What the decoder may answer with.
LEMMA AllowedBy ==
  ASSUME NEW fs, Framed(fs), NEW p \in {"top", "loop", "value"}, (p = "top") = (fs = <<>>)
  PROVE  /\ p \in {"top", "value"} => Allowed(Shape(fs, p)) = Opens \cup Plain
         /\ p = "loop" /\ Last(fs).kind = "{" => Allowed(Shape(fs, p)) = Keys \cup {"}"}
         /\ p = "loop" /\ Last(fs).kind = "[" => Allowed(Shape(fs, p)) = Opens \cup Plain \cup {"]"}
  <1>1. CASE p = "top"
    <2>1. Shape(fs, p) = <<>>
      BY <1>1 DEF Shape
    <2>2. QED
      BY <1>1, <2>1 DEF Allowed
  <1>2. CASE p = "value"
    <2>1. Shape(fs, p) # <<>> /\ Last(Shape(fs, p)) = ":"
      BY <1>2, LastAwaited
    <2>2. QED
      BY <1>2, <2>1 DEF Allowed
  <1>3. CASE p = "loop"
    <2>1. Shape(fs, p) # <<>> /\ Last(Shape(fs, p)) = Last(fs).kind
      BY <1>3, LastAwaited
    <2>2. QED
      BY <1>3, <2>1 DEF Allowed
  <1>4. QED
    BY <1>1, <1>2, <1>3

LEMMA AllowedTokens ==
  ASSUME NEW fs, Framed(fs), NEW p \in {"top", "loop", "value"}, (p = "top") = (fs = <<>>)
  PROVE  Allowed(Shape(fs, p)) \subseteq Tokens \ (Stops \cup {Undef})
  <1>1. Opens \cup Plain \cup Keys \cup {"}", "]"} \subseteq Tokens \ (Stops \cup {Undef})
    <2>1. "}" \notin Stops /\ "]" \notin Stops
      BY DEF Stops
    <2>2. QED
      BY <2>1, TokensDiffer DEF Tokens
  <1>2. CASE p \in {"top", "value"}
    BY <1>1, <1>2, AllowedBy
  <1>3. CASE p = "loop"
    <2>1. Last(fs).kind \in Opens
      BY <1>3, Innermost
    <2>2. Last(fs).kind = "{" \/ Last(fs).kind = "["
      BY <2>1 DEF Opens
    <2>3. QED
      BY <1>1, <1>3, <2>2, AllowedBy
  <1>4. QED
    BY <1>2, <1>3

LEMMA IsReady ==
  ASSUME IInv, Reading, ~err, next # Undef
  PROVE  Ready
  <1>1. ReadSoFar(Consumed, frames, pc) /\ LookedAhead
    BY DEF IInv, ReadInv
  <1>2. doc = Append(Consumed, next) /\ next \in Allowed(Shape(frames, pc)) \cup Stops
    BY <1>1 DEF LookedAhead
  <1>3. Framed(frames) /\ Poised(frames, pc) /\ Len(frames) <= MaxDepth
        /\ (pc = "top") = (frames = <<>>)
    BY <1>1 DEF ReadSoFar
  <1>4. next \in Tokens
    BY <1>2, <1>3, AllowedTokens DEF Tokens, Reading
  <1>5. adapter \in {"stdlib", "easyjson"} /\ err = FALSE
    BY DEF IInv, StackInv
  <1>6. ~Easy => depth = Len(frames)
    BY DEF IInv, StackInv, Reading
  <1>7. QED
    BY <1>1, <1>2, <1>3, <1>4, <1>5, <1>6 DEF Ready

-----------------------------------------------------------------------------
(* What each of them does with the token *)

LEMMA NoFrames == Framed(<<>>) /\ Poised(<<>>, "top")
  BY DEF Framed, Poised

\* The budget left counts the containers entered.
LEMMA BudgetLeft ==
  ASSUME Framed(frames)
  PROVE  Budget = MaxDepth - Len(frames)
  <1>1. PICK n \in Nat : n = Len(frames)
    BY FramedLen
  <1>2. CASE frames = <<>>
    <2>1. n = 0
      BY <1>1, <1>2
    <2>2. QED
      BY <1>1, <1>2, <2>1, DepthNat DEF Budget
  <1>3. CASE frames # <<>>
    <2>1. Last(frames).budget = MaxDepth + 1 - n
      BY <1>1, <1>3, Innermost
    <2>2. QED
      BY <1>1, <1>3, <2>1, DepthNat DEF Budget, Top
  <1>4. QED
    BY <1>2, <1>3

\* A container is entered.
LEMMA EnterFrames ==
  ASSUME Framed(frames), NEW t \in Opens
  PROVE  LET gs == Append(frames, Frame(t)) IN
           /\ Framed(gs) /\ gs # <<>> /\ Len(gs) = Len(frames) + 1 /\ Opened(gs, frames, t)
  <1> DEFINE f == Frame(t)  gs == Append(frames, f)
  <1>1. PICK n \in Nat : n = Len(frames)
    BY FramedLen
  <1>2. Budget = MaxDepth - n
    BY <1>1, BudgetLeft
  <1>3. Entered(f, t, Len(frames))
    BY <1>1, <1>2 DEF Entered, Frame
  <1> HIDE DEF f
  <1>4. /\ Framed(gs) /\ Len(gs) = Len(frames) + 1
        /\ gs[Len(frames) + 1].kind = t
        /\ \A i \in 1 .. Len(frames) : gs[i] = frames[i]
    BY <1>3, Pushed
  <1> HIDE DEF gs
  <1>5. gs # <<>>
    <2>1. Len(gs) = n + 1
      BY <1>1, <1>4
    <2>2. Len(gs) # 0
      BY <2>1
    <2>3. QED
      BY <2>2
  <1>6. Opened(gs, frames, t)
    <2>1. ASSUME NEW i \in 1 .. n + 1
          PROVE  gs[i].kind = IF i = n + 1 THEN t ELSE frames[i].kind
      <3>1. CASE i = n + 1
        BY <1>1, <1>4, <3>1
      <3>2. CASE i # n + 1
        <4>1. i \in 1 .. n
          BY <3>2
        <4>2. QED
          BY <1>1, <1>4, <3>2, <4>1
      <3>3. QED
        BY <3>1, <3>2
    <2>2. QED
      BY <1>1, <1>4, <2>1 DEF Opened
  <1>7. QED
    BY <1>4, <1>5, <1>6 DEF gs, f

\* An opening token that the depth allows moves the routines, and fails them
\* otherwise.
LEMMA Begins ==
  ASSUME Ready, next \in Opens, First(pc, next)
  PROVE  LET gs == Append(frames, Frame(next)) IN
           /\ Framed(gs) /\ gs # <<>> /\ Len(gs) = Len(frames) + 1
           /\ Len(frames) + 1 <= MaxDepth => Leads(frames, pc, next, gs, "loop")
           /\ ~(Len(frames) + 1 <= MaxDepth) => Refused(frames, pc, next)
  <1> DEFINE gs == Append(frames, Frame(next))
  <1>1. Framed(frames) /\ Poised(frames, pc) /\ pc \in {"top", "loop", "value"}
    BY DEF Ready, Reading
  <1>2. Framed(gs) /\ gs # <<>> /\ Len(gs) = Len(frames) + 1 /\ Opened(gs, frames, next)
    BY <1>1, EnterFrames
  <1> HIDE DEF gs
  <1>3. After(Shape(frames, pc), next) = Shape(gs, "loop")
    BY <1>1, <1>2, ShapeOpened
  <1>4. Poised(gs, "loop")
    BY DEF Poised
  <1>5. Len(frames) + 1 <= MaxDepth => Leads(frames, pc, next, gs, "loop")
    BY <1>2, <1>3, <1>4 DEF Leads
  <1>6. Fits(frames, pc, next) = (Len(frames) + 1 <= MaxDepth)
    BY <1>1, TooDeep
  <1>7. ~(Len(frames) + 1 <= MaxDepth) => Refused(frames, pc, next)
    BY <1>6 DEF Refused
  <1>8. QED
    BY <1>2, <1>5, <1>7 DEF gs

LEMMA EnterOutcome ==
  ASSUME Ready, ~Easy, adapter' = adapter, next \in Opens, First(pc, next), Enter(next)
  PROVE  (Moves \/ Fails) /\ Counted
  <1> DEFINE gs == Append(frames, Frame(next))
  <1>1. /\ next' = Undef /\ depth' = depth + 1 /\ err' = (depth + 1 > MaxDepth)
        /\ frames' = gs /\ pc' = "loop"
    BY DEF Enter, Deeper
  <1>2. /\ Framed(gs) /\ gs # <<>> /\ Len(gs) = Len(frames) + 1
        /\ Len(frames) + 1 <= MaxDepth => Leads(frames, pc, next, gs, "loop")
        /\ ~(Len(frames) + 1 <= MaxDepth) => Refused(frames, pc, next)
    BY Begins
  <1> HIDE DEF gs
  <1>3. PICK n \in Nat : n = Len(frames)
    BY FramedLen DEF Ready
  <1>4. depth = n
    BY <1>3 DEF Ready
  <1>5. Counted
    BY <1>1, <1>2, <1>3, <1>4 DEF Counted
  <1>6. CASE n + 1 <= MaxDepth
    <2>1. err' = FALSE
      <3>1. (n + 1 > MaxDepth) = FALSE
        BY <1>6, DepthNat
      <3>2. QED
        BY <1>1, <1>4, <3>1
    <2>2. Moves
      BY <1>1, <1>2, <1>3, <1>6, <2>1 DEF Moves
    <2>3. QED
      BY <1>5, <2>2
  <1>7. CASE ~(n + 1 <= MaxDepth)
    <2>1. err' = TRUE
      <3>1. (n + 1 > MaxDepth) = TRUE
        BY <1>7, DepthNat
      <3>2. QED
        BY <1>1, <1>4, <3>1
    <2>2. Fails
      BY <1>1, <1>2, <1>3, <1>7, <2>1 DEF Fails
    <2>3. QED
      BY <1>5, <2>2
  <1>8. QED
    BY <1>6, <1>7

LEMMA EasyEnterOutcome ==
  ASSUME Ready, Easy, adapter' = adapter, next \in Opens, First(pc, next), EasyEnter(next)
  PROVE  (Moves \/ Fails) /\ Counted
  <1> DEFINE gs == Append(frames, Frame(next))
  <1>1. Counted
    BY DEF Counted, Easy
  <1>2. /\ Len(frames) + 1 <= MaxDepth => Leads(frames, pc, next, gs, "loop")
        /\ ~(Len(frames) + 1 <= MaxDepth) => Refused(frames, pc, next)
    BY Begins
  <1> HIDE DEF gs
  <1>3. PICK n \in Nat : n = Len(frames)
    BY FramedLen DEF Ready
  <1>4. Budget = MaxDepth - n
    BY <1>3, BudgetLeft DEF Ready
  <1>5. CASE Budget <= 0
    <2>1. ~(n + 1 <= MaxDepth)
      BY <1>4, <1>5, DepthNat
    <2>2. err' = TRUE /\ pc' = pc /\ frames' = frames
      BY <1>5 DEF EasyEnter
    <2>3. Refused(frames, pc, next)
      BY <1>2, <1>3, <2>1
    <2>4. Framed(frames) /\ pc \in {"top", "loop", "value"} /\ (pc = "top") = (frames = <<>>)
      BY DEF Ready, Reading
    <2>5. Fails
      BY <2>2, <2>3, <2>4 DEF Fails
    <2>6. QED
      BY <1>1, <2>5
  <1>6. CASE ~(Budget <= 0)
    <2>1. n + 1 <= MaxDepth
      BY <1>4, <1>6, DepthNat
    <2>2. next' = Undef /\ frames' = gs /\ pc' = "loop" /\ err' = err
      BY <1>6 DEF EasyEnter, gs
    <2>3. Leads(frames, pc, next, gs, "loop")
      BY <1>2, <1>3, <2>1
    <2>4. err = FALSE
      BY DEF Ready
    <2>5. Moves
      BY <2>2, <2>3, <2>4 DEF Moves
    <2>6. QED
      BY <1>1, <2>5
  <1>7. QED
    BY <1>5, <1>6

\* A token that is not one of those expected.
LEMMA FailOutcome ==
  ASSUME Ready, adapter' = adapter, Refused(frames, pc, next), Fail
  PROVE  (Moves \/ Fails) /\ Counted
  <1>1. err' = TRUE /\ depth' = depth /\ pc' = pc /\ frames' = frames
    BY DEF Fail
  <1>2. /\ Framed(frames) /\ pc \in {"top", "loop", "value"} /\ (pc = "top") = (frames = <<>>)
        /\ ~Easy => depth = Len(frames)
    BY DEF Ready, Reading
  <1>3. Fails
    BY <1>1, <1>2 DEF Fails
  <1>4. Counted
    BY <1>1, <1>2 DEF Counted, Easy
  <1>5. QED
    BY <1>3, <1>4

\* A value that ends at once.
LEMMA PlainOutcome ==
  ASSUME Ready, adapter' = adapter, pc # "top", next \in Plain, NEW v,
         frames' = Delivered(frames, v), next' = Undef, pc' = "loop", UNCHANGED <<err, depth>>
  PROVE  (Moves \/ Fails) /\ Counted
  <1> DEFINE gs == Delivered(frames, v)
  <1>1. /\ Framed(frames) /\ frames # <<>> /\ pc \in {"top", "loop", "value"}
        /\ Poised(frames, pc) /\ Len(frames) <= MaxDepth /\ (~Easy => depth = Len(frames))
    BY DEF Ready, Reading
  <1>2. /\ Framed(gs) /\ Len(gs) = Len(frames)
        /\ \A i \in 1 .. Len(frames) : gs[i].kind = frames[i].kind
    BY <1>1, DeliveredFramed
  <1>3. frames' = gs
    OBVIOUS
  <1> HIDE DEF gs
  <1>4. After(Shape(frames, pc), next) = Shape(gs, "loop")
    BY <1>1, <1>2, ShapePlain
  <1>5. Poised(gs, "loop")
    BY DEF Poised
  <1>6. gs # <<>>
    <2>1. Len(frames) # 0
      BY <1>1, FramedLen
    <2>2. QED
      BY <1>2, <2>1
  <1>7. Leads(frames, pc, next, gs, "loop")
    BY <1>1, <1>2, <1>4, <1>5, <1>6 DEF Leads
  <1>8. First(pc, next)
    BY TokensDiffer DEF First
  <1>9. Moves
    <2>1. err' = FALSE
      BY DEF Ready
    <2>2. QED
      BY <1>3, <1>7, <1>8, <2>1 DEF Moves
  <1>10. Counted
    BY <1>1, <1>2, <1>3 DEF Counted, Easy
  <1>11. QED
    BY <1>9, <1>10

Outcome == (Moves \/ Fails \/ Ends) /\ Counted

\* A value, where one is due.
LEMMA AsInterfaceOutcome ==
  ASSUME Ready, adapter' = adapter, pc # "top", next \in Opens \cup Plain \cup Stops,
         IF Easy THEN EasyAsInterface ELSE AsInterface
  PROVE  Outcome
  <1>1. next \in Opens => First(pc, next)
    BY TokensDiffer DEF First
  <1>2. CASE next \in Plain
    <2>1. next \notin Opens
      BY <1>2, TokensDiffer
    <2>2. /\ frames' = Delivered(frames, [kind |-> Valuation(next), items |-> <<>>])
          /\ next' = Undef /\ pc' = "loop" /\ UNCHANGED <<err, depth>>
      BY <1>2, <2>1 DEF EasyAsInterface, AsInterface
    <2>3. QED
      BY <1>2, <2>2, PlainOutcome DEF Outcome
  <1>3. CASE next \in Opens
    <2>1. next \notin Plain
      BY <1>3, TokensDiffer
    <2>2. IF Easy THEN EasyEnter(next) ELSE Enter(next)
      BY <1>3, <2>1 DEF EasyAsInterface, AsInterface
    <2>3. QED
      BY <1>1, <1>3, <2>2, EnterOutcome, EasyEnterOutcome DEF Outcome
  <1>4. CASE next \in Stops
    <2>1. next \notin Plain \cup Opens
      BY <1>4, TokensDiffer
    <2>2. Fail
      BY <2>1 DEF EasyAsInterface, AsInterface
    <2>3. Refused(frames, pc, next)
      BY <1>4 DEF Refused
    <2>4. QED
      BY <2>2, <2>3, FailOutcome DEF Outcome
  <1>5. QED
    BY <1>2, <1>3, <1>4

LEMMA NullOutcome ==
  ASSUME Ready, adapter' = adapter, pc = "top", next = "null", next' = Undef, pc' = "done",
         UNCHANGED <<err, depth, frames>>
  PROVE  Outcome
  <1>1. Consumed = <<>> /\ frames = <<>> /\ err = FALSE
    BY DEF Ready, ReadSoFar
  <1>2. Append(Consumed, next) = <<"null">>
    BY <1>1
  <1>3. Accepted(Append(Consumed, next))
    <2>1. next \in Plain /\ <<>> \in Seq(Tokens) /\ next \in Tokens
      BY DEF Plain, Tokens
    <2>2. Open(Append(<<>>, next)) = After(Open(<<>>), next)
      BY <2>1, OpenAppend
    <2>3. After(<<>>, next) = Valued(<<>>) /\ Valued(<<>>) = <<>>
      BY <2>1, AfterToken DEF Valued
    <2>4. <<"null">> # <<>> /\ Open(<<"null">>) = <<>>
      BY <1>1, <1>2, <2>2, <2>3, OpenEmpty
    <2>5. QED
      BY <1>2, <2>4 DEF Accepted, Beginning
  <1>4. Ends
    BY <1>1, <1>3 DEF Ends
  <1>5. QED
    BY <1>4 DEF Outcome, Counted

LEMMA TopOutcome ==
  ASSUME Ready, Top0 \/ EasyTop0
  PROVE  Outcome
  <1>1. pc = "top" /\ adapter' = adapter
    BY DEF Top0, EasyTop0
  <1>2. CASE next = "null"
    <2>1. next' = Undef /\ pc' = "done" /\ UNCHANGED <<err, depth, frames>>
      BY <1>2 DEF Top0, EasyTop0
    <2>2. QED
      BY <1>1, <1>2, <2>1, NullOutcome
  <1>3. CASE next = "{"
    <2>1. next \in Opens /\ First(pc, next)
      BY <1>3 DEF Opens, Stops, First
    <2>2. (Easy /\ EasyEnter(next)) \/ (~Easy /\ Enter(next))
      BY <1>3 DEF Top0, EasyTop0
    <2>3. QED
      BY <1>1, <2>1, <2>2, EnterOutcome, EasyEnterOutcome DEF Outcome
  <1>4. CASE next \notin {"null", "{"}
    <2>1. Fail
      BY <1>4 DEF Top0, EasyTop0
    <2>2. Refused(frames, pc, next)
      BY <1>1, <1>4 DEF Refused
    <2>3. QED
      BY <1>1, <2>1, <2>2, FailOutcome DEF Outcome
  <1>5. QED
    BY <1>2, <1>3, <1>4

LEMMA ValueOutcome ==
  ASSUME Ready, ValueOf
  PROVE  Outcome
  <1>1. pc = "value" /\ adapter' = adapter /\ IF Easy THEN EasyAsInterface ELSE AsInterface
    BY DEF ValueOf
  <1>2. Framed(frames) /\ (pc = "top") = (frames = <<>>) /\ next \in Allowed(Shape(frames, pc)) \cup Stops
    BY DEF Ready
  <1>3. Allowed(Shape(frames, pc)) = Opens \cup Plain
    BY <1>1, <1>2, AllowedBy
  <1>4. next \in Opens \cup Plain \cup Stops
    BY <1>2, <1>3
  <1>5. QED
    BY <1>1, <1>4, AsInterfaceOutcome

LEMMA ItemOutcome ==
  ASSUME Ready, ItemOf
  PROVE  Outcome
  <1>1. pc = "loop" /\ adapter' = adapter /\ IF Easy THEN EasyAsInterface ELSE AsInterface
    BY DEF ItemOf
  <1>2. Framed(frames) /\ (pc = "top") = (frames = <<>>) /\ next \in Allowed(Shape(frames, pc)) \cup Stops
    BY DEF Ready
  <1>3. Last(frames).kind = "[" /\ next # "]"
    BY DEF ItemOf, Top
  <1>4. Allowed(Shape(frames, pc)) = Opens \cup Plain \cup {"]"}
    BY <1>1, <1>2, <1>3, AllowedBy
  <1>5. next \in Opens \cup Plain \cup Stops
    BY <1>2, <1>3, <1>4
  <1>6. QED
    BY <1>1, <1>5, AsInterfaceOutcome

LEMMA FramedSome ==
  ASSUME NEW fs, Framed(fs), fs # <<>>, NEW gs, Len(gs) = Len(fs)
  PROVE  Len(fs) > 0 /\ gs # <<>>
  BY FramedLen

\* The innermost container takes a key.
Keyed(fs, k) == [fs EXCEPT ![Len(fs)].key = k]

LEMMA KeyedFramed ==
  ASSUME NEW fs, Framed(fs), fs # <<>>, NEW k
  PROVE  /\ Framed(Keyed(fs, k)) /\ Len(Keyed(fs, k)) = Len(fs)
         /\ \A i \in 1 .. Len(fs) : Keyed(fs, k)[i].kind = fs[i].kind
  <1>1. PICK n \in Nat : n = Len(fs) /\ n \in 1 .. n
    BY FramedLen
  <1>2. fs[n] = [kind |-> fs[n].kind, items |-> fs[n].items, key |-> fs[n].key,
                 budget |-> MaxDepth + 1 - n]
    BY <1>1 DEF Framed
  <1>3. PICK f : f = [kind |-> fs[n].kind, items |-> fs[n].items, key |-> k, budget |-> fs[n].budget]
    OBVIOUS
  <1>4. [fs[n] EXCEPT !.key = k] = f
    BY <1>2, <1>3
  <1>5. Keyed(fs, k) = [fs EXCEPT ![Len(fs)] = f]
    BY <1>1, <1>4 DEF Keyed
  <1>6. Edited(f, fs, fs[n].items, k)
    BY <1>1, <1>3 DEF Edited
  <1> DEFINE gs == [fs EXCEPT ![Len(fs)] = f]
  <1>7. Framed(gs) /\ Len(gs) = Len(fs) /\ \A i \in 1 .. Len(fs) : gs[i].kind = fs[i].kind
    BY <1>6, Retopped
  <1> HIDE DEF gs
  <1>8. Keyed(fs, k) = gs
    BY <1>5 DEF gs
  <1>9. QED
    BY <1>7, <1>8

LEMMA KeyMoves ==
  ASSUME Ready, pc = "loop", frames # <<>>, Last(frames).kind = "{", next \in Keys
  PROVE  Leads(frames, pc, next, Keyed(frames, next), "value") /\ Len(Keyed(frames, next)) = Len(frames)
  <1> DEFINE gs == Keyed(frames, next)
  <1>1. Framed(frames) /\ Len(frames) <= MaxDepth
    BY DEF Ready
  <1>2. /\ Framed(gs) /\ Len(gs) = Len(frames)
        /\ \A i \in 1 .. Len(frames) : gs[i].kind = frames[i].kind
    BY <1>1, KeyedFramed
  <1> HIDE DEF gs
  <1>3. PICK n \in Nat : n = Len(frames) /\ n \in 1 .. n
    BY <1>1, FramedLen
  <1>4. Len(frames) > 0 /\ gs # <<>>
    BY <1>1, <1>2, FramedSome
  <1>5. After(Shape(frames, "loop"), next) = Shape(gs, "value")
    BY <1>1, <1>2, <1>3, <1>4, ShapeKeyed
  <1>6. frames[n].kind = "{"
    BY <1>1, <1>3, Innermost
  <1>7. Poised(gs, "value")
    BY <1>2, <1>3, <1>4, <1>6 DEF Poised
  <1>8. Leads(frames, pc, next, gs, "value")
    BY <1>1, <1>2, <1>4, <1>5, <1>7 DEF Leads
  <1>9. QED
    BY <1>2, <1>8 DEF gs

LEMMA KeyOutcome ==
  ASSUME Ready, KeyOf
  PROVE  Outcome
  <1>1. pc = "loop" /\ adapter' = adapter /\ Last(frames).kind = "{" /\ next # "}"
    BY DEF KeyOf, Top
  <1>2. /\ Framed(frames) /\ (pc = "top") = (frames = <<>>) /\ err = FALSE
        /\ next \in Allowed(Shape(frames, pc)) \cup Stops /\ (~Easy => depth = Len(frames))
    BY DEF Ready
  <1>3. Allowed(Shape(frames, pc)) = Keys \cup {"}"}
    BY <1>1, <1>2, AllowedBy
  <1>4. frames # <<>>
    BY <1>1, <1>2
  <1>5. CASE next \in Keys
    <2>1. frames' = Keyed(frames, next) /\ next' = Undef /\ pc' = "value" /\ UNCHANGED <<err, depth>>
      BY <1>5 DEF KeyOf, Keyed
    <2>2. Leads(frames, pc, next, frames', pc') /\ Len(frames') = Len(frames)
      BY <1>1, <1>4, <1>5, <2>1, KeyMoves
    <2>3. First(pc, next)
      BY <1>1, <1>5, TokensDiffer DEF First
    <2>4. Moves
      BY <1>2, <2>1, <2>2, <2>3 DEF Moves
    <2>5. Counted
      BY <1>1, <1>2, <2>1, <2>2 DEF Counted, Easy
    <2>6. QED
      BY <2>4, <2>5 DEF Outcome
  <1>6. CASE next \notin Keys
    <2>1. Fail
      BY <1>6 DEF KeyOf
    <2>2. Refused(frames, pc, next)
      BY <1>1, <1>2, <1>3, <1>6 DEF Refused
    <2>3. QED
      BY <1>1, <2>1, <2>2, FailOutcome DEF Outcome
  <1>7. QED
    BY <1>5, <1>6

LEMMA LeaveOutcome ==
  ASSUME Ready, Leave
  PROVE  Outcome
  <1>1. pc = "loop" /\ adapter' = adapter /\ next = Closing(Last(frames).kind)
        /\ next' = Undef /\ err' = err /\ depth' = (IF Easy THEN depth ELSE depth - 1)
    BY DEF Leave, Top
  <1>2. /\ Framed(frames) /\ (pc = "top") = (frames = <<>>) /\ err = FALSE
        /\ (~Easy => depth = Len(frames)) /\ ReadSoFar(Consumed, frames, pc) /\ Len(frames) <= MaxDepth
    BY DEF Ready
  <1>3. frames # <<>> /\ next \in {"}", "]"} /\ First(pc, next)
    BY <1>1, <1>2 DEF Closing, Stops, First
  <1>4. PICK n \in Nat : n = Len(frames) /\ n \in 1 .. n
    BY <1>2, <1>3, FramedLen
  <1>5. PICK fr : fr = Front(frames)
    OBVIOUS
  <1>6. Framed(fr) /\ Len(fr) = n - 1 /\ \A i \in 1 .. n - 1 : fr[i] = frames[i]
    BY <1>2, <1>3, <1>4, <1>5, Popped
  <1>7. CASE n = 1
    <2>1. frames' = <<>> /\ pc' = "done"
      BY <1>4, <1>7 DEF Leave
    <2>2. Len(fr) = 0
      BY <1>6, <1>7
    <2>3. fr = <<>>
      BY <1>6, <2>2, FramedLen
    <2>4. Closed(fr, frames)
      BY <1>4, <1>6, <1>7, <2>2 DEF Closed
    <2>5. After(Shape(frames, "loop"), next) = Shape(fr, "loop")
      BY <1>2, <1>3, <1>6, <2>4, ShapeClosed
    <2>6. Shape(fr, "loop") = <<>>
      BY <2>2 DEF Shape
    <2>7. Accepted(Append(Consumed, next))
      BY <1>1, <1>2, <1>3, <2>5, <2>6, ReadAll
    <2>8. Ends
      BY <1>1, <1>2, <2>1, <2>7 DEF Ends
    <2>9. QED
      BY <2>1, <2>8 DEF Outcome, Counted
  <1>8. CASE n # 1
    <2>1. PICK v : frames' = Delivered(fr, v)
      BY <1>4, <1>5, <1>8 DEF Leave
    <2>2. pc' = pc
      BY <1>4, <1>8 DEF Leave
    <2>3. Len(fr) # 0
      BY <1>4, <1>6, <1>8
    <2>4. fr # <<>>
      BY <2>3
    <2> DEFINE gs == Delivered(fr, v)
    <2>5. /\ Framed(gs) /\ Len(gs) = Len(fr)
          /\ \A i \in 1 .. Len(fr) : gs[i].kind = fr[i].kind
      BY <1>6, <2>4, DeliveredFramed
    <2>6. frames' = gs
      BY <2>1
    <2> HIDE DEF gs
    <2>7. Closed(gs, frames)
      <3>1. Len(frames) = Len(gs) + 1
        BY <1>4, <1>6, <2>5
      <3>2. \A i \in 1 .. n - 1 : gs[i].kind = frames[i].kind
        BY <1>6, <2>5
      <3>3. QED
        BY <1>6, <2>5, <3>1, <3>2 DEF Closed
    <2>8. After(Shape(frames, "loop"), next) = Shape(gs, "loop")
      BY <1>2, <1>3, <2>5, <2>7, ShapeClosed
    <2>9. Poised(gs, "loop")
      BY DEF Poised
    <2>10. gs # <<>> /\ Len(gs) <= MaxDepth
      <3>1. Len(gs) = n - 1 /\ Len(gs) # 0
        BY <1>6, <2>3, <2>5
      <3>2. n <= MaxDepth
        BY <1>2, <1>4
      <3>3. Len(gs) <= MaxDepth
        BY <1>4, <3>1, <3>2, DepthNat
      <3>4. QED
        BY <3>1, <3>3
    <2>11. Leads(frames, pc, next, gs, pc)
      BY <1>1, <2>5, <2>8, <2>9, <2>10 DEF Leads
    <2>12. Moves
      BY <1>1, <1>2, <1>3, <2>2, <2>6, <2>11 DEF Moves
    <2>13. Counted
      <3>1. ~Easy => depth' = n - 1
        BY <1>1, <1>2, <1>4
      <3>2. QED
        BY <1>1, <1>6, <2>5, <2>6, <3>1 DEF Counted, Easy
    <2>14. QED
      BY <2>12, <2>13 DEF Outcome
  <1>9. QED
    BY <1>7, <1>8

-----------------------------------------------------------------------------
(* The invariant is kept *)

\* By the routines, one by one.
LEMMA OutcomeStack ==
  ASSUME Ready, adapter' = adapter, Outcome
  PROVE  StackInv'
  <1>1. adapter' \in {"stdlib", "easyjson"}
    BY DEF Ready
  <1>2. err' \in BOOLEAN
    BY DEF Outcome, Moves, Fails, Ends
  <1>3. pc' \in {"top", "loop", "value", "done"}
    BY DEF Outcome, Moves, Fails, Ends, Leads
  <1>4. Framed(frames')
    BY NoFrames DEF Outcome, Moves, Fails, Ends, Leads
  <1>5. (frames' = <<>>) = (pc' \notin {"loop", "value"})
    BY DEF Outcome, Moves, Fails, Ends, Leads
  <1>6. ~err' => Len(frames') <= MaxDepth
    BY EmptyFits DEF Outcome, Moves, Fails, Ends, Leads
  <1>7. ~Easy' /\ pc' # "done" => depth' = Len(frames')
    BY DEF Outcome, Counted
  <1>8. QED
    BY <1>1, <1>2, <1>3, <1>4, <1>5, <1>6, <1>7 DEF StackInv

LEMMA OutcomeRead ==
  ASSUME Ready, doc' = doc, Outcome
  PROVE  ReadInv'
  <1>1. ReadSoFar(Consumed, frames, pc) /\ doc = Append(Consumed, next) /\ next \in Tokens
    BY DEF Ready
  <1>2. CASE Moves
    <2>1. next' = Undef /\ err' = FALSE /\ pc' \in {"loop", "value"}
      BY <1>2 DEF Moves, Leads
    <2>2. Consumed' = doc
      BY <2>1 DEF Consumed
    <2>3. ReadSoFar(Append(Consumed, next), frames', pc')
      BY <1>1, <1>2, ReadMore DEF Moves
    <2>4. ReadSoFar(Consumed', frames', pc')
      BY <1>1, <2>2, <2>3
    <2>5. LookedAhead'
      BY <2>1 DEF LookedAhead
    <2>6. QED
      BY <2>1, <2>4, <2>5 DEF ReadInv, Reading, AcceptsObjects
  <1>3. CASE Fails
    <2>1. err' = TRUE /\ pc' \in {"top", "loop", "value"}
      BY <1>3 DEF Fails
    <2>2. ~Beginning(Append(Consumed, next))
      BY <1>1, <1>3, NotBeginning DEF Fails
    <2>3. ~Beginning(doc')
      BY <1>1, <2>2
    <2>4. QED
      BY <2>1, <2>3 DEF ReadInv, Reading, AcceptsObjects
  <1>4. CASE Ends
    <2>1. next' = Undef /\ err' = FALSE /\ pc' = "done" /\ Accepted(doc')
      BY <1>1, <1>4 DEF Ends
    <2>2. QED
      BY <2>1 DEF ReadInv, Reading, AcceptsObjects
  <1>5. QED
    BY <1>2, <1>3, <1>4 DEF Outcome

\* Those that consume what was looked ahead keep the receiver as it is.
Consume == Top0 \/ EasyTop0 \/ KeyOf \/ ValueOf \/ ItemOf \/ Leave

LEMMA ConsumeStep ==
  ASSUME IInv, Consume
  PROVE  IInv'
  <1>1. Reading /\ ~err /\ next # Undef
    BY DEF Consume, Top0, EasyTop0, KeyOf, ValueOf, ItemOf, Leave, Closing, Undef, Reading
  <1>2. adapter' = adapter /\ doc' = doc /\ UNCHANGED <<via, held, before, outcome>>
    BY DEF Consume, Top0, EasyTop0, KeyOf, ValueOf, ItemOf, Leave, receiver
  <1>3. Ready
    BY <1>1, IsReady
  <1>4. Outcome
    BY <1>3, TopOutcome, KeyOutcome, ValueOutcome, ItemOutcome, LeaveOutcome DEF Consume
  <1>5. StackInv' /\ ReadInv'
    BY <1>2, <1>3, <1>4, OutcomeStack, OutcomeRead
  <1>6. HeldInv'
    <2>1. /\ made = Nil /\ held = before /\ via \in Methods
      BY <1>1 DEF IInv, HeldInv
    <2>2. made' = Nil \/ (err' = err /\ pc' = "done")
      BY <2>1 DEF Consume, Top0, EasyTop0, KeyOf, ValueOf, ItemOf, Leave
    <2>3. pc' \in {"top", "loop", "value", "done"}
      BY <1>4 DEF Outcome, Moves, Fails, Ends, Leads
    <2>4. QED
      BY <1>1, <1>2, <2>1, <2>2, <2>3 DEF HeldInv, Reading, FailureChangesNothing
  <1>7. QED
    BY <1>5, <1>6 DEF IInv

LEMMA FetchStep ==
  ASSUME IInv, Fetch
  PROVE  IInv'
  <1>1. /\ Reading /\ err = FALSE /\ next = Undef
        /\ UNCHANGED <<adapter, depth, pc, frames, made, via, held, before, outcome>>
    BY DEF Fetch, receiver, Reading, IInv, StackInv
  <1>2. PICK t \in Stops \cup Allowed(Open(doc)) :
          next' = t /\ doc' = Append(doc, t) /\ err' = (t = "error" \/ (Easy /\ t = "eof"))
    BY DEF Fetch
  <1>3. ReadSoFar(doc, frames, pc)
    BY <1>1 DEF IInv, ReadInv, Consumed
  <1>4. /\ doc \in Seq(Tokens) /\ Framed(frames) /\ (pc = "top") = (frames = <<>>)
        /\ Open(doc) = Shape(frames, pc)
    BY <1>3 DEF ReadSoFar
  <1>5. t \in Allowed(Shape(frames, pc)) \cup Stops /\ t \in Tokens /\ t # Undef
    <2>1. Allowed(Shape(frames, pc)) \subseteq Tokens \ (Stops \cup {Undef})
      BY <1>1, <1>4, AllowedTokens DEF Reading
    <2>2. Stops \subseteq Tokens /\ Undef \notin Stops
      BY DEF Tokens, Stops, Undef
    <2>3. QED
      BY <1>2, <1>4, <2>1, <2>2
  <1>6. err' \in BOOLEAN /\ (err' => t \in Stops)
    BY <1>2 DEF Stops
  <1>7. StackInv'
    BY <1>1, <1>6 DEF IInv, StackInv, Easy
  <1>8. HeldInv'
    BY <1>1 DEF IInv, HeldInv, Reading, FailureChangesNothing
  <1>9. ReadInv'
    <2>1. Front(Append(doc, t)) = doc
      BY <1>4, <1>5, LongerEnds
    <2>2. Consumed' = doc
      BY <1>2, <1>5, <2>1 DEF Consumed
    <2>3. ReadSoFar(Consumed', frames', pc')
      BY <1>1, <1>3, <2>2
    <2>4. LookedAhead'
      BY <1>1, <1>2, <1>5, <2>2 DEF LookedAhead
    <2>5. err' => ~Beginning(doc')
      <3>1. t \in Stops => Refused(frames, pc, t)
        BY DEF Refused
      <3>2. t \in Stops => ~Beginning(Append(doc, t))
        BY <1>3, <1>5, <3>1, NotBeginning
      <3>3. QED
        BY <1>2, <1>6, <3>2
    <2>6. pc' \in {"top", "loop", "value"}
      BY <1>1 DEF Reading
    <2>7. QED
      BY <2>3, <2>4, <2>5, <2>6 DEF ReadInv, AcceptsObjects
  <1>10. QED
    BY <1>7, <1>8, <1>9 DEF IInv

\* Every routine returns.
LEMMA UnwindStep ==
  ASSUME IInv, Unwind \/ EasyUnwind
  PROVE  IInv'
  <1>1. /\ Reading /\ err /\ pc' = "done" /\ frames' = <<>> /\ (~Easy => made' = made)
        /\ UNCHANGED <<adapter, doc, next, err, depth, via, held, before, outcome>>
    BY DEF Unwind, EasyUnwind, Reading, lexer, receiver
  <1>2. StackInv'
    BY <1>1, NoFrames DEF IInv, StackInv, Easy
  <1>3. HeldInv'
    BY <1>1 DEF IInv, HeldInv, Reading, FailureChangesNothing, Easy
  <1>4. ReadInv'
    BY <1>1 DEF IInv, ReadInv, Reading, AcceptsObjects
  <1>5. QED
    BY <1>2, <1>3, <1>4 DEF IInv

LEMMA ReturnStep ==
  ASSUME IInv, Return
  PROVE  IInv'
  <1>1. /\ pc = "done" /\ pc' = "returned" /\ outcome' = (IF err THEN "error" ELSE "ok")
        /\ next' = Undef /\ err' = FALSE /\ depth' = 0
        /\ UNCHANGED <<adapter, doc, frames, made, via, before>>
        /\ held' = CASE via = "UnmarshalJSON" -> IF made = Nil THEN held ELSE made
                     [] via = "OrderedUnmarshal" -> IF err THEN held ELSE SetOrderedItems(held, made)
    BY DEF Return, Reset
  <1>2. frames = <<>>
    BY <1>1 DEF IInv, StackInv
  <1>3. StackInv'
    <2>1. Len(<<>>) = 0
      OBVIOUS
    <2>2. QED
      BY <1>1, <1>2, <2>1, NoFrames, EmptyFits DEF IInv, StackInv, Easy
  <1>4. HeldInv'
    <2>1. via \in Methods /\ held = before /\ (~Easy /\ err => made = Nil)
      BY <1>1 DEF IInv, HeldInv
    <2>2. FailureChangesNothing'
      <3>1. SUFFICES ASSUME err, Easy => via = "OrderedUnmarshal" PROVE held' = before
        BY <1>1 DEF FailureChangesNothing, Easy
      <3>2. CASE via = "UnmarshalJSON"
        BY <1>1, <2>1, <3>1, <3>2
      <3>3. CASE via = "OrderedUnmarshal"
        BY <1>1, <2>1, <3>1, <3>3
      <3>4. QED
        BY <2>1, <3>2, <3>3 DEF Methods
    <2>3. QED
      BY <1>1, <2>1, <2>2 DEF HeldInv, Reading
  <1>5. ReadInv'
    <2>1. IF err THEN ~Beginning(doc) ELSE Accepted(doc)
      BY <1>1 DEF IInv, ReadInv
    <2>2. QED
      BY <1>1, <2>1 DEF ReadInv, Reading, AcceptsObjects
  <1>6. QED
    BY <1>3, <1>4, <1>5 DEF IInv

LEMMA CallStep ==
  ASSUME IInv, NEW method \in Methods, NEW h \in Held, Call(method, h)
  PROVE  IInv'
  <1>1. /\ pc \in {"idle", "returned"} /\ pc' = "top" /\ via' = method /\ held' = h /\ before' = h
        /\ doc' = <<>> /\ made' = Nil /\ UNCHANGED <<adapter, next, err, depth, frames, outcome>>
    BY DEF Call, lexer
  <1>2. next = Undef /\ err = FALSE /\ frames = <<>>
    BY <1>1 DEF IInv, ReadInv, StackInv
  <1>3. StackInv'
    BY <1>1, <1>2 DEF IInv, StackInv, Easy
  <1>4. HeldInv'
    BY <1>1, <1>2 DEF HeldInv, Reading, FailureChangesNothing
  <1>5. ReadInv'
    <2>1. Consumed' = <<>>
      BY <1>1, <1>2 DEF Consumed
    <2>2. ReadSoFar(Consumed', frames', pc')
      BY <1>1, <1>2, <2>1, ReadStart
    <2>3. LookedAhead'
      BY <1>1, <1>2 DEF LookedAhead
    <2>4. QED
      BY <1>1, <1>2, <2>2, <2>3 DEF ReadInv, AcceptsObjects
  <1>6. QED
    BY <1>3, <1>4, <1>5 DEF IInv

\* It holds to begin with.
LEMMA InitInv == Init => IInv
  <1> SUFFICES ASSUME Init PROVE IInv
    OBVIOUS
  <1>1. StackInv
    <2>1. Len(<<>>) = 0
      OBVIOUS
    <2>2. QED
      BY <2>1, NoFrames, EmptyFits DEF Init, StackInv
  <1>2. HeldInv /\ ReadInv
    BY DEF Init, HeldInv, ReadInv, Reading, FailureChangesNothing, AcceptsObjects
  <1>3. QED
    BY <1>1, <1>2 DEF IInv

\* Every step keeps it.
LEMMA NextInv == IInv /\ [Next]_vars => IInv'
  <1> SUFFICES ASSUME IInv, [Next]_vars PROVE IInv'
    OBVIOUS
  <1>1. CASE Consume
    BY <1>1, ConsumeStep
  <1>2. CASE Fetch
    BY <1>2, FetchStep
  <1>3. CASE Unwind \/ EasyUnwind
    BY <1>3, UnwindStep
  <1>4. CASE Return
    BY <1>4, ReturnStep
  <1>5. CASE \E method \in Methods, h \in Held : Call(method, h)
    BY <1>5, CallStep
  <1>6. CASE UNCHANGED vars
    <2>1. UNCHANGED <<adapter, doc, next, err, depth, pc, frames, made, via, held, before, outcome>>
      BY <1>6 DEF vars, lexer, receiver
    <2>2. StackInv'
      BY <2>1 DEF IInv, StackInv, Easy
    <2>3. HeldInv'
      BY <2>1 DEF IInv, HeldInv, Reading, FailureChangesNothing, Easy
    <2>4. ReadInv'
      BY <2>1 DEF IInv, ReadInv, Reading, AcceptsObjects, Consumed, LookedAhead
    <2>5. QED
      BY <2>2, <2>3, <2>4 DEF IInv
  <1>7. QED
    BY <1>1, <1>2, <1>3, <1>4, <1>5, <1>6 DEF Next, Consume

\* The invariant holds in every state.
LEMMA Invariant == Spec => []IInv
  BY InitInv, NextInv, PTL DEF Spec

-----------------------------------------------------------------------------
(* Updates *)

\* A list of keys with their values.
Listed(s) ==
  /\ s \in Seq({s[i] : i \in DOMAIN s})
  /\ \A i \in 1 .. Len(s) : s[i] = [key |-> s[i].key, value |-> s[i].value]

Item(k, v) == [key |-> k, value |-> v]

LEMMA ListedLen ==
  ASSUME NEW s, Listed(s)
  PROVE  Len(s) \in Nat /\ DOMAIN s = 1 .. Len(s)
  BY DEF Listed

LEMMA ListedIntro ==
  ASSUME NEW S, NEW s \in Seq(S), \A i \in 1 .. Len(s) : s[i] = Item(s[i].key, s[i].value)
  PROVE  Listed(s)
  <1> DEFINE R == {s[i] : i \in DOMAIN s}
  <1>1. s \in [1 .. Len(s) -> R] /\ Len(s) \in Nat
    OBVIOUS
  <1> HIDE DEF R
  <1>2. s \in Seq(R)
    BY <1>1, SeqDef
  <1>3. QED
    BY <1>2 DEF Listed, R, Item

LEMMA ListedEmpty == Listed(<<>>)
  <1>1. <<>> \in Seq({}) /\ \A i \in 1 .. Len(<<>>) : FALSE
    OBVIOUS
  <1>2. QED
    BY <1>1, ListedIntro

LEMMA ListedAppend ==
  ASSUME NEW s, Listed(s), NEW k, NEW v
  PROVE  /\ Listed(Append(s, Item(k, v))) /\ Len(Append(s, Item(k, v))) = Len(s) + 1
         /\ Append(s, Item(k, v))[Len(s) + 1] = Item(k, v)
         /\ \A i \in 1 .. Len(s) : Append(s, Item(k, v))[i] = s[i]
  <1> DEFINE R == {s[i] : i \in DOMAIN s} \cup {Item(k, v)}  t == Append(s, Item(k, v))
  <1>1. {s[i] : i \in DOMAIN s} \subseteq R /\ Item(k, v) \in R /\ s \in Seq({s[i] : i \in DOMAIN s})
    BY DEF Listed
  <1> HIDE DEF R
  <1>2. s \in Seq(R)
    BY <1>1, SeqMonotonic
  <1>3. /\ t \in Seq(R) /\ Len(t) = Len(s) + 1 /\ t[Len(s) + 1] = Item(k, v)
        /\ \A i \in 1 .. Len(s) : t[i] = s[i]
    BY <1>1, <1>2, AppendProperties
  <1> HIDE DEF t
  <1>4. Item(k, v) = Item(Item(k, v).key, Item(k, v).value)
    BY DEF Item
  <1>5. \A i \in 1 .. Len(t) : t[i] = Item(t[i].key, t[i].value)
    <2> SUFFICES ASSUME NEW i \in 1 .. Len(t) PROVE t[i] = Item(t[i].key, t[i].value)
      OBVIOUS
    <2>1. Len(s) \in Nat
      BY ListedLen
    <2>2. i = Len(s) + 1 \/ i \in 1 .. Len(s)
      BY <1>3, <2>1
    <2>3. CASE i = Len(s) + 1
      BY <1>3, <1>4, <2>3
    <2>4. CASE i \in 1 .. Len(s)
      <3>1. s[i] = Item(s[i].key, s[i].value)
        BY <2>4 DEF Listed, Item
      <3>2. QED
        BY <1>3, <2>4, <3>1
    <2>5. QED
      BY <2>2, <2>3, <2>4
  <1>6. Listed(t)
    BY <1>3, <1>5, ListedIntro
  <1>7. QED
    BY <1>3, <1>6 DEF t

\* Another value at place p.
LEMMA ListedExcept ==
  ASSUME NEW s, Listed(s), NEW p \in 1 .. Len(s), NEW v
  PROVE  /\ Listed([s EXCEPT ![p].value = v]) /\ Len([s EXCEPT ![p].value = v]) = Len(s)
         /\ [s EXCEPT ![p].value = v][p] = Item(s[p].key, v)
         /\ \A i \in 1 .. Len(s) : i # p => [s EXCEPT ![p].value = v][i] = s[i]
  <1> DEFINE R == {s[i] : i \in DOMAIN s} \cup {Item(s[p].key, v)}  t == [s EXCEPT ![p].value = v]
  <1>1. {s[i] : i \in DOMAIN s} \subseteq R /\ Item(s[p].key, v) \in R /\ s \in Seq({s[i] : i \in DOMAIN s})
    BY DEF Listed
  <1>2. s[p] = Item(s[p].key, s[p].value) /\ Len(s) \in Nat /\ DOMAIN s = 1 .. Len(s)
    BY ListedLen DEF Listed, Item
  <1>3. [s[p] EXCEPT !.value = v] = Item(s[p].key, v)
    BY <1>2 DEF Item
  <1>4. t = [s EXCEPT ![p] = Item(s[p].key, v)]
    BY <1>2, <1>3
  <1> HIDE DEF R
  <1>5. s \in Seq(R)
    BY <1>1, SeqMonotonic
  <1>6. /\ t \in Seq(R) /\ Len(t) = Len(s)
        /\ \A i \in 1 .. Len(s) : t[i] = IF i = p THEN Item(s[p].key, v) ELSE s[i]
    BY <1>1, <1>4, <1>5, ExceptSeq
  <1> HIDE DEF t
  <1>7. \A i \in 1 .. Len(t) : t[i] = Item(t[i].key, t[i].value)
    <2> SUFFICES ASSUME NEW i \in 1 .. Len(t) PROVE t[i] = Item(t[i].key, t[i].value)
      OBVIOUS
    <2>1. Item(s[p].key, v) = Item(Item(s[p].key, v).key, Item(s[p].key, v).value)
      BY DEF Item
    <2>2. s[i] = Item(s[i].key, s[i].value)
      BY <1>6 DEF Listed, Item
    <2>3. QED
      BY <1>6, <2>1, <2>2
  <1>8. Listed(t)
    BY <1>6, <1>7, ListedIntro
  <1>9. QED
    BY <1>6, <1>8 DEF t

\* The greatest number of a set.
LEMMA MaxIs ==
  ASSUME NEW S, S \subseteq Nat, NEW x \in S, \A y \in S : y <= x
  PROVE  Max(S) = x
  <1>1. \A y \in S : x >= y
    OBVIOUS
  <1>2. \A z \in S : (\A y \in S : z >= y) => z = x
    OBVIOUS
  <1>3. QED
    BY <1>1, <1>2 DEF Max

LEMMA MaxOf ==
  ASSUME NEW n \in Nat, NEW S, S \subseteq 1 .. n, S # {}
  PROVE  Max(S) \in S /\ \A y \in S : y <= Max(S)
  <1> DEFINE R == {n - y : y \in S}
  <1>1. R \subseteq Nat /\ R # {}
    OBVIOUS
  <1>2. PICK r \in R : \A q \in R : r <= q
    BY <1>1, LeastIndex
  <1>3. PICK x \in S : r = n - x
    OBVIOUS
  <1>4. \A y \in S : y <= x
    <2> SUFFICES ASSUME NEW y \in S PROVE y <= x
      OBVIOUS
    <2>1. n - x <= n - y
      BY <1>2, <1>3
    <2>2. QED
      BY <2>1
  <1>5. S \subseteq Nat
    OBVIOUS
  <1> HIDE DEF R
  <1>6. Max(S) = x
    BY <1>4, <1>5, MaxIs
  <1>7. QED
    BY <1>4, <1>6

\* Where a list has key k.
Places(s, k) == {i \in DOMAIN s : s[i].key = k}

\* One step of SetOrderedItems.
Put(old, acc, item) ==
  IF Places(old, item.key) = {} THEN Append(acc, item)
  ELSE [acc EXCEPT ![Max(Places(old, item.key))].value = item.value]

\* g puts the items at the places of any set of the first n.
Puts(g, old, items, n) ==
  g = [s \in SUBSET (1 .. n) |->
         IF s = {} THEN old ELSE Put(old, g[s \ {Max(s)}], items[Max(s)])]

\* The function that puts the first n items exists: no n is the least one
\* without it.
LEMMA PutsExists ==
  ASSUME NEW old, NEW items, NEW n \in Nat
  PROVE  \E g : Puts(g, old, items, n)
  <1> DEFINE bad == {k \in Nat : ~\E g : Puts(g, old, items, k)}
  <1>1. SUFFICES ASSUME bad # {} PROVE FALSE
    OBVIOUS
  <1>2. PICK m \in bad : \A k \in bad : m <= k
    BY <1>1, LeastIndex
  <1>3. m # 0
    <2> DEFINE g == [s \in SUBSET (1 .. 0) |-> old]
    <2>1. SUBSET (1 .. 0) = {{}}
      OBVIOUS
    <2>2. Puts(g, old, items, 0)
      BY <2>1 DEF Puts
    <2>3. 0 \notin bad
      BY <2>2
    <2>4. QED
      BY <1>2, <2>3
  <1>4. m - 1 \in Nat /\ m - 1 \notin bad /\ m \in Nat
    BY <1>2, <1>3
  <1>5. PICK f : Puts(f, old, items, m - 1)
    BY <1>4
  <1> DEFINE g == [s \in SUBSET (1 .. m) |->
                     IF m \in s THEN Put(old, f[s \ {m}], items[m]) ELSE f[s]]
  <1>6. \A s \in SUBSET (1 .. m) : m \notin s => s \in SUBSET (1 .. m - 1)
    BY <1>4
  <1>7. ASSUME NEW s \in SUBSET (1 .. m)
        PROVE  g[s] = IF s = {} THEN old ELSE Put(old, g[s \ {Max(s)}], items[Max(s)])
    <2>1. CASE m \in s
      <3>1. Max(s) = m /\ s \ {m} \in SUBSET (1 .. m - 1)
        BY <1>4, <2>1, MaxInitial
      <3>2. s \ {m} \in SUBSET (1 .. m) /\ m \notin s \ {m}
        BY <1>6
      <3>3. g[s \ {m}] = f[s \ {m}]
        BY <3>2
      <3>4. QED
        BY <2>1, <3>1, <3>3
    <2>2. CASE m \notin s
      <3>1. s \in SUBSET (1 .. m - 1)
        BY <1>6, <2>2
      <3>2. f[s] = IF s = {} THEN old ELSE Put(old, f[s \ {Max(s)}], items[Max(s)])
        BY <1>5, <3>1 DEF Puts
      <3>3. s \ {Max(s)} \in SUBSET (1 .. m) /\ m \notin s \ {Max(s)}
        BY <2>2
      <3>4. g[s] = f[s] /\ g[s \ {Max(s)}] = f[s \ {Max(s)}]
        BY <2>2, <3>3
      <3>5. QED
        BY <3>2, <3>4
    <2>3. QED
      BY <2>1, <2>2
  <1>8. Puts(g, old, items, m)
    <2>1. g = [s \in SUBSET (1 .. m) |-> g[s]]
      OBVIOUS
    <2> HIDE DEF g
    <2>2. QED
      BY <1>7, <2>1 DEF Puts
  <1>9. QED
    BY <1>2, <1>8

\* What a receiver that holds m has before it is updated.
Old(m) == IF m = Nil THEN <<>> ELSE m

\* SetOrderedItems is what such a function is at all the places.
LEMMA SetPuts ==
  ASSUME NEW m, Listed(m), NEW items, Listed(items), items # Nil, ~(m = Nil /\ items = <<>>)
  PROVE  \E g : Puts(g, Old(m), items, Len(items)) /\ SetOrderedItems(m, items) = g[1 .. Len(items)]
  <1>1. DOMAIN items = 1 .. Len(items) /\ Len(items) \in Nat
    BY ListedLen
  <1>2. DOMAIN Old(m) = 1 .. Len(Old(m))
    BY ListedLen, ListedEmpty DEF Old
  <1> DEFINE F(g) == g = [s \in SUBSET (DOMAIN items) |->
                   IF s = {} THEN Old(m) ELSE Put(Old(m), g[s \ {Max(s)}], items[Max(s)])]
  <1>3. SetOrderedItems(m, items) = (CHOOSE g : F(g))[DOMAIN items]
    BY DEF SetOrderedItems, FoldLeft, MapThenFoldSet, Put, Places, Old
  <1>4. \E g : F(g)
    <2>1. PICK g : Puts(g, Old(m), items, Len(items))
      BY <1>1, PutsExists
    <2>2. F(g)
      BY <1>1, <2>1 DEF Puts
    <2>3. QED
      BY <2>2
  <1>5. F(CHOOSE g : F(g))
    BY <1>4
  <1> DEFINE h == CHOOSE g : F(g)
  <1>6. Puts(h, Old(m), items, Len(items))
    BY <1>1, <1>5 DEF Puts
  <1>7. QED
    BY <1>1, <1>3, <1>6

LEMMA PutsStep ==
  ASSUME NEW old, NEW items, NEW n \in Nat, NEW g, Puts(g, old, items, n)
  PROVE  /\ g[1 .. 0] = old
         /\ \A k \in 1 .. n : g[1 .. k] = Put(old, g[1 .. k - 1], items[k])
  <1>1. g[1 .. 0] = old
    BY DEF Puts
  <1>2. ASSUME NEW k \in 1 .. n PROVE g[1 .. k] = Put(old, g[1 .. k - 1], items[k])
    <2>1. k - 1 \in Nat /\ 1 .. k \in SUBSET (1 .. n) /\ 1 .. k # {} /\ (k - 1) + 1 = k
          /\ k \in 1 .. k
      OBVIOUS
    <2>2. Max(1 .. k) = k
      BY <2>1, MaxInitial
    <2>3. (1 .. k) \ {k} = 1 .. k - 1
      BY <2>1
    <2>4. g[1 .. k] = Put(old, g[(1 .. k) \ {Max(1 .. k)}], items[Max(1 .. k)])
      BY <2>1 DEF Puts
    <2>5. QED
      BY <2>2, <2>3, <2>4
  <1>3. QED
    BY <1>1, <1>2

\* The last that list s has for the key of an item is that item.
Holds(s, item) ==
  \E p \in 1 .. Len(s) :
    s[p] = item /\ \A q \in 1 .. Len(s) : q > p => s[q].key # item.key

\* What old has become with the first j items.
Updated(old, s, items, j) ==
  /\ Listed(s) /\ Len(s) >= Len(old)
  /\ \A i \in 1 .. Len(old) :
       /\ s[i].key = old[i].key
       /\ (\A c \in 1 .. j : items[c].key # old[i].key) => s[i] = old[i]
  /\ \A i \in 1 .. Len(s) : i > Len(old) => Places(old, s[i].key) = {}
  /\ \A c \in 1 .. j :
       (\A d \in 1 .. j : d > c => items[d].key # items[c].key) => Holds(s, items[c])

\* A key that is new comes after all others.
LEMMA UpdatedNew ==
  ASSUME NEW old, Listed(old), NEW items, NEW j \in Nat, NEW s, Updated(old, s, items, j),
         NEW x, x = items[j + 1], x = Item(x.key, x.value), Places(old, x.key) = {}
  PROVE  Updated(old, Append(s, x), items, j + 1)
  <1> DEFINE t == Append(s, x)
  <1>1. Listed(s) /\ Len(s) \in Nat /\ Len(old) \in Nat /\ DOMAIN old = 1 .. Len(old) /\ Len(s) >= Len(old)
    BY ListedLen DEF Updated
  <1>2. /\ Listed(t) /\ Len(t) = Len(s) + 1 /\ t[Len(s) + 1] = x
        /\ \A i \in 1 .. Len(s) : t[i] = s[i]
    <2>1. PICK y : y = Item(x.key, x.value)
      OBVIOUS
    <2>2. x = y
      BY <2>1
    <2>3. /\ Listed(Append(s, y)) /\ Len(Append(s, y)) = Len(s) + 1 /\ Append(s, y)[Len(s) + 1] = y
          /\ \A i \in 1 .. Len(s) : Append(s, y)[i] = s[i]
      BY <1>1, <2>1, ListedAppend
    <2>4. QED
      BY <2>2, <2>3
  <1> HIDE DEF t
  <1>3. ASSUME NEW i \in 1 .. Len(old)
        PROVE  /\ t[i].key = old[i].key
               /\ (\A c \in 1 .. j + 1 : items[c].key # old[i].key) => t[i] = old[i]
    <2>1. i \in 1 .. Len(s)
      BY <1>1
    <2>2. 1 .. j \subseteq 1 .. j + 1
      OBVIOUS
    <2>3. QED
      BY <1>2, <2>1, <2>2 DEF Updated
  <1>4. ASSUME NEW i \in 1 .. Len(t), i > Len(old) PROVE Places(old, t[i].key) = {}
    <2>1. i = Len(s) + 1 \/ i \in 1 .. Len(s)
      BY <1>1, <1>2
    <2>2. QED
      BY <1>2, <1>4, <2>1 DEF Updated
  <1>5. ASSUME NEW c \in 1 .. j + 1, \A d \in 1 .. j + 1 : d > c => items[d].key # items[c].key
        PROVE  Holds(t, items[c])
    <2>1. CASE c = j + 1
      <3>1. Len(s) + 1 \in 1 .. Len(t) /\ \A q \in 1 .. Len(t) : ~(q > Len(s) + 1)
        BY <1>1, <1>2
      <3>2. QED
        BY <1>2, <2>1, <3>1 DEF Holds
    <2>2. CASE c # j + 1
      <3>1. c \in 1 .. j /\ j + 1 > c /\ j + 1 \in 1 .. j + 1 /\ 1 .. j \subseteq 1 .. j + 1
        BY <2>2
      <3>2. items[c].key # x.key
        BY <1>5, <3>1
      <3>3. Holds(s, items[c])
        BY <1>5, <3>1 DEF Updated
      <3>4. PICK p \in 1 .. Len(s) :
              s[p] = items[c] /\ \A q \in 1 .. Len(s) : q > p => s[q].key # items[c].key
        BY <3>3 DEF Holds
      <3>5. p \in 1 .. Len(t) /\ t[p] = items[c]
        BY <1>1, <1>2, <3>4
      <3>6. ASSUME NEW q \in 1 .. Len(t), q > p PROVE t[q].key # items[c].key
        <4>1. q = Len(s) + 1 \/ q \in 1 .. Len(s)
          BY <1>1, <1>2
        <4>2. QED
          BY <1>2, <3>2, <3>4, <3>6, <4>1
      <3>7. QED
        BY <3>5, <3>6 DEF Holds
    <2>3. QED
      BY <2>1, <2>2
  <1>6. Len(t) >= Len(old)
    BY <1>1, <1>2
  <1>7. Updated(old, t, items, j + 1)
    BY <1>2, <1>3, <1>4, <1>5, <1>6 DEF Updated
  <1>8. QED
    BY <1>7 DEF t

\* A key that is there keeps its place.
LEMMA UpdatedKnown ==
  ASSUME NEW old, Listed(old), NEW items, NEW j \in Nat, NEW s, Updated(old, s, items, j),
         NEW x, x = items[j + 1], x = Item(x.key, x.value), Places(old, x.key) # {}
  PROVE  Updated(old, [s EXCEPT ![Max(Places(old, x.key))].value = x.value], items, j + 1)
  <1> DEFINE P == Max(Places(old, x.key))
  <1>1. Listed(s) /\ Len(s) \in Nat /\ Len(old) \in Nat /\ DOMAIN old = 1 .. Len(old) /\ Len(s) >= Len(old)
    BY ListedLen DEF Updated
  <1>2. /\ P \in 1 .. Len(old) /\ old[P].key = x.key
        /\ \A i \in 1 .. Len(old) : i > P => old[i].key # x.key
    <2>1. Places(old, x.key) \subseteq 1 .. Len(old)
      BY <1>1 DEF Places
    <2>2. P \in Places(old, x.key) /\ \A y \in Places(old, x.key) : y <= P
      BY <1>1, <2>1, MaxOf
    <2> HIDE DEF P
    <2>3. P \in 1 .. Len(old) /\ old[P].key = x.key
      BY <1>1, <2>2 DEF Places
    <2>4. ASSUME NEW i \in 1 .. Len(old), i > P PROVE old[i].key # x.key
      <3>1. ~(i <= P)
        BY <2>3, <2>4
      <3>2. i \notin Places(old, x.key)
        BY <2>2, <3>1
      <3>3. QED
        BY <1>1, <3>2 DEF Places
    <2>5. QED
      BY <2>3, <2>4
  <1> HIDE DEF P
  <1>3. P \in 1 .. Len(s) /\ s[P].key = x.key
    BY <1>1, <1>2 DEF Updated
  <1> DEFINE t == [s EXCEPT ![P].value = x.value]
  <1>4. /\ Listed(t) /\ Len(t) = Len(s) /\ t[P] = x
        /\ \A i \in 1 .. Len(s) : i # P => t[i] = s[i]
    BY <1>1, <1>3, ListedExcept
  <1> HIDE DEF t
  <1>5. \A i \in 1 .. Len(s) : t[i].key = s[i].key
    BY <1>3, <1>4
  <1>6. ASSUME NEW i \in 1 .. Len(old)
        PROVE  /\ t[i].key = old[i].key
               /\ (\A c \in 1 .. j + 1 : items[c].key # old[i].key) => t[i] = old[i]
    <2>1. i \in 1 .. Len(s) /\ s[i].key = old[i].key
      BY <1>1 DEF Updated
    <2>2. ASSUME \A c \in 1 .. j + 1 : items[c].key # old[i].key PROVE t[i] = old[i]
      <3>1. 1 .. j \subseteq 1 .. j + 1 /\ j + 1 \in 1 .. j + 1
        OBVIOUS
      <3>2. i # P
        BY <1>2, <2>2, <3>1
      <3>3. s[i] = old[i]
        BY <2>2, <3>1 DEF Updated
      <3>4. QED
        BY <1>4, <2>1, <3>2, <3>3
    <2>3. QED
      BY <1>5, <2>1, <2>2
  <1>7. ASSUME NEW i \in 1 .. Len(t), i > Len(old) PROVE Places(old, t[i].key) = {}
    BY <1>4, <1>5, <1>7 DEF Updated
  <1>8. ASSUME NEW c \in 1 .. j + 1, \A d \in 1 .. j + 1 : d > c => items[d].key # items[c].key
        PROVE  Holds(t, items[c])
    <2>1. CASE c = j + 1
      <3>1. ASSUME NEW q \in 1 .. Len(t), q > P PROVE t[q].key # x.key
        <4>1. CASE q <= Len(old)
          <5>1. q \in 1 .. Len(old)
            BY <4>1
          <5>2. QED
            BY <1>2, <1>6, <3>1, <5>1
        <4>2. CASE ~(q <= Len(old))
          <5>1. Places(old, t[q].key) = {}
            BY <1>1, <1>4, <1>7, <4>2
          <5>2. QED
            BY <5>1
        <4>3. QED
          BY <4>1, <4>2
      <3>2. QED
        BY <1>3, <1>4, <2>1, <3>1 DEF Holds
    <2>2. CASE c # j + 1
      <3>1. c \in 1 .. j /\ j + 1 > c /\ j + 1 \in 1 .. j + 1 /\ 1 .. j \subseteq 1 .. j + 1
        BY <2>2
      <3>2. items[c].key # x.key
        BY <1>8, <3>1
      <3>3. Holds(s, items[c])
        BY <1>8, <3>1 DEF Updated
      <3>4. PICK p \in 1 .. Len(s) :
              s[p] = items[c] /\ \A q \in 1 .. Len(s) : q > p => s[q].key # items[c].key
        BY <3>3 DEF Holds
      <3>5. p # P
        BY <1>3, <3>2, <3>4
      <3>6. QED
        BY <1>4, <1>5, <3>4, <3>5 DEF Holds
    <2>3. QED
      BY <2>1, <2>2
  <1>9. Updated(old, t, items, j + 1)
    BY <1>1, <1>4, <1>6, <1>7, <1>8 DEF Updated
  <1>10. QED
    BY <1>9 DEF t, P

\* All the items, one by one.
LEMMA UpdatedAll ==
  ASSUME NEW m, Listed(m), NEW items, Listed(items), items # Nil, ~(m = Nil /\ items = <<>>)
  PROVE  Updated(Old(m), SetOrderedItems(m, items), items, Len(items))
  <1>1. Listed(Old(m)) /\ Len(items) \in Nat /\ Len(Old(m)) \in Nat /\ DOMAIN Old(m) = 1 .. Len(Old(m))
    BY ListedLen, ListedEmpty DEF Old
  <1>2. PICK g : Puts(g, Old(m), items, Len(items)) /\ SetOrderedItems(m, items) = g[1 .. Len(items)]
    BY SetPuts
  <1> DEFINE n == Len(items)
             bad == {k \in 0 .. n : ~Updated(Old(m), g[1 .. k], items, k)}
  <1>3. SUFFICES ASSUME bad # {} PROVE FALSE
    <2>1. n \in 0 .. n
      BY <1>1
    <2>2. QED
      BY <1>2, <2>1
  <1>4. bad \subseteq Nat
    OBVIOUS
  <1>5. PICK k \in bad : \A j \in bad : k <= j
    BY <1>3, <1>4, LeastIndex
  <1>6. g[1 .. 0] = Old(m) /\ \A i \in 1 .. n : g[1 .. i] = Put(Old(m), g[1 .. i - 1], items[i])
    <2>1. n \in Nat /\ Puts(g, Old(m), items, n)
      BY <1>1, <1>2
    <2> HIDE DEF n, bad
    <2>2. QED
      BY <2>1, PutsStep
  <1>7. k # 0
    <2>1. Updated(Old(m), Old(m), items, 0)
      <3>1. \A c \in 1 .. 0 : FALSE
        OBVIOUS
      <3>2. \A i \in 1 .. Len(Old(m)) : ~(i > Len(Old(m)))
        BY <1>1
      <3>3. QED
        BY <1>1, <3>1, <3>2 DEF Updated
    <2>2. 0 \notin bad
      BY <1>6, <2>1
    <2>3. QED
      BY <1>5, <2>2
  <1>8. PICK j \in Nat : k = j + 1 /\ j \in 0 .. n /\ j + 1 \in 1 .. n /\ j \notin bad
    <2>1. k - 1 \in Nat /\ k = (k - 1) + 1 /\ k - 1 \in 0 .. n /\ (k - 1) + 1 \in 1 .. n /\ ~(k <= k - 1)
      BY <1>1, <1>5, <1>7
    <2>2. QED
      BY <1>5, <2>1
  <1>9. Updated(Old(m), g[1 .. j], items, j) /\ ~Updated(Old(m), g[1 .. j + 1], items, j + 1)
    BY <1>5, <1>8
  <1>10. g[1 .. j + 1] = Put(Old(m), g[1 .. j], items[j + 1])
    <2>1. (j + 1) - 1 = j
      BY <1>8
    <2>2. QED
      BY <1>6, <1>8, <2>1
  <1>11. PICK x : x = items[j + 1]
    OBVIOUS
  <1>12. x = Item(x.key, x.value)
    <2>1. items[j + 1] = [key |-> items[j + 1].key, value |-> items[j + 1].value]
      BY <1>8 DEF Listed
    <2>2. QED
      BY <1>11, <2>1 DEF Item
  <1> HIDE DEF bad, n
  <1>13. CASE Places(Old(m), x.key) = {}
    <2>1. Updated(Old(m), Append(g[1 .. j], x), items, j + 1)
      BY <1>1, <1>9, <1>11, <1>12, <1>13, UpdatedNew
    <2>2. QED
      BY <1>9, <1>10, <1>11, <1>13, <2>1 DEF Put
  <1>14. CASE Places(Old(m), x.key) # {}
    <2>1. Updated(Old(m), [g[1 .. j] EXCEPT ![Max(Places(Old(m), x.key))].value = x.value], items, j + 1)
      BY <1>1, <1>9, <1>11, <1>12, <1>14, UpdatedKnown
    <2>2. QED
      BY <1>9, <1>10, <1>11, <1>14, <2>1 DEF Put
  <1>15. QED
    BY <1>13, <1>14

\* What SetOrderedItems does with a list that it is given.
UpdatedBy(m, s, items) ==
  /\ m # Nil => \A i \in DOMAIN m :
       /\ i \in DOMAIN s /\ s[i].key = m[i].key
       /\ m[i].key \notin {items[c].key : c \in DOMAIN items} => s[i] = m[i]
  /\ \A k \in {items[c].key : c \in DOMAIN items} :
       /\ Places(s, k) # {}
       /\ s[Max(Places(s, k))].value = items[Max(Places(items, k))].value

LEMMA SetUpdatesSome ==
  ASSUME NEW m, Listed(m), NEW items, Listed(items), items # Nil, ~(m = Nil /\ items = <<>>)
  PROVE  UpdatedBy(m, SetOrderedItems(m, items), items)
  <1> DEFINE s == SetOrderedItems(m, items)
             given == {items[c].key : c \in DOMAIN items}
  <1>1. Updated(Old(m), s, items, Len(items))
    BY UpdatedAll
  <1> HIDE DEF s
  <1>2. /\ Listed(s) /\ Len(s) \in Nat /\ DOMAIN s = 1 .. Len(s)
        /\ Len(items) \in Nat /\ DOMAIN items = 1 .. Len(items)
        /\ Len(m) \in Nat /\ DOMAIN m = 1 .. Len(m)
    BY <1>1, ListedLen DEF Updated
  <1>3. ASSUME m # Nil, NEW i \in DOMAIN m
        PROVE  /\ i \in DOMAIN s /\ s[i].key = m[i].key
               /\ m[i].key \notin given => s[i] = m[i]
    <2>1. Old(m) = m
      BY <1>3 DEF Old
    <2>2. i \in 1 .. Len(m) /\ Len(s) >= Len(m) /\ i \in 1 .. Len(s)
      BY <1>1, <1>2, <1>3, <2>1 DEF Updated
    <2>3. s[i].key = m[i].key /\ ((\A c \in 1 .. Len(items) : items[c].key # m[i].key) => s[i] = m[i])
      BY <1>1, <2>1, <2>2 DEF Updated
    <2>4. QED
      BY <1>2, <2>2, <2>3
  <1>4. ASSUME NEW k \in given
        PROVE  Places(s, k) # {} /\ s[Max(Places(s, k))].value = items[Max(Places(items, k))].value
    <2>1. Places(items, k) \subseteq 1 .. Len(items) /\ Places(items, k) # {}
      BY <1>2 DEF Places
    <2> DEFINE last == Max(Places(items, k))
    <2>2. last \in Places(items, k) /\ \A y \in Places(items, k) : y <= last
      BY <1>2, <2>1, MaxOf
    <2> HIDE DEF last
    <2>3. last \in 1 .. Len(items) /\ items[last].key = k
      BY <1>2, <2>2 DEF Places
    <2>4. ASSUME NEW d \in 1 .. Len(items), d > last PROVE items[d].key # k
      <3>1. ~(d <= last)
        BY <2>3, <2>4
      <3>2. d \notin Places(items, k)
        BY <2>2, <3>1
      <3>3. QED
        BY <1>2, <3>2 DEF Places
    <2>5. Holds(s, items[last])
      BY <1>1, <2>3, <2>4 DEF Updated
    <2>6. PICK p \in 1 .. Len(s) :
            s[p] = items[last] /\ \A q \in 1 .. Len(s) : q > p => s[q].key # k
      BY <2>3, <2>5 DEF Holds
    <2>7. p \in Places(s, k) /\ Places(s, k) \subseteq Nat /\ \A q \in Places(s, k) : q <= p
      BY <1>2, <2>3, <2>6 DEF Places
    <2>8. Max(Places(s, k)) = p
      BY <2>7, MaxIs
    <2>9. QED
      BY <2>6, <2>7, <2>8 DEF last
  <1>5. QED
    BY <1>3, <1>4 DEF UpdatedBy, s

\* A receiver that is nil stays so when there is nothing to set.
LEMMA SetUpdates ==
  ASSUME NEW m, Listed(m), NEW items, Listed(items), items # Nil
  PROVE  UpdatedBy(m, SetOrderedItems(m, items), items)
  <1>1. CASE m = Nil /\ items = <<>>
    <2>1. DOMAIN items = {}
      BY <1>1
    <2>2. QED
      BY <1>1, <2>1 DEF UpdatedBy
  <1>2. CASE ~(m = Nil /\ items = <<>>)
    BY <1>2, SetUpdatesSome
  <1>3. QED
    BY <1>1, <1>2

\* The containers being read have lists of items.
Gathered(fs) == \A i \in 1 .. Len(fs) : Listed(fs[i].items)

\* The lists are what they should be, and the receiver is what they make of it.
UpdateInv ==
  /\ Listed(made) /\ Listed(before) /\ Gathered(frames)
  /\ pc = "returned" /\ outcome = "ok" /\ via = "OrderedUnmarshal" /\ made # Nil =>
       UpdatedBy(before, held, made)

LEMMA ListedNil == Listed(Nil)
  <1>1. Nil = Append(<<>>, Item("nil", "nil"))
    BY DEF Nil, Item
  <1>2. QED
    BY <1>1, ListedEmpty, ListedAppend

LEMMA GatheredNone == Gathered(<<>>)
  BY DEF Gathered

LEMMA GatheredPush ==
  ASSUME NEW fs, Framed(fs), Gathered(fs), NEW t \in Opens
  PROVE  Gathered(Append(fs, Frame(t)))
  <1> DEFINE S == {fs[i] : i \in DOMAIN fs} \cup {Frame(t)}  gs == Append(fs, Frame(t))
  <1>1. {fs[i] : i \in DOMAIN fs} \subseteq S /\ Frame(t) \in S /\ fs \in Seq({fs[i] : i \in DOMAIN fs})
    BY DEF Framed
  <1> HIDE DEF S
  <1>2. fs \in Seq(S)
    BY <1>1, SeqMonotonic
  <1>3. Len(gs) = Len(fs) + 1 /\ gs[Len(fs) + 1] = Frame(t) /\ \A i \in 1 .. Len(fs) : gs[i] = fs[i]
    BY <1>1, <1>2, AppendProperties
  <1> HIDE DEF gs
  <1>4. Listed(Frame(t).items)
    BY ListedEmpty DEF Frame
  <1>5. ASSUME NEW i \in 1 .. Len(gs) PROVE Listed(gs[i].items)
    <2>1. i = Len(fs) + 1 \/ i \in 1 .. Len(fs)
      BY <1>3, FramedLen
    <2>2. QED
      BY <1>3, <1>4, <2>1 DEF Gathered
  <1>6. QED
    BY <1>5 DEF Gathered, gs

LEMMA GatheredDelivered ==
  ASSUME NEW fs, Framed(fs), fs # <<>>, Gathered(fs), NEW v
  PROVE  Gathered(Delivered(fs, v))
  <1>1. PICK n \in Nat : n = Len(fs) /\ n \in 1 .. n /\ DOMAIN fs = 1 .. n
    BY FramedLen
  <1>2. fs[n] = [kind |-> fs[n].kind, items |-> fs[n].items, key |-> fs[n].key,
                 budget |-> MaxDepth + 1 - n]
    BY <1>1 DEF Framed
  <1>3. PICK items : items = Append(fs[n].items, Item(fs[n].key, v))
    OBVIOUS
  <1>4. Listed(items)
    BY <1>1, <1>3, ListedAppend DEF Gathered
  <1>5. [fs[n] EXCEPT !.items = items].items = items
    BY <1>2
  <1>6. Delivered(fs, v) = [fs EXCEPT ![n] = [fs[n] EXCEPT !.items = items]]
    BY <1>1, <1>3 DEF Delivered, Item
  <1>7. Len(Delivered(fs, v)) = n
    BY <1>1, DeliveredFramed
  <1>8. \A i \in 1 .. n : Delivered(fs, v)[i] = IF i = n THEN [fs[n] EXCEPT !.items = items] ELSE fs[i]
    BY <1>1, <1>6
  <1>9. ASSUME NEW i \in 1 .. n PROVE Listed(Delivered(fs, v)[i].items)
    <2>1. CASE i = n
      BY <1>4, <1>5, <1>8, <2>1
    <2>2. CASE i # n
      BY <1>1, <1>8, <2>2 DEF Gathered
    <2>3. QED
      BY <2>1, <2>2
  <1>10. QED
    BY <1>7, <1>9 DEF Gathered

LEMMA GatheredKeyed ==
  ASSUME NEW fs, Framed(fs), fs # <<>>, Gathered(fs), NEW k
  PROVE  Gathered(Keyed(fs, k))
  <1>1. PICK n \in Nat : n = Len(fs) /\ n \in 1 .. n /\ DOMAIN fs = 1 .. n
    BY FramedLen
  <1>2. fs[n] = [kind |-> fs[n].kind, items |-> fs[n].items, key |-> fs[n].key,
                 budget |-> MaxDepth + 1 - n]
    BY <1>1 DEF Framed
  <1>3. [fs[n] EXCEPT !.key = k].items = fs[n].items
    BY <1>2
  <1>4. Len(Keyed(fs, k)) = n
    BY <1>1, KeyedFramed
  <1>5. \A i \in 1 .. n : Keyed(fs, k)[i] = IF i = n THEN [fs[n] EXCEPT !.key = k] ELSE fs[i]
    BY <1>1 DEF Keyed
  <1>6. \A i \in 1 .. n : Keyed(fs, k)[i].items = fs[i].items
    BY <1>3, <1>5
  <1>7. QED
    BY <1>1, <1>4, <1>6 DEF Gathered

LEMMA GatheredFront ==
  ASSUME NEW fs, Framed(fs), fs # <<>>, Gathered(fs)
  PROVE  Gathered(Front(fs))
  <1>1. Len(Front(fs)) = Len(fs) - 1 /\ \A i \in 1 .. Len(fs) - 1 : Front(fs)[i] = fs[i]
    BY Popped
  <1>2. Len(fs) \in Nat
    BY FramedLen
  <1>3. QED
    BY <1>1, <1>2 DEF Gathered

\* Where a value is due.
LEMMA ValueGathers ==
  ASSUME Framed(frames), frames # <<>>, Gathered(frames), pc \in {"loop", "value"},
         (Easy /\ EasyAsInterface) \/ (~Easy /\ AsInterface)
  PROVE  Gathered(frames') /\ pc' \in {"loop", "value"}
  <1>1. CASE next \in Opens /\ (Enter(next) \/ EasyEnter(next))
    <2>1. frames' \in {frames, Append(frames, Frame(next))} /\ pc' \in {"loop", pc}
      BY <1>1 DEF Enter, EasyEnter
    <2>2. QED
      BY <1>1, <2>1, GatheredPush
  <1>2. CASE frames' = Delivered(frames, [kind |-> Valuation(next), items |-> <<>>]) /\ pc' = "loop"
    BY <1>2, GatheredDelivered
  <1>3. CASE Fail
    BY <1>3 DEF Fail
  <1>4. QED
    BY <1>1, <1>2, <1>3 DEF AsInterface, EasyAsInterface

LEMMA ConsumeUpdates ==
  ASSUME StackInv, UpdateInv, Consume
  PROVE  UpdateInv'
  <1>1. Framed(frames) /\ (frames = <<>>) = (pc \notin {"loop", "value"}) /\ Gathered(frames) /\ Listed(made)
    BY DEF StackInv, UpdateInv
  <1>2. Gathered(frames') /\ Listed(made') /\ pc' # "returned"
    <2>1. CASE Top0 \/ EasyTop0
      <3>1. made' = made /\ pc = "top"
        BY <2>1 DEF Top0, EasyTop0
      <3>2. \/ frames' \in {frames, Append(frames, Frame("{"))} /\ pc' \in {"done", "loop", pc}
        BY <2>1 DEF Top0, EasyTop0, Enter, EasyEnter, Fail
      <3>3. "{" \in Opens
        BY DEF Opens
      <3>4. QED
        BY <1>1, <3>1, <3>2, <3>3, GatheredPush
    <2>2. CASE ValueOf \/ ItemOf
      <3>1. made' = made /\ pc \in {"loop", "value"} /\ ((Easy /\ EasyAsInterface) \/ (~Easy /\ AsInterface))
        BY <2>2 DEF ValueOf, ItemOf
      <3>2. QED
        BY <1>1, <3>1, ValueGathers
    <2>3. CASE KeyOf
      <3>1. made' = made /\ pc = "loop" /\ frames' \in {frames, Keyed(frames, next)} /\ pc' \in {pc, "value"}
        BY <2>3 DEF KeyOf, Keyed, Fail
      <3>2. QED
        BY <1>1, <3>1, GatheredKeyed
    <2>4. CASE Leave
      <3>1. pc = "loop" /\ frames # <<>> /\ Len(frames) \in 1 .. Len(frames)
        BY <1>1, <2>4, FramedLen DEF Leave
      <3>2. Listed(Top.items)
        BY <1>1, <3>1 DEF Gathered, Top, Last
      <3>3. Framed(Front(frames)) /\ Gathered(Front(frames)) /\ Len(Front(frames)) = Len(frames) - 1
        BY <1>1, <3>1, Popped, GatheredFront
      <3>4. CASE Len(frames) = 1
        <4>1. made' = Top.items /\ frames' = <<>> /\ pc' = "done"
          BY <2>4, <3>4 DEF Leave
        <4>2. QED
          BY <3>2, <4>1, GatheredNone
      <3>5. CASE Len(frames) # 1
        <4>1. PICK v : frames' = Delivered(Front(frames), v)
          BY <2>4, <3>5, Zenon DEF Leave
        <4>2. made' = made /\ pc' = pc
          BY <2>4, <3>5 DEF Leave
        <4>3. Front(frames) # <<>>
          <5>1. Len(frames) \in Nat /\ Len(frames) - 1 # 0 /\ Len(<<>>) = 0
            BY <1>1, <3>5, FramedLen
          <5>2. QED
            BY <3>3, <5>1
        <4>4. QED
          BY <1>1, <3>1, <3>3, <4>1, <4>2, <4>3, GatheredDelivered
      <3>6. QED
        BY <3>4, <3>5
    <2>5. QED
      BY <2>1, <2>2, <2>3, <2>4 DEF Consume
  <1>3. before' = before
    BY DEF Consume, Top0, EasyTop0, ValueOf, ItemOf, KeyOf, Leave, receiver
  <1>4. QED
    BY <1>2, <1>3 DEF UpdateInv, Gathered

LEMMA UnwindUpdates ==
  ASSUME StackInv, UpdateInv, Unwind \/ EasyUnwind
  PROVE  UpdateInv'
  <1>1. pc' = "done" /\ frames' = <<>> /\ before' = before
    BY DEF Unwind, EasyUnwind, receiver
  <1>2. frames # <<>> => Listed(frames[1].items)
    <2>1. ASSUME frames # <<>> PROVE 1 \in 1 .. Len(frames)
      BY <2>1, FramedLen DEF StackInv
    <2>2. QED
      BY <2>1 DEF UpdateInv, Gathered
  <1>3. Listed(made')
    <2>1. CASE Unwind
      BY <2>1 DEF Unwind, UpdateInv
    <2>2. CASE EasyUnwind
      <3>1. PICK k, v : \/ frames = <<>> /\ made' = <<>>
                        \/ frames # <<>> /\ made' \in {frames[1].items, Append(frames[1].items, Item(k, v))}
        BY <2>2 DEF EasyUnwind, Item
      <3>2. CASE made' = <<>>
        BY <3>2, ListedEmpty
      <3>3. CASE frames # <<>> /\ made' = frames[1].items
        BY <1>2, <3>3
      <3>4. CASE frames # <<>> /\ made' = Append(frames[1].items, Item(k, v))
        BY <1>2, <3>4, ListedAppend
      <3>5. QED
        BY <3>1, <3>2, <3>3, <3>4
    <2>3. QED
      BY <2>1, <2>2
  <1>4. QED
    BY <1>1, <1>3, GatheredNone DEF UpdateInv, Gathered

LEMMA ReturnUpdates ==
  ASSUME StackInv, HeldInv, UpdateInv, Return
  PROVE  UpdateInv'
  <1>1. /\ pc = "done" /\ pc' = "returned" /\ outcome' = (IF err THEN "error" ELSE "ok")
        /\ made' = made /\ before' = before /\ frames' = frames /\ via' = via
        /\ held' = CASE via = "UnmarshalJSON" -> IF made = Nil THEN held ELSE made
                     [] via = "OrderedUnmarshal" -> IF err THEN held ELSE SetOrderedItems(held, made)
    BY DEF Return
  <1>2. held = before /\ Listed(made) /\ Listed(before) /\ Gathered(frames)
    BY <1>1 DEF HeldInv, UpdateInv
  <1>3. ASSUME outcome' = "ok", via = "OrderedUnmarshal", made # Nil PROVE UpdatedBy(before, held', made)
    <2>1. held' = SetOrderedItems(before, made)
      BY <1>1, <1>2, <1>3
    <2>2. QED
      BY <1>2, <1>3, <2>1, SetUpdates
  <1>4. outcome' = "ok" /\ via' = "OrderedUnmarshal" /\ made' # Nil => UpdatedBy(before', held', made')
    BY <1>1, <1>3
  <1>5. Listed(made') /\ Listed(before') /\ Gathered(frames')
    BY <1>1, <1>2
  <1>6. QED
    BY <1>4, <1>5 DEF UpdateInv, Gathered, Nil

LEMMA UpdatesStep ==
  ASSUME StackInv, HeldInv, UpdateInv, [Next]_vars
  PROVE  UpdateInv'
  <1>1. CASE Consume
    BY <1>1, ConsumeUpdates
  <1>2. CASE Fetch
    <2>1. UNCHANGED <<pc, frames, made, before>> /\ pc # "returned"
      BY <1>2 DEF Fetch, receiver
    <2>2. QED
      BY <2>1 DEF UpdateInv, Gathered
  <1>3. CASE Unwind \/ EasyUnwind
    BY <1>3, UnwindUpdates
  <1>4. CASE Return
    BY <1>4, ReturnUpdates
  <1>5. CASE \E method \in Methods, h \in Held : Call(method, h)
    <2>1. PICK h \in Held : before' = h /\ made' = Nil /\ frames' = frames /\ pc' = "top"
      BY <1>5 DEF Call
    <2>2. Listed(h)
      <3>1. /\ h \in Seq({h[i] : i \in DOMAIN h})
            /\ \A x \in {h[i] : i \in DOMAIN h} : x = [key |-> x.key, value |-> x.value]
        BY HeldAssumption
      <3>2. QED
        BY <3>1 DEF Listed
    <2>3. QED
      BY <2>1, <2>2, ListedNil DEF UpdateInv, Gathered
  <1>6. CASE UNCHANGED vars
    <2>1. UNCHANGED <<pc, frames, made, outcome, via, held, before>>
      BY <1>6 DEF vars, receiver
    <2>2. Listed(made') /\ Listed(before') /\ Gathered(frames')
      BY <2>1 DEF UpdateInv
    <2>3. pc' = "returned" /\ outcome' = "ok" /\ via' = "OrderedUnmarshal" /\ made' # Nil =>
            UpdatedBy(before', held', made')
      BY <2>1 DEF UpdateInv
    <2>4. QED
      BY <2>2, <2>3 DEF UpdateInv, Gathered, Nil
  <1>7. QED
    BY <1>1, <1>2, <1>3, <1>4, <1>5, <1>6 DEF Next, Consume

-----------------------------------------------------------------------------
(* The theorems *)

\* The count of the stdlib lexer is the height of the stack of the routines, the
\* budgets of the easyjson routines go down along it, and the stack never grows
\* beyond WithMaxNestingDepth without an error.
THEOREM DepthIsNestingProved == Spec => []DepthIsNesting
  <1>1. IInv => DepthIsNesting
    <2> SUFFICES ASSUME IInv PROVE DepthIsNesting
      OBVIOUS
    <2>1. Framed(frames)
      BY DEF IInv, StackInv
    <2>2. \A i \in DOMAIN frames : frames[i].budget = MaxDepth + 1 - i
      <3> SUFFICES ASSUME NEW i \in DOMAIN frames PROVE frames[i].budget = MaxDepth + 1 - i
        OBVIOUS
      <3>1. i \in 1 .. Len(frames)
        BY <2>1, FramedLen
      <3>2. frames[i] = [kind |-> frames[i].kind, items |-> frames[i].items, key |-> frames[i].key,
                         budget |-> MaxDepth + 1 - i]
        BY <2>1, <3>1 DEF Framed
      <3>3. QED
        BY <3>2
    <2>3. QED
      BY <2>2 DEF IInv, StackInv, DepthIsNesting
  <1>2. QED
    BY <1>1, Invariant, PTL

\* UnmarshalJSON and OrderedUnmarshal succeed on null and on the well-formed
\* objects that nest within the depth and on nothing else, and fail at no token
\* that such an object may have there, with a lexer fresh from its pool or
\* recycled from any calls before.
THEOREM AcceptsObjectsProved == Spec => []AcceptsObjects
  <1>1. IInv => AcceptsObjects
    BY DEF IInv, ReadInv
  <1>2. QED
    BY <1>1, Invariant, PTL

\* What begins an object or null that is accepted is the beginning of one.
LEMMA AcceptedBegins ==
  ASSUME NEW S, NEW tokens \in Seq(S), NEW more \in Seq(S), Accepted(tokens \o more)
  PROVE  Beginning(tokens)
  <1> DEFINE whole == tokens \o more
  <1>1. /\ Len(tokens) \in Nat /\ Len(more) \in Nat /\ whole \in Seq(S)
        /\ Len(whole) = Len(tokens) + Len(more)
        /\ \A i \in 1 .. Len(tokens) : whole[i] = tokens[i]
    BY ConcatProperties
  <1>2. ASSUME NEW i \in 1 .. Len(tokens) PROVE SubSeq(whole, 1, i) = SubSeq(tokens, 1, i)
    <2>1. i <= Len(tokens) /\ i <= Len(whole) /\ i \in Nat
      BY <1>1
    <2>2. /\ SubSeq(whole, 1, i) \in Seq(S) /\ Len(SubSeq(whole, 1, i)) = i
          /\ \A j \in 1 .. i : SubSeq(whole, 1, i)[j] = whole[j]
      BY <1>1, <2>1
    <2>3. /\ SubSeq(tokens, 1, i) \in Seq(S) /\ Len(SubSeq(tokens, 1, i)) = i
          /\ \A j \in 1 .. i : SubSeq(tokens, 1, i)[j] = tokens[j]
      BY <1>1, <2>1
    <2>4. \A j \in 1 .. i : SubSeq(whole, 1, i)[j] = SubSeq(tokens, 1, i)[j]
      BY <1>1, <2>1, <2>2, <2>3
    <2>5. QED
      BY <2>2, <2>3, <2>4, SeqEqual
  <1>3. whole # <<>> /\ Beginning(whole)
    BY DEF Accepted
  <1> HIDE DEF whole
  <1>4. CASE tokens = <<>>
    BY <1>4 DEF Beginning
  <1>5. CASE tokens # <<>> /\ whole = <<"null">>
    <2>1. Len(whole) = 1 /\ whole[1] = "null" /\ Len(tokens) # 0
      BY <1>5
    <2>2. Len(tokens) = 1 /\ tokens[1] = "null"
      BY <1>1, <2>1
    <2>3. tokens = <<"null">>
      BY <2>2
    <2>4. QED
      BY <2>3 DEF Beginning
  <1>6. CASE tokens # <<>> /\ whole # <<"null">>
    <2>1. /\ Head(whole) = "{"
          /\ \A i \in 1 .. Len(whole) :
               /\ whole[i] \notin Stops
               /\ Len(Open(SubSeq(whole, 1, i))) <= MaxDepth
               /\ i < Len(whole) => Open(SubSeq(whole, 1, i)) # <<>>
      <3>1. DOMAIN whole = 1 .. Len(whole)
        BY <1>1, LenProperties
      <3>2. ~(whole \in {<<>>, <<"null">>})
        BY <1>3, <1>6
      <3>3. QED
        BY <1>3, <3>1, <3>2 DEF Beginning
    <2>2. Head(tokens) = "{"
      <3>1. Len(tokens) # 0 /\ 1 \in 1 .. Len(tokens)
        BY <1>1, <1>6, LenProperties, EmptySeq
      <3>2. Head(tokens) = tokens[1] /\ Head(whole) = whole[1]
        BY <1>1, <3>1
      <3>3. QED
        BY <1>1, <2>1, <3>1, <3>2
    <2>3. ASSUME NEW i \in 1 .. Len(tokens)
          PROVE  /\ tokens[i] \notin Stops
                 /\ Len(Open(SubSeq(tokens, 1, i))) <= MaxDepth
                 /\ i < Len(tokens) => Open(SubSeq(tokens, 1, i)) # <<>>
      <3>1. i \in 1 .. Len(whole) /\ (i < Len(tokens) => i < Len(whole))
        BY <1>1
      <3>2. QED
        BY <1>1, <1>2, <2>1, <3>1
    <2>4. DOMAIN tokens = 1 .. Len(tokens)
      BY LenProperties
    <2>5. QED
      BY <2>2, <2>3, <2>4 DEF Beginning
  <1>7. QED
    BY <1>4, <1>5, <1>6

\* What is read are tokens.
LEMMA DocStep ==
  ASSUME IInv, doc \in Seq(Tokens), [Next]_vars
  PROVE  doc' \in Seq(Tokens)
  <1>1. CASE Fetch
    <2>1. /\ Reading /\ err = FALSE /\ next = Undef
      BY <1>1 DEF Fetch, Reading, IInv, StackInv
    <2>2. PICK t \in Stops \cup Allowed(Open(doc)) : doc' = Append(doc, t)
      BY <1>1 DEF Fetch
    <2>3. ReadSoFar(doc, frames, pc)
      BY <2>1 DEF IInv, ReadInv, Consumed
    <2>4. Framed(frames) /\ (pc = "top") = (frames = <<>>) /\ Open(doc) = Shape(frames, pc)
      BY <2>3 DEF ReadSoFar
    <2>5. Allowed(Open(doc)) \subseteq Tokens
      BY <2>1, <2>4, AllowedTokens DEF Reading
    <2>6. t \in Tokens
      BY <2>2, <2>5 DEF Tokens
    <2>7. QED
      BY <2>2, <2>6
  <1>2. CASE \E method \in Methods, h \in Held : Call(method, h)
    BY <1>2 DEF Call
  <1>3. CASE Top0 \/ EasyTop0 \/ KeyOf \/ ValueOf \/ ItemOf \/ Leave \/ Unwind \/ EasyUnwind \/ Return
    BY <1>3 DEF Top0, EasyTop0, KeyOf, ValueOf, ItemOf, Leave, Unwind, EasyUnwind, Return
  <1>4. CASE UNCHANGED vars
    BY <1>4 DEF vars
  <1>5. QED
    BY <1>1, <1>2, <1>3, <1>4 DEF Next

\* A call fails only when it has read what no whole object or null that nests
\* within the depth goes on from, whatever the tokens to come: not before it is
\* sure, nor for an error of a call before.
THEOREM NoContinuationAccepted ==
  Spec => [](pc = "returned" /\ outcome # "ok" =>
               \A more \in Seq(Tokens) : ~Accepted(doc \o more))
  <1>1. Init => doc \in Seq(Tokens)
    BY DEF Init
  <1>2. IInv /\ doc \in Seq(Tokens) /\ [Next]_vars => (doc \in Seq(Tokens))'
    BY DocStep
  <1>3. IInv /\ doc \in Seq(Tokens) =>
          (pc = "returned" /\ outcome # "ok" => \A more \in Seq(Tokens) : ~Accepted(doc \o more))
    BY AcceptedBegins DEF IInv, ReadInv, AcceptsObjects
  <1>4. QED
    BY <1>1, <1>2, <1>3, Invariant, PTL DEF Spec

\* A call that fails leaves its receiver with what it held, except for
\* UnmarshalJSON in the easyjson adapter.
THEOREM FailureChangesNothingProved == Spec => []FailureChangesNothing
  <1>1. IInv => FailureChangesNothing
    BY DEF IInv, HeldInv
  <1>2. QED
    BY <1>1, Invariant, PTL

\* After OrderedUnmarshal, every key that the receiver held is where it was, with
\* its value unless it was read, and every key that was read is there with the
\* value read last: whatever the receiver held, duplicates included.
THEOREM UpdatesInPlaceProved == Spec => []UpdatesInPlace
  <1>1. Init => UpdateInv
    BY ListedNil, GatheredNone DEF Init, UpdateInv
  <1>2. IInv /\ UpdateInv /\ [Next]_vars => UpdateInv'
    BY UpdatesStep DEF IInv
  <1>3. UpdateInv => UpdatesInPlace
    BY Zenon DEF UpdateInv, UpdatedBy, UpdatesInPlace, Places
  <1>4. QED
    BY <1>1, <1>2, <1>3, Invariant, PTL DEF Spec

=============================================================================
