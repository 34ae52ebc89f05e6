------------------------------ MODULE MapFSProofs ------------------------------
(***************************************************************************)
(* What MapFS and MapDirReader promise, for every map of names and pages   *)
(* of any sizes: the construction fails on the wrong maps and on no other, *)
(* the index is the tree of the names, and the pages of a directory are    *)
(* its listing.                                                            *)
(*                                                                         *)
(* The invariant says what each loop has done to what it has seen so far,  *)
(* whatever the order: Filed for the files, Indexed for the children and   *)
(* Listed for the directories.                                             *)
(***************************************************************************)
EXTENDS MapDirReader, TLAPS, FiniteSetTheorems, SequenceTheorems

\* A set of numbers has a least one.
LEMMA LeastNumber ==
  ASSUME NEW S, S \subseteq Nat, S # {}
  PROVE  \E i \in S : \A j \in S : i <= j
  <1>1. PICK i \in S : \A j \in S : <<j, i>> \notin OpToRel(<, Nat)
    BY NatLessThanWellFounded, WFMin
  <1>2. \A j \in S : ~(j < i)
    BY <1>1 DEF OpToRel
  <1>3. QED
    BY <1>2

-----------------------------------------------------------------------------
(* Clean names *)

\* What elements are.
Text == STRING

\* The elements that mean nothing.
Idle == {"", "."}

\* Names without them.
Cleaned == {n \in Seq(Text) : \A i \in 1 .. Len(n) : n[i] \notin Idle}

\* What is known of a sequence.
LEMMA SeqFacts ==
  ASSUME NEW S, NEW s \in Seq(S)
  PROVE  /\ Len(s) \in Nat /\ DOMAIN s = 1 .. Len(s) /\ \A i \in 1 .. Len(s) : s[i] \in S
         /\ s # <<>> => Len(s) >= 1
  OBVIOUS

LEMMA LessOne ==
  ASSUME NEW n \in Nat, n >= 1
  PROVE  (IF 1 <= n - 1 THEN n - 1 - 1 + 1 ELSE 0) = n - 1
  OBVIOUS

\* The last, and all the others.
LEMMA FrontFacts ==
  ASSUME NEW S, NEW s \in Seq(S), s # <<>>
  PROVE  /\ Front(s) \in Seq(S) /\ Len(Front(s)) = Len(s) - 1
         /\ \A i \in 1 .. Len(s) - 1 : Front(s)[i] = s[i]
         /\ Last(s) = s[Len(s)] /\ Last(s) \in S /\ Append(Front(s), Last(s)) = s
  <1>1. Len(s) \in Nat /\ Len(s) >= 1 /\ \A i \in 1 .. Len(s) - 1 : s[i] \in S
    OBVIOUS
  <1>2. /\ SubSeq(s, 1, Len(s) - 1) \in Seq(S)
        /\ Len(SubSeq(s, 1, Len(s) - 1)) = IF 1 <= Len(s) - 1 THEN Len(s) - 1 - 1 + 1 ELSE 0
        /\ \A i \in 1 .. Len(s) - 1 - 1 + 1 : SubSeq(s, 1, Len(s) - 1)[i] = s[1 + i - 1]
    BY <1>1, SubSeqProperties
  <1>3. /\ Front(s) \in Seq(S) /\ Len(Front(s)) = Len(s) - 1
        /\ \A i \in 1 .. Len(s) - 1 : Front(s)[i] = s[i]
    <2>1. Front(s) = SubSeq(s, 1, Len(s) - 1)
      BY DEF Front
    <2>2. \A i \in 1 .. Len(s) - 1 : i \in 1 .. Len(s) - 1 - 1 + 1 /\ 1 + i - 1 = i
      BY <1>1
    <2>3. \A i \in 1 .. Len(s) - 1 : Front(s)[i] = s[i]
      BY <1>2, <2>1, <2>2
    <2>4. (IF 1 <= Len(s) - 1 THEN Len(s) - 1 - 1 + 1 ELSE 0) = Len(s) - 1
      BY <1>1, LessOne
    <2>5. QED
      BY <1>2, <2>1, <2>3, <2>4
  <1>4. Last(s) = s[Len(s)] /\ Last(s) \in S
    BY <1>1 DEF Last
  <1>5. Append(Front(s), Last(s)) = s
    <2> DEFINE t == Append(Front(s), Last(s))
    <2>1. /\ t \in Seq(S) /\ Len(t) = Len(Front(s)) + 1
          /\ \A i \in 1 .. Len(Front(s)) : t[i] = Front(s)[i]
          /\ t[Len(Front(s)) + 1] = Last(s)
      BY <1>3, <1>4, AppendProperties
    <2> HIDE DEF t
    <2>2. Len(t) = Len(s) /\ \A i \in 1 .. Len(t) : t[i] = s[i]
      BY <1>1, <1>3, <1>4, <2>1
    <2>3. t = s
      BY <2>1, <2>2, SeqEqual
    <2>4. QED
      BY <2>3 DEF t
  <1>6. QED
    BY <1>3, <1>4, <1>5

\* Adding an element to a clean name makes a clean name.
LEMMA ClimbCleans ==
  ASSUME NEW out \in Cleaned, NEW elem \in Text
  PROVE  Climb(out, elem) \in Cleaned
  <1>1. out \in Seq(Text) /\ \A i \in 1 .. Len(out) : out[i] \notin Idle
    BY DEF Cleaned
  <1>2. \/ elem \in Idle /\ Climb(out, elem) = out
        \/ out # <<>> /\ Climb(out, elem) = Front(out)
        \/ elem \notin Idle /\ Climb(out, elem) = Append(out, elem)
    BY DEF Climb, Idle
  <1>3. ASSUME out # <<>> PROVE Front(out) \in Cleaned
    <2>1. /\ Front(out) \in Seq(Text) /\ Len(Front(out)) = Len(out) - 1 /\ Len(out) \in Nat
          /\ \A i \in 1 .. Len(out) - 1 : Front(out)[i] = out[i]
      BY <1>1, <1>3, FrontFacts, SeqFacts
    <2>2. QED
      BY <1>1, <2>1 DEF Cleaned
  <1>4. ASSUME elem \notin Idle PROVE Append(out, elem) \in Cleaned
    <2>1. /\ Append(out, elem) \in Seq(Text) /\ Len(Append(out, elem)) = Len(out) + 1
          /\ \A i \in 1 .. Len(out) : Append(out, elem)[i] = out[i]
          /\ Append(out, elem)[Len(out) + 1] = elem
      BY <1>1, AppendProperties
    <2>2. Len(out) \in Nat /\ \A i \in 1 .. Len(out) + 1 : i \in 1 .. Len(out) \/ i = Len(out) + 1
      BY <1>1, SeqFacts
    <2>3. \A i \in 1 .. Len(Append(out, elem)) : Append(out, elem)[i] \notin Idle
      BY <1>1, <1>4, <2>1, <2>2
    <2>4. QED
      BY <2>1, <2>3 DEF Cleaned
  <1>5. QED
    BY <1>2, <1>3, <1>4

\* g folds the elements at the places of any set of the first n.
Folds(g, elems, n) ==
  g = [s \in SUBSET (1 .. n) |->
         IF s = {} THEN <<>> ELSE Climb(g[s \ {Max(s)}], elems[Max(s)])]

\* The greatest of the first numbers, and those before it.
LEMMA MaxInitial ==
  ASSUME NEW n \in Nat, NEW s \in SUBSET (1 .. n + 1), n + 1 \in s
  PROVE  Max(s) = n + 1 /\ s \ {Max(s)} \in SUBSET (1 .. n)
  <1>1. \A x \in s : x >= n + 1 => x = n + 1
    OBVIOUS
  <1>2. \A y \in s : n + 1 >= y
    OBVIOUS
  <1>3. Max(s) = n + 1
    BY <1>1, <1>2 DEF Max
  <1>4. QED
    BY <1>3

\* Such a function exists: no n is the least one without it.
LEMMA FoldExists ==
  ASSUME NEW elems, NEW n \in Nat
  PROVE  \E g : Folds(g, elems, n)
  <1> DEFINE bad == {k \in Nat : ~\E g : Folds(g, elems, k)}
  <1>1. SUFFICES ASSUME bad # {} PROVE FALSE
    OBVIOUS
  <1>2. PICK m \in bad : \A k \in bad : m <= k
    BY <1>1, LeastNumber
  <1>3. m # 0
    <2> DEFINE g == [s \in SUBSET (1 .. 0) |-> <<>>]
    <2>1. SUBSET (1 .. 0) = {{}}
      OBVIOUS
    <2>2. Folds(g, elems, 0)
      BY <2>1 DEF Folds
    <2>3. 0 \notin bad
      BY <2>2
    <2>4. QED
      BY <1>2, <2>3
  <1>4. m - 1 \in Nat /\ m - 1 \notin bad /\ m \in Nat
    BY <1>2, <1>3
  <1>5. PICK f : Folds(f, elems, m - 1)
    BY <1>4
  <1> DEFINE g == [s \in SUBSET (1 .. m) |->
                     IF m \in s THEN Climb(f[s \ {m}], elems[m]) ELSE f[s]]
  <1>6. \A s \in SUBSET (1 .. m) : m \notin s => s \in SUBSET (1 .. m - 1)
    BY <1>4
  <1>7. ASSUME NEW s \in SUBSET (1 .. m)
        PROVE  g[s] = IF s = {} THEN <<>> ELSE Climb(g[s \ {Max(s)}], elems[Max(s)])
    <2>1. CASE m \in s
      <3>1. Max(s) = m /\ s \ {m} \in SUBSET (1 .. m - 1)
        BY <1>4, <2>1, MaxInitial
      <3>2. s \ {m} \in SUBSET (1 .. m) /\ m \notin s \ {m}
        BY <1>6
      <3>3. g[s \ {m}] = f[s \ {m}]
        BY <3>2
      <3>4. QED
        BY <2>1, <3>1, <3>3
    <2>2. CASE m \notin s
      <3>1. s \in SUBSET (1 .. m - 1)
        BY <1>6, <2>2
      <3>2. f[s] = IF s = {} THEN <<>> ELSE Climb(f[s \ {Max(s)}], elems[Max(s)])
        BY <1>5, <3>1 DEF Folds
      <3>3. s \ {Max(s)} \in SUBSET (1 .. m) /\ m \notin s \ {Max(s)}
        BY <2>2
      <3>4. g[s] = f[s] /\ g[s \ {Max(s)}] = f[s \ {Max(s)}]
        BY <2>2, <3>3
      <3>5. QED
        BY <3>2, <3>4
    <2>3. QED
      BY <2>1, <2>2
  <1>8. Folds(g, elems, m)
    <2>1. g = [s \in SUBSET (1 .. m) |-> g[s]]
      OBVIOUS
    <2> HIDE DEF g
    <2>2. QED
      BY <1>7, <2>1 DEF Folds
  <1>9. QED
    BY <1>2, <1>8

\* The fold of the first k elements is clean: no k is the least one for which it
\* is not.
LEMMA FoldCleans ==
  ASSUME NEW elems \in Seq(Text), NEW n \in Nat, n = Len(elems), NEW g, Folds(g, elems, n)
  PROVE  g[1 .. n] \in Cleaned
  <1> DEFINE bad == {k \in 0 .. n : g[1 .. k] \notin Cleaned}
  <1>1. SUFFICES ASSUME bad # {} PROVE FALSE
    OBVIOUS
  <1>2. bad \subseteq Nat
    OBVIOUS
  <1>3. PICK k \in bad : \A j \in bad : k <= j
    BY <1>1, <1>2, LeastNumber
  <1>4. g[{}] = <<>>
    BY DEF Folds
  <1>5. 1 .. 0 = {} /\ <<>> \in Cleaned
    BY DEF Cleaned
  <1>6. k # 0
    BY <1>3, <1>4, <1>5
  <1>7. k \in 1 .. n /\ k - 1 \in 0 .. n /\ k - 1 \notin bad
    BY <1>3, <1>6
  <1>8. k - 1 \in Nat /\ 1 .. k \in SUBSET (1 .. n) /\ 1 .. k # {} /\ (k - 1) + 1 = k /\ k \in 1 .. k
    BY <1>7
  <1>9. Max(1 .. k) = k
    BY <1>8, MaxInitial
  <1>10. (1 .. k) \ {k} = 1 .. k - 1
    BY <1>8
  <1>11. g[1 .. k] = Climb(g[(1 .. k) \ {Max(1 .. k)}], elems[Max(1 .. k)])
    BY <1>8 DEF Folds
  <1>12. g[1 .. k - 1] \in Cleaned /\ elems[k] \in Text
    BY <1>7
  <1>13. g[1 .. k] \in Cleaned
    BY <1>9, <1>10, <1>11, <1>12, ClimbCleans
  <1>14. QED
    BY <1>3, <1>13

\* The fold of package path over the elements is such a function.
LEMMA FoldLeftCleans ==
  ASSUME NEW elems \in Seq(Text)
  PROVE  FoldLeft(Climb, <<>>, elems) \in Cleaned
  <1>1. DOMAIN elems = 1 .. Len(elems) /\ Len(elems) \in Nat
    OBVIOUS
  <1> DEFINE F(g) == g = [s \in SUBSET (DOMAIN elems) |->
                   IF s = {} THEN <<>> ELSE Climb(g[s \ {Max(s)}], elems[Max(s)])]
  <1>2. FoldLeft(Climb, <<>>, elems) = (CHOOSE g : F(g))[DOMAIN elems]
    BY DEF FoldLeft, MapThenFoldSet
  <1>3. \E g : F(g)
    <2>1. PICK g : Folds(g, elems, Len(elems))
      BY <1>1, FoldExists
    <2>2. F(g)
      BY <1>1, <2>1 DEF Folds
    <2>3. QED
      BY <2>2
  <1>4. F(CHOOSE g : F(g))
    BY <1>3
  <1> DEFINE h == CHOOSE g : F(g)
  <1>5. Folds(h, elems, Len(elems))
    BY <1>1, <1>4 DEF Folds
  <1>6. QED
    BY <1>1, <1>2, <1>5, FoldCleans

LEMMA CleanOnlyCleans ==
  ASSUME NEW raw \in Seq(Text)
  PROVE  CleanOnly(raw) \in Cleaned
  <1>1. Len(raw) > 1 => Tail(raw) \in Seq(Text)
    OBVIOUS
  <1>2. TrimSlash(raw) = raw \/ (Len(raw) > 1 /\ TrimSlash(raw) = Tail(raw))
    <2>1. CASE Len(raw) > 1 /\ Head(raw) = ""
      <3>1. TrimSlash(raw) = Tail(raw)
        BY <2>1, Zenon DEF TrimSlash
      <3>2. QED
        BY <2>1, <3>1, Zenon
    <2>2. CASE ~(Len(raw) > 1 /\ Head(raw) = "")
      <3>1. TrimSlash(raw) = raw
        BY <2>2, Zenon DEF TrimSlash
      <3>2. QED
        BY <3>1, Zenon
    <2>3. QED
      BY <2>1, <2>2, Zenon
  <1>3. TrimSlash(raw) \in Seq(Text)
    BY <1>1, <1>2
  <1>4. QED
    BY <1>3, FoldLeftCleans DEF CleanOnly

-----------------------------------------------------------------------------
(* What normalizeMapName accepts *)

\* The name is normalized without an error.
Named(raw) == normalizeMapName(raw) # Invalid

\* Names of files.
Names == Seq(Text) \ {<<>>}

LEMMA NamedIs ==
  ASSUME NEW raw \in Seq(Text)
  PROVE  /\ Named(raw) <=>
              ~Rooted(TrimSlash(raw)) /\ CleanOnly(raw) # <<>> /\ ".." \notin ToSet(CleanOnly(raw))
         /\ Named(raw) => normalizeMapName(raw) = CleanOnly(raw)
         /\ Named(raw) => CleanOnly(raw) \in Names
  <1>1. CleanOnly(raw) \in Seq(Text)
    BY CleanOnlyCleans DEF Cleaned
  <1>2. normalizeMapName(raw) =
          IF Rooted(TrimSlash(raw)) \/ CleanOnly(raw) = <<>> \/ ".." \in ToSet(CleanOnly(raw))
          THEN <<"..">> ELSE CleanOnly(raw)
    BY DEF normalizeMapName, CleanOnly, Invalid
  <1>3. ".." \in ToSet(<<"..">>)
    BY DEF ToSet
  <1>4. CleanOnly(raw) = <<"..">> => ".." \in ToSet(CleanOnly(raw))
    BY <1>3
  <1>5. QED
    BY <1>1, <1>2, <1>4 DEF Named, Invalid, Names

\* Such a name denotes its clean form, and others nothing.
LEMMA DenotesIs ==
  ASSUME NEW raw \in Seq(Text), NEW n
  PROVE  Denotes(raw, n) <=> Named(raw) /\ n = CleanOnly(raw)
  <1>1. CleanOnly(raw) \in Seq(Text) /\ \A i \in 1 .. Len(CleanOnly(raw)) : CleanOnly(raw)[i] \notin Idle
    BY CleanOnlyCleans DEF Cleaned
  <1>2. DOMAIN CleanOnly(raw) = 1 .. Len(CleanOnly(raw))
    BY <1>1
  <1>3. \A e : e \in {"", ".", ".."} <=> e \in Idle \/ e = ".."
    BY DEF Idle
  <1>4. ".." \in ToSet(CleanOnly(raw)) <=> \E i \in DOMAIN CleanOnly(raw) : CleanOnly(raw)[i] = ".."
    BY DEF ToSet
  <1>5. (\E i \in DOMAIN CleanOnly(raw) : CleanOnly(raw)[i] \in {"", ".", ".."})
          <=> ".." \in ToSet(CleanOnly(raw))
    BY <1>1, <1>2, <1>3, <1>4
  <1>6. QED
    BY <1>5, NamedIs DEF Denotes

-----------------------------------------------------------------------------
(* Wrong inputs *)

LEMMA InputTyped ==
  ASSUME NEW names \in Inputs, NEW raw \in names
  PROVE  raw \in Seq(Text)
  BY MapFSAssumption DEF Text

\* The names that the input denotes are those accepted.
LEMMA DenotedIs ==
  ASSUME input \in Inputs
  PROVE  Denoted = {CleanOnly(raw) : raw \in {r \in input : Named(r)}}
  <1>1. \A raw \in input : \A n : Denotes(raw, n) <=> Named(raw) /\ n = CleanOnly(raw)
    BY InputTyped, DenotesIs
  <1>2. QED
    BY <1>1, Zenon DEF Denoted

LEMMA DenotedNames ==
  ASSUME input \in Inputs, NEW n \in Denoted
  PROVE  n \in Names
  <1>1. PICK raw \in input : Named(raw) /\ n = CleanOnly(raw)
    BY DenotedIs
  <1>2. QED
    BY <1>1, InputTyped, NamedIs

LEMMA WrongName ==
  ASSUME input \in Inputs, NEW raw \in input, ~Named(raw)
  PROVE  Wrong
  <1>1. \A n : ~Denotes(raw, n)
    BY InputTyped, DenotesIs
  <1>2. QED
    BY <1>1 DEF Wrong

LEMMA WrongPair ==
  ASSUME input \in Inputs, NEW r \in input, NEW s \in input, r # s, Named(r), Named(s),
         CleanOnly(r) = CleanOnly(s)
  PROVE  Wrong
  <1>1. CleanOnly(r) \in Denoted
    BY DenotedIs
  <1>2. Denotes(r, CleanOnly(r)) /\ Denotes(s, CleanOnly(r))
    BY InputTyped, DenotesIs
  <1>3. QED
    BY <1>1, <1>2 DEF Wrong

LEMMA WrongParent ==
  ASSUME NEW n \in Denoted, NEW m \in Denoted, n \in Ancestors(m)
  PROVE  Wrong
  BY DEF Wrong

\* What is left to be right.
LEMMA NotWrong ==
  ASSUME input \in Inputs,
         \A raw \in input : Named(raw),
         \A r, s \in input : CleanOnly(r) = CleanOnly(s) => r = s,
         \A n, m \in Denoted : n \notin Ancestors(m)
  PROVE  ~Wrong
  <1>1. \A raw \in input : \A n : Denotes(raw, n) <=> Named(raw) /\ n = CleanOnly(raw)
    BY InputTyped, DenotesIs
  <1>2. \A raw \in input : CleanOnly(raw) \in Denoted
    BY DenotedIs
  <1>3. \A raw \in input : \E n \in Denoted : Denotes(raw, n)
    BY <1>1, <1>2
  <1>4. \A r, s \in input : \A n : Denotes(r, n) /\ Denotes(s, n) => r = s
    BY <1>1
  <1>5. QED
    BY <1>3, <1>4 DEF Wrong

-----------------------------------------------------------------------------
(* The directories a name lies in *)

LEMMA AncestorIs ==
  ASSUME NEW n \in Names, NEW k \in Nat, k <= Len(n) - 1
  PROVE  /\ SubSeq(n, 1, k) \in Seq(Text) /\ Len(SubSeq(n, 1, k)) = k
         /\ \A i \in 1 .. k : SubSeq(n, 1, k)[i] = n[i]
         /\ SubSeq(n, 1, k) \in Ancestors(n)
  <1>1. n \in Seq(Text) /\ Len(n) \in Nat /\ \A i \in 1 .. k : n[i] \in Text
    BY SeqFacts DEF Names
  <1>2. k \in 0 .. Len(n) - 1
    BY <1>1
  <1>3. SubSeq(n, 1, k) \in Ancestors(n)
    BY <1>2 DEF Ancestors
  <1>4. /\ SubSeq(n, 1, k) \in Seq(Text)
        /\ Len(SubSeq(n, 1, k)) = IF 1 <= k THEN k - 1 + 1 ELSE 0
        /\ \A i \in 1 .. k - 1 + 1 : SubSeq(n, 1, k)[i] = n[1 + i - 1]
    BY <1>1, SubSeqProperties
  <1>5. (IF 1 <= k THEN k - 1 + 1 ELSE 0) = k
    OBVIOUS
  <1>6. \A i \in 1 .. k : i \in 1 .. k - 1 + 1 /\ 1 + i - 1 = i
    OBVIOUS
  <1>7. QED
    BY <1>3, <1>4, <1>5, <1>6

LEMMA RootAbove ==
  ASSUME NEW n \in Names
  PROVE  <<>> \in Ancestors(n)
  <1>1. 0 <= Len(n) - 1
    BY SeqFacts DEF Names
  <1>2. SubSeq(n, 1, 0) \in Ancestors(n) /\ SubSeq(n, 1, 0) \in Seq(Text) /\ Len(SubSeq(n, 1, 0)) = 0
    BY <1>1, AncestorIs
  <1>3. SubSeq(n, 1, 0) = <<>>
    BY <1>2
  <1>4. QED
    BY <1>2, <1>3

LEMMA FrontAbove ==
  ASSUME NEW n \in Names
  PROVE  Front(n) \in Ancestors(n)
  <1>1. Len(n) \in Nat /\ Len(n) >= 1
    BY SeqFacts DEF Names
  <1>2. Len(n) - 1 \in Nat
    BY <1>1
  <1>3. SubSeq(n, 1, Len(n) - 1) \in Ancestors(n)
    BY <1>2, AncestorIs
  <1>4. QED
    BY <1>3 DEF Front

\* The parent of a directory above a name is above it too.
LEMMA AboveAbove ==
  ASSUME NEW n \in Names, NEW a \in Ancestors(n)
  PROVE  /\ a \in Seq(Text)
         /\ a # <<>> => a \in Names /\ Front(a) \in Ancestors(n)
  <1>1. PICK k \in 0 .. Len(n) - 1 : a = SubSeq(n, 1, k)
    BY DEF Ancestors
  <1>2. Len(n) \in Nat /\ k \in Nat /\ k <= Len(n) - 1
    BY <1>1, SeqFacts DEF Names
  <1>3. a \in Seq(Text) /\ Len(a) = k /\ \A i \in 1 .. k : a[i] = n[i]
    BY <1>1, <1>2, AncestorIs
  <1>4. ASSUME a # <<>> PROVE Front(a) \in Ancestors(n)
    <2>1. k >= 1
      BY <1>3, <1>4, SeqFacts
    <2>2. k - 1 \in Nat /\ k - 1 <= Len(n) - 1
      BY <1>2, <2>1
    <2> DEFINE b == SubSeq(n, 1, k - 1)
    <2>3. b \in Seq(Text) /\ Len(b) = k - 1 /\ (\A i \in 1 .. k - 1 : b[i] = n[i]) /\ b \in Ancestors(n)
      BY <2>2, AncestorIs
    <2> HIDE DEF b
    <2>4. Front(a) \in Seq(Text) /\ Len(Front(a)) = k - 1 /\ \A i \in 1 .. k - 1 : Front(a)[i] = a[i]
      BY <1>3, <1>4, FrontFacts
    <2>5. \A i \in 1 .. k - 1 : i \in 1 .. k
      BY <1>2
    <2>6. \A i \in 1 .. k - 1 : Front(a)[i] = b[i]
      BY <1>3, <2>3, <2>4, <2>5
    <2>7. Front(a) = b
      BY <2>3, <2>4, <2>6, SeqEqual
    <2>8. QED
      BY <2>3, <2>7
  <1>5. QED
    BY <1>3, <1>4 DEF Names

\* A directory above a name is the parent of the name, or of one above it.
LEMMA BelowAbove ==
  ASSUME NEW n \in Names, NEW a \in Ancestors(n)
  PROVE  a = Front(n) \/ \E b \in Ancestors(n) : b # <<>> /\ a = Front(b)
  <1>1. PICK k \in 0 .. Len(n) - 1 : a = SubSeq(n, 1, k)
    BY DEF Ancestors
  <1>2. Len(n) \in Nat /\ k \in Nat /\ k <= Len(n) - 1
    BY <1>1, SeqFacts DEF Names
  <1>3. CASE k = Len(n) - 1
    BY <1>1, <1>3 DEF Front
  <1>4. CASE k # Len(n) - 1
    <2> DEFINE b == SubSeq(n, 1, k + 1)
    <2>1. k + 1 \in Nat /\ k + 1 <= Len(n) - 1 /\ k \in Nat /\ k <= Len(n) - 1
      BY <1>2, <1>4
    <2>2. b \in Seq(Text) /\ Len(b) = k + 1 /\ (\A i \in 1 .. k + 1 : b[i] = n[i]) /\ b \in Ancestors(n)
      BY <2>1, AncestorIs
    <2>3. a \in Seq(Text) /\ Len(a) = k /\ \A i \in 1 .. k : a[i] = n[i]
      BY <1>1, <2>1, AncestorIs
    <2> HIDE DEF b
    <2>4. b # <<>>
      BY <2>1, <2>2
    <2>5. Front(b) \in Seq(Text) /\ Len(Front(b)) = Len(b) - 1 /\ \A i \in 1 .. Len(b) - 1 : Front(b)[i] = b[i]
      BY <2>2, <2>4, FrontFacts
    <2>6. Len(b) - 1 = k /\ \A i \in 1 .. k : i \in 1 .. k + 1
      BY <2>1, <2>2
    <2>7. \A i \in 1 .. k : Front(b)[i] = a[i]
      BY <2>2, <2>3, <2>5, <2>6
    <2>8. Front(b) = a
      BY <2>3, <2>5, <2>6, <2>7, SeqEqual
    <2>9. QED
      BY <2>2, <2>4, <2>8
  <1>5. QED
    BY <1>3, <1>4

LEMMA FinitelyAbove ==
  ASSUME NEW n \in Names
  PROVE  IsFiniteSet(Ancestors(n))
  <1>1. Len(n) \in Nat
    BY SeqFacts DEF Names
  <1> DEFINE d == 0 .. Len(n) - 1
  <1>2. IsFiniteSet(d)
    BY <1>1, FS_Interval
  <1> DEFINE f == [k \in d |-> SubSeq(n, 1, k)]
  <1>3. f \in Surjection(d, Ancestors(n))
    BY DEF Surjection, Ancestors
  <1>4. QED
    BY <1>2, <1>3, FS_Surjection

-----------------------------------------------------------------------------
(* The loops *)

\* Files made of what the first loop has seen: each has a name of its own.
Filed(raws) ==
  /\ \A raw \in raws : Named(raw)
  /\ \A r, s \in raws : CleanOnly(r) = CleanOnly(s) => r = s
  /\ DOMAIN files = {CleanOnly(raw) : raw \in raws}

\* The directories that names lie in, without the root.
Above(names) == (UNION {Ancestors(n) : n \in names}) \ {<<>>}

\* The children that the names seen by the second loop make.  A name that is a
\* file as well as a directory is the last it was found to be.
Indexed(names) ==
  /\ DOMAIN children = names \cup Above(names)
  /\ \A n \in DOMAIN children :
       /\ children[n] \in BOOLEAN
       /\ children[n] => n \in Above(names)
       /\ ~children[n] => n \in names
  /\ IsFiniteSet(DOMAIN children)

\* The directories that the third loop has listed.
Listed(ds) ==
  /\ DOMAIN dirs = ds
  /\ \A d \in ds : d \notin DOMAIN files /\ dirs[d] = EntriesOf(d)

Phases == {"normalize", "children", "index", "built", "failed"}

\* Where the construction is: each loop starts from what the one before has done.
MapInv ==
  /\ input \in Inputs /\ phase \in Phases
  /\ phase = "normalize" => todo \subseteq input /\ Filed(input \ todo) /\ Indexed({}) /\ Listed({})
  /\ phase = "children" =>
       todo \subseteq DOMAIN files /\ Filed(input) /\ Indexed(DOMAIN files \ todo) /\ Listed({})
  /\ phase = "index" =>
       todo \subseteq Parents /\ Filed(input) /\ Indexed(DOMAIN files) /\ Listed(Parents \ todo)
  /\ phase = "built" => todo = {} /\ Filed(input) /\ Indexed(DOMAIN files) /\ Listed(Parents)
  /\ phase = "failed" => Wrong /\ todo = {}

\* What the input denotes are the files.
LEMMA FiledDenoted ==
  ASSUME input \in Inputs, Filed(input)
  PROVE  DOMAIN files = Denoted /\ \A n \in DOMAIN files : n \in Names
  <1>1. {r \in input : Named(r)} = input
    BY DEF Filed
  <1>2. DOMAIN files = Denoted
    BY <1>1, DenotedIs DEF Filed
  <1>3. QED
    BY <1>2, DenotedNames

LEMMA AboveIs ==
  ASSUME NEW names, NEW a
  PROVE  a \in Above(names) <=> a # <<>> /\ \E n \in names : a \in Ancestors(n)
  <1> DEFINE reached == UNION {Ancestors(n) : n \in names}
  <1>1. a \in reached <=> \E n \in names : a \in Ancestors(n)
    OBVIOUS
  <1>2. Above(names) = reached \ {<<>>}
    BY DEF Above
  <1> HIDE DEF reached
  <1>3. QED
    BY <1>1, <1>2

\* The directories that have children are those above names, and the root.
LEMMA ParentsAre ==
  ASSUME NEW names \in SUBSET Names, Indexed(names)
  PROVE  Parents = {<<>>} \cup UNION {Ancestors(n) : n \in names}
  <1>1. DOMAIN children = names \cup Above(names)
    BY DEF Indexed
  <1>2. ASSUME NEW n \in DOMAIN children
        PROVE  Front(n) \in UNION {Ancestors(m) : m \in names}
    <2>1. CASE n \in names
      BY <2>1, FrontAbove
    <2>2. CASE n \in Above(names)
      <3>1. PICK m \in names : n \in Ancestors(m) /\ n # <<>>
        BY <2>2, AboveIs
      <3>2. QED
        BY <3>1, AboveAbove
    <2>3. QED
      BY <1>1, <2>1, <2>2
  <1>3. ASSUME NEW n \in names, NEW a \in Ancestors(n)
        PROVE  \E m \in DOMAIN children : a = Front(m)
    <2>1. CASE a = Front(n)
      BY <1>1, <2>1
    <2>2. CASE \E b \in Ancestors(n) : b # <<>> /\ a = Front(b)
      <3>1. PICK b \in Ancestors(n) : b # <<>> /\ a = Front(b)
        BY <2>2
      <3>2. b \in Above(names)
        BY <3>1, AboveIs
      <3>3. QED
        BY <1>1, <3>1, <3>2
    <2>3. QED
      BY <2>1, <2>2, BelowAbove
  <1>4. QED
    BY <1>2, <1>3, Zenon DEF Parents

\* A file more.
LEMMA FiledMore ==
  ASSUME input \in Inputs, NEW seen \in SUBSET input, Filed(seen), NEW raw \in input, Named(raw),
         CleanOnly(raw) \notin DOMAIN files, NEW more, more = seen \cup {raw},
         DOMAIN files' = DOMAIN files \cup {CleanOnly(raw)}
  PROVE  Filed(more)'
  <1>1. \A r, s \in more : CleanOnly(r) = CleanOnly(s) => r = s
    BY Zenon DEF Filed
  <1>2. \A r \in more : Named(r)
    BY DEF Filed
  <1>3. DOMAIN files' = {CleanOnly(r) : r \in more}
    BY DEF Filed
  <1>4. QED
    BY <1>1, <1>2, <1>3 DEF Filed

LEMMA NormalizeKeeps ==
  ASSUME MapInv, NEW raw \in todo, Normalize(raw)
  PROVE  MapInv'
  <1>1. /\ phase = "normalize" /\ input \in Inputs /\ todo \subseteq input
        /\ Filed(input \ todo) /\ Indexed({}) /\ Listed({})
    BY DEF MapInv, Normalize
  <1>2. raw \in input /\ raw \in Seq(Text)
    BY <1>1, InputTyped
  <1>3. CASE normalizeMapName(raw) = Invalid
    <2>1. Wrong
      BY <1>1, <1>2, <1>3, WrongName DEF Named
    <2>2. phase' = "failed" /\ todo' = {} /\ UNCHANGED <<input, files, children, dirs>>
      BY <1>3 DEF Normalize, Fail
    <2>3. Wrong'
      BY <2>1, <2>2 DEF Wrong, Denoted
    <2>4. QED
      BY <1>1, <2>2, <2>3 DEF MapInv, Phases
  <1>4. CASE normalizeMapName(raw) # Invalid /\ normalizeMapName(raw) \in DOMAIN files
    <2>1. Named(raw) /\ CleanOnly(raw) \in DOMAIN files
      BY <1>2, <1>4, NamedIs DEF Named
    <2>2. PICK s \in input \ todo : Named(s) /\ CleanOnly(s) = CleanOnly(raw)
      BY <1>1, <2>1 DEF Filed
    <2>3. Wrong
      BY <1>1, <1>2, <2>1, <2>2, WrongPair
    <2>4. phase' = "failed" /\ todo' = {} /\ UNCHANGED <<input, files, children, dirs>>
      BY <1>4 DEF Normalize, Fail
    <2>5. Wrong'
      BY <2>3, <2>4 DEF Wrong, Denoted
    <2>6. QED
      BY <1>1, <2>4, <2>5 DEF MapInv, Phases
  <1>5. CASE normalizeMapName(raw) # Invalid /\ normalizeMapName(raw) \notin DOMAIN files
    <2>1. Named(raw) /\ normalizeMapName(raw) = CleanOnly(raw)
      BY <1>2, <1>5, NamedIs DEF Named
    <2>2. /\ DOMAIN files' = DOMAIN files \cup {CleanOnly(raw)}
          /\ todo' = todo \ {raw} /\ UNCHANGED <<input, phase, children, dirs>>
      BY <1>5, <2>1 DEF Normalize
    <2>3. input \ todo' = (input \ todo) \cup {raw}
      BY <1>2, <2>2
    <2>4. Filed(input \ todo)'
      BY <1>1, <1>2, <1>5, <2>1, <2>2, <2>3, FiledMore
    <2>5. Indexed({})' /\ Listed({})'
      BY <1>1, <2>2 DEF Indexed, Listed
    <2>6. QED
      BY <1>1, <2>2, <2>4, <2>5 DEF MapInv, Phases
  <1>6. QED
    BY <1>3, <1>4, <1>5

LEMMA AboveMore ==
  ASSUME NEW names, NEW n
  PROVE  Above(names \cup {n}) = Above(names) \cup (Ancestors(n) \ {<<>>})
  <1>1. \A a : a \in Above(names \cup {n}) <=> a \in Above(names) \/ (a # <<>> /\ a \in Ancestors(n))
    BY AboveIs, Zenon
  <1>2. QED
    BY <1>1

\* Children more.
LEMMA IndexedMore ==
  ASSUME NEW names \in SUBSET Names, Indexed(names), NEW n \in Names,
         children' = addMapChild(addMapChild(children, {n}, FALSE), Ancestors(n) \ {<<>>}, TRUE)
  PROVE  Indexed(names \cup {n})'
  <1> DEFINE above == Ancestors(n) \ {<<>>}
  <1>1. /\ DOMAIN children = names \cup Above(names)
        /\ \A m \in DOMAIN children :
             /\ children[m] \in BOOLEAN
             /\ children[m] => m \in Above(names)
             /\ ~children[m] => m \in names
        /\ IsFiniteSet(DOMAIN children)
    BY DEF Indexed
  <1>2. Above(names \cup {n}) = Above(names) \cup above
    BY AboveMore
  <1>3. DOMAIN children' = DOMAIN children \cup {n} \cup above
    BY DEF addMapChild
  <1>4. \A m \in DOMAIN children' :
          children'[m] = IF m \in above THEN TRUE ELSE IF m \in {n} THEN FALSE ELSE children[m]
    BY DEF addMapChild
  <1>5. IsFiniteSet(DOMAIN children')
    <2>1. IsFiniteSet(above)
      BY FinitelyAbove, FS_Difference
    <2>2. IsFiniteSet(DOMAIN children \cup {n})
      BY <1>1, FS_AddElement
    <2>3. QED
      BY <1>3, <2>1, <2>2, FS_Union
  <1> HIDE DEF above
  <1>6. \A m \in DOMAIN children' :
          /\ children'[m] \in BOOLEAN
          /\ children'[m] => m \in Above(names) \cup above
          /\ ~children'[m] => m \in names \cup {n}
    BY <1>1, <1>3, <1>4, Zenon
  <1>7. DOMAIN children' = (names \cup {n}) \cup (Above(names) \cup above)
    BY <1>1, <1>3
  <1>8. Above(names \cup {n})' = Above(names \cup {n})
    BY DEF Above
  <1>9. QED
    BY <1>2, <1>5, <1>6, <1>7, <1>8 DEF Indexed

LEMMA IndexChildKeeps ==
  ASSUME MapInv, NEW n \in todo, IndexChild(n)
  PROVE  MapInv'
  <1>1. /\ phase = "children" /\ input \in Inputs /\ todo \subseteq DOMAIN files
        /\ Filed(input) /\ Indexed(DOMAIN files \ todo) /\ Listed({})
    BY DEF MapInv, IndexChild
  <1>2. \A m \in DOMAIN files : m \in Names
    BY <1>1, FiledDenoted
  <1>3. /\ children' = addMapChild(addMapChild(children, {n}, FALSE), Ancestors(n) \ {<<>>}, TRUE)
        /\ todo' = todo \ {n} /\ UNCHANGED <<input, phase, files, dirs>>
    BY DEF IndexChild
  <1>4. n \in Names /\ DOMAIN files \ todo \in SUBSET Names
    BY <1>1, <1>2
  <1>5. Indexed((DOMAIN files \ todo) \cup {n})'
    BY <1>1, <1>3, <1>4, IndexedMore
  <1>6. (DOMAIN files \ todo)' = (DOMAIN files \ todo) \cup {n}
    BY <1>1, <1>3
  <1>7. Indexed(DOMAIN files \ todo)'
    BY <1>3, <1>5, <1>6 DEF Indexed, Above
  <1>8. Filed(input)' /\ Listed({})'
    BY <1>1, <1>3 DEF Filed, Listed
  <1>9. QED
    BY <1>1, <1>3, <1>7, <1>8 DEF MapInv, Phases

LEMMA IndexDirKeeps ==
  ASSUME MapInv, NEW d \in todo, IndexDir(d)
  PROVE  MapInv'
  <1>1. /\ phase = "index" /\ input \in Inputs /\ todo \subseteq Parents
        /\ Filed(input) /\ Indexed(DOMAIN files) /\ Listed(Parents \ todo)
    BY DEF MapInv, IndexDir
  <1>2. DOMAIN files = Denoted /\ DOMAIN files \in SUBSET Names
    BY <1>1, FiledDenoted
  <1>3. Parents = {<<>>} \cup UNION {Ancestors(n) : n \in DOMAIN files}
    BY <1>1, <1>2, ParentsAre
  <1>4. CASE d \in DOMAIN files
    <2>1. d # <<>>
      BY <1>2, <1>4 DEF Names
    <2>2. PICK m \in DOMAIN files : d \in Ancestors(m)
      BY <1>1, <1>3, <2>1
    <2>3. Wrong
      BY <1>2, <1>4, <2>2, WrongParent
    <2>4. phase' = "failed" /\ todo' = {} /\ UNCHANGED <<input, files, children, dirs>>
      BY <1>4 DEF IndexDir, Fail
    <2>5. Wrong'
      BY <2>3, <2>4 DEF Wrong, Denoted
    <2>6. QED
      BY <1>1, <2>4, <2>5 DEF MapInv, Phases
  <1>5. CASE d \notin DOMAIN files
    <2>1. /\ dirs' = [c \in DOMAIN dirs \cup {d} |-> IF c = d THEN EntriesOf(d) ELSE dirs[c]]
          /\ todo' = todo \ {d} /\ UNCHANGED <<input, phase, files, children>>
      BY <1>5 DEF IndexDir
    <2>2. Parents' = Parents
      BY <2>1 DEF Parents
    <2>3. \A c : EntriesOf(c)' = EntriesOf(c)
      BY <2>1 DEF EntriesOf
    <2>4. (Parents \ todo)' = (Parents \ todo) \cup {d}
      BY <1>1, <2>1, <2>2
    <2>5. DOMAIN dirs' = (Parents \ todo) \cup {d}
      BY <1>1, <2>1 DEF Listed
    <2>6. \A c \in (Parents \ todo) \cup {d} : c \notin DOMAIN files /\ dirs'[c] = EntriesOf(c)
      BY <1>1, <1>5, <2>1, Zenon DEF Listed
    <2>7. Listed(Parents \ todo)'
      BY <2>1, <2>3, <2>4, <2>5, <2>6 DEF Listed
    <2>8. Filed(input)' /\ Indexed(DOMAIN files)'
      BY <1>1, <2>1 DEF Filed, Indexed, Above
    <2>9. QED
      BY <1>1, <2>1, <2>2, <2>7, <2>8 DEF MapInv, Phases
  <1>6. QED
    BY <1>4, <1>5

LEMMA NextPhaseKeeps ==
  ASSUME MapInv, NextPhase
  PROVE  MapInv'
  <1>1. todo = {} /\ UNCHANGED <<input, files, children, dirs>> /\ input \in Inputs
    BY DEF NextPhase, MapInv
  <1>2. /\ \A s : Filed(s)' <=> Filed(s)
        /\ \A s : Indexed(s)' <=> Indexed(s)
        /\ \A s : Listed(s)' <=> Listed(s)
        /\ Parents' = Parents
    BY <1>1 DEF Filed, Indexed, Above, Listed, EntriesOf, Parents
  <1>3. CASE phase = "normalize"
    <2>1. phase' = "children" /\ todo' = DOMAIN files
      BY <1>3 DEF NextPhase
    <2>2. Filed(input) /\ Indexed({}) /\ Listed({})
      <3>1. input \ todo = input
        BY <1>1
      <3>2. QED
        BY <1>3, <3>1 DEF MapInv
    <2>3. DOMAIN files' \ todo' = {}
      BY <1>1, <2>1
    <2>4. Filed(input') /\ Indexed(DOMAIN files' \ todo') /\ Listed({})
      BY <1>1, <2>2, <2>3
    <2>5. Filed(input)' /\ Indexed(DOMAIN files \ todo)' /\ Listed({})'
      BY <1>1, <1>2, <2>4 DEF Filed, Indexed, Above, Listed, EntriesOf
    <2>6. QED
      BY <1>1, <2>1, <2>5 DEF MapInv, Phases
  <1>4. CASE phase = "children"
    <2>1. phase' = "index" /\ todo' = Parents
      BY <1>4 DEF NextPhase
    <2>2. Filed(input) /\ Indexed(DOMAIN files) /\ Listed({})
      <3>1. DOMAIN files \ todo = DOMAIN files
        BY <1>1
      <3>2. QED
        BY <1>4, <3>1 DEF MapInv
    <2>3. Parents' \ todo' = {}
      BY <1>2, <2>1
    <2>4. Filed(input)' /\ Indexed(DOMAIN files)'
      BY <1>1, <1>2, <2>2 DEF Filed, Indexed, Above
    <2>5. Listed(Parents \ todo)'
      BY <1>1, <2>2, <2>3 DEF Listed, EntriesOf
    <2>6. QED
      BY <1>1, <1>2, <2>1, <2>4, <2>5 DEF MapInv, Phases
  <1>5. CASE phase = "index"
    <2>1. phase' = "built" /\ todo' = {}
      BY <1>5 DEF NextPhase
    <2>2. Filed(input) /\ Indexed(DOMAIN files) /\ Listed(Parents)
      <3>1. Parents \ todo = Parents
        BY <1>1
      <3>2. QED
        BY <1>5, <3>1 DEF MapInv
    <2>3. Filed(input)' /\ Indexed(DOMAIN files)'
      BY <1>1, <1>2, <2>2 DEF Filed, Indexed, Above
    <2>4. Listed(Parents)'
      BY <1>1, <1>2, <2>2 DEF Listed, EntriesOf, Parents
    <2>5. QED
      BY <1>1, <2>1, <2>3, <2>4 DEF MapInv, Phases
  <1>6. QED
    BY <1>3, <1>4, <1>5 DEF NextPhase

LEMMA MapInvStart ==
  ASSUME Init
  PROVE  MapInv
  <1>1. input \ todo = {} /\ DOMAIN files = {} /\ DOMAIN children = {} /\ DOMAIN dirs = {}
    BY DEF Init
  <1>2. Above({}) = {}
    BY DEF Above
  <1>3. IsFiniteSet({})
    BY FS_EmptySet
  <1>4. Filed(input \ todo) /\ Indexed({}) /\ Listed({})
    BY <1>1, <1>2, <1>3 DEF Filed, Indexed, Listed
  <1>5. QED
    BY <1>4 DEF Init, MapInv, Phases

LEMMA MapInvStep ==
  ASSUME MapInv, Next
  PROVE  MapInv'
  BY NormalizeKeeps, IndexChildKeeps, IndexDirKeeps, NextPhaseKeeps DEF Next

LEMMA MapInvStutter ==
  ASSUME MapInv, UNCHANGED vars
  PROVE  MapInv'
  <1>1. UNCHANGED <<input, phase, todo, files, children, dirs>>
    BY DEF vars
  <1>2. Parents' = Parents /\ (Wrong' <=> Wrong)
    BY <1>1 DEF Parents, Wrong, Denoted
  <1>3. /\ Filed(input \ todo)' <=> Filed(input \ todo)
        /\ Filed(input)' <=> Filed(input)
    BY <1>1 DEF Filed
  <1>4. /\ Indexed({})' <=> Indexed({})
        /\ Indexed(DOMAIN files \ todo)' <=> Indexed(DOMAIN files \ todo)
        /\ Indexed(DOMAIN files)' <=> Indexed(DOMAIN files)
    BY <1>1 DEF Indexed, Above
  <1>5. \A d : EntriesOf(d)' = EntriesOf(d)
    BY <1>1 DEF EntriesOf
  <1>6. Listed({})' <=> Listed({})
    BY <1>1, <1>5 DEF Listed
  <1>7. Listed(Parents \ todo)' <=> Listed(Parents \ todo)
    BY <1>1, <1>2, <1>5 DEF Listed
  <1>8. Listed(Parents)' <=> Listed(Parents)
    BY <1>1, <1>2, <1>5 DEF Listed
  <1>9. QED
    BY <1>1, <1>2, <1>3, <1>4, <1>6, <1>7, <1>8 DEF MapInv

-----------------------------------------------------------------------------
(* What is built *)

\* Once all is built, no file is a directory, and the index is the tree.
LEMMA BuiltRight ==
  ASSUME MapInv, phase = "built"
  PROVE  /\ \A n, m \in Denoted : n \notin Ancestors(m)
         /\ DOMAIN dirs = {<<>>} \cup UNION {Ancestors(n) : n \in Denoted}
         /\ DOMAIN files = Denoted
         /\ \A n \in DOMAIN files : n \in Names /\ n \notin DOMAIN dirs
         /\ \A d \in DOMAIN dirs : dirs[d] = EntriesOf(d)
  <1>1. /\ input \in Inputs /\ Filed(input) /\ Indexed(DOMAIN files) /\ Listed(Parents)
    BY DEF MapInv
  <1>2. DOMAIN files = Denoted /\ DOMAIN files \in SUBSET Names
    BY <1>1, FiledDenoted
  <1>3. Parents = {<<>>} \cup UNION {Ancestors(n) : n \in Denoted}
    BY <1>1, <1>2, ParentsAre
  <1>4. DOMAIN dirs = Parents /\ \A d \in Parents : d \notin DOMAIN files /\ dirs[d] = EntriesOf(d)
    BY <1>1 DEF Listed
  <1>5. QED
    BY <1>2, <1>3, <1>4

LEMMA BuiltFails ==
  ASSUME MapInv
  PROVE  FailsWhenWrong
  <1>1. ASSUME phase = "built" PROVE ~Wrong
    <2>1. input \in Inputs /\ Filed(input)
      BY <1>1 DEF MapInv
    <2>2. /\ \A raw \in input : Named(raw)
          /\ \A r, s \in input : CleanOnly(r) = CleanOnly(s) => r = s
      BY <2>1 DEF Filed
    <2>3. \A n, m \in Denoted : n \notin Ancestors(m)
      BY <1>1, BuiltRight
    <2>4. QED
      BY <2>1, <2>2, <2>3, NotWrong
  <1>2. phase = "failed" => Wrong
    BY DEF MapInv
  <1>3. QED
    BY <1>1, <1>2 DEF FailsWhenWrong

\* What a child is, is what it is listed as.
LEMMA ChildrenAre ==
  ASSUME MapInv, phase = "built", NEW n \in DOMAIN children
  PROVE  /\ n \in Names /\ children[n] \in BOOLEAN
         /\ children[n] => n \in DOMAIN dirs \ {<<>>} /\ n \notin DOMAIN files
         /\ ~children[n] => n \in Denoted
  <1>1. input \in Inputs /\ Filed(input) /\ Indexed(DOMAIN files)
    BY DEF MapInv
  <1>2. /\ children[n] \in BOOLEAN /\ n \in DOMAIN files \cup Above(DOMAIN files)
        /\ children[n] => n \in Above(DOMAIN files)
        /\ ~children[n] => n \in DOMAIN files
    BY <1>1 DEF Indexed
  <1>3. /\ DOMAIN files = Denoted /\ \A m \in DOMAIN files : m \in Names /\ m \notin DOMAIN dirs
        /\ DOMAIN dirs = {<<>>} \cup UNION {Ancestors(m) : m \in Denoted}
    BY BuiltRight
  <1>4. ASSUME n \in Above(DOMAIN files) PROVE n \in Names /\ n \in DOMAIN dirs \ {<<>>}
    <2>1. PICK m \in DOMAIN files : n \in Ancestors(m) /\ n # <<>>
      BY <1>4, AboveIs
    <2>2. QED
      BY <1>3, <2>1, AboveAbove
  <1>5. QED
    BY <1>2, <1>3, <1>4

LEMMA ChildrenAll ==
  ASSUME MapInv, phase = "built"
  PROVE  DOMAIN children = Denoted \cup (DOMAIN dirs \ {<<>>})
  <1> DEFINE above == UNION {Ancestors(m) : m \in Denoted}
  <1>1. Indexed(DOMAIN files)
    BY DEF MapInv
  <1>2. DOMAIN files = Denoted /\ DOMAIN dirs = {<<>>} \cup above
    BY BuiltRight
  <1>3. DOMAIN children = Denoted \cup (above \ {<<>>})
    <2>1. DOMAIN children = Denoted \cup Above(Denoted)
      BY <1>1, <1>2 DEF Indexed
    <2>2. Above(Denoted) = above \ {<<>>}
      BY DEF Above
    <2>3. QED
      BY <2>1, <2>2, Zenon
  <1> HIDE DEF above
  <1>4. QED
    BY <1>2, <1>3

LEMMA BuiltTree ==
  ASSUME MapInv
  PROVE  IndexIsTree
  <1> SUFFICES ASSUME phase = "built"
      PROVE  /\ DOMAIN files = Denoted
             /\ DOMAIN dirs = {<<>>} \cup UNION {Ancestors(n) : n \in Denoted}
             /\ \A d \in DOMAIN dirs :
                  dirs[d] =
                    {[base |-> Last(n), isDir |-> FALSE] : n \in {m \in Denoted : Front(m) = d}}
                      \cup {[base |-> Last(a), isDir |-> TRUE] :
                              a \in {b \in DOMAIN dirs \ {<<>>} : Front(b) = d}}
             /\ \A d \in DOMAIN dirs : \A e \in dirs[d] :
                  LET name == Append(d, e.base) IN
                  /\ Open(name) = (IF e.isDir THEN "dir" ELSE "file")
                  /\ e.isDir = (ReadDir(name) = "entries")
                  /\ e.isDir = (ReadFile(name) = "is a directory")
    BY DEF IndexIsTree
  <1>1. /\ DOMAIN files = Denoted /\ DOMAIN dirs = {<<>>} \cup UNION {Ancestors(n) : n \in Denoted}
        /\ \A n \in Denoted : n \notin DOMAIN dirs
        /\ \A d \in DOMAIN dirs : dirs[d] = EntriesOf(d)
    BY BuiltRight
  <1>2. DOMAIN children = Denoted \cup (DOMAIN dirs \ {<<>>})
    BY ChildrenAll
  <1>3. \A n \in DOMAIN children :
          /\ n \in Names /\ children[n] \in BOOLEAN
          /\ children[n] => n \in DOMAIN dirs \ {<<>>} /\ n \notin DOMAIN files
          /\ ~children[n] => n \in Denoted
    BY ChildrenAre
  <1>4. /\ \A n \in Denoted : n \in DOMAIN children /\ children[n] = FALSE
        /\ \A n \in DOMAIN dirs \ {<<>>} : n \in DOMAIN children /\ children[n] = TRUE
    BY <1>1, <1>2, <1>3
  <1>5. ASSUME NEW d \in DOMAIN dirs
        PROVE  dirs[d] =
                 {[base |-> Last(n), isDir |-> FALSE] : n \in {m \in Denoted : Front(m) = d}}
                   \cup {[base |-> Last(a), isDir |-> TRUE] :
                           a \in {b \in DOMAIN dirs \ {<<>>} : Front(b) = d}}
    <2>1. dirs[d] = {[base |-> Last(n), isDir |-> children[n]] :
                       n \in {m \in DOMAIN children : Front(m) = d}}
      BY <1>1 DEF EntriesOf
    <2>2. QED
      BY <1>2, <1>4, <2>1
  <1>6. ASSUME NEW d \in DOMAIN dirs, NEW e \in dirs[d]
        PROVE  LET name == Append(d, e.base) IN
               /\ Open(name) = (IF e.isDir THEN "dir" ELSE "file")
               /\ e.isDir = (ReadDir(name) = "entries")
               /\ e.isDir = (ReadFile(name) = "is a directory")
    <2>1. PICK n \in DOMAIN children : Front(n) = d /\ e = [base |-> Last(n), isDir |-> children[n]]
      BY <1>1 DEF EntriesOf
    <2>2. Append(d, e.base) = n
      BY <1>3, <2>1, FrontFacts DEF Names
    <2>3. CASE children[n]
      <3>1. n \in DOMAIN dirs /\ n \notin DOMAIN files /\ e.isDir = TRUE
        BY <1>3, <2>1, <2>3
      <3>2. Open(n) = "dir" /\ ReadDir(n) = "entries" /\ ReadFile(n) = "is a directory"
        BY <3>1 DEF Open, Stat, ReadDir, ReadFile, IsFile, IsDir
      <3>3. QED
        BY <2>2, <3>1, <3>2
    <2>4. CASE ~children[n]
      <3>1. n \notin DOMAIN dirs /\ n \in DOMAIN files /\ e.isDir = FALSE
        BY <1>1, <1>3, <2>1, <2>4
      <3>2. Open(n) = "file" /\ ReadDir(n) = "not a directory" /\ ReadFile(n) = "data"
        BY <3>1 DEF Open, Stat, ReadDir, ReadFile, IsFile, IsDir
      <3>3. QED
        BY <2>2, <3>1, <3>2
    <2>5. QED
      BY <2>3, <2>4
  <1>7. QED
    BY <1>1, <1>5, <1>6

\* A directory has finitely many entries.
LEMMA FinitelyListed ==
  ASSUME MapInv, phase = "built", NEW d \in DOMAIN dirs
  PROVE  IsFiniteSet(dirs[d])
  <1>1. Indexed(DOMAIN files)
    BY DEF MapInv
  <1> DEFINE below == {m \in DOMAIN children : Front(m) = d}
             f == [n \in below |-> [base |-> Last(n), isDir |-> children[n]]]
  <1>2. IsFiniteSet(DOMAIN children)
    BY <1>1 DEF Indexed
  <1>3. IsFiniteSet(below)
    BY <1>2, FS_Subset
  <1>4. dirs[d] = {[base |-> Last(n), isDir |-> children[n]] : n \in below}
    BY BuiltRight DEF EntriesOf
  <1>5. f \in Surjection(below, dirs[d])
    BY <1>4 DEF Surjection
  <1>6. QED
    BY <1>3, <1>5, FS_Surjection

\* The arrays of the index hold each entry once.
LEMMA ArraysList ==
  ASSUME MapInv, phase = "built", NEW d \in DOMAIN dirs
  PROVE  /\ Arrays[d] \in Seq(dirs[d])
         /\ \A i, j \in 1 .. Len(Arrays[d]) : Arrays[d][i] = Arrays[d][j] => i = j
  <1> DEFINE n == Cardinality(dirs[d])
             f == CHOOSE g \in [1 .. n -> dirs[d]] : IsInjective(g)
  <1>1. Arrays[d] = f
    BY DEF Arrays, SetToSeq
  <1>2. n \in Nat /\ ExistsBijection(1 .. n, dirs[d])
    BY FinitelyListed, FS_CardinalityType
  <1>3. \E g \in [1 .. n -> dirs[d]] : IsInjective(g)
    BY <1>2 DEF ExistsBijection, Bijection, Injection
  <1>4. f \in [1 .. n -> dirs[d]] /\ IsInjective(f)
    BY <1>3
  <1> HIDE DEF f, n
  <1>5. f \in Seq(dirs[d]) /\ Len(f) = n
    BY <1>2, <1>4
  <1>6. \A i, j \in 1 .. n : f[i] = f[j] => i = j
    BY <1>4 DEF IsInjective
  <1>7. QED
    BY <1>1, <1>5, <1>6

-----------------------------------------------------------------------------
(* Pages *)

\* What an array may hold.
Shown == {Alien} \cup UNION {dirs[d] : d \in DOMAIN dirs}

\* The handle that is open: it has handed out what lies before its offset.
HandleInv ==
  dir # NoDir =>
    /\ phase = "built" /\ dir \in DOMAIN dirs
    /\ merged \in BOOLEAN /\ own \in Seq(Shown) /\ got \in Seq(Shown)
    /\ spoiled => merged
    /\ merged => Len(own) = Len(lists[dir])
    /\ merged /\ ~spoiled => own = lists[dir]
    /\ offset \in 0 .. Len(lists[dir]) /\ Len(got) = offset
    /\ ~spoiled => got = SubSeq(lists[dir], 1, offset)
    /\ eof \/ all => offset = Len(lists[dir])

\* The index is not changed by its readers.
ReaderInv == MapInv /\ (phase = "built" => lists = Arrays) /\ HandleInv

\* The array of a directory that is open.
LEMMA OpenList ==
  ASSUME MapInv, phase = "built", lists = Arrays, NEW d \in DOMAIN dirs
  PROVE  /\ lists[d] \in Seq(dirs[d]) /\ lists[d] \in Seq(Shown)
         /\ \A i, j \in 1 .. Len(lists[d]) : lists[d][i] = lists[d][j] => i = j
  <1>1. /\ Arrays[d] \in Seq(dirs[d])
        /\ \A i, j \in 1 .. Len(Arrays[d]) : Arrays[d][i] = Arrays[d][j] => i = j
    BY ArraysList
  <1>2. dirs[d] \subseteq Shown
    BY DEF Shown
  <1>3. QED
    BY <1>1, <1>2, SeqMonotonic

\* The first entries, and those after them.
LEMMA PageAdds ==
  ASSUME NEW S, NEW s \in Seq(S), NEW a \in 0 .. Len(s), NEW k \in 0 .. Len(s) - a
  PROVE  /\ SubSeq(s, 1, a) \o SubSeq(s, a + 1, a + k) = SubSeq(s, 1, a + k)
         /\ SubSeq(s, a + 1, a + k) \in Seq(S) /\ Len(SubSeq(s, a + 1, a + k)) = k
  <1>1. Len(s) \in Nat /\ \A i \in 1 .. Len(s) : s[i] \in S
    BY SeqFacts
  <1>2. /\ a \in Nat /\ k \in Nat /\ a + 1 \in Int /\ a + k \in Int
        /\ \A i \in a + 1 .. a + k : i \in 1 .. Len(s)
    BY <1>1
  <1>3. \A i \in a + 1 .. a + k : s[i] \in S
    BY <1>1, <1>2
  <1>4. /\ SubSeq(s, a + 1, a + k) \in Seq(S)
        /\ Len(SubSeq(s, a + 1, a + k)) = IF a + 1 <= a + k THEN a + k - (a + 1) + 1 ELSE 0
    BY <1>2, <1>3, SubSeqProperties
  <1>5. (IF a + 1 <= a + k THEN a + k - (a + 1) + 1 ELSE 0) = k
    BY <1>2
  <1>6. 1 \in 1 .. Len(s) + 1 /\ a \in 1 - 1 .. Len(s) /\ a + k \in a .. Len(s)
    BY <1>1, <1>2
  <1>7. SubSeq(s, 1, a) \o SubSeq(s, a + 1, a + k) = SubSeq(s, 1, a + k)
    BY <1>6, ConcatAdjacentSubSeq
  <1>8. QED
    BY <1>4, <1>5, <1>7

LEMMA HandlePromises ==
  ASSUME ReaderInv
  PROVE  PagesAreListing
  <1>1. ASSUME dir # NoDir PROVE eof \/ all => Len(got) = Len(lists[dir])
    BY <1>1 DEF ReaderInv, HandleInv
  <1>2. ASSUME dir # NoDir, ~spoiled
        PROVE  /\ \A i, j \in DOMAIN got : got[i] = got[j] => i = j
               /\ ToSet(got) \subseteq dirs[dir]
    <2> DEFINE s == lists[dir]  n == Len(s)
    <2>1. /\ MapInv /\ phase = "built" /\ lists = Arrays /\ dir \in DOMAIN dirs
          /\ offset \in 0 .. n /\ got = SubSeq(s, 1, offset) /\ Len(got) = offset
          /\ got \in Seq(Shown)
      BY <1>2 DEF ReaderInv, HandleInv
    <2>2. /\ s \in Seq(dirs[dir]) /\ \A i, j \in 1 .. n : s[i] = s[j] => i = j
      BY <2>1, OpenList
    <2> HIDE DEF s
    <2>3. n \in Nat /\ \A i \in 1 .. n : s[i] \in dirs[dir]
      BY <2>2, SeqFacts
    <2> HIDE DEF n
    <2>4. offset \in Int /\ \A i \in 1 .. offset : i \in 1 .. n
      BY <2>1, <2>3
    <2>5. \A i \in 1 .. offset - 1 + 1 : SubSeq(s, 1, offset)[i] = s[1 + i - 1]
      BY <2>3, <2>4, SubSeqProperties
    <2>6. \A i \in 1 .. offset : i \in 1 .. offset - 1 + 1 /\ 1 + i - 1 = i
      BY <2>4
    <2>7. DOMAIN got = 1 .. offset /\ \A i \in 1 .. offset : got[i] = s[i]
      BY <2>1, <2>5, <2>6, SeqFacts
    <2>8. \A i, j \in DOMAIN got : got[i] = got[j] => i = j
      BY <2>2, <2>4, <2>7
    <2>9. ToSet(got) \subseteq dirs[dir]
      BY <2>3, <2>4, <2>7 DEF ToSet
    <2>10. QED
      BY <2>8, <2>9
  <1>3. phase = "built" => lists = Arrays
    BY DEF ReaderInv
  <1>4. QED
    BY <1>1, <1>2, <1>3 DEF PagesAreListing

LEMMA BuildKeeps ==
  ASSUME ReaderInv, Build
  PROVE  ReaderInv'
  <1>1. Next /\ MapInv
    BY DEF Build, ReaderInv
  <1>2. phase # "built"
    BY <1>1 DEF Next, Normalize, IndexChild, IndexDir, NextPhase, MapInv
  <1>3. dir' = NoDir
    BY <1>2 DEF Build, ReaderInv, HandleInv, handle
  <1>4. MapInv'
    BY <1>1, MapInvStep
  <1>5. ASSUME phase' = "built" PROVE lists' = Arrays'
    <2>1. dirs' = dirs
      BY <1>1, <1>2, <1>5 DEF Next, Normalize, IndexChild, IndexDir, NextPhase, Fail
    <2>2. lists' = Arrays
      BY <1>5 DEF Build
    <2>3. QED
      BY <2>1, <2>2 DEF Arrays
  <1>6. QED
    BY <1>3, <1>4, <1>5 DEF ReaderInv, HandleInv, NoDir

LEMMA OpenKeeps ==
  ASSUME ReaderInv, NEW d \in DOMAIN lists, OpenDir(d) \/ OpenMerged(d)
  PROVE  ReaderInv'
  <1>1. /\ phase = "built" /\ dir' = d /\ offset' = 0 /\ got' = <<>> /\ eof' = FALSE
        /\ all' = FALSE /\ spoiled' = FALSE /\ UNCHANGED vars /\ UNCHANGED lists
        /\ (merged' = FALSE /\ own' = <<>>) \/ (merged' = TRUE /\ own' = lists[d])
    BY DEF OpenDir, OpenMerged, Opened
  <1>2. MapInv /\ lists = Arrays
    BY <1>1 DEF ReaderInv
  <1>3. d \in DOMAIN dirs
    BY <1>2 DEF Arrays
  <1>4. lists[d] \in Seq(Shown)
    BY <1>1, <1>2, <1>3, OpenList
  <1>5. MapInv'
    BY <1>1, <1>2, MapInvStutter
  <1>6. phase' = phase /\ dirs' = dirs /\ Shown' = Shown /\ Arrays' = Arrays
    BY <1>1 DEF vars, Shown, Arrays
  <1>7. Len(lists[d]) \in Nat /\ 0 \in 0 .. Len(lists[d]) /\ <<>> \in Seq(Shown) /\ Len(<<>>) = 0
    BY <1>4, SeqFacts
  <1>8. SubSeq(lists[d], 1, 0) = <<>>
    BY SubSeqEmpty
  <1>9. HandleInv'
    BY <1>1, <1>3, <1>4, <1>6, <1>7, <1>8 DEF HandleInv
  <1>10. QED
    BY <1>1, <1>2, <1>5, <1>6, <1>9 DEF ReaderInv

\* What is known of an open handle.
LEMMA HandleFacts ==
  ASSUME ReaderInv, dir # NoDir
  PROVE  /\ MapInv /\ phase = "built" /\ lists = Arrays /\ dir \in DOMAIN dirs
         /\ lists[dir] \in Seq(Shown) /\ Entries \in Seq(Shown) /\ Len(Entries) = Len(lists[dir])
         /\ ~spoiled => Entries = lists[dir]
  <1>1. /\ MapInv /\ phase = "built" /\ lists = Arrays /\ dir \in DOMAIN dirs
        /\ merged \in BOOLEAN /\ own \in Seq(Shown)
        /\ merged => Len(own) = Len(lists[dir])
        /\ merged /\ ~spoiled => own = lists[dir]
    BY DEF ReaderInv, HandleInv
  <1>2. lists[dir] \in Seq(Shown)
    BY <1>1, OpenList
  <1>3. Entries = IF merged THEN own ELSE lists[dir]
    BY DEF Entries
  <1>4. QED
    BY <1>1, <1>2, <1>3

LEMMA CountBounded ==
  ASSUME NEW n \in Int, NEW r \in Nat, Remaining = r
  PROVE  /\ Count(n) \in 0 .. r
         /\ n <= 0 => Count(n) = r
  BY DEF Count, Least

LEMMA ReadPageKeeps ==
  ASSUME ReaderInv, NEW n \in Int, ReadPage(n)
  PROVE  ReaderInv'
  <1> DEFINE s == lists[dir]  N == Len(s)  k == Count(n)
  <1>1. dir # NoDir /\ (n <= 0 \/ Remaining > 0)
    BY DEF ReadPage
  <1>2. /\ MapInv /\ phase = "built" /\ lists = Arrays /\ dir \in DOMAIN dirs
        /\ s \in Seq(Shown) /\ Entries \in Seq(Shown) /\ Len(Entries) = N
        /\ ~spoiled => Entries = s
    BY <1>1, HandleFacts
  <1>3. /\ merged \in BOOLEAN /\ own \in Seq(Shown) /\ got \in Seq(Shown)
        /\ merged => Len(own) = N
        /\ merged /\ ~spoiled => own = s
        /\ offset \in 0 .. N /\ Len(got) = offset
        /\ ~spoiled => got = SubSeq(s, 1, offset)
        /\ eof \/ all => offset = N
        /\ spoiled => merged
    BY <1>1 DEF ReaderInv, HandleInv
  <1>4. /\ got' = got \o SubSeq(Entries, offset + 1, offset + k) /\ offset' = offset + k
        /\ (n <= 0 /\ all' = TRUE) \/ (~(n <= 0) /\ all' = FALSE)
        /\ UNCHANGED vars /\ UNCHANGED <<lists, dir, merged, own, eof, spoiled>>
    <2>1. all' = (n <= 0)
      BY DEF ReadPage
    <2>2. (n <= 0 /\ all' = TRUE) \/ (~(n <= 0) /\ all' = FALSE)
      <3>1. CASE n <= 0
        BY <2>1, <3>1
      <3>2. CASE ~(n <= 0)
        <4>1. (n <= 0) = FALSE
          BY <3>2
        <4>2. all' = FALSE
          BY <2>1, <4>1, Zenon
        <4>3. QED
          BY <3>2, <4>2, Zenon
      <3>3. QED
        BY <3>1, <3>2
    <2>3. got' = got \o SubSeq(Entries, offset + 1, offset + k) /\ offset' = offset + k
      BY DEF ReadPage
    <2>4. UNCHANGED vars /\ UNCHANGED <<lists, dir, merged, own, eof, spoiled>>
      BY DEF ReadPage
    <2>5. QED
      BY <2>2, <2>3, <2>4
  <1>5. N \in Nat
    BY <1>2, SeqFacts
  <1>6. Remaining = N - offset /\ N - offset \in Nat
    BY <1>2, <1>3, <1>5 DEF Remaining
  <1>7. k \in 0 .. N - offset /\ (n <= 0 => k = N - offset)
    BY <1>6, CountBounded
  <1> HIDE DEF k, N, s
  <1>8. offset' \in 0 .. N /\ offset \in Nat /\ k \in Nat
    BY <1>3, <1>4, <1>5, <1>7
  <1>9. SubSeq(Entries, offset + 1, offset + k) \in Seq(Shown)
        /\ Len(SubSeq(Entries, offset + 1, offset + k)) = k
    BY <1>2, <1>3, <1>7, PageAdds
  <1>10. got' \in Seq(Shown) /\ Len(got') = offset'
    <2> DEFINE t == SubSeq(Entries, offset + 1, offset + k)
    <2>1. t \in Seq(Shown) /\ Len(t) = k /\ got' = got \o t
      BY <1>4, <1>9
    <2> HIDE DEF t
    <2>2. got \o t \in Seq(Shown) /\ Len(got \o t) = Len(got) + Len(t)
      BY <1>3, <2>1, ConcatProperties
    <2>3. QED
      BY <1>3, <1>4, <2>1, <2>2
  <1>11. ASSUME ~spoiled PROVE got' = SubSeq(s, 1, offset')
    <2>1. Entries = s /\ got = SubSeq(s, 1, offset)
      BY <1>2, <1>3, <1>11
    <2>2. offset \in 0 .. Len(s) /\ k \in 0 .. Len(s) - offset
      BY <1>3, <1>7 DEF N
    <2>3. SubSeq(s, 1, offset) \o SubSeq(s, offset + 1, offset + k) = SubSeq(s, 1, offset + k)
      BY <1>2, <2>2, PageAdds
    <2>4. QED
      BY <1>4, <2>1, <2>3
  <1>12. ASSUME eof' \/ all' PROVE offset' = N
    <2>1. CASE n <= 0
      BY <1>3, <1>4, <1>5, <1>7, <2>1
    <2>2. CASE ~(n <= 0)
      <3>1. eof /\ N - offset > 0
        BY <1>1, <1>4, <1>6, <1>12, <2>2
      <3>2. offset = N
        BY <1>3, <3>1
      <3>3. QED
        BY <1>5, <3>1, <3>2
    <2>3. QED
      BY <2>1, <2>2
  <1>13. phase' = phase /\ dirs' = dirs /\ Shown' = Shown /\ Arrays' = Arrays
    BY <1>4 DEF vars, Shown, Arrays
  <1>14. MapInv'
    BY <1>2, <1>4, MapInvStutter
  <1>15. s = lists'[dir'] /\ N = Len(lists'[dir'])
    BY <1>4 DEF s, N
  <1>16. HandleInv'
    BY <1>2, <1>3, <1>4, <1>8, <1>10, <1>11, <1>12, <1>13, <1>15 DEF HandleInv
  <1>17. QED
    BY <1>2, <1>4, <1>13, <1>14, <1>16 DEF ReaderInv

LEMMA ReadEOFKeeps ==
  ASSUME ReaderInv, NEW n \in Int, ReadEOF(n)
  PROVE  ReaderInv'
  <1>1. dir # NoDir /\ Remaining = 0
    BY DEF ReadEOF
  <1>2. /\ MapInv /\ lists = Arrays /\ lists[dir] \in Seq(Shown) /\ Len(Entries) = Len(lists[dir])
    BY <1>1, HandleFacts
  <1>3. /\ eof' = TRUE /\ all' = FALSE /\ UNCHANGED vars
        /\ UNCHANGED <<lists, dir, merged, own, offset, got, spoiled>>
    BY DEF ReadEOF
  <1>4. offset = Len(lists[dir])
    <2>1. offset \in 0 .. Len(lists[dir]) /\ Len(lists[dir]) \in Nat
      BY <1>1, <1>2, SeqFacts DEF ReaderInv, HandleInv
    <2>2. Len(lists[dir]) - offset = 0
      BY <1>1, <1>2 DEF Remaining
    <2>3. QED
      BY <2>1, <2>2
  <1>5. phase' = phase /\ dirs' = dirs /\ Shown' = Shown /\ Arrays' = Arrays
    BY <1>3 DEF vars, Shown, Arrays
  <1>6. MapInv'
    BY <1>2, <1>3, MapInvStutter
  <1>7. HandleInv'
    BY <1>1, <1>3, <1>4, <1>5 DEF ReaderInv, HandleInv
  <1>8. QED
    BY <1>2, <1>3, <1>5, <1>6, <1>7 DEF ReaderInv

LEMMA ItselfTyped ==
  ASSUME NEW S, NEW array \in Seq(S), NEW after, Alien \in S
  PROVE  PageItself(array, after) \in Seq(S) /\ Len(PageItself(array, after)) = Len(array)
  <1>1. CASE PageItself(array, after) = array
    BY <1>1
  <1>2. CASE PageItself(array, after) = [array EXCEPT ![after] = Alien]
    <2>1. Len(array) \in Nat /\ array \in [1 .. Len(array) -> S]
      BY LenProperties
    <2>2. [array EXCEPT ![after] = Alien] \in [1 .. Len(array) -> S]
      BY <2>1
    <2>3. QED
      BY <1>2, <2>1, <2>2
  <1>3. QED
    BY <1>1, <1>2 DEF PageItself

LEMMA AppendKeeps ==
  ASSUME ReaderInv, AppendToPage
  PROVE  ReaderInv'
  <1> DEFINE after == page.at + page.len + 1
  <1>1. dir # NoDir
    BY DEF AppendToPage
  <1>2. /\ MapInv /\ phase = "built" /\ lists = Arrays /\ dir \in DOMAIN dirs
    BY <1>1, HandleFacts
  <1>3. /\ merged \in BOOLEAN /\ own \in Seq(Shown)
        /\ merged => Len(own) = Len(lists[dir])
        /\ spoiled => merged
    BY <1>1 DEF ReaderInv, HandleInv
  <1>4. /\ merged => own' = PageItself(own, after) /\ UNCHANGED lists
        /\ ~merged => lists' = [lists EXCEPT ![dir] = PageCloned(@, after)] /\ UNCHANGED own
        /\ spoiled' = merged /\ UNCHANGED vars /\ UNCHANGED <<dir, merged, offset, got, eof, all>>
    BY DEF AppendToPage
  <1> HIDE DEF after
  <1>5. lists' = lists
    <2>1. dir \in DOMAIN lists /\ lists = [d \in DOMAIN lists |-> lists[d]]
      BY <1>2 DEF Arrays
    <2>2. [lists EXCEPT ![dir] = lists[dir]] = lists
      BY <2>1
    <2>3. QED
      BY <1>3, <1>4, <2>2 DEF PageCloned
  <1>6. own' \in Seq(Shown) /\ (merged => Len(own') = Len(lists[dir]))
    <2>1. CASE merged
      <3>1. Alien \in Shown
        BY Zenon DEF Shown
      <3>2. own' = PageItself(own, after)
        BY <1>4, <2>1
      <3>3. QED
        BY <1>3, <3>1, <3>2, ItselfTyped
    <2>2. CASE ~merged
      BY <1>3, <1>4, <2>2
    <2>3. QED
      BY <2>1, <2>2
  <1>7. phase' = phase /\ dirs' = dirs /\ Shown' = Shown /\ Arrays' = Arrays
    BY <1>4 DEF vars, Shown, Arrays
  <1>8. MapInv'
    BY <1>2, <1>4, MapInvStutter
  <1>9. ASSUME ~spoiled' PROVE ~merged /\ ~spoiled
    BY <1>3, <1>4, <1>9
  <1>10. HandleInv'
    BY <1>1, <1>4, <1>5, <1>6, <1>7, <1>9 DEF ReaderInv, HandleInv
  <1>11. QED
    BY <1>2, <1>5, <1>7, <1>8, <1>10 DEF ReaderInv

LEMMA ReaderInvStart ==
  ASSUME RInit
  PROVE  ReaderInv
  BY MapInvStart DEF RInit, Init, Closed, ReaderInv, HandleInv

LEMMA ReaderInvStep ==
  ASSUME ReaderInv, [RNext]_rvars
  PROVE  ReaderInv'
  <1>1. CASE Build
    BY <1>1, BuildKeeps
  <1>2. CASE \E d \in DOMAIN lists : OpenDir(d) \/ OpenMerged(d)
    BY <1>2, OpenKeeps
  <1>3. CASE \E n \in PageSizes : ReadPage(n) \/ ReadEOF(n)
    BY <1>3, ReadPageKeeps, ReadEOFKeeps, MapDirReaderAssumption
  <1>4. CASE AppendToPage
    BY <1>4, AppendKeeps
  <1>5. CASE UNCHANGED rvars
    <2>1. UNCHANGED <<vars, lists, dir, merged, own, offset, page, got, eof, all, spoiled>>
      BY <1>5 DEF rvars, handle
    <2>2. phase' = phase /\ dirs' = dirs /\ Shown' = Shown /\ Arrays' = Arrays
      BY <2>1 DEF vars, Shown, Arrays
    <2>3. MapInv' /\ (phase' = "built" => lists' = Arrays')
      BY <2>1, <2>2, MapInvStutter DEF ReaderInv
    <2>4. HandleInv'
      BY <2>1, <2>2 DEF ReaderInv, HandleInv
    <2>5. QED
      BY <2>3, <2>4 DEF ReaderInv
  <1>6. QED
    BY <1>1, <1>2, <1>3, <1>4, <1>5 DEF RNext

\* What each loop and each page leaves to the next one, in every behaviour.
THEOREM ReaderInvariant == RSpec => []ReaderInv
  <1>1. RInit => ReaderInv
    BY ReaderInvStart
  <1>2. ReaderInv /\ [RNext]_rvars => ReaderInv'
    BY ReaderInvStep
  <1>3. QED
    BY <1>1, <1>2, PTL DEF RSpec

\* NewMapFS fails on the inputs it documents as errors and on no other, however
\* many names there are and in whatever order the Go maps are ranged over.
THEOREM FailsWhenWrongProved == RSpec => []FailsWhenWrong
  <1>1. ReaderInv => FailsWhenWrong
    BY BuiltFails DEF ReaderInv
  <1>2. QED
    BY <1>1, ReaderInvariant, PTL

\* The index that NewMapFS builds is the tree of the names, in whatever order it
\* was built, and Open, ReadFile and ReadDir answer as it announces.
THEOREM IndexIsTreeProved == RSpec => []IndexIsTree
  <1>1. ReaderInv => IndexIsTree
    BY BuiltTree DEF ReaderInv
  <1>2. QED
    BY <1>1, ReaderInvariant, PTL

\* The pages of ReadDir, of any sizes and on both kinds of handles, are the
\* listing of the directory, each entry once, whatever is appended to the pages
\* of the map file system.
THEOREM PagesAreListingProved == RSpec => []PagesAreListing
  <1>1. ReaderInv => PagesAreListing
    BY HandlePromises
  <1>2. QED
    BY <1>1, ReaderInvariant, PTL
======================
